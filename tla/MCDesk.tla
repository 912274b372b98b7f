------------------------------- MODULE MCDesk -------------------------------
(***************************************************************************)
(* Model-checking instance of what an operator starts from the panel, a    *)
(* dashboard or a shell, and reads there: the market collector, the tools  *)
(* that edit its configuration and the views of its database; the panel's  *)
(* runner; the tools that send businesses to a sheet or to AfraKala; the   *)
(* settings of a harvest and the views of its database.  They share no     *)
(* state here: a behaviour follows one of them, its focus.                 *)
(***************************************************************************)
EXTENDS MarketSnapshot, MarketReading, MarketHistory, PanelRunner, SheetSync,
        SettingsFlow, LeadViews, TLC

CONSTANTS x1, x2, k1, k2

VARIABLE focus

deskVars == <<marketVars, readingVars, historyVars, panelVars, sheetVars, settingsVars,
              viewVars, focus>>

MCPlace == 1 .. 2
MCNameless == {2}
MCWithWebsite == {1}
Symmetry == Permutations({x1, x2}) \cup Permutations({k1, k2})

MCPrice ==
    {<<0>>, <<7>>, <<5, 8>>, <<9, 8, 7>>, <<1, 2, 0, 4>>, <<1, 7, 8, 1, 0, 0, 0>>}

\* Before the end of 2023 and of 1402, before the short February of 2100, and
\* in 1408, a long year; the dates are followed to the second of April.
MCFirstDay ==
    {[year |-> 2023, month |-> 12, day |-> 20], [year |-> 2100, month |-> 2, day |-> 20],
     [year |-> 2029, month |-> 6, day |-> 15]}
LastDate(day) == day.month = 4 /\ day.day = 2

\* A sheet saved as it is made, a paused one, one whose limit is a word, one
\* without the rows of the crawler and the pause, one for the night, one without
\* headings, one that opens at "9:00", which sorts after every time, and one
\* with rows added, a delay without a dash and no time of opening.
MCSettingsOf(limit, crawl) ==
    [DefaultSettings EXCEPT !.max_businesses_per_query = limit, !.website_crawl_enabled = crawl]
MCSaved(settings) == [DefaultSheet EXCEPT !.settings = settings]
MCRows == {DefaultRow, [DefaultRow EXCEPT !.brand = "lg", !.keyword = Blank, !.related = {}],
           [DefaultRow EXCEPT !.active = 0]}
MCSheet ==
    {DefaultSheet,
     MCSaved([DefaultSettings EXCEPT !.pause = 1]),
     MCSaved(MCSettingsOf(Unreadable, 1)),
     MCSaved([k \in DOMAIN DefaultSettings \ {"website_crawl_enabled", "pause"} |->
                 DefaultSettings[k]]),
     MCSaved([DefaultSettings EXCEPT !.start = 1200, !.end = 360]),
     [MCSaved(MCSettingsOf(7, 1)) EXCEPT !.header = FALSE, !.rows = {}],
     MCSaved([DefaultSettings EXCEPT !.start = 1440]),
     [MCSaved([MCSettingsOf(7, 1) EXCEPT !.delay_between_businesses = NoRange,
                                         !.start = Unreadable, !.extract_emails = 0])
         EXCEPT !.rows = MCRows]}
MCClock == {180, 720, 1410}
MCFallback == {<<"shop", "tehran">>}

\* Past a clash of two editors nothing is promised of the configuration, and
\* what collectors promise does not depend on it; collectors and editors take
\* turns, and of other kinds no more than two programs are at work at once.
Bounds ==
    /\ ~clashed
    /\ \/ \A c \in Collector : phase[c] = "idle"
       \/ \A e \in Editor : edit[e] = "idle"
    /\ Cardinality({t \in Tool : tool[t] # "idle"}) <= 2
    /\ Cardinality({e \in Extractor : todo[e] # {}})
        + Cardinality({c \in Crawler : chosen[c] # {}}) <= 2
    /\ ~LastDate(utc.day)

DeskInit ==
    /\ focus \in {"market", "reading", "history", "panel", "sheet", "settings", "views"}
    /\ MarketInit /\ (focus # "market" => enabled = {})
    /\ ReadingInit /\ (focus # "reading" => begun = [year |-> 2100, month |-> 2, day |-> 20])
    /\ HistoryInit
    /\ PanelInit
    /\ SheetInit /\ (focus # "sheet" => keyOf[1] = keyOf[2])
    /\ SettingsInit /\ (focus # "settings" => local = NoFile /\ management = NoFile)
    /\ ViewInit

DeskNext ==
    /\ UNCHANGED focus
    /\ \/ /\ focus = "market" /\ MarketNext
          /\ UNCHANGED <<readingVars, historyVars, panelVars, sheetVars, settingsVars,
                        viewVars>>
       \/ /\ focus = "reading" /\ ReadingNext
          /\ UNCHANGED <<marketVars, historyVars, panelVars, sheetVars, settingsVars, viewVars>>
       \/ /\ focus = "history" /\ HistoryNext
          /\ UNCHANGED <<marketVars, readingVars, panelVars, sheetVars, settingsVars, viewVars>>
       \/ /\ focus = "panel" /\ PanelNext
          /\ UNCHANGED <<marketVars, readingVars, historyVars, sheetVars, settingsVars,
                        viewVars>>
       \/ /\ focus = "sheet" /\ SheetNext
          /\ UNCHANGED <<marketVars, readingVars, historyVars, panelVars, settingsVars,
                        viewVars>>
       \/ /\ focus = "settings" /\ SettingsNext
          /\ UNCHANGED <<marketVars, readingVars, historyVars, panelVars, sheetVars, viewVars>>
       \/ /\ focus = "views" /\ ViewNext
          /\ UNCHANGED <<marketVars, readingVars, historyVars, panelVars, sheetVars,
                        settingsVars>>

DeskSpec == DeskInit /\ [][DeskNext]_deskVars

=============================================================================
