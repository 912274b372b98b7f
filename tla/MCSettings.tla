----------------------------- MODULE MCSettings -----------------------------
(* Model-checking instance of SettingsFlow: two runs of run.py.            *)
EXTENDS SettingsFlow, TLC

CONSTANTS r1, r2
Symmetry == Permutations({r1, r2})

\* A sheet saved as it is made, a paused one, one whose limit is a word, one
\* without the rows of the crawler and the pause, one for the night, one without
\* headings, one that opens at "9:00", which sorts after every time, and one
\* whose crawler is on in Run_Config and off in Phases.
MCSettingsOf(limit, crawl) ==
    [DefaultSettings EXCEPT !.max_businesses_per_query = limit, !.website_crawl_enabled = crawl]
MCSaved(settings) == [DefaultSheet EXCEPT !.settings = settings]
MCRows == {DefaultRow, [DefaultRow EXCEPT !.brand = "lg", !.keyword = Blank, !.related = {}],
           [DefaultRow EXCEPT !.active = 0]}
MCSheet ==
    {DefaultSheet,
     MCSaved([DefaultSettings EXCEPT !.pause = 1]),
     MCSaved(MCSettingsOf(Unreadable, 1)),
     MCSaved([k \in DOMAIN DefaultSettings \ {"website_crawl_enabled", "pause"} |->
                 DefaultSettings[k]]),
     MCSaved([DefaultSettings EXCEPT !.start = 1200, !.end = 360]),
     [MCSaved(MCSettingsOf(7, 1)) EXCEPT !.header = FALSE, !.rows = {}],
     MCSaved([DefaultSettings EXCEPT !.start = 1440]),
     [MCSaved([MCSettingsOf(7, 1) EXCEPT !.delay_between_businesses = NoRange,
                                         !.start = Unreadable, !.extract_emails = 0])
         EXCEPT !.rows = MCRows]}
MCClock == {180, 720, 1410}
MCFallback == {<<"shop", "tehran">>}

=============================================================================
