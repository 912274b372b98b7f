---------------------------- MODULE SettingsFlow ----------------------------
(***************************************************************************)
(* How the operator's settings reach a harvest (google-maps-bot: run.py,   *)
(* local_io.py, config.py, query_generator.py, main_orchestrator.py).      *)
(* run.py imports Config, which loads the management workbook an earlier   *)
(* run left; then it copies local_settings.xlsx, the only file the         *)
(* operator edits, into the input and the management workbook, loads the   *)
(* latter, asks it whether a run is allowed now, makes queries of the      *)
(* input workbook and harvests.  The workbooks are rewritten in place and  *)
(* nothing keeps two runs apart.                                           *)
(*                                                                         *)
(* A workbook's settings are a function from the keys it has a row for;    *)
(* words and numbers are small values.  The hours are compared as text, so *)
(* a time stands for where its text falls among the minutes of the day.    *)
(***************************************************************************)
EXTENDS Integers, FiniteSets

CONSTANTS
    Starter,        \* processes running run.py
    Sheet,          \* what the operator may save as local_settings.xlsx
    Clock,          \* minutes of the day at which runs may be checked
    Fallback,       \* the queries of input/queries.json
    NoFile, TornFile,  \* no such file; a file that cannot be read
    MaxEdits        \* bound: saves of local_settings.xlsx

\* The keys load_from_excel takes, in its order; int() or float() may refuse
\* the cell of one that is not a flag, and a delay without a dash is passed by.
Rank == [max_scrolls |-> 1, max_businesses_per_query |-> 2, max_businesses_to_extract |-> 3,
         max_websites_to_crawl |-> 4, headless |-> 5, slow_mo |-> 6,
         website_crawl_enabled |-> 7, delay_between_businesses |-> 8]
Loadable == DOMAIN Rank
Flag == {"headless", "website_crawl_enabled"}
\* Keys the sheet offers and nothing reads.
Unread == {"extract_emails", "extract_social", "delay_between_queries"}
Setting == Loadable \cup Unread

Unreadable == -1    \* a cell that is refused, a time without a colon
NoRange == -2       \* a delay that is not two numbers with a dash between
Never == -1
Blank == ""

ASSUME SettingsAssumption ==
    /\ \A s \in Sheet : s.header \in BOOLEAN /\ s.phase4 \in BOOLEAN
    /\ Clock \subseteq 0 .. 1439 /\ MaxEdits \in Nat

VARIABLES
    local,          \* local_settings.xlsx
    input,          \* the rows of google_maps_input.xlsx
    management,     \* google_maps_management.xlsx
    pc,             \* Starter -> where the run is
    got,            \* Starter -> the sheet the run has read
    config,         \* Starter -> the attributes of its Config
    startedAt,      \* Starter -> when it was allowed to run (history)
    queries,        \* Starter -> the queries it harvests
    crawled,        \* Starter -> the run's phase 4 was carried out
    alone,          \* runs that no other run has overlapped (history)
    edits           \* saves so far

settingsVars ==
    <<local, input, management, pc, got, config, startedAt, queries, crawled, alone, edits>>

\* Class attributes of Config; of a range the lower end.
Defaults ==
    [max_scrolls |-> 15, max_businesses_per_query |-> 50, max_businesses_to_extract |-> 50,
     max_websites_to_crawl |-> 20, headless |-> 0, slow_mo |-> 500,
     website_crawl_enabled |-> 1, delay_between_businesses |-> 5,
     extract_emails |-> 1, extract_social |-> 1, delay_between_queries |-> 30]

\* DEFAULT_SEARCH_ROWS, DEFAULT_CONFIG_ROWS and DEFAULT_PHASE_ROWS.
DefaultSettings ==
    [pause |-> 0, start |-> 0, end |-> 1439,
     max_scrolls |-> 1, max_businesses_per_query |-> 2, max_businesses_to_extract |-> 2,
     max_websites_to_crawl |-> 1, headless |-> 0, slow_mo |-> 500,
     website_crawl_enabled |-> 0, delay_between_businesses |-> 5,
     extract_emails |-> 1, extract_social |-> 1, delay_between_queries |-> 30]
DefaultRow ==
    [active |-> 1, city |-> "tehran", province |-> "tehran", keyword |-> "shop",
     brand |-> Blank, related |-> {"fridge", "washer"}]
DefaultSheet ==
    [header |-> TRUE, settings |-> DefaultSettings, phase4 |-> FALSE, rows |-> {DefaultRow}]

\* What create_management_template writes: no pause and no hours.
Template == [header |-> TRUE, phase4 |-> TRUE, settings |-> Defaults]

SettingsInit ==
    /\ local \in Sheet \cup {NoFile}
    /\ input = NoFile
    /\ management \in {NoFile, TornFile}
    /\ pc = [r \in Starter |-> "idle"]
    /\ got = [r \in Starter |-> DefaultSheet]
    /\ config = [r \in Starter |-> Defaults]
    /\ startedAt = [r \in Starter |-> Never]
    /\ queries = [r \in Starter |-> {}]
    /\ crawled = [r \in Starter |-> FALSE]
    /\ alone = {}
    /\ edits = 0

-----------------------------------------------------------------------------
(* Reading and writing the workbooks.                                      *)

IsReadable(file) == file \notin {NoFile, TornFile}

Raises(k, cell) == k \notin Flag /\ cell = Unreadable

\* The keys that are taken: the first cell that cannot be read ends the load,
\* and what was set before it stays set.
Taken(s) ==
    {k \in Loadable \cap DOMAIN s :
        /\ s[k] # NoRange
        /\ \A j \in Loadable \cap DOMAIN s : Rank[j] <= Rank[k] => ~Raises(j, s[j])}

\* A flag is on if its cell says so, and off whatever else it says.
Meant(k, cell) == IF k \in Flag /\ cell # 1 THEN 0 ELSE cell

\* Config after load_from_excel: a key without a row, a sheet without the
\* Setting and Value columns and a workbook that cannot be read change nothing.
Loaded(old, file) ==
    IF IsReadable(file) /\ file.header
    THEN [k \in Setting |->
             IF k \in Taken(file.settings) THEN Meant(k, file.settings[k]) ELSE old[k]]
    ELSE old

\* The Config sheet with a default row for every key the operator has removed.
Completed(s) ==
    [k \in DOMAIN DefaultSettings |-> IF k \in DOMAIN s THEN s[k] ELSE DefaultSettings[k]]

\* Mutant: the rows the operator has removed are not put back.
ManagedAsIs(sheet) ==
    [header |-> sheet.header, phase4 |-> sheet.phase4, settings |-> sheet.settings]

\* The management workbook made of a local sheet.
Managed(sheet) ==
    [header |-> sheet.header, phase4 |-> sheet.phase4,
     settings |-> IF sheet.header THEN Completed(sheet.settings) ELSE sheet.settings]

Cell(s, k, default) == IF k \in DOMAIN s /\ s[k] # Unreadable THEN s[k] ELSE default

Opens(s) == Cell(s, "start", 480)
Closes(s) == Cell(s, "end", 1380)

\* is_execution_allowed: the window is within one day, and any error allows.
Allowed(file, now) ==
    IsReadable(file) /\ file.header =>
        /\ Opens(file.settings) <= now
        /\ now <= Closes(file.settings)
        /\ Cell(file.settings, "pause", 0) # 1

\* An empty cell comes back from read_excel as NaN, and str() makes a word of it.
Word(cell) == IF cell = Blank THEN "nan" ELSE cell

\* The queries of one row of the input workbook.
QueriesOf(row) ==
    LET keyword == Word(row.keyword)
        city == Word(row.city)
        brand == Word(row.brand)
        related == IF row.related = {} THEN {Word(Blank)} ELSE row.related
    IN  {<<keyword, city>>, <<keyword, Word(row.province)>>, <<brand, keyword, city>>}
        \cup {<<b, keyword>> : b \in {brand} \ {"nan"}}
        \cup {<<r, city>> : r \in related}

\* load_sources keeps the active rows.
QueriesOfInput(rows) == UNION {QueriesOf(row) : row \in {r \in rows : r.active = 1}}

\* No file and a torn one are told from what is in the others.
ASSUME FilesAssumption ==
    \A s \in Sheet \cup {DefaultSheet} : \A mark \in {NoFile, TornFile} :
        mark # s /\ mark # Managed(s) /\ mark # s.rows

-----------------------------------------------------------------------------
(* A run.                                                                  *)

Advance(r, from, to) == pc[r] = from /\ pc' = [pc EXCEPT ![r] = to]

\* The process is gone, and what it had in memory; the workbooks stay.
Ends(r) ==
    /\ pc' = [pc EXCEPT ![r] = "idle"]
    /\ got' = [got EXCEPT ![r] = DefaultSheet]
    /\ config' = [config EXCEPT ![r] = Defaults]
    /\ startedAt' = [startedAt EXCEPT ![r] = Never]
    /\ queries' = [queries EXCEPT ![r] = {}]
    /\ crawled' = [crawled EXCEPT ![r] = FALSE]
    /\ UNCHANGED <<local, input, management, alone, edits>>

\* The import of app.config, with the workbook of the run before; a missing
\* one is replaced by the template, which this run does not load.
ImportConfig(r) ==
    /\ Advance(r, "idle", "read")
    /\ config' = [config EXCEPT ![r] = Loaded(Defaults, management)]
    /\ management' = IF management = NoFile THEN Template ELSE management
    /\ alone' = IF \A q \in Starter : pc[q] = "idle" THEN {r} ELSE {}
    /\ UNCHANGED <<local, input, got, startedAt, queries, crawled, edits>>

ReadLocal(r) ==
    /\ Advance(r, "read", "openInput")
    /\ local' = IF local = NoFile THEN DefaultSheet ELSE local
    /\ got' = [got EXCEPT ![r] = local']
    /\ UNCHANGED <<input, management, config, startedAt, queries, crawled, alone, edits>>

\* ExcelWriter truncates the workbook and writes it when it is closed.
OpenInput(r) ==
    /\ Advance(r, "openInput", "fillInput")
    /\ input' = TornFile
    /\ UNCHANGED <<local, management, got, config, startedAt, queries, crawled, alone, edits>>

FillInput(r) ==
    /\ Advance(r, "fillInput", "openManagement")
    /\ input' = got[r].rows
    /\ UNCHANGED <<local, management, got, config, startedAt, queries, crawled, alone, edits>>

OpenManagement(r) ==
    /\ Advance(r, "openManagement", "fillManagement")
    /\ management' = TornFile
    /\ UNCHANGED <<local, input, got, config, startedAt, queries, crawled, alone, edits>>

FillManagement(r) ==
    /\ Advance(r, "fillManagement", "load")
    /\ management' = Managed(got[r])
    /\ UNCHANGED <<local, input, got, config, startedAt, queries, crawled, alone, edits>>

LoadManagement(r) ==
    /\ Advance(r, "load", "check")
    /\ config' = [config EXCEPT ![r] = Loaded(config[r], management)]
    /\ UNCHANGED <<local, input, management, got, startedAt, queries, crawled, alone, edits>>

\* Orchestrator.run asks once, at its start.
CheckAllowed(r) ==
    /\ Advance(r, "check", "generate")
    /\ \E now \in Clock :
           Allowed(management, now) /\ startedAt' = [startedAt EXCEPT ![r] = now]
    /\ UNCHANGED <<local, input, management, got, config, queries, crawled, alone, edits>>

CheckRefuses(r) ==
    /\ pc[r] = "check"
    /\ \E now \in Clock : ~Allowed(management, now)
    /\ Ends(r)

\* Without queries of the workbook the fallback is read.  (The rows the
\* generator adds to the database are read by nobody but a printed count.)
Made(rows) == IF QueriesOfInput(rows) = {} THEN Fallback ELSE QueriesOfInput(rows)

GenerateQueries(r) ==
    /\ IsReadable(input)
    /\ Made(input) # {}
    /\ Advance(r, "generate", "harvest")
    /\ queries' = [queries EXCEPT ![r] = Made(input)]
    /\ UNCHANGED <<local, input, management, got, config, startedAt, crawled, alone, edits>>

\* No query at all, or read_excel raises on a workbook another run has just
\* opened.
GenerateFails(r) ==
    /\ pc[r] = "generate"
    /\ IsReadable(input) => Made(input) = {}
    /\ Ends(r)

\* Phases 2 and 3, then phase 4 if Config says so; MapsHarvest has the detail.
Crawl(r) ==
    /\ Advance(r, "harvest", "ending")
    /\ crawled' = [crawled EXCEPT ![r] = config[r].website_crawl_enabled = 1]
    /\ UNCHANGED <<local, input, management, got, config, startedAt, queries, alone, edits>>

\* The run is over, or its process dies in the middle of a write.
Leave(r) == pc[r] # "idle" /\ Ends(r)

Save ==
    /\ edits < MaxEdits
    /\ edits' = edits + 1
    /\ local' \in Sheet \ {local}
    /\ UNCHANGED <<input, management, pc, got, config, startedAt, queries, crawled, alone>>

SettingsNext ==
    \/ Save
    \/ \E r \in Starter :
           \/ ImportConfig(r) \/ ReadLocal(r) \/ OpenInput(r) \/ FillInput(r)
           \/ OpenManagement(r) \/ FillManagement(r) \/ LoadManagement(r) \/ CheckAllowed(r)
           \/ CheckRefuses(r) \/ GenerateQueries(r) \/ GenerateFails(r) \/ Crawl(r) \/ Leave(r)

SettingsSpec == SettingsInit /\ [][SettingsNext]_settingsVars

-----------------------------------------------------------------------------
(* Properties.                                                             *)

SettingsTypeOK ==
    /\ local \in Sheet \cup {NoFile, DefaultSheet}
    /\ pc \in [Starter -> {"idle", "read", "openInput", "fillInput", "openManagement",
                           "fillManagement", "load", "check", "generate", "harvest", "ending"}]
    /\ \A r \in Starter : DOMAIN config[r] = Setting
    /\ alone \subseteq Starter

HarvestsNow(r) == pc[r] \in {"harvest", "ending"}

\* A run that no other has overlapped harvests what the sheet it read asks for,
\* whatever the run before left in the management workbook.  The queries are
\* those of its active rows, and the fallback's only without one.  Of a sheet
\* with its headings: it did not say pause, the run was let in between its
\* hours (none at all if they run over midnight; 8:00 and 23:00 for cells
\* without a colon), and every setting load_from_excel reads is the sheet's,
\* unless its cell is a delay without a dash, or that cell or one before it is
\* refused: then what was in force stays.  The three settings that the sheet
\* offers and nothing reads are never the operator's.
SettingsAreObeyed ==
    /\ SettingsTypeOK
    /\ \A r \in alone : HarvestsNow(r) =>
        LET sheet == got[r]
            asked == Completed(sheet.settings)
        IN  /\ queries[r] = IF \E row \in sheet.rows : row.active = 1
                            THEN QueriesOfInput(sheet.rows) ELSE Fallback
            /\ sheet.header =>
                  /\ asked.pause # 1
                  /\ Opens(asked) <= startedAt[r] /\ startedAt[r] <= Closes(asked)
                  /\ \A k \in Loadable :
                        \/ config[r][k] = Meant(k, asked[k])
                        \/ asked[k] = NoRange
                        \/ \E j \in Loadable : Rank[j] <= Rank[k] /\ Raises(j, asked[j])
            /\ \A k \in Unread : config[r][k] = Defaults[k]

\* What the operator is told of the sheet Phases (local_io.py, LOCAL_USAGE.md):
\* it switches phases off.
PhasesAreObeyed ==
    \A r \in alone : crawled[r] => got[r].phase4

=============================================================================
