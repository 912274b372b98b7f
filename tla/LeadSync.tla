------------------------------ MODULE LeadSync ------------------------------
(***************************************************************************)
(* The life of a lead in the Google Maps driver of afra_market_data        *)
(* (drivers/google_maps): a row of the businesses table is collected,      *)
(* extracted, its website crawled, and the completed row is posted to the  *)
(* central server and marked synced.  Processes share the SQLite file:     *)
(* harvests, which run alone (driver.py, run.py) or with phase 6 behind    *)
(* them (main_orchestrator.py), and syncs (driver.py --mode sync).         *)
(*                                                                         *)
(* A row is its id, since ids follow the order of insertion.  A step is    *)
(* one transaction of database.py or one answer of Google, a website or    *)
(* the server.  Which query comes next is the business of MapsHarvest (the *)
(* orchestrators share that code); here a harvest searches any number of   *)
(* queries.  Any process may die in any state.                             *)
(***************************************************************************)
EXTENDS Naturals, Sequences, FiniteSets, Selection

CONSTANTS
    Harvester,      \* harvests that may run at the same time
    Syncer,         \* runs of the driver's sync that may
    MaxLeads,       \* bound: rows of the businesses table
    RetryLimit,     \* failures after which a business is given up (3)
    CrawlLimit,     \* Config.MAX_WEBSITES_TO_CRAWL
    SyncLimit,      \* leads one sync takes (500 in phase 6, 200 in the driver)
    WithSite,       \* leads whose page on Google Maps shows a website
    Refused,        \* leads the server answers with an error status
    MaxFaults       \* bound: deaths, timeouts and failed updates

Lead == 1 .. MaxLeads
Process == Harvester \cup Syncer

ASSUME LeadAssumption ==
    /\ MaxLeads \in Nat
    /\ Harvester \cap Syncer = {}
    /\ RetryLimit \in Nat \ {0}
    /\ CrawlLimit \in Nat \ {0}
    /\ SyncLimit \in Nat \ {0}
    /\ WithSite \subseteq Lead
    /\ Refused \subseteq Lead
    /\ MaxFaults \in Nat

VARIABLES
    syncColumn,     \* whether businesses has the column sync_status
    status,         \* Lead -> the status column, or "absent"
    retryCount,     \* Lead -> the retry_count column
    extractions,    \* Lead -> its rows in website_extractions
    synced,         \* leads whose sync_status is "synced"
    stage,             \* Process -> where it is
    todo,           \* Process -> rows its loop has still to visit
    accepted,       \* Lead -> posts the server took (history)
    lostAcks,       \* Lead -> accepted posts that left no mark (history)
    overlapped,     \* loops two processes were in at once (history)
    faults          \* faults so far

rows == <<status, retryCount, extractions, synced>>
history == <<accepted, lostAcks, overlapped>>
leadVars == <<syncColumn, rows, stage, todo, history, faults>>

Stage == {"idle", "search", "fetch", "extract", "crawling", "sync", "post", "mark"}

LeadTypeOK ==
    /\ syncColumn \in BOOLEAN
    /\ status \in [Lead -> {"absent", "pending", "done", "failed"}]
    /\ retryCount \in [Lead -> Nat]
    /\ extractions \in [Lead -> Nat]
    /\ synced \subseteq Lead
    /\ stage \in [Process -> Stage]
    /\ todo \in [Process -> Seq(Lead)]
    /\ accepted \in [Lead -> Nat]
    /\ lostAcks \in [Lead -> Nat]
    /\ overlapped \subseteq {"extract", "crawling", "post"}
    /\ faults \in 0 .. MaxFaults

\* A database made by _init_tables, which knows no sync_status.
LeadInit ==
    /\ syncColumn = FALSE
    /\ status = [b \in Lead |-> "absent"]
    /\ retryCount = [b \in Lead |-> 0]
    /\ extractions = [b \in Lead |-> 0]
    /\ synced = {}
    /\ stage = [p \in Process |-> "idle"]
    /\ todo = [p \in Process |-> <<>>]
    /\ accepted = [b \in Lead |-> 0]
    /\ lostAcks = [b \in Lead |-> 0]
    /\ overlapped = {}
    /\ faults = 0

-----------------------------------------------------------------------------

Passes(p, from, to) == stage[p] = from /\ stage' = [stage EXCEPT ![p] = to]
Fault == faults < MaxFaults /\ faults' = faults + 1

Present == {b \in Lead : status[b] # "absent"}

\* A loop is entered, perhaps while another process is in the same one.
Entered(p, loop) ==
    LET inside == IF loop = "post" THEN {"post", "mark"} ELSE {loop}
        others == {q \in Process \ {p} : todo[q] # <<>> /\ stage[q] \in inside}
    IN  overlapped' = overlapped \cup (IF others # {} THEN {loop} ELSE {})

\* The loop goes on with the next row, or is over.
Visited(p, again, over) ==
    /\ todo' = [todo EXCEPT ![p] = Tail(@)]
    /\ stage' = [stage EXCEPT ![p] = IF Len(todo[p]) = 1 THEN over ELSE again]

\* Mutant: the done rows are fetched again.
NextBusinessesAll ==
    FirstById(Unjoined({b \in Lead : status[b] \in {"pending", "done"}}), MaxLeads)

\* get_next_business_for_processing: one failed business, the least retried
\* first, or else the pending ones (Config's limit of 50 is above MaxLeads).
NextBusinesses ==
    LET retryable == {b \in Lead : status[b] = "failed" /\ retryCount[b] < RetryLimit}
        first == {b \in retryable : \A c \in retryable : retryCount[b] <= retryCount[c]}
    IN  IF retryable # {} THEN FirstById(Unjoined(first), 1)
        ELSE FirstById(Unjoined({b \in Lead : status[b] = "pending"}), MaxLeads)

ToCrawl == {b \in Lead : status[b] = "done" /\ extractions[b] = 0 /\ b \in WithSite}

ToSync == {b \in Lead : status[b] = "done" /\ b \notin synced}

\* The LEFT JOIN gives a lead once for each of its extraction rows.
SyncRows ==
    FirstById(UNION {LeftJoined(b, extractions[b]) : b \in ToSync}, SyncLimit)

-----------------------------------------------------------------------------
(* Mutants: what a plausible slip in the code would make of an action.      *)

\* An error status ends the loop, as a refused connection does.
PostRejectedBreaks(p) ==
    /\ Passes(p, "post", "idle")
    /\ Head(todo[p]) \in Refused
    /\ todo' = [todo EXCEPT ![p] = <<>>]
    /\ UNCHANGED <<syncColumn, rows, history, faults>>

-----------------------------------------------------------------------------
(* The harvest.                                                            *)

Begins(p) ==
    /\ Passes(p, "idle", IF p \in Syncer THEN "sync" ELSE "search")
    /\ UNCHANGED <<syncColumn, rows, todo, history, faults>>

\* run() is over, or returns at once outside the execution window and without
\* queries; main() goes on to phase 6 all the same.
AfterRun == {"idle", "sync"}
SkipCrawl(p) ==
    /\ \E next \in AfterRun : Passes(p, "search", next)
    /\ UNCHANGED <<syncColumn, rows, todo, history, faults>>

\* collect_businesses: what a query lists, rows known and new.
Listed(n) == 1 .. n

\* add_businesses_batch: new slugs become rows, of a
\* known one only last_seen_at and raw_href change; then db.close(), whose
\* migration names a cursor that does not exist there and adds no column.
Collect(p) ==
    /\ Passes(p, "search", "fetch")
    /\ \E n \in Cardinality(Present) .. MaxLeads :
           status' = [b \in Lead |->
                        IF b \in Listed(n) /\ status[b] = "absent" THEN "pending" ELSE status[b]]
    /\ UNCHANGED <<syncColumn, retryCount, extractions, synced, todo,
                   history, faults>>

\* A round of extract_businesses, or the end of the extraction: the checkpoint
\* is saved and the next query searched.
FetchRound(p) ==
    /\ Passes(p, "fetch", IF NextBusinesses = <<>> THEN "search" ELSE "extract")
    /\ todo' = [todo EXCEPT ![p] = NextBusinesses]
    /\ Entered(p, "extract")
    /\ UNCHANGED <<syncColumn, rows, accepted, lostAcks, faults>>

\* mark_success.
ExtractSucceeds(p) ==
    /\ stage[p] = "extract"
    /\ status' = [status EXCEPT ![Head(todo[p])] = "done"]
    /\ Visited(p, "extract", "fetch")
    /\ UNCHANGED <<syncColumn, retryCount, extractions, synced, history,
                   faults>>

\* mark_failed, for an HTTP error, an invalid page, a captcha, an exception.
ExtractFails(p) ==
    /\ stage[p] = "extract"
    /\ LET b == Head(todo[p]) IN
           /\ status' = [status EXCEPT ![b] = "failed"]
           /\ retryCount' = [retryCount EXCEPT ![b] = @ + 1]
    /\ Visited(p, "extract", "fetch")
    /\ UNCHANGED <<syncColumn, extractions, synced, history,
                   faults>>

\* WebsiteCrawler.run selects at most CrawlLimit leads without an extraction.
CrawlSelect(p) ==
    /\ IF ToCrawl = {} THEN \E next \in AfterRun : Passes(p, "search", next)
                       ELSE Passes(p, "search", "crawling")
    /\ todo' = [todo EXCEPT ![p] = FirstById(Unjoined(ToCrawl), CrawlLimit)]
    /\ Entered(p, "crawling")
    /\ UNCHANGED <<syncColumn, rows, accepted, lostAcks, faults>>

\* One website: a row is inserted whether or not the site answered.  OR
\* REPLACE replaces nothing, business_id is not unique.
CrawlOne(p) ==
    /\ stage[p] = "crawling"
    /\ extractions' = [extractions EXCEPT ![Head(todo[p])] = @ + 1]
    /\ \E next \in AfterRun : Visited(p, "crawling", next)
    /\ UNCHANGED <<syncColumn, status, retryCount, synced, history,
                   faults>>

-----------------------------------------------------------------------------
(* sync_completed_businesses.                                              *)

SyncSelect(p) ==
    /\ syncColumn
    /\ Passes(p, "sync", IF SyncRows = <<>> THEN "idle" ELSE "post")
    /\ todo' = [todo EXCEPT ![p] = SyncRows]
    /\ Entered(p, "post")
    /\ UNCHANGED <<syncColumn, rows, accepted, lostAcks, faults>>

\* "no such column: b.sync_status": the exception ends the process.
SyncUnmigrated(p) ==
    /\ ~syncColumn
    /\ Passes(p, "sync", "idle")
    /\ UNCHANGED <<syncColumn, rows, todo, history, faults>>

\* The column is added by hand: nothing in the repository does.
AddColumn ==
    /\ ~syncColumn
    /\ syncColumn' = TRUE
    /\ UNCHANGED <<rows, stage, todo, history, faults>>

PostAccepted(p) ==
    /\ Passes(p, "post", "mark")
    /\ Head(todo[p]) \notin Refused
    /\ accepted' = [accepted EXCEPT ![Head(todo[p])] = @ + 1]
    /\ UNCHANGED <<syncColumn, rows, todo, lostAcks, overlapped, faults>>

MarkSynced(p) ==
    /\ stage[p] = "mark"
    /\ synced' = synced \cup {Head(todo[p])}
    /\ Visited(p, "post", "idle")
    /\ UNCHANGED <<syncColumn, status, retryCount, extractions,
                   history, faults>>

\* The UPDATE raises, the database being locked: the next row's turn.
MarkFails(p) ==
    /\ stage[p] = "mark"
    /\ Fault
    /\ lostAcks' = [lostAcks EXCEPT ![Head(todo[p])] = @ + 1]
    /\ Visited(p, "post", "idle")
    /\ UNCHANGED <<syncColumn, rows, accepted, overlapped>>

\* Any other status: the lead stays pending.
PostRejected(p) ==
    /\ stage[p] = "post"
    /\ Head(todo[p]) \in Refused
    /\ Visited(p, "post", "idle")
    /\ UNCHANGED <<syncColumn, rows, history, faults>>

\* No answer within 10 seconds, though the server may have taken the lead.
PostTimesOut(p) ==
    /\ stage[p] = "post"
    /\ Fault
    /\ LET b == Head(todo[p]) IN
           \/ UNCHANGED <<accepted, lostAcks>>
           \/ /\ b \notin Refused
              /\ accepted' = [accepted EXCEPT ![b] = @ + 1]
              /\ lostAcks' = [lostAcks EXCEPT ![b] = @ + 1]
    /\ Visited(p, "post", "idle")
    /\ UNCHANGED <<syncColumn, rows, overlapped>>

\* ConnectionError: the loop is left.
Unreachable(p) ==
    /\ Passes(p, "post", "idle")
    /\ Fault
    /\ todo' = [todo EXCEPT ![p] = <<>>]
    /\ UNCHANGED <<syncColumn, rows, history>>

Die(p) ==
    /\ stage[p] # "idle"
    /\ Fault
    /\ lostAcks' = IF stage[p] = "mark" THEN [lostAcks EXCEPT ![Head(todo[p])] = @ + 1]
                   ELSE lostAcks
    /\ stage' = [stage EXCEPT ![p] = "idle"]
    /\ todo' = [todo EXCEPT ![p] = <<>>]
    /\ UNCHANGED <<syncColumn, rows, accepted, overlapped>>

-----------------------------------------------------------------------------

Harvest(p) ==
    \/ Collect(p) \/ FetchRound(p) \/ ExtractSucceeds(p) \/ ExtractFails(p)
    \/ SkipCrawl(p) \/ CrawlSelect(p) \/ CrawlOne(p)

Sync(p) ==
    \/ SyncSelect(p) \/ SyncUnmigrated(p)
    \/ PostAccepted(p) \/ MarkSynced(p) \/ PostRejected(p)
    \/ MarkFails(p) \/ PostTimesOut(p) \/ Unreachable(p)

LeadNext ==
    \/ AddColumn
    \/ \E p \in Process :
        \/ Begins(p) \/ Harvest(p) \/ Sync(p) \/ Die(p)

LeadSpec == LeadInit /\ [][LeadNext]_leadVars

\* A sync that began goes on, and the platform runs the driver's sync again
\* and again.
FairLeadSpec ==
    /\ LeadSpec
    /\ \A p \in Syncer : WF_leadVars(Begins(p)) /\ WF_leadVars(Sync(p))

-----------------------------------------------------------------------------
(* Properties.                                                             *)

\* sync_status = "synced" is the server's word: no lead is passed over as
\* synced that the server did not take, and it was completed.
SyncedWasAccepted == LeadTypeOK /\ \A b \in synced : accepted[b] > 0

\* The server gets a lead twice only when an answer left no mark (a death or
\* a locked database between POST and UPDATE, a timeout), or when two
\* processes crawled or synced at the same time.
SecondPostCostsFault ==
    overlapped \cap {"crawling", "post"} = {}
        => \A b \in Lead : accepted[b] <= 1 + lostAcks[b]

\* A completed lead stays completed, whatever is retried and however often
\* the harvest is run again, unless harvests extract side by side.
CompletedStays ==
    [][\A b \in Lead :
         status[b] = "done" /\ status'[b] # "done" => "extract" \in overlapped]_leadVars

\* The rows of refused leads fill the selection: a refused lead stays at the head
\* of it, with a row for every time it was crawled.
CrowdedOut == \A n \in 1 .. Len(SyncRows) : SyncRows[n] \in Refused

\* A completed lead that the server does not refuse is posted and marked in
\* the end, unless refused leads crowd it out of the selection.
LeadsArrive ==
    \A b \in Lead \ Refused :
        (syncColumn /\ status[b] = "done")
            ~> (b \in synced \/ status[b] # "done" \/ CrowdedOut)

\* A completed lead reaches the server, is told to have done so only then, and
\* is not sent again, up to the faults and overlaps named above.
SyncIsHonest == []SyncedWasAccepted /\ []SecondPostCostsFault /\ CompletedStays
=============================================================================
