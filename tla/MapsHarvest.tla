---------------------------- MODULE MapsHarvest ----------------------------
(***************************************************************************)
(* A harvest of the Google Maps bot (google-maps-bot/app): the             *)
(* Orchestrator of main_orchestrator.py takes the generated queries one by *)
(* one from its checkpoint on, collects the businesses a query lists,      *)
(* extracts every business the database owes, and saves the checkpoint.    *)
(* The queries are those of one row of the search sheet, in whatever order *)
(* the hash seed of the process gives their set; a row of the businesses   *)
(* table is its status and its retry_count.                                *)
(*                                                                         *)
(* A step is what leaves a trace: a transaction of database.py, a write of *)
(* the checkpoint file.  What a query lists and whether a page can be      *)
(* extracted is any outcome: pages and captchas are Google's.  A run dies  *)
(* by a crash or by an exception that nothing catches; an operator starts  *)
(* the next one.  Rows of one rank are taken in any order, where           *)
(* database.py takes them by id.                                           *)
(***************************************************************************)
EXTENDS Naturals, FiniteSets

CONSTANTS
    Query,          \* the texts the query generator makes of the input
    Business,       \* slugs of businesses
    MaxRetries,     \* failures after which a business is given up (3)
    BatchLimit,     \* Config.MAX_BUSINESSES_TO_EXTRACT
    MaxCrashes      \* bound: runs that die

ASSUME HarvestAssumption ==
    /\ IsFiniteSet(Query)
    /\ IsFiniteSet(Business)
    /\ MaxRetries \in Nat \ {0}
    /\ BatchLimit \in Nat \ {0}
    /\ MaxCrashes \in Nat

VARIABLES
    order,      \* the list of queries of the present process
    checkpoint, \* last_query_index of the checkpoint file, 0 without one
    at,         \* where the run is, "down" between runs
    idx,        \* queries the run is done with
    state,      \* Business -> the status column, or "absent"
    retries,    \* Business -> the retry_count column
    batch,      \* businesses fetched and not yet extracted
    began,      \* queries the run skipped by its checkpoint (history)
    broken,     \* a run died since a harvest last ended (history)
    searched,   \* queries searched since a harvest last ended (history)
    visits,     \* how many searches that took (history)
    dirty,      \* a run died since a fetch last found nothing (history)
    crashes     \* runs that died (bounds the behaviour)

businesses == <<state, retries, batch, dirty>>
resumption == <<began, broken, searched, visits>>
harvestVars == <<order, checkpoint, at, idx, businesses, resumption, crashes>>

Total == Cardinality(Query)
Orders == {f \in [1 .. Total -> Query] : \A q \in Query : \E n \in 1 .. Total : f[n] = q}

HarvestTypeOK ==
    /\ order \in Orders
    /\ checkpoint \in 0 .. Total
    /\ at \in {"down", "query", "fetch", "extract", "save", "finish"}
    /\ idx \in 0 .. Total
    /\ state \in [Business -> {"absent", "pending", "done", "failed"}]
    /\ retries \in [Business -> 0 .. MaxRetries]
    /\ batch \subseteq Business
    /\ began \in 0 .. Total
    /\ broken \in BOOLEAN
    /\ searched \subseteq Query
    /\ visits \in Nat
    /\ dirty \in BOOLEAN
    /\ crashes \in 0 .. MaxCrashes

HarvestInit ==
    /\ order \in Orders
    /\ checkpoint = 0
    /\ at = "down"
    /\ idx = 0
    /\ state = [b \in Business |-> "absent"]
    /\ retries = [b \in Business |-> 0]
    /\ batch = {}
    /\ began = 0
    /\ broken = FALSE
    /\ searched = {}
    /\ visits = 0
    /\ dirty = FALSE
    /\ crashes = 0

-----------------------------------------------------------------------------

Moves(from, to) == at = from /\ at' = to

Searched ==
    /\ searched' = searched \cup {order[idx + 1]}
    /\ visits' = visits + 1
    /\ UNCHANGED <<began, broken>>

\* What collect_businesses may answer: the distinct slugs of the links it read.
Listings == SUBSET Business

Unvisited == {b \in Business : state[b] = "pending"}

\* Mutant: a business given up one failure late.
RetryableOnceMore ==
    {b \in Business : state[b] = "failed" /\ retries[b] <= MaxRetries}

Retryable ==
    {b \in Business : state[b] = "failed" /\ retries[b] < MaxRetries}

\* The batches get_next_business_for_processing may return: one business
\* that failed least often, or else as many new ones as the limit admits.
Batches ==
    IF Retryable # {}
    THEN {{b} : b \in {c \in Retryable :
                          \A d \in Retryable : retries[c] <= retries[d]}}
    ELSE {s \in SUBSET Unvisited :
            \/ Cardinality(s) = BatchLimit
            \/ s = Unvisited /\ Cardinality(s) < BatchLimit}

\* The next business of the batch, or the next round.
Extracted(b) ==
    /\ batch' = batch \ {b}
    /\ at' = IF batch = {b} THEN "fetch" ELSE "extract"

-----------------------------------------------------------------------------
(* Mutants: what a plausible slip in the code would make of an action.      *)

\* The checkpoint counts the query that comes next as done.
SaveCheckpointAhead ==
    /\ Moves("save", "query")
    /\ idx' = idx + 1
    /\ checkpoint' = IF idx + 2 > Total THEN Total ELSE idx + 2
    /\ UNCHANGED <<order, businesses, resumption, crashes>>

\* mark_failed without retry_count + 1.
FailsUncounted(b) ==
    /\ at = "extract"
    /\ b \in batch
    /\ state' = [state EXCEPT ![b] = "failed"]
    /\ Extracted(b)
    /\ UNCHANGED <<order, checkpoint, idx, retries, dirty, resumption, crashes>>

\* One round of extraction for each query.
FetchNoMore ==
    /\ Moves("fetch", "save")
    /\ dirty' = FALSE
    /\ UNCHANGED <<order, checkpoint, idx, state, retries, batch, resumption, crashes>>

-----------------------------------------------------------------------------
(* Orchestrator.run.                                                       *)

\* The queries are generated anew, through list(set(...)), whose order
\* depends on the process, and the checkpoint is loaded.
StartRun ==
    /\ Moves("down", "query")
    /\ order' \in Orders
    /\ idx' = checkpoint
    /\ began' = checkpoint
    /\ UNCHANGED <<checkpoint, businesses, broken, searched, visits, crashes>>

\* No feed, no links or no slugs: the query is skipped for good.
CollectNothing ==
    /\ Moves("query", "save")
    /\ idx < Total
    /\ Searched
    /\ UNCHANGED <<order, checkpoint, idx, businesses, crashes>>

\* collect_businesses and add_businesses_batch: a known business keeps its
\* status.
CollectQuery(found) ==
    /\ Moves("query", "fetch")
    /\ idx < Total
    /\ Searched
    /\ state' = [b \in Business |->
                    IF b \in found /\ state[b] = "absent" THEN "pending"
                    ELSE state[b]]
    /\ UNCHANGED <<order, checkpoint, idx, retries, batch, dirty, crashes>>

\* A round of extract_businesses begins ...
FetchBatch ==
    /\ Moves("fetch", "extract")
    /\ batch' \in Batches \ {{}}
    /\ UNCHANGED <<order, checkpoint, idx, state, retries, dirty, resumption, crashes>>

\* ... or no pending and no retryable business is left.
FetchNone ==
    /\ Moves("fetch", "save")
    /\ {} \in Batches
    /\ dirty' = FALSE
    /\ UNCHANGED <<order, checkpoint, idx, state, retries, batch, resumption, crashes>>

\* mark_success.
Succeeds(b) ==
    /\ at = "extract"
    /\ b \in batch
    /\ state' = [state EXCEPT ![b] = "done"]
    /\ Extracted(b)
    /\ UNCHANGED <<order, checkpoint, idx, retries, dirty, resumption, crashes>>

\* mark_failed, for an HTTP error, an invalid page, a captcha or an exception.
Fails(b) ==
    /\ at = "extract"
    /\ b \in batch
    /\ state' = [state EXCEPT ![b] = "failed"]
    /\ retries' = [retries EXCEPT ![b] = @ + 1]
    /\ Extracted(b)
    /\ UNCHANGED <<order, checkpoint, idx, dirty, resumption, crashes>>

SaveCheckpoint ==
    /\ Moves("save", "query")
    /\ idx' = idx + 1
    /\ checkpoint' = idx + 1
    /\ UNCHANGED <<order, businesses, resumption, crashes>>

\* The loop is over: websites are crawled and the workbook is written.
FinishQueries ==
    /\ Moves("query", "finish")
    /\ idx >= Total
    /\ UNCHANGED <<order, checkpoint, idx, businesses, resumption, crashes>>

ClearCheckpoint ==
    /\ Moves("finish", "down")
    /\ checkpoint' = 0
    /\ broken' = FALSE
    /\ searched' = {}
    /\ visits' = 0
    /\ UNCHANGED <<order, idx, businesses, began, crashes>>

\* The run dies.  While it writes the checkpoint, the file is truncated: what
\* is left of it does not parse, and load_checkpoint answers 0.
DieInRun ==
    /\ at # "down"
    /\ crashes < MaxCrashes
    /\ crashes' = crashes + 1
    /\ at' = "down"
    /\ batch' = {}
    /\ dirty' = TRUE
    /\ broken' = TRUE
    /\ checkpoint' \in {checkpoint} \cup (IF at = "save" THEN {0} ELSE {})
    /\ UNCHANGED <<order, idx, state, retries, began, searched, visits>>

-----------------------------------------------------------------------------

Run ==
    \/ CollectNothing
    \/ \E found \in Listings \ {{}} : CollectQuery(found)
    \/ FetchBatch \/ FetchNone
    \/ \E b \in Business : Succeeds(b) \/ Fails(b)
    \/ SaveCheckpoint \/ FinishQueries \/ ClearCheckpoint

HarvestNext == StartRun \/ Run \/ DieInRun

HarvestSpec == HarvestInit /\ [][HarvestNext]_harvestVars

\* A run goes on until it ends or dies, and the operator starts another.
FairHarvestSpec == HarvestSpec /\ WF_harvestVars(StartRun) /\ WF_harvestVars(Run)

-----------------------------------------------------------------------------
(* Properties.                                                             *)

\* "Resume from checkpoint" (docs/01-final-requirements.md line 48): when a
\* harvest ends, every query was searched since the last one ended, whichever
\* runs died in between.  The checkpoint is an index, and the next process
\* lists the queries in an order of its own: it skips some that nobody
\* searched.
HarvestIsComplete == at = "finish" => searched = Query

\* What resuming does keep: a run searches all that stands behind the
\* checkpoint it found, in its own order; a harvest takes at least as many
\* searches as there are queries, those of the runs that died included; and
\* one that no death broke leaves out none.
ResumeIsBounded ==
    /\ at # "down" => /\ \A n \in began + 1 .. idx : order[n] \in searched
                      /\ idx <= visits
    /\ at = "finish" => /\ visits >= Total
                        /\ ~broken => searched = Query

\* A business that can still be extracted waits outside an extraction only
\* if a run died since one last came to its end.
Backlog == Unvisited \cup Retryable
BacklogCostsCrash ==
    Backlog # {} => dirty \/ at \in {"fetch", "extract"}

\* The table is well-formed and nothing in it waits for a run that will not
\* come: what can be extracted is, within the run that found it.
BacklogIsSafe == HarvestTypeOK /\ BacklogCostsCrash

\* A business that was extracted, or given up, is never visited again.
SettledIsFinal ==
    [][\A b \in Business :
        state[b] = "done" \/ (state[b] = "failed" /\ retries[b] = MaxRetries)
            => state'[b] = state[b] /\ retries'[b] = retries[b]]_harvestVars

\* A harvest that began is brought to its end, however often runs die and
\* though every page fails in the unlimited loop of extract_businesses.
HarvestEnds == searched # {} ~> searched = {}
=============================================================================
