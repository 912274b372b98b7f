------------------------ MODULE MapsHarvest_proofs ------------------------
(***************************************************************************)
(* Proofs about MapsHarvest for every set of queries and businesses, every *)
(* retry and batch limit, and any number of runs that die.                 *)
(***************************************************************************)
EXTENDS MapsHarvest, FiniteSetTheorems, TLAPS

-----------------------------------------------------------------------------
(* The inductive invariant.                                                *)

\* Where the run is in the list of queries.
IndexInRange ==
    /\ at \in {"fetch", "extract", "save"} => idx < Total
    /\ at = "finish" => idx = Total
    /\ at # "down" => checkpoint <= idx

\* What the run did itself: it searched the query at hand and all that stand
\* between the checkpoint it found and this one.
RunIsSearched ==
    /\ at \in {"fetch", "extract", "save"} => order[idx + 1] \in searched
    /\ at # "down" => \A n \in began + 1 .. idx : order[n] \in searched

\* Every place that is passed or skipped cost a search.
PlacesCostSearches ==
    /\ checkpoint <= visits
    /\ at # "down" => idx <= visits
    /\ at \in {"fetch", "extract", "save"} => idx < visits

\* Only a run that follows one that died skips a query.
SkipsCostDeath ==
    ~broken => /\ at = "down" => checkpoint = 0
               /\ at # "down" => began = 0

ResumeInv == RunIsSearched /\ PlacesCostSearches /\ SkipsCostDeath

\* A business that was never extracted never failed, and only businesses that
\* can still be extracted are in the batch.
BatchIsBacklog ==
    /\ \A b \in Business :
        state[b] \in {"absent", "pending"} => retries[b] = 0
    /\ batch \subseteq Backlog
    /\ batch # {} => at = "extract"

IInv == HarvestTypeOK /\ IndexInRange /\ BatchIsBacklog /\ BacklogCostsCrash

-----------------------------------------------------------------------------

\* The number of queries is a natural number.
LEMMA TotalIsNat == Total \in Nat
BY HarvestAssumption, FS_CardinalityType DEF Total

\* An order names every query at one of its places.
LEMMA OrdersAreOnto ==
    ASSUME NEW f \in Orders, NEW q \in Query
    PROVE  \E n \in 1 .. Total : f[n] = q
BY DEF Orders

\* What a round fetches can be extracted, and a round that fetches nothing
\* leaves nothing to extract.
LEMMA BatchesAreBacklog ==
    /\ \A s \in Batches : s \subseteq Backlog
    /\ {} \in Batches => Backlog = {}
<1>1. \A s \in Batches : s \subseteq Backlog
  BY DEF Batches, Backlog
<1>2. ASSUME {} \in Batches PROVE Backlog = {}
  <2>1. Retryable = {}
    BY <1>2 DEF Batches
  <2>2. Cardinality({}) = 0
    BY FS_EmptySet
  <2>3. Cardinality({}) # BatchLimit
    BY <2>2, HarvestAssumption
  <2>4. Unvisited = {}
    BY <1>2, <2>1, <2>3 DEF Batches
  <2>5. QED
    BY <2>1, <2>4 DEF Backlog
<1>3. QED
  BY <1>1, <1>2

\* The empty database and no checkpoint satisfy the invariant.
LEMMA InitIInv == HarvestInit => IInv /\ ResumeInv
<1> SUFFICES ASSUME HarvestInit PROVE IInv /\ ResumeInv
  OBVIOUS
<1>1. 0 \in 0 .. Total /\ 0 \in 0 .. MaxRetries /\ 0 \in 0 .. MaxCrashes
  BY HarvestAssumption, TotalIsNat
<1>2. HarvestTypeOK
  BY <1>1 DEF HarvestInit, HarvestTypeOK
<1>3. Backlog = {}
  BY DEF HarvestInit, Backlog, Unvisited, Retryable
<1>4. IndexInRange /\ BatchIsBacklog /\ BacklogCostsCrash
  BY <1>3 DEF HarvestInit, IndexInRange, BatchIsBacklog, BacklogCostsCrash
<1>5. ResumeInv
  BY DEF HarvestInit, ResumeInv, RunIsSearched, PlacesCostSearches, SkipsCostDeath
<1>6. QED
  BY <1>2, <1>4, <1>5 DEF IInv

\* Every step keeps the types, the index in range, and the batch and the
\* backlog where they belong.
LEMMA StepIInv == IInv /\ [HarvestNext]_harvestVars => IInv'
<1> SUFFICES ASSUME IInv, [HarvestNext]_harvestVars PROVE IInv'
  OBVIOUS
<1> USE HarvestAssumption, TotalIsNat
    DEF IInv, HarvestTypeOK, IndexInRange, BatchIsBacklog, BacklogCostsCrash, Moves,
        businesses, resumption
<1>1. CASE StartRun
  BY <1>1 DEF StartRun, Backlog, Unvisited, Retryable
<1>2. CASE CollectNothing
  BY <1>2 DEF CollectNothing, Searched, Orders, Backlog, Unvisited, Retryable
<1>3. ASSUME NEW found \in Listings, CollectQuery(found) PROVE IInv'
  BY <1>3 DEF CollectQuery, Searched, Orders, Backlog, Unvisited, Retryable
<1>4. CASE FetchBatch
  BY <1>4, BatchesAreBacklog DEF FetchBatch, Backlog, Unvisited, Retryable
<1>5. CASE FetchNone
  BY <1>5, BatchesAreBacklog DEF FetchNone, Backlog, Unvisited, Retryable
<1>6. ASSUME NEW b \in Business, Succeeds(b) PROVE IInv'
  BY <1>6 DEF Succeeds, Extracted, Backlog, Unvisited, Retryable
<1>7. ASSUME NEW b \in Business, Fails(b) PROVE IInv'
  <2>1. retries[b] < MaxRetries
    BY <1>7 DEF Fails, Backlog, Unvisited, Retryable
  <2>2. retries' \in [Business -> 0 .. MaxRetries]
    BY <1>7, <2>1 DEF Fails
  <2>3. state' \in [Business -> {"absent", "pending", "done", "failed"}]
    BY <1>7 DEF Fails
  <2>4. \A c \in Business \ {b} :
            state'[c] = state[c] /\ retries'[c] = retries[c]
    BY <1>7 DEF Fails
  <2>5. state'[b] = "failed" /\ batch' = batch \ {b}
    BY <1>7 DEF Fails, Extracted
  <2>6. BatchIsBacklog'
    BY <1>7, <2>4, <2>5 DEF Fails, Extracted, Backlog, Unvisited, Retryable
  <2>7. QED
    BY <1>7, <2>2, <2>3, <2>6 DEF Fails, Extracted
<1>8. CASE SaveCheckpoint
  BY <1>8 DEF SaveCheckpoint, Backlog, Unvisited, Retryable
<1>9. CASE FinishQueries
  BY <1>9 DEF FinishQueries, Backlog, Unvisited, Retryable
<1>10. CASE ClearCheckpoint
  <2>1. 0 \in 0 .. Total /\ 0 \in Nat /\ FALSE \in BOOLEAN /\ {} \subseteq Query
    OBVIOUS
  <2>2. HarvestTypeOK'
    BY <1>10, <2>1 DEF ClearCheckpoint
  <2>3. (IndexInRange /\ BatchIsBacklog)'
    BY <1>10 DEF ClearCheckpoint, Backlog, Unvisited, Retryable
  <2>4. BacklogCostsCrash'
    BY <1>10 DEF ClearCheckpoint, Backlog, Unvisited, Retryable
  <2>5. QED
    BY <2>2, <2>3, <2>4
<1>11. CASE DieInRun
  BY <1>11 DEF DieInRun, Backlog, Unvisited, Retryable
<1>12. CASE UNCHANGED harvestVars
  BY <1>12 DEF harvestVars, Backlog, Unvisited, Retryable
<1>13. QED
  BY <1>1, <1>2, <1>3, <1>4, <1>5, <1>6, <1>7, <1>8, <1>9, <1>10, <1>11, <1>12
  DEF HarvestNext, Run

\* What a run searches, and what it skips, stays accounted for until a harvest
\* ends.
LEMMA StepResumeInv ==
    ASSUME IInv, IInv', ResumeInv, [HarvestNext]_harvestVars
    PROVE  ResumeInv'
<1> USE HarvestAssumption, TotalIsNat
    DEF IInv, HarvestTypeOK, IndexInRange, ResumeInv, RunIsSearched, PlacesCostSearches,
        SkipsCostDeath, Moves, businesses, resumption
<1>1. CASE StartRun
  BY <1>1 DEF StartRun
<1>2. CASE CollectNothing
  BY <1>2 DEF CollectNothing, Searched
<1>3. ASSUME NEW found \in Listings, CollectQuery(found)
      PROVE  ResumeInv'
  BY <1>3 DEF CollectQuery, Searched
<1>4. CASE FetchBatch \/ FetchNone
  BY <1>4 DEF FetchBatch, FetchNone
<1>5. ASSUME NEW b \in Business, Succeeds(b) \/ Fails(b)
      PROVE  ResumeInv'
  BY <1>5 DEF Succeeds, Fails, Extracted
<1>6. CASE SaveCheckpoint
  <2>1. \A n \in began + 1 .. idx + 1 : n \in began + 1 .. idx \/ n = idx + 1
    OBVIOUS
  <2>2. QED
    BY <1>6, <2>1 DEF SaveCheckpoint
<1>7. CASE FinishQueries
  BY <1>7 DEF FinishQueries
<1>8. CASE ClearCheckpoint
  BY <1>8 DEF ClearCheckpoint
<1>9. CASE DieInRun
  BY <1>9 DEF DieInRun
<1>10. CASE UNCHANGED harvestVars
  BY <1>10 DEF harvestVars
<1>11. QED
  BY <1>1, <1>2, <1>3, <1>4, <1>5, <1>6, <1>7, <1>8, <1>9, <1>10 DEF HarvestNext, Run

\* The invariant holds throughout every behaviour.
LEMMA Invariance == HarvestSpec => []IInv
<1>1. HarvestInit => IInv
  BY InitIInv
<1>2. QED
  BY <1>1, StepIInv, PTL DEF HarvestSpec

-----------------------------------------------------------------------------

\* Type correctness; in particular no business fails more often than the
\* retry limit, whatever runs died in between.
THEOREM TypeCorrect == HarvestSpec => []HarvestTypeOK
<1>1. IInv => HarvestTypeOK
  BY DEF IInv
<1>2. QED
  BY <1>1, Invariance, PTL

\* No business that can still be extracted is left behind by a run that
\* nothing interrupted.
THEOREM BacklogSafety == HarvestSpec => []BacklogCostsCrash
<1>1. IInv => BacklogCostsCrash
  BY DEF IInv
<1>2. QED
  BY <1>1, Invariance, PTL

\* Both together: the table of businesses is well-formed and leaves no work
\* behind.
THEOREM BacklogIsKept == HarvestSpec => []BacklogIsSafe
<1>1. IInv => BacklogIsSafe
  BY DEF IInv, BacklogIsSafe
<1>2. QED
  BY <1>1, Invariance, PTL

\* However the queries are ordered in each process: a run searches everything
\* behind the checkpoint it found, a harvest takes as many searches as there
\* are queries, and one that no run died in searches each of them.
THEOREM ResumeSafety == HarvestSpec => []ResumeIsBounded
<1>1. HarvestInit => ResumeInv
  BY InitIInv
<1>2. IInv /\ IInv' /\ ResumeInv /\ [HarvestNext]_harvestVars => ResumeInv'
  BY StepResumeInv
<1>3. IInv /\ ResumeInv /\ at = "finish" /\ ~broken => searched = Query
  <2> SUFFICES ASSUME IInv, ResumeInv, at = "finish", ~broken
               PROVE  searched = Query
    OBVIOUS
  <2>1. \A n \in 1 .. Total : order[n] \in searched
    BY DEF IInv, IndexInRange, ResumeInv, RunIsSearched, SkipsCostDeath
  <2>2. searched \subseteq Query /\ order \in Orders
    BY DEF IInv, HarvestTypeOK
  <2>3. \A q \in Query : q \in searched
    BY <2>1, <2>2, OrdersAreOnto
  <2>4. QED
    BY <2>2, <2>3
<1>4. IInv /\ ResumeInv => ResumeIsBounded
  BY <1>3 DEF ResumeIsBounded, IInv, HarvestTypeOK, IndexInRange, ResumeInv,
      RunIsSearched, PlacesCostSearches
<1>5. QED
  BY <1>1, <1>2, <1>4, Invariance, PTL DEF HarvestSpec

\* An extracted business is never visited again, and one that was given up
\* stays given up.
THEOREM SettledSafety == HarvestSpec => SettledIsFinal
<1>1. IInv /\ [HarvestNext]_harvestVars =>
        [\A b \in Business :
            state[b] = "done"
            \/ (state[b] = "failed" /\ retries[b] = MaxRetries)
                => state'[b] = state[b] /\ retries'[b] = retries[b]]_harvestVars
  <2> SUFFICES ASSUME IInv, [HarvestNext]_harvestVars, NEW b \in Business,
                      state[b] = "done"
                      \/ (state[b] = "failed" /\ retries[b] = MaxRetries)
               PROVE  state'[b] = state[b] /\ retries'[b] = retries[b]
    OBVIOUS
  <2>1. b \notin Backlog
    BY HarvestAssumption DEF IInv, HarvestTypeOK, Backlog, Unvisited, Retryable
  <2>2. b \notin batch
    BY <2>1 DEF IInv, BatchIsBacklog
  <2>3. ASSUME NEW c \in Business, Succeeds(c) \/ Fails(c)
        PROVE  state'[b] = state[b] /\ retries'[b] = retries[b]
    BY <2>2, <2>3 DEF Succeeds, Fails, IInv, HarvestTypeOK
  <2>4. ASSUME NEW found \in Listings, CollectQuery(found)
        PROVE  state'[b] = state[b] /\ retries'[b] = retries[b]
    BY <2>4 DEF CollectQuery, IInv, HarvestTypeOK
  <2>5. QED
    BY <2>3, <2>4 DEF HarvestNext, Run, StartRun, CollectNothing, FetchBatch, FetchNone,
        SaveCheckpoint, FinishQueries, ClearCheckpoint, DieInRun, harvestVars,
        businesses
<1>2. QED
  BY <1>1, Invariance, PTL DEF HarvestSpec, SettledIsFinal
=============================================================================
