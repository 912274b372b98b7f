-------------------------- MODULE JobQueue_proofs --------------------------
(***************************************************************************)
(* Proofs about JobQueue for every set of jobs and of worker processes,    *)
(* every priority and any number of faults.                                *)
(***************************************************************************)
EXTENDS JobQueue, FiniteSetTheorems, TLAPS

-----------------------------------------------------------------------------
(* The inductive invariant.                                                *)

\* A job that waits in the queue, or is not in it yet, was never run.
WaitingIsFresh ==
    \A j \in Job : status[j] \in {"absent", "pending"} =>
        \A w \in Worker : ran[j][w] = 0

\* Between its SELECT and job_started a worker has not run the job it holds.
SelectedIsFresh ==
    \A w \in Worker : pc[w] \in {"selected", "claimed"} =>
        ran[cur[w]][w] = 0

\* From its claim on, the job in a worker's hands is out of the queue: no
\* statement of the queue writes 'pending' again.
HeldIsClaimed ==
    \A w \in Worker : pc[w] \notin {"idle", "selected"} =>
        status[cur[w]] \notin {"absent", "pending"}

\* A selected job is in the table.
HeldIsQueued == \A w \in Worker : pc[w] # "idle" => status[cur[w]] # "absent"

\* A worker that reached complete_job has saved its result.
ExtractedHasResult ==
    \A w \in Worker : pc[w] \in {"sleep", "logCompleted"} =>
        results[cur[w]] > 0

IInv ==
    /\ TypeOK
    /\ WaitingIsFresh
    /\ SelectedIsFresh
    /\ HeldIsQueued
    /\ HeldIsClaimed
    /\ ExtractedHasResult
    /\ RunsOncePerWorker
    /\ CompletedHasResult

-----------------------------------------------------------------------------

\* The empty queue satisfies the invariant.
LEMMA InitIInv == Init => IInv
BY QueueAssumption
DEF Init, IInv, TypeOK, Status, ProgramPoint, WaitingIsFresh, SelectedIsFresh,
    HeldIsQueued, HeldIsClaimed, ExtractedHasResult, RunsOncePerWorker,
    CompletedHasResult

\* Every step keeps the types.
LEMMA StepTypeOK == TypeOK /\ [Next]_vars => TypeOK'
<1> SUFFICES ASSUME TypeOK, [Next]_vars PROVE TypeOK'
  OBVIOUS
<1> USE QueueAssumption DEF TypeOK, Status, ProgramPoint, Goto, SetStatus, Leave,
                            Fault
<1>1. ASSUME NEW j \in Job, AddJob(j) PROVE TypeOK'
  BY <1>1 DEF AddJob
<1>2. ASSUME NEW w \in Worker, NEW j \in Job, Select(w, j) PROVE TypeOK'
  BY <1>2 DEF Select, MostUrgent, Pending
<1>3. ASSUME NEW w \in Worker, Claim(w) PROVE TypeOK'
  BY <1>3 DEF Claim
<1>4. ASSUME NEW w \in Worker, LogStarted(w) PROVE TypeOK'
  <2>1. cur[w] \in Job
    BY <1>4 DEF LogStarted
  <2>2. ran' \in [Job -> [Worker -> Nat]]
    BY <1>4, <2>1 DEF LogStarted
  <2>3. QED
    BY <1>4, <2>2 DEF LogStarted
<1>5. ASSUME NEW w \in Worker, Extract(w) \/ ExtractFails(w) PROVE TypeOK'
  <2>1. CASE Extract(w)
    BY <2>1 DEF Extract
  <2>2. CASE ExtractFails(w)
    BY <2>2 DEF ExtractFails
  <2>3. QED
    BY <1>5, <2>1, <2>2
<1>6. ASSUME NEW w \in Worker, Complete(w) PROVE TypeOK'
  BY <1>6 DEF Complete
<1>7. ASSUME NEW w \in Worker, LogCompleted(w) \/ LogFailed(w) PROVE TypeOK'
  BY <1>7 DEF LogCompleted, LogFailed
<1>8. ASSUME NEW w \in Worker, CompletionRaises(w) PROVE TypeOK'
  <2>1. cur[w] \in Job /\ pc[w] # "idle"
    BY <1>8 DEF CompletionRaises
  <2>2. pc' \in [Worker -> ProgramPoint] /\ pc'[w] = "fail"
    BY <1>8 DEF CompletionRaises
  <2>3. \A v \in Worker : cur'[v] = NoJob <=> pc'[v] = "idle"
    BY <1>8, <2>1, <2>2 DEF CompletionRaises
  <2>4. faults' \in Nat
    BY <1>8 DEF CompletionRaises
  <2>5. QED
    BY <1>8, <2>2, <2>3, <2>4 DEF CompletionRaises
<1>9. ASSUME NEW w \in Worker, Fail(w) PROVE TypeOK'
  BY <1>9 DEF Fail
<1>10. ASSUME NEW w \in Worker, Crash(w) PROVE TypeOK'
  BY <1>10 DEF Crash
<1>11. CASE UNCHANGED vars
  BY <1>11 DEF vars
<1>12. QED
  BY <1>1, <1>2, <1>3, <1>4, <1>5, <1>6, <1>7, <1>8, <1>9, <1>10, <1>11
  DEF Next, Step

\* The invariant is inductive.
LEMMA StepIInv == IInv /\ [Next]_vars => IInv'
<1> SUFFICES ASSUME IInv, [Next]_vars PROVE IInv'
  OBVIOUS
<1>0. /\ TypeOK /\ TypeOK'
      /\ \A w \in Worker : pc[w] # "idle" => cur[w] \in Job
  BY StepTypeOK DEF IInv, TypeOK
<1> USE DEF IInv, WaitingIsFresh, SelectedIsFresh, HeldIsQueued, HeldIsClaimed,
            ExtractedHasResult, RunsOncePerWorker, CompletedHasResult, Goto,
            SetStatus, Leave, Fault
<1>1. ASSUME NEW j \in Job, AddJob(j) PROVE IInv'
  BY <1>0, <1>1 DEF AddJob, TypeOK
<1>2. ASSUME NEW w \in Worker, NEW j \in Job, Select(w, j) PROVE IInv'
  BY <1>0, <1>2 DEF Select, MostUrgent, Pending, TypeOK
<1>3. ASSUME NEW w \in Worker, Claim(w) PROVE IInv'
  BY <1>0, <1>3 DEF Claim, TypeOK
<1>4. ASSUME NEW w \in Worker, LogStarted(w) PROVE IInv'
  <2>1. cur[w] \in Job /\ ran[cur[w]][w] = 0
    BY <1>0, <1>4 DEF LogStarted
  <2>2. \A j \in Job : \A v \in Worker :
            ran'[j][v] = IF j = cur[w] /\ v = w THEN 1 ELSE ran[j][v]
    BY <1>0, <1>4, <2>1 DEF LogStarted, TypeOK
  <2>3. /\ status[cur[w]] \notin {"absent", "pending"}
        /\ UNCHANGED <<status, results, cur>>
        /\ pc' = [pc EXCEPT ![w] = "extract"]
        /\ pc[w] = "claimed"
    BY <1>4 DEF LogStarted
  <2>4. WaitingIsFresh' /\ RunsOncePerWorker'
    <3>1. \A j \in Job : \A v \in Worker :
            ran'[j][v] = ran[j][v] \/ (j = cur[w] /\ ran'[j][v] = 1)
      BY <2>2
    <3>2. WaitingIsFresh'
      BY <2>3, <3>1
    <3>3. RunsOncePerWorker'
      BY <2>3, <3>1
    <3>4. QED
      BY <3>2, <3>3
  <2>5. SelectedIsFresh'
    <3> SUFFICES ASSUME NEW v \in Worker, pc'[v] \in {"selected", "claimed"}
                 PROVE  ran'[cur'[v]][v] = 0
      OBVIOUS
    <3>1. v # w /\ pc'[v] = pc[v]
      BY <1>0, <2>3 DEF TypeOK
    <3>2. cur'[v] = cur[v] /\ cur[v] \in Job /\ ran[cur[v]][v] = 0
      BY <1>0, <2>3, <3>1
    <3>3. QED
      BY <2>2, <3>1, <3>2
  <2>6. HeldIsQueued' /\ HeldIsClaimed'
    BY <1>0, <2>3 DEF TypeOK
  <2>7. ExtractedHasResult' /\ CompletedHasResult'
    BY <1>0, <2>3 DEF TypeOK
  <2>8. QED
    BY <1>0, <2>4, <2>5, <2>6, <2>7
<1>5. ASSUME NEW w \in Worker, Extract(w) PROVE IInv'
  BY <1>0, <1>5 DEF Extract, TypeOK
<1>6. ASSUME NEW w \in Worker, ExtractFails(w) PROVE IInv'
  BY <1>0, <1>6 DEF ExtractFails, TypeOK
<1>7. ASSUME NEW w \in Worker, Complete(w) PROVE IInv'
  BY <1>0, <1>7 DEF Complete, TypeOK
<1>8. ASSUME NEW w \in Worker, LogCompleted(w) \/ LogFailed(w) PROVE IInv'
  <2>1. CASE LogCompleted(w)
    BY <1>0, <2>1 DEF LogCompleted, TypeOK
  <2>2. CASE LogFailed(w)
    BY <1>0, <2>2 DEF LogFailed, TypeOK
  <2>3. QED
    BY <1>8, <2>1, <2>2
<1>9. ASSUME NEW w \in Worker, CompletionRaises(w) PROVE IInv'
  <2>1. /\ UNCHANGED <<status, results, cur, ran>>
        /\ pc' = [pc EXCEPT ![w] = "fail"]
        /\ pc[w] \in {"sleep", "logCompleted"}
    BY <1>9 DEF CompletionRaises
  <2>2. \A v \in Worker : v # w => pc'[v] = pc[v]
    BY <2>1
  <2>3. pc'[w] = "fail"
    BY <1>0, <2>1 DEF TypeOK
  <2>4. WaitingIsFresh' /\ RunsOncePerWorker' /\ CompletedHasResult'
    BY <2>1
  <2>5. SelectedIsFresh' /\ ExtractedHasResult'
    BY <2>1, <2>2, <2>3
  <2>6. HeldIsQueued' /\ HeldIsClaimed'
    BY <2>1, <2>2, <2>3
  <2>7. QED
    BY <1>0, <2>4, <2>5, <2>6
<1>10. ASSUME NEW w \in Worker, Fail(w) PROVE IInv'
  BY <1>0, <1>10 DEF Fail, TypeOK
<1>11. ASSUME NEW w \in Worker, Crash(w) PROVE IInv'
  BY <1>0, <1>11 DEF Crash, TypeOK
<1>12. CASE UNCHANGED vars
  BY <1>0, <1>12 DEF vars, TypeOK
<1>13. QED
  BY <1>1, <1>2, <1>3, <1>4, <1>5, <1>6, <1>7, <1>8, <1>9, <1>10, <1>11, <1>12
  DEF Next, Step

\* The invariant holds throughout every behaviour.
LEMMA Invariance == Spec => []IInv
BY InitIInv, StepIInv, PTL DEF Spec

-----------------------------------------------------------------------------

\* Although the claim is unconditional and two workers may race for a job, no
\* worker runs a job twice, and a job that ran never waits again.
THEOREM RunSafety == Spec => []RunsOncePerWorker
<1>1. IInv => RunsOncePerWorker
  BY DEF IInv
<1>2. QED
  BY <1>1, Invariance, PTL

\* A job that some worker completed has an extraction result in the database.
THEOREM ResultSafety == Spec => []CompletedHasResult
<1>1. IInv => CompletedHasResult
  BY DEF IInv
<1>2. QED
  BY <1>1, Invariance, PTL

\* Together with the types: what the racing workers keep.
THEOREM WorkersAreSafe == Spec => []WorkerSafety
<1>1. IInv => WorkerSafety
  BY DEF IInv, WorkerSafety
<1>2. QED
  BY <1>1, Invariance, PTL
-----------------------------------------------------------------------------
(* The counts: what they rest on.                                          *)

InRun == {"extract", "sleep", "logCompleted", "fail"}

Touched(j) == {w \in Worker : cur[w] = j \/ ran[j][w] > 0}

\* Runs of a job whose failure, if they fail, is already counted.
Closed(j) == {w \in Worker : ran[j][w] > 0 /\ ~(cur[w] = j /\ pc[w] \in InRun)}

\* Running, with no worker between its claim and the end of its run.
Abandoned ==
    {j \in Job : /\ status[j] = "running"
                 /\ \A w \in Worker : cur[w] = j =>
                        pc[w] \notin {"claimed", "extract", "sleep", "fail"}}

\* Without a fault somebody completed a completed job and is done with it, or
\* about to be.
CompletedByWorker ==
    \A j \in Job : status[j] = "completed" =>
        \E w \in Worker : ran[j][w] > 0 /\ (cur[w] = j => pc[w] = "logCompleted")

RunIsStarted == \A w \in Worker : pc[w] \in InRun => ran[cur[w]][w] > 0

OutcomeInv ==
    /\ IInv
    /\ RunIsStarted
    /\ \A j \in Job : IsFiniteSet(Touched(j))
    /\ \A j \in Job : retryCount[j] <= Cardinality(Closed(j))
    /\ IsFiniteSet(Abandoned) /\ Cardinality(Abandoned) <= faults
    /\ faults = 0 => CompletedByWorker
-----------------------------------------------------------------------------

\* A finite set that gains at most one element.
LEMMA AtMostOneMore ==
    ASSUME NEW S, NEW T, NEW x, IsFiniteSet(S), T \subseteq S \cup {x}
    PROVE  /\ IsFiniteSet(T) /\ Cardinality(T) \in Nat /\ Cardinality(S) \in Nat
           /\ Cardinality(T) <= Cardinality(S) + 1
           /\ T \subseteq S => Cardinality(T) <= Cardinality(S)
<1>1. /\ IsFiniteSet(S \cup {x})
      /\ Cardinality(S \cup {x}) = IF x \in S THEN Cardinality(S) ELSE Cardinality(S) + 1
  BY FS_AddElement
<1>2. IsFiniteSet(T) /\ Cardinality(T) <= Cardinality(S \cup {x})
  BY <1>1, FS_Subset
<1>3. Cardinality(T) \in Nat /\ Cardinality(S) \in Nat
  BY <1>2, FS_CardinalityType
<1>4. T \subseteq S => Cardinality(T) <= Cardinality(S)
  BY FS_Subset
<1>5. QED
  BY <1>1, <1>2, <1>3, <1>4

\* A finite set that keeps its elements and gains another.
LEMMA OneMore ==
    ASSUME NEW S, NEW T, NEW x, IsFiniteSet(T), S \subseteq T, x \in T, x \notin S
    PROVE  /\ Cardinality(S) \in Nat /\ Cardinality(T) \in Nat
           /\ Cardinality(S) + 1 <= Cardinality(T)
<1>1. IsFiniteSet(S)
  BY FS_Subset
<1>2. IsFiniteSet(S \cup {x}) /\ Cardinality(S \cup {x}) = Cardinality(S) + 1
  BY <1>1, FS_AddElement
<1>3. Cardinality(S \cup {x}) <= Cardinality(T)
  BY FS_Subset
<1>4. QED
  BY <1>1, <1>2, <1>3, FS_CardinalityType

\* A step of the queue adds a job or is a worker's.
LEMMA WhoActs ==
    ASSUME [Next]_vars
    PROVE  \/ UNCHANGED vars
           \/ \E j \in Job : AddJob(j)
           \/ \E w \in Worker : Step(w) \/ Crash(w)
BY DEF Next

\* A worker's step moves only that worker, and no worker's run is forgotten.
LEMMA OthersStay ==
    ASSUME IInv, NEW w \in Worker, Step(w) \/ Crash(w)
    PROVE  /\ \A v \in Worker : v # w => pc'[v] = pc[v] /\ cur'[v] = cur[v]
           /\ \A j \in Job : \A v \in Worker :
                  /\ ran[j][v] > 0 => ran'[j][v] > 0
                  /\ ran'[j][v] > 0 =>
                        ran[j][v] > 0 \/ (v = w /\ cur[w] = j /\ cur'[w] = j /\ pc[w] = "claimed")
           /\ faults' \in Nat /\ faults \in Nat /\ faults <= faults'
<1>0. TypeOK
  BY DEF IInv
<1> USE <1>0 DEF Goto, SetStatus, Leave, Fault
<1>1. ASSUME NEW j \in Job, Select(w, j)
      PROVE  UNCHANGED <<ran, faults>> /\ \A v \in Worker : v # w => pc'[v] = pc[v] /\ cur'[v] = cur[v]
  BY <1>1 DEF Select, TypeOK
<1>2. CASE LogStarted(w)
  <2>1. cur[w] \in Job /\ pc[w] = "claimed"
    BY <1>2 DEF LogStarted, TypeOK
  <2>2. /\ UNCHANGED <<cur, faults>>
        /\ \A v \in Worker : v # w => pc'[v] = pc[v]
        /\ ran' = [ran EXCEPT ![cur[w]][w] = @ + 1]
    BY <1>2 DEF LogStarted, TypeOK
  <2>3. \A j \in Job : \A v \in Worker :
            ran'[j][v] = IF j = cur[w] /\ v = w THEN ran[j][v] + 1 ELSE ran[j][v]
    BY <2>1, <2>2 DEF TypeOK
  <2>4. \A j \in Job : \A v \in Worker : ran[j][v] \in Nat
    BY DEF TypeOK
  <2>5. faults \in Nat
    BY DEF TypeOK
  <2>6. QED
    BY <2>1, <2>2, <2>3, <2>4, <2>5
<1>3. ASSUME \/ Claim(w) \/ Extract(w) \/ ExtractFails(w) \/ Complete(w) \/ Fail(w)
             \/ LogCompleted(w) \/ LogFailed(w)
      PROVE  UNCHANGED <<ran, faults>> /\ \A v \in Worker : v # w => pc'[v] = pc[v] /\ cur'[v] = cur[v]
  BY <1>3 DEF Claim, Extract, ExtractFails, Complete, LogCompleted, Fail, LogFailed, TypeOK
<1>4. ASSUME CompletionRaises(w) \/ Crash(w)
      PROVE  /\ UNCHANGED ran /\ faults' = faults + 1
             /\ \A v \in Worker : v # w => pc'[v] = pc[v] /\ cur'[v] = cur[v]
  BY <1>4 DEF CompletionRaises, Crash, TypeOK
<1>5. faults \in Nat
  BY DEF TypeOK
<1>6. ASSUME UNCHANGED ran PROVE
        \A j \in Job : \A v \in Worker : ran[j][v] > 0 <=> ran'[j][v] > 0
  BY <1>6
<1>7. QED
  BY <1>1, <1>2, <1>3, <1>4, <1>5, <1>6 DEF Step

\* Where the worker that acts goes with the job in its hands.
LEMMA RunMoves ==
    ASSUME IInv, NEW w \in Worker, Step(w) \/ Crash(w), pc'[w] \in InRun
    PROVE  /\ cur'[w] = cur[w] /\ cur[w] \in Job
           /\ pc[w] \in InRun \/ LogStarted(w)
<1> USE DEF IInv, TypeOK, InRun, Goto, Leave, Fault
<1>1. ASSUME NEW j \in Job, Select(w, j) PROVE FALSE
  BY <1>1 DEF Select
<1>2. ASSUME \/ Claim(w) \/ LogCompleted(w) \/ Fail(w) \/ LogFailed(w) \/ Crash(w) PROVE FALSE
  BY <1>2 DEF Claim, LogCompleted, Fail, LogFailed, Crash
<1>3. CASE LogStarted(w)
  BY <1>3 DEF LogStarted
<1>4. CASE Extract(w) \/ ExtractFails(w) \/ Complete(w) \/ CompletionRaises(w)
  BY <1>4 DEF Extract, ExtractFails, Complete, CompletionRaises
<1>5. QED
  BY <1>1, <1>2, <1>3, <1>4 DEF Step

\* Who changes a status or the count of failures of a job.
LEMMA StatusMoves ==
    ASSUME IInv, NEW w \in Worker, Step(w) \/ Crash(w), NEW j \in Job
    PROVE  /\ status'[j] # status[j] =>
                /\ cur[w] = j
                /\ Claim(w) \/ Complete(w) \/ Fail(w)
           /\ retryCount'[j] # retryCount[j] =>
                /\ cur[w] = j /\ Fail(w)
                /\ retryCount'[j] = retryCount[j] + 1
<1> USE DEF IInv, TypeOK, Goto, SetStatus
<1>1. CASE Claim(w) \/ Complete(w)
  BY <1>1 DEF Claim, Complete
<1>2. CASE Fail(w)
  BY <1>2 DEF Fail
<1>3. ASSUME NEW k \in Job, Select(w, k) PROVE UNCHANGED <<status, retryCount>>
  BY <1>3 DEF Select
<1>4. ASSUME \/ LogStarted(w) \/ Extract(w) \/ ExtractFails(w) \/ LogCompleted(w)
             \/ CompletionRaises(w) \/ LogFailed(w) \/ Crash(w)
      PROVE UNCHANGED <<status, retryCount>>
  BY <1>4 DEF LogStarted, Extract, ExtractFails, LogCompleted, CompletionRaises, LogFailed, Crash
<1>5. QED
  BY <1>1, <1>2, <1>3, <1>4 DEF Step
-----------------------------------------------------------------------------
(* The counts: the proofs.                                                 *)

\* A run that is open has been started.
LEMMA StepRunIsStarted ==
    IInv /\ RunIsStarted /\ [Next]_vars => RunIsStarted'
<1> SUFFICES ASSUME IInv, RunIsStarted, [Next]_vars PROVE RunIsStarted'
  OBVIOUS
<1>0. TypeOK
  BY DEF IInv
<1>1. CASE UNCHANGED vars
  BY <1>1 DEF vars, RunIsStarted
<1>2. CASE \E j \in Job : AddJob(j)
  BY <1>2 DEF AddJob, RunIsStarted
<1>3. ASSUME NEW w \in Worker, Step(w) \/ Crash(w) PROVE RunIsStarted'
  <2> SUFFICES ASSUME NEW v \in Worker, pc'[v] \in InRun PROVE ran'[cur'[v]][v] > 0
    BY DEF RunIsStarted
  <2>1. CASE v # w
    <3>1. pc'[v] = pc[v] /\ cur'[v] = cur[v]
      BY <1>3, <2>1, OthersStay
    <3>2. cur[v] \in Job
      BY <1>0, <3>1 DEF TypeOK, InRun
    <3>3. ran[cur[v]][v] > 0
      BY <3>1 DEF RunIsStarted
    <3>4. QED
      BY <1>3, <3>1, <3>2, <3>3, OthersStay
  <2>2. CASE v = w
    <3>1. /\ cur'[w] = cur[w] /\ cur[w] \in Job
          /\ pc[w] \in InRun \/ LogStarted(w)
      BY <1>3, <2>2, RunMoves
    <3>2. CASE pc[w] \in InRun
      <4>1. ran[cur[w]][w] > 0
        BY <3>2 DEF RunIsStarted
      <4>2. QED
        BY <1>3, <2>2, <3>1, <4>1, OthersStay
    <3>3. CASE LogStarted(w)
      <4>1. ran'[cur[w]][w] = ran[cur[w]][w] + 1
        BY <1>0, <3>1, <3>3 DEF LogStarted, TypeOK
      <4>2. ran[cur[w]][w] \in Nat
        BY <1>0, <3>1 DEF TypeOK
      <4>3. QED
        BY <2>2, <3>1, <4>1, <4>2
    <3>4. QED
      BY <3>1, <3>2, <3>3
  <2>3. QED
    BY <2>1, <2>2
<1>4. QED
  BY <1>1, <1>2, <1>3, WhoActs

\* A step lets at most the worker that acts take part in a job.
LEMMA TouchedGrows ==
    ASSUME IInv, NEW w \in Worker, Step(w) \/ Crash(w), NEW j \in Job
    PROVE  Touched(j)' \subseteq Touched(j) \cup {w}
<1> SUFFICES ASSUME NEW v \in Worker, cur'[v] = j \/ ran'[j][v] > 0, v # w
             PROVE  cur[v] = j \/ ran[j][v] > 0
  BY DEF Touched
<1>1. cur'[v] = cur[v]
  BY OthersStay
<1>2. ran'[j][v] > 0 => ran[j][v] > 0
  BY OthersStay
<1>3. QED
  BY <1>1, <1>2

\* A run that is over stays over, and a failure ends one that was open.
LEMMA ClosedGrows ==
    ASSUME IInv, RunIsStarted, NEW w \in Worker, Step(w) \/ Crash(w), NEW j \in Job
    PROVE  /\ Closed(j) \subseteq Closed(j)'
           /\ retryCount'[j] # retryCount[j] => w \notin Closed(j) /\ w \in Closed(j)'
<1>0. TypeOK
  BY DEF IInv
<1>1. ASSUME NEW v \in Worker, v \in Closed(j) PROVE v \in Closed(j)'
  <2>1. ran[j][v] > 0 /\ ~(cur[v] = j /\ pc[v] \in InRun)
    BY <1>1 DEF Closed
  <2>2. ran'[j][v] > 0
    BY <2>1, OthersStay
  <2>3. ASSUME cur'[v] = j, pc'[v] \in InRun PROVE FALSE
    <3>1. v = w
      BY <2>1, <2>3, OthersStay
    <3>2. cur[w] = j /\ LogStarted(w)
      BY <2>1, <2>3, <3>1, RunMoves
    <3>3. ran[j][w] = 0
      BY <3>2 DEF LogStarted, Goto, IInv, SelectedIsFresh
    <3>4. QED
      BY <2>1, <3>1, <3>3
  <2>4. QED
    BY <2>2, <2>3 DEF Closed
<1>2. ASSUME retryCount'[j] # retryCount[j] PROVE w \notin Closed(j) /\ w \in Closed(j)'
  <2>1. cur[w] = j /\ Fail(w)
    BY <1>2, StatusMoves
  <2>2. pc[w] = "fail" /\ pc'[w] = "logFailed"
    BY <1>0, <2>1 DEF Fail, Goto, TypeOK
  <2>3. ran[j][w] > 0
    BY <2>1, <2>2 DEF RunIsStarted, InRun
  <2>4. ran'[j][w] > 0
    BY <2>3, OthersStay
  <2>5. QED
    BY <2>1, <2>2, <2>4 DEF Closed, InRun
<1>3. \A v : v \in Closed(j) => v \in Worker
  BY DEF Closed
<1>4. QED
  BY <1>1, <1>2, <1>3

\* Every run that is over was one of a worker that took part.
LEMMA StepCounts ==
    ASSUME IInv, RunIsStarted, [Next]_vars,
           \A j \in Job : IsFiniteSet(Touched(j)) /\ retryCount[j] <= Cardinality(Closed(j))
    PROVE  \A j \in Job : IsFiniteSet(Touched(j))' /\ (retryCount[j] <= Cardinality(Closed(j)))'
<1>0. TypeOK /\ TypeOK'
  BY StepTypeOK DEF IInv
<1>1. CASE UNCHANGED vars
  BY <1>1 DEF vars, Touched, Closed
<1>2. CASE \E j \in Job : AddJob(j)
  BY <1>2 DEF AddJob, Touched, Closed
<1>3. ASSUME NEW w \in Worker, Step(w) \/ Crash(w), NEW j \in Job
      PROVE  IsFiniteSet(Touched(j))' /\ (retryCount[j] <= Cardinality(Closed(j)))'
  <2>1. IsFiniteSet(Touched(j)')
    <3> DEFINE S == Touched(j)
               T == Touched(j)'
    <3>1. T \subseteq S \cup {w} /\ IsFiniteSet(S)
      BY <1>3, TouchedGrows
    <3> HIDE DEF S, T
    <3>2. IsFiniteSet(T)
      BY <3>1, AtMostOneMore
    <3>3. QED
      BY <3>2 DEF T
  <2>2. Closed(j)' \subseteq Touched(j)'
    BY DEF Closed, Touched
  <2>3. /\ Closed(j) \subseteq Closed(j)'
        /\ retryCount'[j] # retryCount[j] => w \notin Closed(j) /\ w \in Closed(j)'
    BY <1>3, ClosedGrows
  <2>4. retryCount'[j] = retryCount[j] \/ retryCount'[j] = retryCount[j] + 1
    BY <1>3, StatusMoves
  <2>5. retryCount[j] \in Nat /\ retryCount[j] <= Cardinality(Closed(j))
    BY <1>0 DEF TypeOK
  <2>6. retryCount'[j] <= Cardinality(Closed(j)')
    <3> DEFINE C == Closed(j)
               D == Closed(j)'
    <3> HIDE DEF C, D
    <3>1. IsFiniteSet(D)
      BY <2>1, <2>2, FS_Subset DEF D
    <3>2. C \subseteq D
      BY <2>3 DEF C, D
    <3>3. retryCount'[j] # retryCount[j] => w \notin C /\ w \in D
      BY <2>3 DEF C, D
    <3>4. IsFiniteSet(C) /\ Cardinality(C) <= Cardinality(D)
      BY <3>1, <3>2, FS_Subset
    <3>5. Cardinality(C) \in Nat /\ Cardinality(D) \in Nat
      BY <3>1, <3>4, FS_CardinalityType
    <3>6. w \notin C /\ w \in D => Cardinality(C) + 1 <= Cardinality(D)
      BY <3>1, <3>2, OneMore
    <3>7. retryCount[j] <= Cardinality(C)
      BY <2>5 DEF C
    <3>8. retryCount'[j] <= Cardinality(D)
      BY <2>4, <2>5, <3>3, <3>4, <3>5, <3>6, <3>7
    <3>9. QED
      BY <3>8 DEF D
  <2>7. QED
    BY <2>1, <2>6
<1>4. QED
  BY <1>1, <1>2, <1>3, WhoActs

\* Only a fault abandons a job, and no more than one.
LEMMA AbandonedGrows ==
    ASSUME IInv, NEW w \in Worker, Step(w) \/ Crash(w)
    PROVE  /\ Abandoned' \subseteq Abandoned \cup {cur[w]}
           /\ ~Crash(w) => Abandoned' \subseteq Abandoned
<1>0. TypeOK
  BY DEF IInv
<1> DEFINE Busy == {"claimed", "extract", "sleep", "fail"}
<1>1. ASSUME NEW j \in Job, j \in Abandoned', j \notin Abandoned
      PROVE  Crash(w) /\ cur[w] = j
  <2>1. status'[j] = "running" /\ \A v \in Worker : cur'[v] = j => pc'[v] \notin Busy
    BY <1>1 DEF Abandoned
  <2>2. CASE status[j] # "running"
    <3>1. cur[w] = j /\ (Claim(w) \/ Complete(w) \/ Fail(w))
      BY <2>1, <2>2, StatusMoves
    <3>2. Claim(w)
      BY <1>0, <2>1, <3>1 DEF Complete, Fail, SetStatus, TypeOK
    <3>3. pc'[w] = "claimed" /\ cur'[w] = j
      BY <1>0, <3>1, <3>2 DEF Claim, Goto, TypeOK
    <3>4. QED
      BY <2>1, <3>3
  <2>3. CASE status[j] = "running"
    <3>1. PICK v \in Worker : cur[v] = j /\ pc[v] \in Busy
      BY <1>1, <2>3 DEF Abandoned
    <3>2. v = w
      BY <2>1, <3>1, OthersStay
    <3>3. ASSUME Complete(w) \/ Fail(w) PROVE FALSE
      BY <1>0, <2>1, <3>1, <3>2, <3>3 DEF Complete, Fail, SetStatus, TypeOK
    <3>4. ASSUME LogStarted(w) \/ Extract(w) \/ ExtractFails(w) \/ CompletionRaises(w) PROVE FALSE
      BY <1>0, <2>1, <3>1, <3>2, <3>4 DEF LogStarted, Extract, ExtractFails, CompletionRaises, Goto, TypeOK
    <3>5. ASSUME NEW k \in Job, Select(w, k) PROVE FALSE
      BY <3>1, <3>2, <3>5 DEF Select, Goto
    <3>6. ASSUME Claim(w) \/ LogCompleted(w) \/ LogFailed(w) PROVE FALSE
      BY <3>1, <3>2, <3>6 DEF Claim, LogCompleted, LogFailed, Goto
    <3>7. Crash(w)
      BY <3>3, <3>4, <3>5, <3>6 DEF Step
    <3>8. QED
      BY <3>1, <3>2, <3>7
  <2>4. QED
    BY <2>2, <2>3
<1>2. Abandoned' \subseteq Job
  BY DEF Abandoned
<1>3. QED
  BY <1>1, <1>2

\* So there are no more abandoned jobs than faults.
LEMMA StepAbandoned ==
    ASSUME IInv, [Next]_vars, IsFiniteSet(Abandoned), Cardinality(Abandoned) <= faults
    PROVE  IsFiniteSet(Abandoned') /\ Cardinality(Abandoned') <= faults'
<1>0. TypeOK
  BY DEF IInv
<1>1. CASE UNCHANGED vars
  <2>1. Abandoned' = Abandoned /\ faults' = faults
    BY <1>1 DEF vars, Abandoned
  <2>2. QED
    BY <2>1
<1>2. CASE \E j \in Job : AddJob(j)
  <2>1. Abandoned' = Abandoned
    BY <1>0, <1>2 DEF AddJob, SetStatus, Abandoned, TypeOK
  <2>2. QED
    BY <1>2, <2>1 DEF AddJob
<1>3. ASSUME NEW w \in Worker, Step(w) \/ Crash(w)
      PROVE  IsFiniteSet(Abandoned') /\ Cardinality(Abandoned') <= faults'
  <2> DEFINE S == Abandoned
             T == Abandoned'
  <2>1. /\ T \subseteq S \cup {cur[w]}
        /\ ~Crash(w) => T \subseteq S
    BY <1>3, AbandonedGrows
  <2>2. Crash(w) => faults' = faults + 1
    BY DEF Crash, Fault
  <2>3. faults \in Nat /\ faults' \in Nat /\ faults <= faults'
    BY <1>3, OthersStay
  <2> HIDE DEF S, T
  <2>4. IsFiniteSet(S) /\ Cardinality(S) <= faults
    BY DEF S
  <2>5. /\ IsFiniteSet(T) /\ Cardinality(T) \in Nat /\ Cardinality(S) \in Nat
        /\ Cardinality(T) <= Cardinality(S) + 1
        /\ T \subseteq S => Cardinality(T) <= Cardinality(S)
    BY <2>1, <2>4, AtMostOneMore
  <2>6. IsFiniteSet(T) /\ Cardinality(T) <= faults'
    BY <2>1, <2>2, <2>3, <2>4, <2>5
  <2>7. QED
    BY <2>6 DEF T
<1>4. QED
  BY <1>1, <1>2, <1>3, WhoActs

\* Without a fault the worker that completed a job never fails it.
LEMMA StepCompletedByWorker ==
    ASSUME IInv, RunIsStarted, [Next]_vars, faults = 0 => CompletedByWorker, faults' = 0
    PROVE  CompletedByWorker'
<1>0. TypeOK
  BY DEF IInv
<1>1. CASE UNCHANGED vars
  BY <1>1 DEF vars, CompletedByWorker
<1>2. CASE \E j \in Job : AddJob(j)
  <2>1. PICK j \in Job : AddJob(j)
    BY <1>2
  <2>2. UNCHANGED <<ran, cur, pc>> /\ faults = 0
    BY <2>1 DEF AddJob
  <2>3. \A k \in Job : status'[k] = "completed" => status[k] = "completed"
    BY <1>0, <2>1 DEF AddJob, SetStatus, TypeOK
  <2>4. QED
    BY <2>2, <2>3 DEF CompletedByWorker
<1>3. ASSUME NEW w \in Worker, Step(w) \/ Crash(w) PROVE CompletedByWorker'
  <2>1. ~CompletionRaises(w) /\ ~Crash(w) /\ faults = 0
    <3>1. faults \in Nat /\ faults <= faults'
      BY <1>3, OthersStay
    <3>2. QED
      BY <3>1 DEF CompletionRaises, Crash, Fault
  <2> SUFFICES ASSUME NEW j \in Job, status'[j] = "completed"
               PROVE  \E v \in Worker :
                          ran'[j][v] > 0 /\ (cur'[v] = j => pc'[v] = "logCompleted")
    BY DEF CompletedByWorker
  <2>2. CASE status[j] = "completed"
    <3>1. PICK v \in Worker : ran[j][v] > 0 /\ (cur[v] = j => pc[v] = "logCompleted")
      BY <2>1, <2>2 DEF CompletedByWorker
    <3>2. ran'[j][v] > 0
      BY <1>3, <3>1, OthersStay
    <3>3. ASSUME cur'[v] = j PROVE pc'[v] = "logCompleted"
      <4>1. CASE v # w
        BY <1>3, <3>1, <3>3, <4>1, OthersStay
      <4>2. CASE v = w
        <5>1. ASSUME NEW k \in Job, Select(w, k) PROVE FALSE
          <6>1. k = j /\ status[j] = "pending"
            BY <1>0, <3>3, <4>2, <5>1 DEF Select, MostUrgent, Pending, TypeOK
          <6>2. QED
            BY <2>2, <6>1
        <5>2. ASSUME LogCompleted(w) \/ LogFailed(w) PROVE FALSE
          BY <1>0, <3>3, <4>2, <5>2, QueueAssumption DEF LogCompleted, LogFailed, Leave, TypeOK
        <5>3. ASSUME \/ Claim(w) \/ LogStarted(w) \/ Extract(w) \/ ExtractFails(w)
                     \/ Complete(w) \/ Fail(w)
              PROVE  cur[w] = j /\ pc[w] # "logCompleted"
          BY <3>3, <4>2, <5>3 DEF Claim, LogStarted, Extract, ExtractFails, Complete, Fail, Goto
        <5>4. QED
          BY <1>3, <2>1, <3>1, <4>2, <5>1, <5>2, <5>3 DEF Step
      <4>3. QED
        BY <4>1, <4>2
    <3>4. QED
      BY <3>2, <3>3
  <2>3. CASE status[j] # "completed"
    <3>1. cur[w] = j /\ (Claim(w) \/ Complete(w) \/ Fail(w))
      BY <1>3, <2>3, StatusMoves
    <3>2. Complete(w)
      BY <1>0, <3>1 DEF Claim, Fail, SetStatus, TypeOK
    <3>3. pc[w] = "sleep" /\ pc'[w] = "logCompleted"
      BY <1>0, <3>2 DEF Complete, Goto, TypeOK
    <3>4. ran[j][w] > 0
      BY <3>1, <3>3 DEF RunIsStarted, InRun
    <3>5. ran'[j][w] > 0
      BY <1>3, <3>4, OthersStay
    <3>6. QED
      BY <3>3, <3>5
  <2>4. QED
    BY <2>2, <2>3
<1>4. QED
  BY <1>1, <1>2, <1>3, WhoActs

\* Nothing has run yet.
LEMMA InitOutcomeInv == Init => OutcomeInv
<1> SUFFICES ASSUME Init PROVE OutcomeInv
  OBVIOUS
<1>1. IInv
  BY InitIInv
<1>2. ASSUME NEW j \in Job PROVE Touched(j) = {} /\ Closed(j) = {}
  BY QueueAssumption DEF Init, Touched, Closed
<1>3. Abandoned = {}
  BY DEF Init, Abandoned
<1>4. \A j \in Job : IsFiniteSet(Touched(j)) /\ retryCount[j] <= Cardinality(Closed(j))
  <2> SUFFICES ASSUME NEW j \in Job
               PROVE  IsFiniteSet(Touched(j)) /\ retryCount[j] <= Cardinality(Closed(j))
    OBVIOUS
  <2>1. IsFiniteSet({}) /\ Cardinality({}) = 0
    BY FS_EmptySet
  <2>2. retryCount[j] = 0
    BY DEF Init
  <2>3. QED
    BY <1>2, <2>1, <2>2
<1>5. IsFiniteSet(Abandoned) /\ Cardinality(Abandoned) <= faults
  BY <1>3, FS_EmptySet DEF Init
<1>6. RunIsStarted /\ CompletedByWorker
  BY DEF Init, RunIsStarted, InRun, CompletedByWorker
<1>7. QED
  BY <1>1, <1>4, <1>5, <1>6 DEF OutcomeInv

\* Each part is kept by every step.
LEMMA StepOutcomeInv == OutcomeInv /\ [Next]_vars => OutcomeInv'
<1> SUFFICES ASSUME OutcomeInv, [Next]_vars PROVE OutcomeInv'
  OBVIOUS
<1>1. IInv /\ RunIsStarted
  BY DEF OutcomeInv
<1>2. IInv' /\ RunIsStarted'
  BY <1>1, StepIInv, StepRunIsStarted
<1>3. \A j \in Job : IsFiniteSet(Touched(j))' /\ (retryCount[j] <= Cardinality(Closed(j)))'
  BY <1>1, StepCounts DEF OutcomeInv
<1>4. IsFiniteSet(Abandoned') /\ Cardinality(Abandoned') <= faults'
  BY <1>1, StepAbandoned DEF OutcomeInv
<1>5. faults' = 0 => CompletedByWorker'
  BY <1>1, StepCompletedByWorker DEF OutcomeInv
<1>6. QED
  BY <1>2, <1>3, <1>4, <1>5 DEF OutcomeInv

\* The strengthened invariant holds throughout every behaviour.
LEMMA OutcomeInvariance == Spec => []OutcomeInv
BY InitOutcomeInv, StepOutcomeInv, PTL DEF Spec

-----------------------------------------------------------------------------

\* The counts an operator sees add up, for any number of workers: no job has
\* more failures than runs, and no more jobs are running in nobody's hands
\* than there were faults.
THEOREM BalanceIsKept == Spec => []AccountsBalance
<1>1. OutcomeInv => AccountsBalance
  <2> SUFFICES ASSUME OutcomeInv PROVE AccountsBalance
    OBVIOUS
  <2>0. TypeOK
    BY DEF OutcomeInv, IInv
  <2>1. ASSUME NEW j \in Job
        PROVE  retryCount[j] <= Cardinality({w \in Worker : ran[j][w] > 0})
    <3> DEFINE R == {w \in Worker : ran[j][w] > 0}
               C == Closed(j)
    <3>1. R \subseteq Touched(j) /\ C \subseteq R /\ IsFiniteSet(Touched(j))
      BY DEF Touched, Closed, OutcomeInv
    <3>2. retryCount[j] \in Nat /\ retryCount[j] <= Cardinality(C)
      BY <2>0 DEF OutcomeInv, TypeOK
    <3> HIDE DEF R, C
    <3>3. IsFiniteSet(R)
      BY <3>1, FS_Subset
    <3>4. IsFiniteSet(C) /\ Cardinality(C) <= Cardinality(R)
      BY <3>1, <3>3, FS_Subset
    <3>5. Cardinality(C) \in Nat /\ Cardinality(R) \in Nat
      BY <3>3, <3>4, FS_CardinalityType
    <3>6. retryCount[j] <= Cardinality(R)
      BY <3>2, <3>4, <3>5
    <3>7. QED
      BY <3>6 DEF R
  <2>2. StrandedCostFaults
    <3> DEFINE S == {j \in Job : status[j] = "running" /\ Holders(j) = {}}
               A == Abandoned
    <3>1. S \subseteq A
      BY DEF Abandoned, Holders
    <3>2. IsFiniteSet(A) /\ Cardinality(A) <= faults /\ faults \in Nat
      BY <2>0 DEF OutcomeInv, TypeOK
    <3> HIDE DEF S, A
    <3>3. IsFiniteSet(S) /\ Cardinality(S) <= Cardinality(A)
      BY <3>1, <3>2, FS_Subset
    <3>4. Cardinality(S) \in Nat /\ Cardinality(A) \in Nat
      BY <3>2, <3>3, FS_CardinalityType
    <3>5. Cardinality(S) <= faults
      BY <3>2, <3>3, <3>4
    <3>6. QED
      BY <3>5 DEF S, StrandedCostFaults
  <2>3. QED
    BY <2>1, <2>2 DEF AccountsBalance, RetriesAreRuns
<1>2. QED
  BY <1>1, OutcomeInvariance, PTL

\* A completed job that one worker alone took part in stays completed.
LEMMA LoneCompletionStays ==
    ASSUME OutcomeInv, [Next]_vars, NEW j \in Job, status[j] = "completed", faults = 0,
           Cardinality({w \in Worker : cur[w] = j \/ ran[j][w] > 0}) <= 1
    PROVE  status'[j] = "completed"
<1>0. IInv /\ TypeOK
  BY DEF OutcomeInv, IInv
<1>1. CASE UNCHANGED vars
  BY <1>1 DEF vars
<1>2. CASE \E k \in Job : AddJob(k)
  BY <1>0, <1>2 DEF AddJob, SetStatus, TypeOK
<1>3. ASSUME NEW w \in Worker, Step(w) \/ Crash(w), status'[j] # "completed" PROVE FALSE
  <2>1. cur[w] = j /\ (Claim(w) \/ Complete(w) \/ Fail(w))
    BY <1>0, <1>3, StatusMoves
  <2>2. pc[w] # "logCompleted"
    BY <2>1 DEF Claim, Complete, Fail, Goto
  <2>3. PICK v \in Worker : ran[j][v] > 0 /\ (cur[v] = j => pc[v] = "logCompleted")
    BY DEF OutcomeInv, CompletedByWorker
  <2>4. v # w /\ v \in Touched(j) /\ w \in Touched(j)
    BY <2>1, <2>2, <2>3 DEF Touched
  <2> DEFINE T == Touched(j)
  <2>5. IsFiniteSet(T) /\ Cardinality(T) <= 1 /\ v \in T /\ w \in T
    BY <2>4 DEF OutcomeInv, Touched
  <2> HIDE DEF T
  <2>6. IsFiniteSet({v}) /\ Cardinality({v}) = 1
    BY FS_Singleton
  <2>7. Cardinality({v}) + 1 <= Cardinality(T) /\ Cardinality(T) \in Nat
    BY <2>4, <2>5, OneMore
  <2>8. QED
    BY <2>5, <2>6, <2>7
<1>4. QED
  BY <1>1, <1>2, <1>3, WhoActs

\* What the queue says of a job is what happened to it: the counts balance,
\* and a completion that nobody else took part in is final.
THEOREM OutcomeSafety == Spec => OutcomesAreSound
<1>1. OutcomeInv /\ [Next]_vars =>
        [\A j \in Job :
            /\ status[j] = "completed"
            /\ faults = 0
            /\ Cardinality({w \in Worker : cur[w] = j \/ ran[j][w] > 0}) <= 1
            => status'[j] = "completed"]_vars
  BY LoneCompletionStays
<1>2. QED
  BY <1>1, OutcomeInvariance, BalanceIsKept, PTL DEF OutcomesAreSound, LoneCompletionIsFinal, Spec
=============================================================================
