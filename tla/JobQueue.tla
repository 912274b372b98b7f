------------------------------ MODULE JobQueue ------------------------------
(***************************************************************************)
(* The SQLite job queue and its workers (divar_bot/core/queue.py and       *)
(* worker.py; app/core has the same code): each worker process repeats     *)
(* process_next_job, which claims the most urgent pending job, extracts,   *)
(* saves the result and marks the job completed or failed.                 *)
(*                                                                         *)
(* A step is one statement that other processes can see: the SELECT of     *)
(* get_next_job runs outside the transaction of its UPDATE (Python's       *)
(* sqlite3 opens a transaction at the first UPDATE), and each call of the  *)
(* queue, the repository and the audit log is a transaction of its own.    *)
(* created_at has a resolution of a second: jobs of one priority are       *)
(* claimed in any order.                                                   *)
(***************************************************************************)
EXTENDS Naturals, FiniteSets

CONSTANTS
    Job,            \* job ids
    Worker,         \* worker processes
    NoJob,          \* in the hands of an idle worker
    Priority,       \* Job -> priority
    MaxFaults       \* bound: crashes and raising database calls

ASSUME QueueAssumption ==
    /\ NoJob \notin Job
    /\ Priority \in [Job -> Nat]
    /\ MaxFaults \in Nat

VARIABLES
    status,     \* Job -> the status column, or "absent" before add_job
    retryCount, \* Job -> the retry_count column
    results,    \* Job -> rows of extraction_results its runs inserted
    pc,         \* Worker -> where its process_next_job is
    cur,        \* Worker -> the job in its hands
    ran,        \* Job -> the workers that ran it, each as often (history)
    faults      \* faults so far (bounds the behaviour)

vars == <<status, retryCount, results, pc, cur, ran, faults>>

Status == {"absent", "pending", "running", "completed", "failed"}
ProgramPoint == {"idle", "selected", "claimed", "extract", "sleep",
                 "logCompleted", "fail", "logFailed"}

TypeOK ==
    /\ status \in [Job -> Status]
    /\ retryCount \in [Job -> Nat]
    /\ results \in [Job -> Nat]
    /\ pc \in [Worker -> ProgramPoint]
    /\ cur \in [Worker -> Job \cup {NoJob}]
    /\ \A w \in Worker : cur[w] = NoJob <=> pc[w] = "idle"
    /\ ran \in [Job -> [Worker -> Nat]]
    /\ faults \in Nat

Init ==
    /\ status = [j \in Job |-> "absent"]
    /\ retryCount = [j \in Job |-> 0]
    /\ results = [j \in Job |-> 0]
    /\ pc = [w \in Worker |-> "idle"]
    /\ cur = [w \in Worker |-> NoJob]
    /\ ran = [j \in Job |-> [w \in Worker |-> 0]]
    /\ faults = 0

-----------------------------------------------------------------------------

Goto(w, from, to) == pc[w] = from /\ pc' = [pc EXCEPT ![w] = to]

SetStatus(j, s) == status' = [status EXCEPT ![j] = s]

\* process_next_job returns or raises; the worker is ready for another call.
Leave(w) ==
    /\ pc' = [pc EXCEPT ![w] = "idle"]
    /\ cur' = [cur EXCEPT ![w] = NoJob]

Fault == faults < MaxFaults /\ faults' = faults + 1

Pending == {j \in Job : status[j] = "pending"}

-----------------------------------------------------------------------------
(* Mutants: what a plausible slip in the code would make of an action.      *)

\* A failed job put back to pending, as retry_policy.next_status would.
FailRequeues(w) ==
    /\ Goto(w, "fail", "logFailed")
    /\ SetStatus(cur[w], "pending")
    /\ retryCount' = [retryCount EXCEPT ![cur[w]] = @ + 1]
    /\ UNCHANGED <<results, cur, ran, faults>>

\* fail_job in a finally clause instead of the except clause.
FailInFinally(w) ==
    /\ Goto(w, "logCompleted", "fail")
    /\ UNCHANGED <<status, retryCount, results, cur, ran, faults>>

-----------------------------------------------------------------------------
(* QueueManager.add_job and get_next_job.                                  *)

AddJob(j) ==
    /\ status[j] = "absent"
    /\ SetStatus(j, "pending")
    /\ UNCHANGED <<retryCount, results, pc, cur, ran, faults>>

\* Mutant: no job is chosen while several share the highest priority.
MostUrgentAlone == {j \in Pending : \A k \in Pending : Priority[j] > Priority[k]}

MostUrgent == {j \in Pending : \A k \in Pending : Priority[j] >= Priority[k]}

Select(w, j) ==
    /\ j \in MostUrgent
    /\ Goto(w, "idle", "selected")
    /\ cur' = [cur EXCEPT ![w] = j]
    /\ UNCHANGED <<status, retryCount, results, ran, faults>>

\* UPDATE jobs SET status = 'running' WHERE id = ?, whatever the status is.
Claim(w) ==
    /\ Goto(w, "selected", "claimed")
    /\ SetStatus(cur[w], "running")
    /\ UNCHANGED <<retryCount, results, cur, ran, faults>>

-----------------------------------------------------------------------------
(* Worker.process_next_job.                                                *)

\* audit.log('job_started'), then the try block.
LogStarted(w) ==
    /\ Goto(w, "claimed", "extract")
    /\ ran' = [ran EXCEPT ![cur[w]][w] = @ + 1]
    /\ UNCHANGED <<status, retryCount, results, cur, faults>>

\* plugin.start, extract, stop, normalize and extraction_repository.save.
Extract(w) ==
    /\ Goto(w, "extract", "sleep")
    /\ results' = [results EXCEPT ![cur[w]] = @ + 1]
    /\ UNCHANGED <<status, retryCount, cur, ran, faults>>

ExtractFails(w) ==
    /\ Goto(w, "extract", "fail")
    /\ UNCHANGED <<status, retryCount, results, cur, ran, faults>>

\* The sleep of the speed profile, then complete_job.
Complete(w) ==
    /\ Goto(w, "sleep", "logCompleted")
    /\ SetStatus(cur[w], "completed")
    /\ UNCHANGED <<retryCount, results, cur, ran, faults>>

LogCompleted(w) ==
    /\ pc[w] = "logCompleted"
    /\ Leave(w)
    /\ UNCHANGED <<status, retryCount, results, ran, faults>>

\* complete_job or the audit of a completed job raises inside the try block.
CompletionRaises(w) ==
    /\ pc[w] \in {"sleep", "logCompleted"}
    /\ Fault
    /\ pc' = [pc EXCEPT ![w] = "fail"]
    /\ UNCHANGED <<status, retryCount, results, cur, ran>>

\* fail_job, whatever the status is.
Fail(w) ==
    /\ Goto(w, "fail", "logFailed")
    /\ SetStatus(cur[w], "failed")
    /\ retryCount' = [retryCount EXCEPT ![cur[w]] = @ + 1]
    /\ UNCHANGED <<results, cur, ran, faults>>

\* audit.log('job_failed'), then the exception leaves process_next_job.
LogFailed(w) ==
    /\ pc[w] = "logFailed"
    /\ Leave(w)
    /\ UNCHANGED <<status, retryCount, results, ran, faults>>

\* The process dies, or a database call outside the try block raises.
Crash(w) ==
    /\ pc[w] # "idle"
    /\ Fault
    /\ Leave(w)
    /\ UNCHANGED <<status, retryCount, results, ran>>

-----------------------------------------------------------------------------

Step(w) ==
    \/ \E j \in Job : Select(w, j)
    \/ Claim(w) \/ LogStarted(w) \/ Extract(w) \/ ExtractFails(w)
    \/ Complete(w) \/ LogCompleted(w) \/ CompletionRaises(w)
    \/ Fail(w) \/ LogFailed(w)

Next ==
    \/ \E j \in Job : AddJob(j)
    \/ \E w \in Worker : Step(w) \/ Crash(w)

Spec == Init /\ [][Next]_vars

\* Every worker process keeps calling process_next_job.
FairSpec == Spec /\ \A w \in Worker : WF_vars(Step(w))

-----------------------------------------------------------------------------
(* Properties.                                                             *)

Holders(j) == {w \in Worker : cur[w] = j}

\* The claim protects a job from being run again by the same worker, and a
\* job once started never waits in the queue again: even though the UPDATE of
\* get_next_job is unconditional, a job is run at most once per worker.
RunsOncePerWorker ==
    \A j \in Job : \A w \in Worker :
        /\ ran[j][w] <= 1
        /\ ran[j][w] > 0 => status[j] # "pending"

\* A completed job has left its extraction result behind, whichever of the
\* workers that raced for it completed it.
CompletedHasResult == \A j \in Job : status[j] = "completed" => results[j] > 0

\* retry_count counts failed runs: never more of them than runs.
RetriesAreRuns ==
    \A j \in Job :
        retryCount[j] <= Cardinality({w \in Worker : ran[j][w] > 0})

\* Nothing takes a job back from a worker that died (locked_until is never
\* written), and each fault strands at most one running job.
StrandedCostFaults ==
    Cardinality({j \in Job : status[j] = "running" /\ Holders(j) = {}}) <= faults

\* What is left of "Worker locking" (docs/05-queue-design.md line 11) with
\* the unconditional UPDATE: no worker runs a job twice, and whoever of those
\* that raced for a job completes it has left a result.
WorkerSafety == TypeOK /\ RunsOncePerWorker /\ CompletedHasResult

\* The counts an operator sees add up: failures are runs, and a job that is
\* running in nobody's hands was lost to a fault.
AccountsBalance == RetriesAreRuns /\ StrandedCostFaults

\* job_state_machine.py line 7, 'completed': set(), as far as the queue keeps
\* it: a completed job stays completed unless a second worker claimed it too,
\* or the audit after complete_job raised.
LoneCompletionIsFinal ==
    [][\A j \in Job :
        /\ status[j] = "completed"
        /\ faults = 0
        /\ Cardinality({w \in Worker : cur[w] = j \/ ran[j][w] > 0}) <= 1
        => status'[j] = "completed"]_vars

\* Every queued job is run, however many more urgent ones there are: it ends
\* completed or failed, or a fault strands it as running.
JobsFinish ==
    \A j \in Job :
        (status[j] = "pending") ~>
            \/ status[j] \in {"completed", "failed"}
            \/ status[j] = "running" /\ Holders(j) = {}

\* What the queue says of a job is what happened to it, in its counts and in
\* the finality of a completion.
OutcomesAreSound == []AccountsBalance /\ LoneCompletionIsFinal
=============================================================================
