----------------------------- MODULE WorkerCore -----------------------------
(***************************************************************************)
(* The worker of divar_bot/core: WorkerSupervisor.run calls, until a       *)
(* signal, what ends in WorkerRuntime.process_next, which takes one job    *)
(* from its queue, validates it, runs its plugin under a RetryPolicy and   *)
(* saves the result.  The queue, the plugins and the results are backends  *)
(* the runtime is given, external here; a call of the queue or of the      *)
(* results may raise, before or after it has taken effect (SQLite's commit *)
(* or a connection), and costs a fault then.  The queue gives a job once,  *)
(* and the pool that calls process_next survives what it raises.           *)
(***************************************************************************)
EXTENDS Naturals, FiniteSets

CONSTANTS
    Task,           \* job ids
    Idle,           \* in the hands of a worker without a job
    Tries,          \* RetryPolicy.max_attempts, 1 without a policy
    Flawed,         \* jobs whose payload has no url or is no object
    Garbled,        \* jobs whose payload is no JSON, or whose plugin is unknown
    MaxErrors       \* bound: faults of the backends and deaths

ASSUME WorkerAssumption ==
    /\ Idle \notin Task /\ Tries \in Nat \ {0} /\ MaxErrors \in Nat
    /\ Flawed \subseteq Task /\ Garbled \subseteq Task \ Flawed

VARIABLES
    state,          \* Task -> what the queue says of it
    failures,       \* Task -> fail_job calls that took effect
    kept,           \* Task -> results saved
    place,          \* where the worker is
    task,           \* the job in its hands
    try,            \* RetryPolicy's attempt
    started,        \* starts of the plugin without a stop
    signalled,      \* ShutdownManager.shutdown_requested
    requested,      \* WorkerContext.shutdown_requested
    short,          \* memory is below MemoryGuard's minimum
    late,           \* jobs taken after a request to shut down (history)
    broken,         \* attempts that raised after the plugin had started (history)
    errors          \* faults so far (bounds the behaviour)

workVars == <<state, failures, kept, place, task, try, started, signalled, requested,
              short, late, broken, errors>>
backendVars == <<state, failures, kept>>
flagVars == <<signalled, requested, short>>
pluginVars == <<try, started, broken>>

WorkerTypeOK ==
    /\ state \in [Task -> {"pending", "running", "completed", "failed"}]
    /\ place \in {"loop", "asks", "takes", "validates", "rejects", "starts", "extracts",
                  "stops", "waits", "saves", "completes", "excepts", "out"}
    /\ task \in Task \cup {Idle}
    /\ place \in {"loop", "asks", "takes", "out"} <=> task = Idle
    /\ try \in 1 .. Tries

WorkerInit ==
    /\ state = [t \in Task |-> "pending"]
    /\ failures = [t \in Task |-> 0] /\ kept = [t \in Task |-> 0]
    /\ place = "loop" /\ task = Idle /\ try = 1 /\ started = 0
    /\ signalled = FALSE /\ requested = FALSE /\ short \in BOOLEAN
    /\ late = 0 /\ broken = 0 /\ errors = 0

-----------------------------------------------------------------------------

Goes(from, to) == place = from /\ place' = to
Error == errors < MaxErrors /\ errors' = errors + 1
Release == task' = Idle /\ try' = 1

Marked(s) == state' = [state EXCEPT ![task] = s]
FailJob ==
    Marked("failed") /\ failures' = [failures EXCEPT ![task] = @ + 1] /\ UNCHANGED kept

-----------------------------------------------------------------------------
(* WorkerSupervisor.run and the checks of process_next.                    *)

Loop ==
    /\ Goes("loop", IF signalled THEN "out" ELSE "asks")
    /\ UNCHANGED <<backendVars, pluginVars, flagVars, task, late, errors>>

Check ==
    /\ Goes("asks", IF requested \/ short THEN "loop" ELSE "takes")
    /\ UNCHANGED <<backendVars, pluginVars, flagVars, task, late, errors>>

Claimed(t) == state[t] = "pending" /\ state' = [state EXCEPT ![t] = "running"]

Take ==
    /\ \/ /\ \A t \in Task : state[t] # "pending"
          /\ Goes("takes", "loop") /\ UNCHANGED <<state, task, late>>
       \/ \E t \in Task :
              /\ Goes("takes", "validates") /\ Claimed(t) /\ task' = t
              /\ late' = IF signalled \/ requested THEN late + 1 ELSE late
    /\ UNCHANGED <<failures, kept, pluginVars, flagVars, errors>>

\* get_next_job raises and leaves process_next: the job may be claimed.
TakeRaises ==
    /\ Goes("takes", "loop") /\ Error
    /\ UNCHANGED state \/ \E t \in Task : Claimed(t)
    /\ UNCHANGED <<failures, kept, pluginVars, flagVars, task, late>>

\* json.loads, PayloadValidator.validate and get_plugin.
Validate ==
    /\ place = "validates"
    /\ place' = IF task \in Flawed THEN "rejects" ELSE IF task \in Garbled THEN "excepts" ELSE "starts"
    /\ UNCHANGED <<backendVars, pluginVars, flagVars, task, late, errors>>

\* fail_job of an invalid payload, inside the try block.
Reject ==
    /\ place = "rejects" /\ FailJob /\ UNCHANGED <<started, broken, flagVars, late>>
    /\ \/ Goes("rejects", "loop") /\ Release /\ UNCHANGED errors
       \/ Goes("rejects", "excepts") /\ Error /\ UNCHANGED <<task, try>>

-----------------------------------------------------------------------------
(* RetryPolicy.execute of extraction_operation.                            *)

StartPlugin ==
    /\ Goes("starts", "extracts") /\ started' = started + 1
    /\ UNCHANGED <<backendVars, flagVars, task, try, late, broken, errors>>

ExtractTask ==
    /\ Goes("extracts", "stops")
    /\ UNCHANGED <<backendVars, pluginVars, flagVars, task, late, errors>>

StopPlugin ==
    /\ Goes("stops", "saves") /\ started' = started - 1
    /\ UNCHANGED <<backendVars, flagVars, task, try, late, broken, errors>>

\* start, extract or stop raises: the plugin is left as it is.
AttemptRaises ==
    /\ place \in {"starts", "extracts", "stops"}
    /\ broken' = IF place = "starts" THEN broken ELSE broken + 1
    /\ IF try < Tries THEN place' = "waits" /\ try' = try + 1
                      ELSE place' = "excepts" /\ UNCHANGED try
    /\ UNCHANGED <<backendVars, flagVars, task, started, late, errors>>

Waited ==
    /\ Goes("waits", "starts")
    /\ UNCHANGED <<backendVars, pluginVars, flagVars, task, late, errors>>

-----------------------------------------------------------------------------

\* results.save; if it raises, the row may be there.
Save ==
    /\ \/ Goes("saves", "completes") /\ UNCHANGED errors /\ kept' = [kept EXCEPT ![task] = @ + 1]
       \/ /\ Goes("saves", "excepts") /\ Error
          /\ kept' \in {kept, [kept EXCEPT ![task] = @ + 1]}
    /\ UNCHANGED <<state, failures, pluginVars, flagVars, task, late>>

\* Mutant: the job is completed before its result is saved.
CompleteAnyway ==
    /\ \/ Goes("completes", "loop") /\ Marked("completed") /\ Release /\ UNCHANGED errors
       \/ Goes("saves", "completes") /\ UNCHANGED <<state, task, try, errors>>
    /\ UNCHANGED <<failures, kept, started, broken, flagVars, late>>

\* complete_job; if it raises, the job may be completed, and is failed next.
Complete ==
    /\ \/ Goes("completes", "loop") /\ Marked("completed") /\ Release /\ UNCHANGED errors
       \/ /\ Goes("completes", "excepts") /\ Error /\ UNCHANGED <<task, try>>
          /\ (Marked("completed") \/ UNCHANGED state)
    /\ UNCHANGED <<failures, kept, started, broken, flagVars, late>>

\* The except clause; an exception of this fail_job leaves process_next.
Except ==
    /\ Goes("excepts", "loop") /\ Release
    /\ \/ FailJob /\ UNCHANGED errors
       \/ Error /\ (FailJob \/ UNCHANGED backendVars)
    /\ UNCHANGED <<started, broken, flagVars, late>>

\* The process dies with its plugins; another is started.
Dies ==
    /\ place # "loop" /\ Error /\ place' = "loop" /\ Release
    /\ started' = 0 /\ broken' = 0 /\ signalled' = FALSE /\ requested' = FALSE /\ late' = 0
    /\ UNCHANGED <<backendVars, short>>

Signalled == ~signalled /\ signalled' = TRUE /\ UNCHANGED <<requested, short>>
Requested == ~requested /\ requested' = TRUE /\ UNCHANGED <<signalled, short>>
MemoryMoves == short' = ~short /\ UNCHANGED <<signalled, requested>>

WorkerNext ==
    \/ Loop \/ Check \/ Take \/ TakeRaises \/ Validate \/ Reject
    \/ StartPlugin \/ ExtractTask \/ StopPlugin \/ AttemptRaises \/ Waited
    \/ Save \/ Complete \/ Except \/ Dies
    \/ /\ Signalled \/ Requested \/ MemoryMoves
       /\ UNCHANGED <<backendVars, pluginVars, place, task, late, errors>>

WorkerSpec == WorkerInit /\ [][WorkerNext]_workVars

-----------------------------------------------------------------------------
(* Properties.                                                             *)

\* A completed job has left a result; one that failed after its result was
\* saved, or was failed more than once, or is running in nobody's hands, was
\* so by a fault, each fault doing it to one job.  A request to shut down lets
\* at most the job in transit be taken.  And the only starts of a plugin that
\* are never stopped are those of attempts that raised, at most one each.
WorkIsAccounted ==
    /\ WorkerTypeOK
    /\ \A t \in Task :
           /\ state[t] = "completed" => kept[t] > 0
           /\ failures[t] <= 1 + errors
    /\ errors >= Cardinality({t \in Task :
           \/ state[t] = "failed" /\ kept[t] > 0
           \/ failures[t] > 1
           \/ state[t] = "running" /\ task # t})
    /\ late <= 1
    /\ place = "loop" => started <= broken

=============================================================================
