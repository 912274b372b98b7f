---------------------------- MODULE DurableJobs ----------------------------
(***************************************************************************)
(* The durable job runtime of divar_bot/infra: a group of workers reads    *)
(* topics of Kafka (consume() the jobs topic, consumer(topics) the retry   *)
(* topic too), and each worker carries one event at a time through         *)
(* DurableJobRuntime.process_event (durable_job_runtime.py), called from   *)
(* DivarRuntimeWorker.process (runtime_worker.py).  A step of the module   *)
(* is the code between two calls that leave the process: a WAL append, a   *)
(* Redis call, a publish, the handler, an offset commit.                   *)
(*                                                                         *)
(* The consumer group (one owner per topic, offsets, eviction of a slow    *)
(* member, redelivery from the committed offset) is Kafka's and is modelled*)
(* from how kafka_adapter.py uses it.  An exception that leaves            *)
(* process_event ends the worker's consume loop, so it is a Crash.         *)
(***************************************************************************)
EXTENDS Naturals, Sequences, FiniteSets

CONSTANTS
    Job,            \* event ids that producers publish
    Worker,         \* worker processes of the consumer group
    Nobody,         \* owner of a topic that no worker is assigned
    Subscribed,     \* topics the workers' consumers subscribe to: jobs alone,
                    \* unless a caller gives KafkaAdapter.consumer() a list
    Drainers,       \* workers an operator may put into draining
    MaxAttempts,    \* RetryPolicy.max_attempts
    MaxFaults,      \* bound: environment faults in a behaviour
    MaxLimited      \* bound: the rate limiter denies an event only while
                    \* the retry topic is shorter than this

Topic == {"jobs", "retry"}

ASSUME ConstantsAssumption ==
    /\ Nobody \notin Worker
    /\ IsFiniteSet(Worker)
    /\ Subscribed \subseteq Topic
    /\ Drainers \subseteq Worker
    /\ MaxAttempts \in Nat \ {0}
    /\ MaxFaults \in Nat
    /\ MaxLimited \in Nat

VARIABLES
    log,        \* Topic -> the events published to it, in offset order
    owner,      \* Topic -> the worker it is assigned to
    position,   \* Topic -> offset of the last event yielded to the owner
    committed,  \* Topic -> offset of the last event the group committed
    pc,         \* Worker -> where its process_event call is
    cur,        \* Worker -> topic and offset of the event in its hands
    draining,   \* Worker -> whether its drain marker file exists
    processed,  \* jobs with an idempotency key in Redis
    wal,        \* durable WAL records
    dlq,        \* jobs published to the dead-letter topic
    executed,   \* Job -> completed runs of the handler (history)
    skipped,    \* events dropped by a draining worker (history)
    faults      \* environment faults so far (bounds the behaviour)

kafkaVars == <<log, owner, position, committed>>
vars == <<kafkaVars, pc, cur, draining, processed, wal, dlq, executed,
          skipped, faults>>

Event == [job : Job, attempt : Nat \ {0}]
Place == [topic : Topic, offset : Nat]
Kind == {"received", "duplicate", "limited", "completed", "failed", "retry",
         "dead"}
Record == [job : Job, kind : Kind, attempt : Nat]
ProgramPoint == {"poll", "received", "checked", "duplicate", "limited", "run",
                 "mark", "complete", "commitDone", "failed", "route",
                 "routed", "commit"}

NoPlace == [topic |-> "jobs", offset |-> 0]

TypeOK ==
    /\ log \in [Topic -> Seq(Event)]
    /\ owner \in [Topic -> Worker \cup {Nobody}]
    /\ position \in [Topic -> Nat]
    /\ committed \in [Topic -> Nat]
    /\ pc \in [Worker -> ProgramPoint]
    /\ cur \in [Worker -> Place]
    /\ draining \in [Worker -> BOOLEAN]
    /\ processed \subseteq Job
    /\ wal \subseteq Record
    /\ dlq \subseteq Job
    /\ executed \in [Job -> Nat]
    /\ skipped \subseteq Place
    /\ faults \in Nat

Init ==
    /\ log = [t \in Topic |-> <<>>]
    /\ owner = [t \in Topic |-> Nobody]
    /\ position = [t \in Topic |-> 0]
    /\ committed = [t \in Topic |-> 0]
    /\ pc = [w \in Worker |-> "poll"]
    /\ cur = [w \in Worker |-> NoPlace]
    /\ draining = [w \in Worker |-> FALSE]
    /\ processed = {}
    /\ wal = {}
    /\ dlq = {}
    /\ executed = [j \in Job |-> 0]
    /\ skipped = {}
    /\ faults = 0

-----------------------------------------------------------------------------
(* Operators shared by the actions.                                        *)

EventAt(p) == log[p.topic][p.offset]
Current(w) == EventAt(cur[w])

\* The worker moves from one point of process_event to another.
Goto(w, from, to) == pc[w] = from /\ pc' = [pc EXCEPT ![w] = to]

\* The record about an event; those of duplicate and limited events do not
\* name the attempt, the one of a retry names it as the next one less one.
RecordOf(e, kind) ==
    [job |-> e.job, kind |-> kind,
     attempt |-> IF kind \in {"duplicate", "limited"} THEN 0 ELSE e.attempt]

\* WalRecovery.append of one record about the current event.
Append1(w, kind) == wal' = wal \cup {RecordOf(Current(w), kind)}

WithAttempt(e, n) == [job |-> e.job, attempt |-> n]

\* KafkaAdapter.publish: returns once the broker acknowledged the event.
Publish(t, e) == log' = [log EXCEPT ![t] = Append(@, e)]

\* One more fault of the environment, while the bound allows it.
Fault == faults < MaxFaults /\ faults' = faults + 1

\* already_processed answers FALSE: no key, or Redis failed.
NotSeen(w) ==
    \/ Current(w).job \notin processed /\ UNCHANGED faults
    \/ Current(w).job \in processed /\ Fault

\* The worker returns to its consume loop.
BackToLoop(w) ==
    /\ pc' = [pc EXCEPT ![w] = "poll"]
    /\ cur' = [cur EXCEPT ![w] = NoPlace]

\* Kafka revokes every topic of a member that left or was thrown out.
Revoke(w) ==
    owner' = [t \in Topic |-> IF owner[t] = w THEN Nobody ELSE owner[t]]

-----------------------------------------------------------------------------
(* Mutants: what a plausible slip in the code would make of an action.      *)

\* _handle_failure that forgets to publish the retry event.
RetryNotPublished(w) ==
    /\ Goto(w, "route", "routed")
    /\ Current(w).attempt < MaxAttempts
    /\ UNCHANGED <<kafkaVars, cur, draining, processed, wal, dlq, executed,
                   skipped, faults>>

\* Routing a limited or failed event without a record of it.
OutcomeNotLogged(w) ==
    /\ pc[w] \in {"duplicate", "limited", "routed"}
    /\ pc' = [pc EXCEPT ![w] = "commit"]
    /\ UNCHANGED <<kafkaVars, cur, draining, processed, wal, dlq, executed,
                   skipped, faults>>

\* mark_processed that never reaches Redis.
MarkNothing(w) ==
    /\ Goto(w, "mark", "complete")
    /\ UNCHANGED <<kafkaVars, cur, draining, processed, wal, dlq, executed,
                   skipped, faults>>

\* The last attempt taken one too early.
DeadLetterTooEarly(w) ==
    /\ Goto(w, "route", "routed")
    /\ Current(w).attempt + 1 >= MaxAttempts
    /\ dlq' = dlq \cup {Current(w).job}
    /\ UNCHANGED <<kafkaVars, cur, draining, processed, wal, executed, skipped,
                   faults>>

\* A dead-letter topic that keeps only its newest event.
DeadLetterReplaces(w) ==
    /\ Goto(w, "route", "routed")
    /\ Current(w).attempt >= MaxAttempts
    /\ dlq' = {Current(w).job}
    /\ UNCHANGED <<kafkaVars, cur, draining, processed, wal, executed, skipped,
                   faults>>

-----------------------------------------------------------------------------
(* The environment: producers, the group coordinator, operators, crashes.  *)

PublishJob(j) ==
    /\ \A o \in 1 .. Len(log["jobs"]) : log["jobs"][o].job # j
    /\ Publish("jobs", [job |-> j, attempt |-> 1])
    /\ UNCHANGED <<owner, position, committed, pc, cur, draining, processed,
                   wal, dlq, executed, skipped, faults>>

\* A worker in its loop is given a topic without an owner; its position
\* starts at the group's committed offset.
Assign(w, t) ==
    /\ pc[w] = "poll"
    /\ owner[t] = Nobody
    /\ t \in Subscribed
    /\ owner' = [owner EXCEPT ![t] = w]
    /\ position' = [position EXCEPT ![t] = committed[t]]
    /\ UNCHANGED <<log, committed, pc, cur, draining, processed, wal, dlq,
                   executed, skipped, faults>>

\* The coordinator drops a member that stayed too long with one event.
Evict(w) ==
    /\ pc[w] # "poll"
    /\ \E t \in Topic : owner[t] = w
    /\ Fault
    /\ Revoke(w)
    /\ UNCHANGED <<log, position, committed, pc, cur, draining, processed,
                   wal, dlq, executed, skipped>>

\* The process dies, or an exception leaves process_event: nothing of the
\* call survives but what was already durable.
Die(w) ==
    /\ Revoke(w)
    /\ BackToLoop(w)
    /\ UNCHANGED <<log, position, committed, draining, processed, wal, dlq,
                   executed, skipped>>

Crash(w) ==
    /\ pc[w] # "poll" \/ \E t \in Topic : owner[t] = w
    /\ Fault
    /\ Die(w)

StartDraining(w) ==
    /\ w \in Drainers
    /\ ~draining[w]
    /\ draining' = [draining EXCEPT ![w] = TRUE]
    /\ UNCHANGED <<kafkaVars, pc, cur, processed, wal, dlq, executed, skipped,
                   faults>>

StopDraining(w) ==
    /\ draining[w]
    /\ draining' = [draining EXCEPT ![w] = FALSE]
    /\ UNCHANGED <<kafkaVars, pc, cur, processed, wal, dlq, executed, skipped,
                   faults>>

\* The idempotency key lives for a day (mark_processed sets a TTL).
ExpireKey(j) ==
    /\ j \in processed
    /\ Fault
    /\ processed' = processed \ {j}
    /\ UNCHANGED <<kafkaVars, pc, cur, draining, wal, dlq, executed, skipped>>

-----------------------------------------------------------------------------
(* DivarRuntimeWorker.process and DurableJobRuntime.process_event.         *)

\* The consumer yields the next event of an assigned topic.
Receive(w, t) ==
    /\ owner[t] = w
    /\ position[t] < Len(log[t])
    /\ Goto(w, "poll", "received")
    /\ position' = [position EXCEPT ![t] = @ + 1]
    /\ cur' = [cur EXCEPT ![w] = [topic |-> t, offset |-> position[t] + 1]]
    /\ UNCHANGED <<log, owner, committed, draining, processed, wal, dlq,
                   executed, skipped, faults>>

\* A draining worker returns without processing and without committing.
SkipWhileDraining(w) ==
    /\ pc[w] = "received"
    /\ draining[w]
    /\ skipped' = skipped \cup {cur[w]}
    /\ BackToLoop(w)
    /\ UNCHANGED <<kafkaVars, draining, processed, wal, dlq, executed, faults>>

AppendReceived(w) ==
    /\ ~draining[w]
    /\ Goto(w, "received", "checked")
    /\ Append1(w, "received")
    /\ UNCHANGED <<kafkaVars, cur, draining, processed, dlq, executed, skipped,
                   faults>>

\* already_processed answers TRUE only when Redis holds the key.
CheckDuplicate(w) ==
    /\ Goto(w, "checked", "duplicate")
    /\ Current(w).job \in processed
    /\ UNCHANGED <<kafkaVars, cur, draining, processed, wal, dlq, executed,
                   skipped, faults>>

\* The rate limiter either admits an event that was not seen ...
Admit(w) ==
    /\ Goto(w, "checked", "run")
    /\ NotSeen(w)
    /\ UNCHANGED <<kafkaVars, cur, draining, processed, wal, dlq, executed,
                   skipped>>

\* ... or not, and the event goes to the retry topic with the same attempt.
RouteLimited(w) ==
    /\ Goto(w, "checked", "limited")
    /\ NotSeen(w)
    /\ Len(log["retry"]) < MaxLimited
    /\ Publish("retry", WithAttempt(Current(w), Current(w).attempt))
    /\ UNCHANGED <<owner, position, committed, cur, draining, processed, wal,
                   dlq, executed, skipped>>

HandlerSucceeds(w) ==
    /\ Goto(w, "run", "mark")
    /\ executed' = [executed EXCEPT ![Current(w).job] = @ + 1]
    /\ UNCHANGED <<kafkaVars, cur, draining, processed, wal, dlq, skipped,
                   faults>>

HandlerFails(w) ==
    /\ Goto(w, "run", "failed")
    /\ UNCHANGED <<kafkaVars, cur, draining, processed, wal, dlq, executed,
                   skipped, faults>>

\* mark_processed swallows every Redis error.
MarkProcessed(w) ==
    /\ Goto(w, "mark", "complete")
    /\ \/ processed' = processed \cup {Current(w).job} /\ UNCHANGED faults
       \/ Fault /\ UNCHANGED processed
    /\ UNCHANGED <<kafkaVars, cur, draining, wal, dlq, executed, skipped>>

AppendCompleted(w) ==
    /\ Goto(w, "complete", "commitDone")
    /\ Append1(w, "completed")
    /\ UNCHANGED <<kafkaVars, cur, draining, processed, dlq, executed, skipped,
                   faults>>

\* The WAL append or the commit after a successful handler raises: the same
\* except clause that catches handler errors takes the event to
\* _handle_failure.  The commit of an evicted member always raises.
SuccessPathRaises(w) ==
    /\ \/ pc[w] \in {"complete", "commitDone"} /\ Fault
       \/ pc[w] = "commitDone" /\ owner[cur[w].topic] # w /\ UNCHANGED faults
    /\ pc' = [pc EXCEPT ![w] = "failed"]
    /\ UNCHANGED <<kafkaVars, cur, draining, processed, wal, dlq, executed,
                   skipped>>

AppendFailed(w) ==
    /\ Goto(w, "failed", "route")
    /\ Append1(w, "failed")
    /\ UNCHANGED <<kafkaVars, cur, draining, processed, dlq, executed, skipped,
                   faults>>

RouteDeadLetter(w) ==
    /\ Goto(w, "route", "routed")
    /\ Current(w).attempt >= MaxAttempts
    /\ dlq' = dlq \cup {Current(w).job}
    /\ UNCHANGED <<kafkaVars, cur, draining, processed, wal, executed, skipped,
                   faults>>

RouteRetry(w) ==
    /\ Goto(w, "route", "routed")
    /\ Current(w).attempt < MaxAttempts
    /\ Publish("retry", WithAttempt(Current(w), Current(w).attempt + 1))
    /\ UNCHANGED <<owner, position, committed, cur, draining, processed, wal,
                   dlq, executed, skipped, faults>>

\* The WAL record of where the event went, written after the publish.
OutcomeKind(w) ==
    IF pc[w] # "routed" THEN pc[w]
    ELSE IF Current(w).attempt >= MaxAttempts THEN "dead" ELSE "retry"

AppendOutcome(w) ==
    /\ pc[w] \in {"duplicate", "limited", "routed"}
    /\ pc' = [pc EXCEPT ![w] = "commit"]
    /\ Append1(w, OutcomeKind(w))
    /\ UNCHANGED <<kafkaVars, cur, draining, processed, dlq, executed, skipped,
                   faults>>

\* consumer.commit(): the positions of every topic the member owns.
Commit(w) ==
    /\ pc[w] \in {"commitDone", "commit"}
    /\ owner[cur[w].topic] = w
    /\ committed' = [t \in Topic |->
                        IF owner[t] = w THEN position[t] ELSE committed[t]]
    /\ BackToLoop(w)
    /\ UNCHANGED <<log, owner, position, draining, processed, wal, dlq,
                   executed, skipped, faults>>

\* Outside the try block the CommitFailedError of an evicted member leaves
\* process_event.
CommitRejected(w) ==
    /\ pc[w] = "commit"
    /\ owner[cur[w].topic] # w
    /\ Die(w)
    /\ UNCHANGED faults

-----------------------------------------------------------------------------

ProcessEvent(w) ==
    \/ SkipWhileDraining(w) \/ AppendReceived(w) \/ CheckDuplicate(w)
    \/ Admit(w) \/ RouteLimited(w) \/ HandlerSucceeds(w) \/ HandlerFails(w)
    \/ MarkProcessed(w) \/ AppendCompleted(w) \/ SuccessPathRaises(w)
    \/ AppendFailed(w) \/ RouteDeadLetter(w) \/ RouteRetry(w)
    \/ AppendOutcome(w) \/ Commit(w) \/ CommitRejected(w)

Next ==
    \/ \E j \in Job : PublishJob(j) \/ ExpireKey(j)
    \/ \E w \in Worker :
        \/ \E t \in Topic : Assign(w, t) \/ Receive(w, t)
        \/ Evict(w) \/ Crash(w) \/ StartDraining(w) \/ StopDraining(w)
        \/ ProcessEvent(w)

Spec == Init /\ [][Next]_vars

\* The scheduling the runtime relies on: a running worker keeps running, the
\* coordinator assigns the jobs topic when it is free, and does not starve it
\* of readers.  Nothing is asked for the retry topic: consume() does not
\* subscribe to it.
Fairness ==
    /\ \A w \in Worker : WF_vars(ProcessEvent(w))
    /\ WF_vars(\E w \in Worker : Assign(w, "jobs"))
    /\ SF_vars(\E w \in Worker : Receive(w, "jobs"))

FairSpec == Spec /\ Fairness

-----------------------------------------------------------------------------
(* Properties.                                                             *)

\* The event at offset o of topic t has gone somewhere: its handler ran to
\* completion, it is dead-lettered, or a later copy waits in the retry topic.
Routed(t, o) ==
    LET j == log[t][o].job IN
    \/ executed[j] > 0
    \/ j \in dlq
    \/ \E r \in 1 .. Len(log["retry"]) :
            log["retry"][r].job = j /\ (t = "retry" => r > o)

\* Contract item 7 of durable_job_runtime.py (lines 8-15), as far as the code
\* keeps it: a committed offset covers only events that were routed, or that
\* a draining worker had dropped.
CommittedIsAccounted ==
    \A t \in Topic : \A o \in 1 .. committed[t] :
        Routed(t, o) \/ [topic |-> t, offset |-> o] \in skipped

\* No job is ever lost: a published job was executed, dead-lettered, dropped
\* by a draining worker, or an event of it is still to be read by the group.
NoJobLost ==
    \A o \in 1 .. Len(log["jobs"]) :
        LET j == log["jobs"][o].job IN
        \/ executed[j] > 0 \/ j \in dlq
        \/ \E p \in skipped : EventAt(p).job = j
        \/ \E t \in Topic : \E u \in committed[t] + 1 .. Len(log[t]) :
                log[t][u].job = j

\* Recovery from the WAL: every committed offset that was not dropped has a
\* terminal record (completed, duplicate, limited, retry or dead) in the WAL,
\* of its attempt where the record names one, after the job_received record.
CommittedIsLogged ==
    \A t \in Topic : \A o \in 1 .. committed[t] :
        LET e == log[t][o]
            Logged(kinds) == \E k \in kinds : RecordOf(e, k) \in wal
        IN  \/ [topic |-> t, offset |-> o] \in skipped
            \/ /\ Logged({"received"})
               /\ Logged({"completed", "duplicate", "limited", "retry", "dead"})

\* At-least-once with idempotent protection (durable_job_runtime.py 17-19): a
\* handler that completed runs again only if the environment failed, and one
\* failure of the environment costs at most one more run.
RerunsCostFaults == \A j \in Job : executed[j] <= 1 + faults

\* A job reaches the dead-letter topic only after every attempt of it, from
\* the first to the last, was logged as failed.
DeadLetterHasHistory ==
    \A j \in dlq : \A a \in 1 .. MaxAttempts :
        [job |-> j, kind |-> "failed", attempt |-> a] \in wal

\* "Publish a poisoned event" (kafka_adapter.py line 177): a job is both
\* completed and dead-lettered only if a fault let two copies of it run, or
\* made the append or commit after its handler raise.
BuriedAliveCostsFault == \A j \in dlq : executed[j] > 0 => faults > 0

\* What an operator who reads the dead-letter topic relies on: its events are
\* well-formed, each was tried as often as the retry policy says, and none of
\* them had succeeded, unless a fault is to blame.
DeadLettersAreJustified ==
    TypeOK /\ DeadLetterHasHistory /\ BuriedAliveCostsFault

\* The runtime implements the delivery promise of JobDelivery: finished jobs
\* are those whose handler completed, buried ones those in the DLQ topic.
Submitted == {log["jobs"][o].job : o \in 1 .. Len(log["jobs"])}
Finished == {j \in Job : executed[j] > 0}

Delivery == INSTANCE JobDelivery
                WITH submitted <- Submitted, finished <- Finished,
                     buried <- dlq

DeliverySpec == Delivery!Spec

Settled(j) == executed[j] > 0 \/ j \in dlq

\* An event of the job is in the retry topic and the group has not committed
\* it: whoever reads that topic will find it.
WaitsForRetry(j) ==
    \E o \in committed["retry"] + 1 .. Len(log["retry"]) : log["retry"][o].job = j

\* A draining worker met an event of the job.
DroppedByDraining(j) == \E p \in skipped : EventAt(p).job = j

\* No published job stays behind in the jobs topic: through evictions, crashes
\* and refused commits it is executed or dead-lettered, or an event of it
\* waits in the retry topic, which nobody need ever read, or was dropped by a
\* draining worker.
JobsAreTaken ==
    \A j \in Job : (j \in Submitted) ~>
        (Settled(j) \/ WaitsForRetry(j) \/ DroppedByDraining(j))

\* "Jobs that fail repeatedly must move into a dead-letter queue for manual
\* investigation" (docs/05-queue-design.md line 47): every job comes to one of
\* its ends, and none stays between its first failure and the next attempt.
JobsAreSettled == \A j \in Job : (j \in Submitted) ~> Settled(j)

\* Whatever workers and brokers do, no job is lost from the topics, nor its
\* outcome from the WAL.
JobsAreKept == NoJobLost /\ CommittedIsLogged
=============================================================================
