------------------------- MODULE DurableJobs_proofs -------------------------
(***************************************************************************)
(* Proofs about DurableJobs for every set of jobs and workers, every       *)
(* attempt limit and any number of faults.                                 *)
(***************************************************************************)
EXTENDS DurableJobs, FiniteSetTheorems, WellFoundedInduction, TLAPS

-----------------------------------------------------------------------------
(* The inductive invariant behind CommittedIsAccounted.                    *)

\* A worker inside process_event holds an event of the log.
CurInLog ==
    \A w \in Worker : pc[w] # "poll" =>
        cur[w].offset \in 1 .. Len(log[cur[w].topic])

\* Offsets stay within the log, and an owner never reads behind the group.
OffsetsInLog ==
    \A t \in Topic :
        /\ committed[t] <= Len(log[t])
        /\ owner[t] # Nobody => /\ committed[t] <= position[t]
                                /\ position[t] <= Len(log[t])

Accounted(t, o) == Routed(t, o) \/ [topic |-> t, offset |-> o] \in skipped

\* Whatever an owner has read of a topic is accounted for, but for the one
\* event it still has in its hands.
ReadIsAccounted ==
    \A t \in Topic : \A w \in Worker : owner[t] = w =>
        \A o \in 1 .. position[t] :
            \/ Accounted(t, o)
            \/ pc[w] # "poll" /\ cur[w] = [topic |-> t, offset |-> o]

\* Beyond these points of process_event the event in hand has been routed.
SettledPoint == {"duplicate", "limited", "mark", "complete", "commitDone",
                 "routed", "commit"}

SettledIsRouted ==
    \A w \in Worker : pc[w] \in SettledPoint => Routed(cur[w].topic, cur[w].offset)

\* A Redis key is only ever written after the handler completed.
KeyImpliesRun == \A j \in processed : executed[j] > 0

\* The key of the event in hand is only written once its handler completed.
MarkAfterRun ==
    \A w \in Worker : pc[w] = "mark" => executed[Current(w).job] > 0

IInv ==
    /\ TypeOK
    /\ CurInLog
    /\ MarkAfterRun
    /\ OffsetsInLog
    /\ ReadIsAccounted
    /\ SettledIsRouted
    /\ KeyImpliesRun
    /\ CommittedIsAccounted

\* Nothing that makes an event accounted for is ever taken back.
Grows ==
    /\ \A t \in Topic :
        /\ Len(log[t]) \in Nat
        /\ Len(log'[t]) \in Nat
        /\ Len(log[t]) <= Len(log'[t])
        /\ \A o \in 1 .. Len(log[t]) : log'[t][o] = log[t][o]
    /\ \A j \in Job : executed[j] \in Nat /\ executed'[j] \in Nat
                        /\ executed[j] <= executed'[j]
    /\ dlq \subseteq dlq'
    /\ skipped \subseteq skipped'

-----------------------------------------------------------------------------

\* The event a busy worker holds is an event.
LEMMA CurrentIsEvent ==
    ASSUME TypeOK, CurInLog, NEW w \in Worker, pc[w] # "poll"
    PROVE  /\ Current(w) \in Event
           /\ Current(w).job \in Job
           /\ Current(w).attempt \in Nat \ {0}
           /\ cur[w].topic \in Topic
           /\ cur[w] = [topic |-> cur[w].topic, offset |-> cur[w].offset]
<1>1. cur[w] \in Place
  BY DEF TypeOK
<1>2. cur[w].topic \in Topic /\ cur[w] = [topic |-> cur[w].topic, offset |-> cur[w].offset]
  BY <1>1 DEF Place
<1>3. cur[w].offset \in 1 .. Len(log[cur[w].topic])
  BY DEF CurInLog
<1>4. log[cur[w].topic] \in Seq(Event)
  BY <1>2 DEF TypeOK
<1>5. Current(w) \in Event
  BY <1>3, <1>4 DEF Current, EventAt
<1>6. QED
  BY <1>2, <1>5 DEF Event

\* Appending to one topic keeps every topic a sequence of events and every
\* offset that was there.
LEMMA PublishGrows ==
    ASSUME TypeOK, NEW t \in Topic, NEW e \in Event, Publish(t, e)
    PROVE  /\ log' \in [Topic -> Seq(Event)]
           /\ Len(log'[t]) = Len(log[t]) + 1
           /\ log'[t][Len(log[t]) + 1] = e
           /\ \A u \in Topic :
                /\ Len(log[u]) \in Nat
                /\ Len(log'[u]) \in Nat
                /\ Len(log[u]) <= Len(log'[u])
                /\ u # t => log'[u] = log[u]
                /\ \A o \in 1 .. Len(log[u]) : log'[u][o] = log[u][o]
<1>1. log'[t] = Append(log[t], e) /\ log[t] \in Seq(Event)
  BY DEF Publish, TypeOK
<1>2. \A u \in Topic : u # t => log'[u] = log[u]
  BY DEF Publish, TypeOK
<1>3. \A u \in Topic : log[u] \in Seq(Event) /\ Len(log[u]) \in Nat
  BY DEF TypeOK
<1>4. /\ Append(log[t], e) \in Seq(Event)
      /\ Len(Append(log[t], e)) = Len(log[t]) + 1
      /\ Append(log[t], e)[Len(log[t]) + 1] = e
      /\ \A o \in 1 .. Len(log[t]) : Append(log[t], e)[o] = log[t][o]
  BY <1>1
<1>5. log' \in [Topic -> Seq(Event)]
  BY <1>1, <1>4 DEF Publish, TypeOK
<1>6. QED
  BY <1>1, <1>2, <1>3, <1>4, <1>5

-----------------------------------------------------------------------------
(* Type correctness.                                                       *)

\* A group that has processed nothing is well typed.
LEMMA InitTypeOK == Init => TypeOK /\ CurInLog
<1> SUFFICES ASSUME Init PROVE TypeOK /\ CurInLog
  OBVIOUS
<1>1. <<>> \in Seq(Event)
  OBVIOUS
<1>2. TypeOK
  BY <1>1 DEF Init, TypeOK, ProgramPoint, Place, NoPlace, Topic
<1>3. CurInLog
  BY DEF Init, CurInLog
<1>4. QED
  BY <1>2, <1>3

\* Every step keeps the types, and the event in every hand in the log.
LEMMA StepTypeOK == TypeOK /\ CurInLog /\ [Next]_vars => TypeOK' /\ CurInLog'
<1> SUFFICES ASSUME TypeOK, CurInLog, [Next]_vars PROVE TypeOK' /\ CurInLog'
  OBVIOUS
<1> USE DEF TypeOK, ProgramPoint
<1>1. CASE UNCHANGED vars
  BY <1>1 DEF vars, kafkaVars, CurInLog
<1>2. ASSUME NEW j \in Job, PublishJob(j) PROVE TypeOK' /\ CurInLog'
  <2>1. [job |-> j, attempt |-> 1] \in Event /\ "jobs" \in Topic
    BY DEF Event, Topic
  <2>2. Publish("jobs", [job |-> j, attempt |-> 1])
    BY <1>2 DEF PublishJob
  <2>3. log' \in [Topic -> Seq(Event)] /\ \A u \in Topic : Len(log[u]) \in Nat /\ Len(log'[u]) \in Nat /\ Len(log[u]) <= Len(log'[u])
    BY <2>1, <2>2, PublishGrows
  <2>4. TypeOK'
    BY <1>2, <2>3 DEF PublishJob
  <2>5. CurInLog'
    BY <1>2, <2>3 DEF PublishJob, CurInLog, Place
  <2>6. QED
    BY <2>4, <2>5
<1>3. ASSUME NEW j \in Job, ExpireKey(j) PROVE TypeOK' /\ CurInLog'
  BY <1>3 DEF ExpireKey, Fault, kafkaVars, CurInLog
<1>4. ASSUME NEW w \in Worker, NEW t \in Topic, Assign(w, t) PROVE TypeOK' /\ CurInLog'
  BY <1>4 DEF Assign, CurInLog
<1>5. ASSUME NEW w \in Worker, NEW t \in Topic, Receive(w, t) PROVE TypeOK' /\ CurInLog'
  <2>1. log[t] \in Seq(Event) /\ Len(log[t]) \in Nat /\ position[t] \in Nat
    OBVIOUS
  <2>2. cur' = [cur EXCEPT ![w] = [topic |-> t, offset |-> position[t] + 1]]
    BY <1>5 DEF Receive
  <2>3. [topic |-> t, offset |-> position[t] + 1] \in Place
    BY <2>1 DEF Place
  <2>4. TypeOK'
    BY <1>5, <2>1, <2>2, <2>3 DEF Receive, Goto
  <2>5. CurInLog'
    BY <1>5, <2>1, <2>2 DEF Receive, Goto, CurInLog
  <2>6. QED
    BY <2>4, <2>5
<1>6. ASSUME NEW w \in Worker, Evict(w) PROVE TypeOK' /\ CurInLog'
  BY <1>6 DEF Evict, Fault, Revoke, CurInLog
<1>7. ASSUME NEW w \in Worker, Die(w), faults' \in Nat PROVE TypeOK' /\ CurInLog'
  <2>1. NoPlace \in Place
    BY DEF NoPlace, Place, Topic
  <2>2. QED
    BY <1>7, <2>1 DEF Die, Revoke, BackToLoop, CurInLog
<1>8. ASSUME NEW w \in Worker, Crash(w) PROVE TypeOK' /\ CurInLog'
  BY <1>7, <1>8 DEF Crash, Fault
<1>9. ASSUME NEW w \in Worker, StartDraining(w) \/ StopDraining(w) PROVE TypeOK' /\ CurInLog'
  BY <1>9 DEF StartDraining, StopDraining, kafkaVars, CurInLog
<1>10. ASSUME NEW w \in Worker, ProcessEvent(w) PROVE TypeOK' /\ CurInLog'
  <2> USE DEF Goto
  <2>0. NoPlace \in Place
    BY DEF NoPlace, Place, Topic
  <2>1. pc[w] # "poll"
    BY <1>10 DEF ProcessEvent, SkipWhileDraining, AppendReceived, CheckDuplicate,
         Admit, RouteLimited, HandlerSucceeds, HandlerFails, MarkProcessed,
         AppendCompleted, SuccessPathRaises, AppendFailed, RouteDeadLetter,
         RouteRetry, AppendOutcome, Commit, CommitRejected
  <2>2. /\ Current(w) \in Event
        /\ Current(w).job \in Job
        /\ Current(w).attempt \in Nat \ {0}
    BY <2>1, CurrentIsEvent
  <2>3. ASSUME NEW k \in Kind, Append1(w, k) PROVE wal' \subseteq Record
    BY <2>2, <2>3 DEF Append1, RecordOf, Record
  <2>4. ASSUME NEW e \in Event, Publish("retry", e)
        PROVE  log' \in [Topic -> Seq(Event)] /\ \A u \in Topic : Len(log[u]) \in Nat /\ Len(log'[u]) \in Nat /\ Len(log[u]) <= Len(log'[u])
    BY <2>4, PublishGrows DEF Topic
  <2>5. CASE SkipWhileDraining(w)
    BY <2>0, <2>5 DEF SkipWhileDraining, BackToLoop, kafkaVars, CurInLog
  <2>6. CASE AppendReceived(w)
    BY <2>3, <2>6 DEF AppendReceived, kafkaVars, CurInLog, Kind
  <2>7. CASE CheckDuplicate(w)
    BY <2>7 DEF CheckDuplicate, kafkaVars, CurInLog
  <2>8. CASE Admit(w)
    BY <2>8 DEF Admit, NotSeen, Fault, kafkaVars, CurInLog
  <2>9. CASE RouteLimited(w)
    <3>0. WithAttempt(Current(w), Current(w).attempt) \in Event
      BY <2>2 DEF Event, WithAttempt
    <3>1. log' \in [Topic -> Seq(Event)] /\ \A u \in Topic : Len(log[u]) \in Nat /\ Len(log'[u]) \in Nat /\ Len(log[u]) <= Len(log'[u])
      BY <2>4, <2>9, <3>0 DEF RouteLimited
    <3>2. TypeOK'
      BY <2>9, <3>1 DEF RouteLimited, NotSeen, Fault
    <3>3. CurInLog'
      BY <2>9, <3>1 DEF RouteLimited, CurInLog, Place
    <3>4. QED
      BY <3>2, <3>3
  <2>10. CASE HandlerSucceeds(w)
    BY <2>2, <2>10 DEF HandlerSucceeds, kafkaVars, CurInLog
  <2>11. CASE HandlerFails(w)
    BY <2>11 DEF HandlerFails, kafkaVars, CurInLog
  <2>12. CASE MarkProcessed(w)
    BY <2>2, <2>12 DEF MarkProcessed, Fault, kafkaVars, CurInLog
  <2>13. CASE AppendCompleted(w)
    BY <2>3, <2>13 DEF AppendCompleted, kafkaVars, CurInLog, Kind
  <2>14. CASE SuccessPathRaises(w)
    BY <2>1, <2>14 DEF SuccessPathRaises, Fault, kafkaVars, CurInLog
  <2>15. CASE AppendFailed(w)
    BY <2>3, <2>15 DEF AppendFailed, kafkaVars, CurInLog, Kind
  <2>16. CASE RouteDeadLetter(w)
    BY <2>2, <2>16 DEF RouteDeadLetter, kafkaVars, CurInLog
  <2>17. CASE RouteRetry(w)
    <3>1. WithAttempt(Current(w), Current(w).attempt + 1) \in Event
      BY <2>2 DEF Event, WithAttempt
    <3>2. log' \in [Topic -> Seq(Event)] /\ \A u \in Topic : Len(log[u]) \in Nat /\ Len(log'[u]) \in Nat /\ Len(log[u]) <= Len(log'[u])
      BY <2>4, <2>17, <3>1 DEF RouteRetry
    <3>3. TypeOK'
      BY <2>17, <3>2 DEF RouteRetry
    <3>4. CurInLog'
      BY <2>17, <3>2 DEF RouteRetry, CurInLog, Place
    <3>5. QED
      BY <3>3, <3>4
  <2>18. CASE AppendOutcome(w)
    <3>1. OutcomeKind(w) \in Kind
      BY <2>18 DEF AppendOutcome, OutcomeKind, Kind
    <3>2. QED
      BY <2>1, <2>3, <2>18, <3>1 DEF AppendOutcome, kafkaVars, CurInLog
  <2>19. CASE Commit(w)
    BY <2>0, <2>19 DEF Commit, BackToLoop, CurInLog
  <2>20. CASE CommitRejected(w)
    BY <1>7, <2>20 DEF CommitRejected
  <2>21. QED
    BY <1>10, <2>5, <2>6, <2>7, <2>8, <2>9, <2>10, <2>11, <2>12, <2>13, <2>14,
       <2>15, <2>16, <2>17, <2>18, <2>19, <2>20 DEF ProcessEvent
<1>11. QED
  BY <1>1, <1>2, <1>3, <1>4, <1>5, <1>6, <1>8, <1>9, <1>10 DEF Next

\* Type correctness: the program points, the places and the records of a
\* behaviour stay within their types, and an event in hand is in the log.
THEOREM TypeCorrect == Spec => [](TypeOK /\ CurInLog)
<1>1. Init => TypeOK /\ CurInLog
  BY InitTypeOK
<1>2. TypeOK /\ CurInLog /\ [Next]_vars => TypeOK' /\ CurInLog'
  BY StepTypeOK
<1>3. QED
  BY <1>1, <1>2, PTL DEF Spec

-----------------------------------------------------------------------------
(* Committed offsets are accounted for.                                    *)

\* No action shortens a topic, forgets a run of a handler or empties the
\* dead-letter topic.
LEMMA StepGrows == TypeOK /\ CurInLog /\ [Next]_vars => Grows
<1> SUFFICES ASSUME TypeOK, CurInLog, [Next]_vars PROVE Grows
  OBVIOUS
<1>0. TypeOK'
  BY StepTypeOK
<1>1. \A t \in Topic : Len(log[t]) \in Nat /\ Len(log'[t]) \in Nat
  BY <1>0 DEF TypeOK
<1>2. /\ \A j \in Job : executed[j] \in Nat /\ executed'[j] \in Nat
      /\ dlq \subseteq Job
  BY <1>0 DEF TypeOK
<1>3. CASE log' = log
  <2>1. dlq \subseteq dlq' /\ skipped \subseteq skipped'
    BY <1>3 DEF Next, vars, PublishJob, ExpireKey, Assign, Receive, Evict,
         Crash, Die, StartDraining, StopDraining, ProcessEvent,
         SkipWhileDraining, AppendReceived, CheckDuplicate, Admit,
         RouteLimited, HandlerSucceeds, HandlerFails, MarkProcessed,
         AppendCompleted, SuccessPathRaises, AppendFailed, RouteDeadLetter,
         RouteRetry, AppendOutcome, Commit, CommitRejected
  <2>2. \A j \in Job : executed[j] <= executed'[j]
    <3>1. CASE \E w \in Worker : HandlerSucceeds(w)
      <4>1. PICK w \in Worker : HandlerSucceeds(w)
        BY <3>1
      <4>2. executed' = [executed EXCEPT ![Current(w).job] = @ + 1]
        BY <4>1 DEF HandlerSucceeds
      <4>3. QED
        BY <1>2, <4>2 DEF TypeOK
    <3>2. CASE ~ \E w \in Worker : HandlerSucceeds(w)
      <4>1. executed' = executed
        BY <3>2 DEF Next, vars, PublishJob, ExpireKey, Assign, Receive, Evict,
             Crash, Die, StartDraining, StopDraining, ProcessEvent,
             SkipWhileDraining, AppendReceived, CheckDuplicate, Admit,
             RouteLimited, HandlerFails, MarkProcessed,
             AppendCompleted, SuccessPathRaises, AppendFailed, RouteDeadLetter,
             RouteRetry, AppendOutcome, Commit, CommitRejected
      <4>2. QED
        BY <1>2, <4>1
    <3>3. QED
      BY <3>1, <3>2
  <2>3. QED
    BY <1>1, <1>2, <1>3, <2>1, <2>2 DEF Grows
<1>4. CASE log' # log
  <2>1. \/ \E j \in Job : PublishJob(j)
        \/ \E w \in Worker : RouteLimited(w) \/ RouteRetry(w)
    BY <1>4 DEF Next, vars, kafkaVars, ExpireKey, Assign, Receive, Evict,
         Crash, Die, StartDraining, StopDraining, ProcessEvent,
         SkipWhileDraining, AppendReceived, CheckDuplicate, Admit,
         HandlerSucceeds, HandlerFails, MarkProcessed,
         AppendCompleted, SuccessPathRaises, AppendFailed, RouteDeadLetter,
         AppendOutcome, Commit, CommitRejected
  <2>2. /\ dlq' = dlq /\ skipped' = skipped /\ executed' = executed
        /\ \E t \in Topic, e \in Event : Publish(t, e)
    <3>1. ASSUME NEW j \in Job, PublishJob(j)
          PROVE  /\ dlq' = dlq /\ skipped' = skipped /\ executed' = executed
                 /\ \E t \in Topic, e \in Event : Publish(t, e)
      <4>1. "jobs" \in Topic /\ [job |-> j, attempt |-> 1] \in Event
        BY DEF Topic, Event
      <4>2. QED
        BY <3>1, <4>1 DEF PublishJob
    <3>2. ASSUME NEW w \in Worker, RouteLimited(w) \/ RouteRetry(w)
          PROVE  /\ dlq' = dlq /\ skipped' = skipped /\ executed' = executed
                 /\ \E t \in Topic, e \in Event : Publish(t, e)
      <4>1. pc[w] # "poll"
        BY <3>2 DEF RouteLimited, RouteRetry, Goto
      <4>2. Current(w).job \in Job /\ Current(w).attempt \in Nat \ {0}
        BY <4>1, CurrentIsEvent
      <4>3. /\ "retry" \in Topic
            /\ WithAttempt(Current(w), Current(w).attempt) \in Event
            /\ WithAttempt(Current(w), Current(w).attempt + 1) \in Event
        BY <4>2 DEF Topic, Event, WithAttempt
      <4>4. QED
        BY <3>2, <4>3 DEF RouteLimited, RouteRetry
    <3>3. QED
      BY <2>1, <3>1, <3>2
  <2>3. \A t \in Topic :
          /\ Len(log[t]) <= Len(log'[t])
          /\ \A o \in 1 .. Len(log[t]) : log'[t][o] = log[t][o]
    BY <2>2, PublishGrows
  <2>4. QED
    BY <1>1, <1>2, <2>2, <2>3 DEF Grows
<1>5. QED
  BY <1>3, <1>4

\* Once routed or dropped, an event stays so.
LEMMA AccountedIsStable ==
    ASSUME TypeOK, Grows, NEW t \in Topic, NEW o \in 1 .. Len(log[t])
    PROVE  /\ Routed(t, o) => Routed(t, o)'
           /\ Accounted(t, o) => Accounted(t, o)'
<1>0. log[t] \in Seq(Event)
  BY DEF TypeOK
<1>1. log[t][o].job \in Job
  <2>1. log[t][o] \in Event
    BY <1>0
  <2>2. QED
    BY <2>1 DEF Event
<1>2. log'[t][o] = log[t][o]
  BY DEF Grows
<1>3. ASSUME Routed(t, o) PROVE Routed(t, o)'
  <2> DEFINE j == log[t][o].job
  <2>1. CASE executed[j] > 0
    <3>1. executed'[j] > 0
      BY <1>1, <2>1 DEF Grows
    <3>2. QED
      BY <1>2, <3>1 DEF Routed
  <2>2. CASE j \in dlq
    BY <1>2, <2>2 DEF Routed, Grows
  <2>3. CASE \E r \in 1 .. Len(log["retry"]) :
                log["retry"][r].job = j /\ (t = "retry" => r > o)
    <3>1. PICK r \in 1 .. Len(log["retry"]) :
                log["retry"][r].job = j /\ (t = "retry" => r > o)
      BY <2>3
    <3>2. r \in 1 .. Len(log'["retry"]) /\ log'["retry"][r] = log["retry"][r]
      BY <3>1 DEF Grows, Topic
    <3>3. QED
      BY <1>2, <3>1, <3>2 DEF Routed
  <2>4. QED
    BY <1>3, <2>1, <2>2, <2>3 DEF Routed
<1>4. QED
  BY <1>3 DEF Accounted, Grows

\* A step inside process_event, or one outside every worker: no topic changes
\* hands and no offset moves.
LEMMA LocalStep ==
    ASSUME IInv, TypeOK', CurInLog', Grows, KeyImpliesRun', MarkAfterRun',
           UNCHANGED <<owner, position, committed, cur>>,
           \A v \in Worker : pc[v] # "poll" => pc'[v] # "poll",
           \A v \in Worker : pc'[v] \in SettledPoint =>
                \/ pc[v] \in SettledPoint
                \/ Routed(cur[v].topic, cur[v].offset)'
    PROVE  IInv'
<1> USE DEF IInv
<1>1. OffsetsInLog'
  BY DEF OffsetsInLog, Grows, TypeOK
<1>2. ReadIsAccounted'
  <2> SUFFICES ASSUME NEW t \in Topic, NEW w \in Worker, owner[t] = w,
                      NEW o \in 1 .. position[t]
               PROVE  \/ Accounted(t, o)'
                      \/ pc'[w] # "poll" /\ cur[w] = [topic |-> t, offset |-> o]
    BY DEF ReadIsAccounted
  <2>1. o \in 1 .. Len(log[t])
    BY ConstantsAssumption DEF OffsetsInLog, TypeOK, Grows
  <2>2. \/ Accounted(t, o)
        \/ pc[w] # "poll" /\ cur[w] = [topic |-> t, offset |-> o]
    BY DEF ReadIsAccounted
  <2>3. QED
    BY <2>1, <2>2, AccountedIsStable
<1>3. SettledIsRouted'
  <2> SUFFICES ASSUME NEW v \in Worker, pc'[v] \in SettledPoint
               PROVE  Routed(cur[v].topic, cur[v].offset)'
    BY DEF SettledIsRouted
  <2>1. CASE pc[v] \in SettledPoint
    <3>1. pc[v] # "poll"
      BY <2>1 DEF SettledPoint
    <3>2. cur[v].topic \in Topic /\ cur[v].offset \in 1 .. Len(log[cur[v].topic])
      BY <3>1, CurrentIsEvent DEF CurInLog
    <3>3. Routed(cur[v].topic, cur[v].offset)
      BY <2>1 DEF SettledIsRouted
    <3>4. QED
      BY <3>2, <3>3, AccountedIsStable
  <2>2. QED
    BY <2>1
<1>4. CommittedIsAccounted'
  <2> SUFFICES ASSUME NEW t \in Topic, NEW o \in 1 .. committed[t]
               PROVE  Accounted(t, o)'
    BY DEF CommittedIsAccounted, Accounted
  <2>1. o \in 1 .. Len(log[t])
    BY DEF OffsetsInLog, TypeOK, Grows
  <2>2. Accounted(t, o)
    BY DEF CommittedIsAccounted, Accounted
  <2>3. QED
    BY <2>1, <2>2, AccountedIsStable
<1>5. QED
  BY <1>1, <1>2, <1>3, <1>4

\* A worker w drops out of process_event, or loses its topics, or both, with
\* nothing committed: what the other workers read stays accounted for.
LEMMA LossStep ==
    ASSUME IInv, TypeOK', CurInLog', Grows, KeyImpliesRun', MarkAfterRun',
           NEW w \in Worker,
           Revoke(w), UNCHANGED <<position, committed>>,
           \A v \in Worker \ {w} : pc'[v] = pc[v] /\ cur'[v] = cur[v],
           pc'[w] = "poll" \/ (pc'[w] = pc[w] /\ cur'[w] = cur[w])
    PROVE  IInv'
<1> USE DEF IInv
<1>0. \A t \in Topic : owner'[t] = IF owner[t] = w THEN Nobody ELSE owner[t]
  BY DEF Revoke
<1>1. OffsetsInLog'
  BY <1>0 DEF OffsetsInLog, Grows, TypeOK
<1>2. ReadIsAccounted'
  <2> SUFFICES ASSUME NEW t \in Topic, NEW v \in Worker, owner'[t] = v,
                      NEW o \in 1 .. position[t]
               PROVE  \/ Accounted(t, o)'
                      \/ pc'[v] # "poll" /\ cur'[v] = [topic |-> t, offset |-> o]
    BY DEF ReadIsAccounted
  <2>0. owner[t] = v /\ v # w
    BY <1>0, ConstantsAssumption
  <2>1. o \in 1 .. Len(log[t])
    <3>1. owner[t] # Nobody
      BY <2>0, ConstantsAssumption
    <3>2. position[t] <= Len(log[t]) /\ position[t] \in Nat /\ Len(log[t]) \in Nat
      BY <3>1 DEF OffsetsInLog, TypeOK, Grows
    <3>3. QED
      BY <3>2
  <2>2. \/ Accounted(t, o)
        \/ pc[v] # "poll" /\ cur[v] = [topic |-> t, offset |-> o]
    BY <2>0 DEF ReadIsAccounted
  <2>3. QED
    BY <2>0, <2>1, <2>2, AccountedIsStable
<1>3. SettledIsRouted'
  <2> SUFFICES ASSUME NEW v \in Worker, pc'[v] \in SettledPoint
               PROVE  Routed(cur[v].topic, cur[v].offset)' /\ cur'[v] = cur[v]
    BY DEF SettledIsRouted
  <2>1. pc[v] \in SettledPoint /\ cur'[v] = cur[v] /\ pc[v] # "poll"
    BY DEF SettledPoint
  <2>2. cur[v].topic \in Topic /\ cur[v].offset \in 1 .. Len(log[cur[v].topic])
    BY <2>1, CurrentIsEvent DEF CurInLog
  <2>3. Routed(cur[v].topic, cur[v].offset)
    BY <2>1 DEF SettledIsRouted
  <2>4. QED
    BY <2>1, <2>2, <2>3, AccountedIsStable
<1>4. CommittedIsAccounted'
  <2> SUFFICES ASSUME NEW t \in Topic, NEW o \in 1 .. committed[t]
               PROVE  Accounted(t, o)'
    BY DEF CommittedIsAccounted, Accounted
  <2>1. o \in 1 .. Len(log[t])
    BY DEF OffsetsInLog, TypeOK, Grows
  <2>2. Accounted(t, o)
    BY DEF CommittedIsAccounted, Accounted
  <2>3. QED
    BY <2>1, <2>2, AccountedIsStable
<1>5. QED
  BY <1>1, <1>2, <1>3, <1>4

\* A worker reaches mark_processed only after its handler ran for the job it
\* holds.
LEMMA StepMarkAfterRun ==
    ASSUME TypeOK, CurInLog, Grows, MarkAfterRun, [Next]_vars
    PROVE  MarkAfterRun'
<1> SUFFICES ASSUME NEW v \in Worker, pc'[v] = "mark"
             PROVE  executed'[Current(v)'.job] > 0
  BY DEF MarkAfterRun
<1>0. pc \in [Worker -> ProgramPoint] /\ cur \in [Worker -> Place]
  BY DEF TypeOK
<1>1. \/ pc[v] = "mark" /\ cur'[v] = cur[v]
      \/ HandlerSucceeds(v)
  <2>1. CASE UNCHANGED vars \/ \E j \in Job : PublishJob(j) \/ ExpireKey(j)
    BY <2>1 DEF vars, PublishJob, ExpireKey
  <2>2. ASSUME NEW w \in Worker, NEW t \in Topic, Assign(w, t) \/ Receive(w, t)
        PROVE  pc[v] = "mark" /\ cur'[v] = cur[v]
    BY <1>0, <2>2 DEF Assign, Receive, Goto
  <2>3. ASSUME NEW w \in Worker, Die(w)
        PROVE  pc[v] = "mark" /\ cur'[v] = cur[v]
    BY <1>0, <2>3 DEF Die, BackToLoop
  <2>4. ASSUME NEW w \in Worker,
               Evict(w) \/ Crash(w) \/ StartDraining(w) \/ StopDraining(w)
        PROVE  pc[v] = "mark" /\ cur'[v] = cur[v]
    BY <2>3, <2>4 DEF Evict, Crash, StartDraining, StopDraining
  <2>5. ASSUME NEW w \in Worker, ProcessEvent(w), ~ HandlerSucceeds(w)
        PROVE  pc[v] = "mark" /\ cur'[v] = cur[v]
    <3>1. CASE SkipWhileDraining(w) \/ Commit(w)
      BY <1>0, <3>1 DEF SkipWhileDraining, Commit, BackToLoop
    <3>2. CASE CommitRejected(w)
      BY <2>3, <3>2 DEF CommitRejected
    <3>3. CASE \/ AppendReceived(w) \/ CheckDuplicate(w) \/ Admit(w)
               \/ RouteLimited(w) \/ HandlerFails(w) \/ MarkProcessed(w)
      BY <1>0, <3>3 DEF Goto, AppendReceived, CheckDuplicate, Admit,
         RouteLimited, HandlerFails, MarkProcessed
    <3>4. CASE \/ AppendCompleted(w) \/ SuccessPathRaises(w) \/ AppendFailed(w)
               \/ RouteDeadLetter(w) \/ RouteRetry(w) \/ AppendOutcome(w)
      BY <1>0, <3>4 DEF Goto, AppendCompleted, SuccessPathRaises, AppendFailed,
         RouteDeadLetter, RouteRetry, AppendOutcome
    <3>5. QED
      BY <2>5, <3>1, <3>2, <3>3, <3>4 DEF ProcessEvent
  <2>6. ASSUME NEW w \in Worker, HandlerSucceeds(w), w # v
        PROVE  pc[v] = "mark" /\ cur'[v] = cur[v]
    BY <1>0, <2>6 DEF HandlerSucceeds, Goto
  <2>7. QED
    BY <2>1, <2>2, <2>4, <2>5, <2>6 DEF Next
<1>2. CASE pc[v] = "mark" /\ cur'[v] = cur[v]
  <2>1. /\ cur[v].topic \in Topic
        /\ cur[v].offset \in 1 .. Len(log[cur[v].topic])
        /\ Current(v).job \in Job
    BY <1>2, CurrentIsEvent DEF CurInLog
  <2>2. Current(v)' = Current(v)
    BY <1>2, <2>1 DEF Grows, Current, EventAt
  <2>3. executed[Current(v).job] > 0
    BY <1>2 DEF MarkAfterRun
  <2>4. QED
    BY <2>1, <2>2, <2>3 DEF Grows
<1>3. CASE HandlerSucceeds(v)
  <2>1. Current(v).job \in Job
    BY <1>3, CurrentIsEvent DEF HandlerSucceeds, Goto
  <2>2. Current(v)' = Current(v)
    BY <1>3 DEF HandlerSucceeds, kafkaVars, Current, EventAt
  <2>3. executed'[Current(v).job] = executed[Current(v).job] + 1
    BY <1>3, <2>1 DEF HandlerSucceeds, TypeOK
  <2>4. executed[Current(v).job] \in Nat
    BY <2>1 DEF TypeOK
  <2>5. QED
    BY <2>2, <2>3, <2>4
<1>4. QED
  BY <1>1, <1>2, <1>3

\* The invariant is inductive.
LEMMA StepIInv == IInv /\ [Next]_vars => IInv'
<1> SUFFICES ASSUME IInv, [Next]_vars PROVE IInv'
  OBVIOUS
<1>0. /\ TypeOK /\ CurInLog /\ TypeOK' /\ CurInLog' /\ Grows
      /\ MarkAfterRun /\ MarkAfterRun'
  BY StepTypeOK, StepGrows, StepMarkAfterRun DEF IInv
<1> USE <1>0
<1>a. ASSUME processed' = processed PROVE KeyImpliesRun'
  BY <1>a DEF IInv, KeyImpliesRun, Grows, TypeOK
<1>1. CASE UNCHANGED vars
  BY <1>1, <1>a, LocalStep DEF vars, kafkaVars
<1>2. ASSUME NEW j \in Job, PublishJob(j) PROVE IInv'
  BY <1>2, <1>a, LocalStep DEF PublishJob
<1>3. ASSUME NEW j \in Job, ExpireKey(j) PROVE IInv'
  <2>1. KeyImpliesRun'
    BY <1>3 DEF ExpireKey, IInv, KeyImpliesRun
  <2>2. QED
    BY <1>3, <2>1, LocalStep DEF ExpireKey, kafkaVars
<1>4. ASSUME NEW w \in Worker, NEW t \in Topic, Assign(w, t) PROVE IInv'
  <2> USE <1>4 DEF Assign, IInv
  <2>1. OffsetsInLog'
    BY DEF OffsetsInLog, TypeOK
  <2>2. ReadIsAccounted'
    <3> SUFFICES ASSUME NEW u \in Topic, NEW v \in Worker, owner'[u] = v,
                        NEW o \in 1 .. position'[u]
                 PROVE  \/ Accounted(u, o)
                        \/ pc[v] # "poll" /\ cur[v] = [topic |-> u, offset |-> o]
      BY DEF ReadIsAccounted, Accounted, Routed
    <3>1. CASE u = t
      BY <3>1 DEF CommittedIsAccounted, Accounted, TypeOK
    <3>2. CASE u # t
      BY <3>2 DEF ReadIsAccounted, TypeOK
    <3>3. QED
      BY <3>1, <3>2
  <2>3. SettledIsRouted'
    BY DEF SettledIsRouted, Routed
  <2>4. CommittedIsAccounted'
    BY DEF CommittedIsAccounted, Routed
  <2>5. QED
    BY <1>a, <2>1, <2>2, <2>3, <2>4
<1>5. ASSUME NEW w \in Worker, NEW t \in Topic, Receive(w, t) PROVE IInv'
  <2> USE <1>5 DEF Receive, Goto, IInv
  <2>1. OffsetsInLog'
    BY DEF OffsetsInLog, TypeOK, Grows
  <2>2. ReadIsAccounted'
    <3> SUFFICES ASSUME NEW u \in Topic, NEW v \in Worker, owner[u] = v,
                        NEW o \in 1 .. position'[u]
                 PROVE  \/ Accounted(u, o)
                        \/ pc'[v] # "poll" /\ cur'[v] = [topic |-> u, offset |-> o]
      BY DEF ReadIsAccounted, Accounted, Routed
    <3>1. CASE o \in 1 .. position[u]
      <4>1. \/ Accounted(u, o)
            \/ pc[v] # "poll" /\ cur[v] = [topic |-> u, offset |-> o]
        BY <3>1 DEF ReadIsAccounted
      <4>2. CASE v = w
        BY <4>1, <4>2
      <4>3. CASE v # w
        BY <4>1, <4>3 DEF TypeOK
      <4>4. QED
        BY <4>2, <4>3
    <3>2. CASE o \notin 1 .. position[u]
      <4>1. u = t /\ v = w /\ o = position[t] + 1
        BY <3>2 DEF TypeOK
      <4>2. QED
        BY <4>1 DEF TypeOK
    <3>3. QED
      BY <3>1, <3>2
  <2>3. SettledIsRouted'
    <3> SUFFICES ASSUME NEW v \in Worker, pc'[v] \in SettledPoint
                 PROVE  Routed(cur[v].topic, cur[v].offset) /\ cur'[v] = cur[v]
      BY DEF SettledIsRouted, Routed
    <3>1. v # w /\ pc[v] \in SettledPoint
      BY DEF SettledPoint, TypeOK
    <3>2. QED
      BY <3>1 DEF SettledIsRouted, TypeOK
  <2>4. CommittedIsAccounted'
    BY DEF CommittedIsAccounted, Routed
  <2>5. QED
    BY <1>a, <2>1, <2>2, <2>3, <2>4
<1>6. ASSUME NEW w \in Worker, Evict(w) PROVE IInv'
  BY <1>6, <1>a, LossStep DEF Evict
<1>7. ASSUME NEW w \in Worker, Die(w) PROVE IInv'
  BY <1>7, <1>a, LossStep DEF Die, BackToLoop, TypeOK
<1>8. ASSUME NEW w \in Worker, Crash(w) PROVE IInv'
  BY <1>7, <1>8 DEF Crash
<1>9. ASSUME NEW w \in Worker, StartDraining(w) \/ StopDraining(w) PROVE IInv'
  BY <1>9, <1>a, LocalStep DEF StartDraining, StopDraining, kafkaVars
<1>10. ASSUME NEW w \in Worker, ProcessEvent(w) PROVE IInv'
  <2> USE DEF Goto, SettledPoint
  <2>0. pc \in [Worker -> ProgramPoint]
    BY DEF TypeOK
  <2>1. ASSUME pc[w] # "poll"
        PROVE  /\ cur[w].topic \in Topic
               /\ cur[w].offset \in 1 .. Len(log[cur[w].topic])
               /\ Current(w).job \in Job
               /\ Current(w) = log[cur[w].topic][cur[w].offset]
               /\ cur[w] = [topic |-> cur[w].topic, offset |-> cur[w].offset]
    BY <2>1, CurrentIsEvent DEF CurInLog, Current, EventAt
  <2>5. CASE SkipWhileDraining(w)
    <3>1. OffsetsInLog'
      BY <2>5 DEF SkipWhileDraining, kafkaVars, IInv, OffsetsInLog
    <3>2. ReadIsAccounted'
      <4> SUFFICES ASSUME NEW t \in Topic, NEW v \in Worker, owner[t] = v,
                          NEW o \in 1 .. position[t]
                   PROVE  \/ Accounted(t, o)'
                          \/ pc'[v] # "poll" /\ cur'[v] = [topic |-> t, offset |-> o]
        BY <2>5 DEF ReadIsAccounted, SkipWhileDraining, kafkaVars
      <4>1. \/ Accounted(t, o)
            \/ pc[v] # "poll" /\ cur[v] = [topic |-> t, offset |-> o]
        BY DEF ReadIsAccounted, IInv
      <4>2. CASE Accounted(t, o)
        BY <2>5, <4>2 DEF Accounted, Routed, SkipWhileDraining, kafkaVars
      <4>3. CASE v = w /\ cur[v] = [topic |-> t, offset |-> o]
        BY <2>5, <4>3 DEF Accounted, SkipWhileDraining
      <4>4. CASE v # w /\ pc[v] # "poll" /\ cur[v] = [topic |-> t, offset |-> o]
        BY <2>5, <4>4 DEF SkipWhileDraining, BackToLoop, TypeOK
      <4>5. QED
        BY <4>1, <4>2, <4>3, <4>4
    <3>3. SettledIsRouted'
      <4> SUFFICES ASSUME NEW v \in Worker, pc'[v] \in SettledPoint
                   PROVE  Routed(cur[v].topic, cur[v].offset) /\ cur'[v] = cur[v]
        BY <2>5 DEF SettledIsRouted, Routed, SkipWhileDraining, kafkaVars
      <4>1. v # w /\ pc[v] \in SettledPoint
        BY <2>5 DEF SkipWhileDraining, BackToLoop, TypeOK
      <4>2. QED
        BY <2>5, <4>1 DEF IInv, SettledIsRouted, TypeOK, SkipWhileDraining, BackToLoop
    <3>4. CommittedIsAccounted'
      BY <2>5 DEF IInv, CommittedIsAccounted, Routed, SkipWhileDraining, kafkaVars
    <3>5. QED
      BY <1>a, <2>5, <3>1, <3>2, <3>3, <3>4 DEF IInv, SkipWhileDraining
  <2>6. CASE AppendReceived(w)
    BY <1>a, <2>0, <2>6, LocalStep DEF AppendReceived, kafkaVars
  <2>7. CASE CheckDuplicate(w)
    <3>1. Routed(cur[w].topic, cur[w].offset)'
      BY <2>1, <2>7 DEF CheckDuplicate, kafkaVars, IInv, KeyImpliesRun, Routed
    <3>2. QED
      BY <1>a, <2>0, <2>7, <3>1, LocalStep DEF CheckDuplicate, kafkaVars
  <2>8. CASE Admit(w)
    BY <1>a, <2>0, <2>8, LocalStep DEF Admit, kafkaVars
  <2>9. CASE RouteLimited(w)
    <3>1. Routed(cur[w].topic, cur[w].offset)'
      <4>1. /\ WithAttempt(Current(w), Current(w).attempt) \in Event
            /\ WithAttempt(Current(w), Current(w).attempt).job = Current(w).job
            /\ "retry" \in Topic
        BY <2>9, CurrentIsEvent DEF RouteLimited, Event, WithAttempt, Topic
      <4>2. Publish("retry", WithAttempt(Current(w), Current(w).attempt))
        BY <2>9 DEF RouteLimited
      <4>3. /\ Len(log'["retry"]) = Len(log["retry"]) + 1
            /\ log'["retry"][Len(log["retry"]) + 1].job = Current(w).job
            /\ Len(log["retry"]) \in Nat
        BY <4>1, <4>2, PublishGrows
      <4>4. log'[cur[w].topic][cur[w].offset] = Current(w)
        BY <2>1, <2>9 DEF RouteLimited, Grows
      <4>5. Len(log["retry"]) + 1 \in 1 .. Len(log'["retry"])
        BY <4>3
      <4>6. cur[w].topic = "retry" => Len(log["retry"]) + 1 > cur[w].offset
        BY <2>1, <2>9, <4>3 DEF RouteLimited
      <4>7. cur' = cur
        BY <2>9 DEF RouteLimited
      <4>8. QED
        BY <4>3, <4>4, <4>5, <4>6, <4>7 DEF Routed
    <3>2. QED
      BY <1>a, <2>0, <2>9, <3>1, LocalStep DEF RouteLimited
  <2>10. CASE HandlerSucceeds(w)
    <3>1. executed'[Current(w).job] > 0
      BY <2>1, <2>10 DEF HandlerSucceeds, TypeOK
    <3>2. Routed(cur[w].topic, cur[w].offset)'
      BY <2>1, <2>10, <3>1 DEF HandlerSucceeds, kafkaVars, Routed
    <3>3. QED
      BY <1>a, <2>0, <2>10, <3>2, LocalStep DEF HandlerSucceeds, kafkaVars
  <2>11. CASE HandlerFails(w)
    BY <1>a, <2>0, <2>11, LocalStep DEF HandlerFails, kafkaVars
  <2>12. CASE MarkProcessed(w)
    <3>1. KeyImpliesRun'
      <4>1. executed[Current(w).job] > 0
        BY <2>12 DEF MarkProcessed, MarkAfterRun
      <4>2. QED
        BY <2>12, <4>1 DEF MarkProcessed, IInv, KeyImpliesRun
    <3>2. QED
      BY <2>0, <2>12, <3>1, LocalStep DEF MarkProcessed, kafkaVars
  <2>13. CASE AppendCompleted(w)
    BY <1>a, <2>0, <2>13, LocalStep DEF AppendCompleted, kafkaVars
  <2>14. CASE SuccessPathRaises(w)
    BY <1>a, <2>0, <2>14, LocalStep DEF SuccessPathRaises, kafkaVars
  <2>15. CASE AppendFailed(w)
    BY <1>a, <2>0, <2>15, LocalStep DEF AppendFailed, kafkaVars
  <2>16. CASE RouteDeadLetter(w)
    <3>1. Routed(cur[w].topic, cur[w].offset)'
      BY <2>1, <2>16 DEF RouteDeadLetter, kafkaVars, Routed
    <3>2. QED
      BY <1>a, <2>0, <2>16, <3>1, LocalStep DEF RouteDeadLetter, kafkaVars
  <2>17. CASE RouteRetry(w)
    <3>1. Routed(cur[w].topic, cur[w].offset)'
      <4>0. Current(w).job \in Job /\ Current(w).attempt \in Nat \ {0}
        BY <2>17, CurrentIsEvent DEF RouteRetry
      <4>1. /\ WithAttempt(Current(w), Current(w).attempt + 1) \in Event
            /\ WithAttempt(Current(w), Current(w).attempt + 1).job = Current(w).job
            /\ "retry" \in Topic
        BY <4>0 DEF Event, WithAttempt, Topic
      <4>2. Publish("retry", WithAttempt(Current(w), Current(w).attempt + 1))
        BY <2>17 DEF RouteRetry
      <4>3. /\ Len(log'["retry"]) = Len(log["retry"]) + 1
            /\ log'["retry"][Len(log["retry"]) + 1].job = Current(w).job
            /\ Len(log["retry"]) \in Nat
        BY <4>1, <4>2, PublishGrows
      <4>4. log'[cur[w].topic][cur[w].offset] = Current(w)
        BY <2>1, <2>17 DEF RouteRetry, Grows
      <4>5. Len(log["retry"]) + 1 \in 1 .. Len(log'["retry"])
        BY <4>3
      <4>6. cur[w].topic = "retry" => Len(log["retry"]) + 1 > cur[w].offset
        BY <2>1, <2>17, <4>3 DEF RouteRetry
      <4>7. cur' = cur
        BY <2>17 DEF RouteRetry
      <4>8. QED
        BY <4>3, <4>4, <4>5, <4>6, <4>7 DEF Routed
    <3>2. QED
      BY <1>a, <2>0, <2>17, <3>1, LocalStep DEF RouteRetry
  <2>18. CASE AppendOutcome(w)
    BY <1>a, <2>0, <2>18, LocalStep DEF AppendOutcome, kafkaVars
  <2>19. CASE Commit(w)
    <3> USE <2>19 DEF Commit, BackToLoop
    <3>0. /\ pc[w] \in SettledPoint
          /\ Routed(cur[w].topic, cur[w].offset)
      BY DEF IInv, SettledIsRouted
    <3>1. OffsetsInLog'
      BY ConstantsAssumption DEF IInv, OffsetsInLog, TypeOK
    <3>2. ASSUME NEW t \in Topic, owner[t] = w, NEW o \in 1 .. position[t]
          PROVE  Accounted(t, o)
      <4>1. \/ Accounted(t, o)
            \/ cur[w] = [topic |-> t, offset |-> o]
        BY <3>2 DEF IInv, ReadIsAccounted
      <4>2. CASE cur[w] = [topic |-> t, offset |-> o]
        <5>1. cur[w].topic = t /\ cur[w].offset = o
          BY <4>2
        <5>2. QED
          BY <3>0, <5>1 DEF Accounted
      <4>3. QED
        BY <4>1, <4>2
    <3>3. ReadIsAccounted'
      <4> SUFFICES ASSUME NEW t \in Topic, NEW v \in Worker, owner[t] = v,
                          NEW o \in 1 .. position[t]
                   PROVE  \/ Accounted(t, o)
                          \/ pc'[v] # "poll" /\ cur'[v] = [topic |-> t, offset |-> o]
        BY DEF ReadIsAccounted, Accounted, Routed
      <4>1. CASE v = w
        BY <3>2, <4>1
      <4>2. CASE v # w
        BY <4>2 DEF IInv, ReadIsAccounted, TypeOK
      <4>3. QED
        BY <4>1, <4>2
    <3>4. SettledIsRouted'
      <4> SUFFICES ASSUME NEW v \in Worker, pc'[v] \in SettledPoint
                   PROVE  Routed(cur[v].topic, cur[v].offset) /\ cur'[v] = cur[v]
        BY DEF SettledIsRouted, Routed
      <4>1. v # w /\ pc[v] \in SettledPoint
        BY DEF TypeOK
      <4>2. QED
        BY <4>1 DEF IInv, SettledIsRouted, TypeOK
    <3>5. CommittedIsAccounted'
      <4> SUFFICES ASSUME NEW t \in Topic, NEW o \in 1 .. committed'[t]
                   PROVE  Accounted(t, o)
        BY DEF CommittedIsAccounted, Accounted, Routed
      <4>1. CASE owner[t] = w
        BY <3>2, <4>1
      <4>2. CASE owner[t] # w
        BY <4>2 DEF IInv, CommittedIsAccounted, Accounted
      <4>3. QED
        BY <4>1, <4>2
    <3>6. QED
      BY <1>a, <3>1, <3>3, <3>4, <3>5 DEF IInv
  <2>20. CASE CommitRejected(w)
    BY <1>7, <2>20 DEF CommitRejected
  <2>21. QED
    BY <1>10, <2>5, <2>6, <2>7, <2>8, <2>9, <2>10, <2>11, <2>12, <2>13, <2>14,
       <2>15, <2>16, <2>17, <2>18, <2>19, <2>20 DEF ProcessEvent
<1>11. QED
  BY <1>1, <1>2, <1>3, <1>4, <1>5, <1>6, <1>8, <1>9, <1>10 DEF Next

\* The invariant holds of a group that has processed nothing.
LEMMA InitIInv == Init => IInv
<1> SUFFICES ASSUME Init PROVE IInv
  OBVIOUS
<1>1. TypeOK /\ CurInLog
  BY InitTypeOK
<1>2. OffsetsInLog /\ ReadIsAccounted /\ CommittedIsAccounted
  BY ConstantsAssumption DEF Init, OffsetsInLog, ReadIsAccounted,
     CommittedIsAccounted
<1>3. SettledIsRouted /\ KeyImpliesRun /\ MarkAfterRun
  BY DEF Init, SettledIsRouted, SettledPoint, KeyImpliesRun, MarkAfterRun
<1>4. QED
  BY <1>1, <1>2, <1>3 DEF IInv

\* The invariant behind CommittedIsAccounted holds throughout a behaviour.
LEMMA Invariance == Spec => []IInv
<1>1. Init => IInv
  BY InitIInv
<1>2. IInv /\ [Next]_vars => IInv'
  BY StepIInv
<1>3. QED
  BY <1>1, <1>2, PTL DEF Spec

\* Contract item 7 of durable_job_runtime.py for every number of jobs,
\* workers, faults and attempts: an offset is committed only over events that
\* were executed, dead-lettered, routed to a later place of the retry topic,
\* or dropped by a draining worker.
THEOREM CommitSafety == Spec => []CommittedIsAccounted
<1>1. IInv => CommittedIsAccounted
  BY DEF IInv
<1>2. QED
  BY <1>1, Invariance, PTL

-----------------------------------------------------------------------------
(* DurableJobs implements JobDelivery.                                     *)

\* Every event, retried ones included, is of a job that was submitted.
SubmittedInLog ==
    \A t \in Topic : \A o \in 1 .. Len(log[t]) : log[t][o].job \in Submitted

RInv == TypeOK /\ CurInLog /\ SubmittedInLog

\* A worker inside process_event holds an event of a job that was published.
LEMMA CurrentSubmitted ==
    ASSUME RInv, NEW w \in Worker, pc[w] # "poll"
    PROVE  Current(w).job \in Submitted /\ Current(w).job \in Job
<1>1. cur[w].topic \in Topic /\ cur[w].offset \in 1 .. Len(log[cur[w].topic])
  BY CurrentIsEvent DEF RInv, CurInLog
<1>2. QED
  BY <1>1, CurrentIsEvent DEF RInv, SubmittedInLog, Current, EventAt

\* Only a publication of a job changes the set of submitted jobs.
LEMMA StepSubmitted ==
    ASSUME RInv, [Next]_vars
    PROVE  \/ /\ Submitted' = Submitted
              /\ SubmittedInLog'
           \/ \E j \in Job : /\ PublishJob(j)
                              /\ j \notin Submitted
                              /\ Submitted' = Submitted \cup {j}
                              /\ SubmittedInLog'
<1> USE DEF RInv
<1>0. \A t \in Topic : log[t] \in Seq(Event) /\ Len(log[t]) \in Nat
  BY DEF TypeOK
<1>1. CASE log' = log
  BY <1>1 DEF Submitted, SubmittedInLog
<1>2. ASSUME NEW j \in Job, PublishJob(j)
      PROVE  j \notin Submitted /\ Submitted' = Submitted \cup {j} /\ SubmittedInLog'
  <2> DEFINE e == [job |-> j, attempt |-> 1]
             n == Len(log["jobs"])
  <2>1. e \in Event /\ "jobs" \in Topic /\ Publish("jobs", e)
    BY <1>2 DEF PublishJob, Event, Topic
  <2>2. /\ Len(log'["jobs"]) = n + 1 /\ n \in Nat
        /\ log'["jobs"][n + 1] = e
        /\ \A o \in 1 .. n : log'["jobs"][o] = log["jobs"][o]
        /\ \A u \in Topic : u # "jobs" => log'[u] = log[u]
    BY <2>1, PublishGrows
  <2>3. j \notin Submitted
    BY <1>2 DEF PublishJob, Submitted
  <2>4. 1 .. n + 1 = (1 .. n) \cup {n + 1}
    BY <2>2
  <2>5. Submitted' = Submitted \cup {j}
    <3>1. \A o \in 1 .. n + 1 : o \in 1 .. n \/ o = n + 1
      BY <2>4
    <3>2. \A k : k \in Submitted <=> \E o \in 1 .. n : k = log["jobs"][o].job
      BY DEF Submitted
    <3>3. \A k : k \in Submitted' <=> \E o \in 1 .. n + 1 : k = log'["jobs"][o].job
      BY <2>2 DEF Submitted
    <3>4. /\ \A o \in 1 .. n : o \in 1 .. n + 1 /\ log'["jobs"][o].job = log["jobs"][o].job
          /\ n + 1 \in 1 .. n + 1 /\ log'["jobs"][n + 1].job = j
      <4>1. \A o \in 1 .. n : o \in 1 .. n + 1
        BY <2>2
      <4>2. n + 1 \in 1 .. n + 1
        BY <2>2
      <4>3. QED
        BY <2>2, <4>1, <4>2
    <3>5. \A k : k \in Submitted' <=> k \in Submitted \/ k = j
      <4> HIDE DEF n, e
      <4>1. ASSUME NEW k, k \in Submitted' PROVE k \in Submitted \/ k = j
        <5>1. PICK o \in 1 .. n + 1 : k = log'["jobs"][o].job
          BY <3>3, <4>1
        <5>2. QED
          BY <3>1, <3>2, <3>4, <5>1
      <4>2. ASSUME NEW k, k \in Submitted PROVE k \in Submitted'
        <5>1. PICK o \in 1 .. n : k = log["jobs"][o].job
          BY <3>2, <4>2
        <5>2. QED
          BY <3>3, <3>4, <5>1
      <4>3. j \in Submitted'
        BY <3>3, <3>4
      <4>4. QED
        BY <4>1, <4>2, <4>3
    <3>6. QED
      BY <3>5
  <2>6. ASSUME NEW t \in Topic, NEW o \in 1 .. Len(log'[t])
        PROVE  log'[t][o].job \in Submitted \cup {j}
    <3>1. CASE t = "jobs" /\ o = n + 1
      BY <2>2, <3>1
    <3>2. CASE t # "jobs" \/ o # n + 1
      <4>1. o \in 1 .. Len(log[t]) /\ log'[t][o] = log[t][o]
        BY <2>2, <2>6, <3>2
      <4>2. QED
        BY <4>1 DEF SubmittedInLog
    <3>3. QED
      BY <3>1, <3>2
  <2>7. QED
    BY <2>3, <2>5, <2>6 DEF SubmittedInLog
<1>3. ASSUME NEW w \in Worker, RouteLimited(w) \/ RouteRetry(w)
      PROVE  Submitted' = Submitted /\ SubmittedInLog'
  <2>1. Current(w).job \in Submitted /\ Current(w).job \in Job /\ Current(w).attempt \in Nat \ {0}
    BY <1>3, CurrentSubmitted, CurrentIsEvent DEF RouteLimited, RouteRetry, Goto
  <2>2. PICK e \in Event : e.job = Current(w).job /\ Publish("retry", e)
    BY <1>3, <2>1 DEF RouteLimited, RouteRetry, WithAttempt, Event
  <2>3. /\ Len(log'["retry"]) = Len(log["retry"]) + 1
        /\ log'["retry"][Len(log["retry"]) + 1] = e
        /\ \A o \in 1 .. Len(log["retry"]) : log'["retry"][o] = log["retry"][o]
        /\ \A u \in Topic : u # "retry" => log'[u] = log[u]
    BY <2>2, PublishGrows DEF Topic
  <2>4. Submitted' = Submitted
    BY <2>3 DEF Submitted, Topic
  <2>5. ASSUME NEW t \in Topic, NEW o \in 1 .. Len(log'[t])
        PROVE  log'[t][o].job \in Submitted
    <3>1. CASE t = "retry" /\ o = Len(log["retry"]) + 1
      BY <2>1, <2>2, <2>3, <3>1
    <3>2. CASE t # "retry" \/ o # Len(log["retry"]) + 1
      <4>1. o \in 1 .. Len(log[t]) /\ log'[t][o] = log[t][o]
        BY <1>0, <2>3, <2>5, <3>2
      <4>2. QED
        BY <4>1 DEF SubmittedInLog
    <3>3. QED
      BY <3>1, <3>2
  <2>6. QED
    BY <2>4, <2>5 DEF SubmittedInLog
<1>4. \/ log' = log
      \/ \E j \in Job : PublishJob(j)
      \/ \E w \in Worker : RouteLimited(w) \/ RouteRetry(w)
  BY DEF Next, vars, kafkaVars, ExpireKey, Assign, Receive, Evict, Crash, Die,
     StartDraining, StopDraining, ProcessEvent, SkipWhileDraining,
     AppendReceived, CheckDuplicate, Admit, HandlerSucceeds, HandlerFails,
     MarkProcessed, AppendCompleted, SuccessPathRaises, AppendFailed,
     RouteDeadLetter, AppendOutcome, Commit, CommitRejected
<1>5. QED
  BY <1>1, <1>2, <1>3, <1>4

\* Every step of the runtime submits, finishes or buries at most one job, and
\* undoes nothing: it is a step of JobDelivery or a stutter.
LEMMA StepDelivers == RInv /\ [Next]_vars => [Delivery!Next]_(Delivery!vars)
<1> SUFFICES ASSUME RInv, [Next]_vars PROVE [Delivery!Next]_(Delivery!vars)
  OBVIOUS
<1>0. executed \in [Job -> Nat]
  BY DEF RInv, TypeOK
<1>1. ASSUME NEW j \in Job, PublishJob(j) PROVE Delivery!Submit(j)
  <2>1. j \notin Submitted /\ Submitted' = Submitted \cup {j}
    <3>1. j \notin Submitted
      BY <1>1 DEF PublishJob, Submitted
    <3>2. Submitted' # Submitted => Submitted' = Submitted \cup {j}
      <4>1. ASSUME NEW k \in Job, PublishJob(k) PROVE k = j
        <5>1. /\ log["jobs"] \in Seq(Event)
              /\ [job |-> j, attempt |-> 1] \in Event
              /\ [job |-> k, attempt |-> 1] \in Event
              /\ "jobs" \in Topic
          BY DEF RInv, TypeOK, Topic, Event
        <5>2. /\ log'["jobs"][Len(log["jobs"]) + 1] = [job |-> j, attempt |-> 1]
              /\ log'["jobs"][Len(log["jobs"]) + 1] = [job |-> k, attempt |-> 1]
          BY <1>1, <4>1, <5>1, PublishGrows DEF PublishJob, RInv
        <5>3. QED
          BY <5>2
      <4>2. QED
        BY <4>1, StepSubmitted
    <3>3. j \in Submitted'
      <4>1. /\ [job |-> j, attempt |-> 1] \in Event /\ "jobs" \in Topic
            /\ Publish("jobs", [job |-> j, attempt |-> 1])
        BY <1>1 DEF PublishJob, Event, Topic
      <4>2. /\ Len(log'["jobs"]) = Len(log["jobs"]) + 1
            /\ Len(log["jobs"]) \in Nat
            /\ log'["jobs"][Len(log["jobs"]) + 1] = [job |-> j, attempt |-> 1]
        BY <4>1, PublishGrows DEF RInv
      <4>3. QED
        BY <4>2 DEF Submitted
    <3>4. QED
      BY <3>1, <3>2, <3>3
  <2>2. Finished' = Finished /\ dlq' = dlq
    BY <1>1 DEF PublishJob, Finished
  <2>3. QED
    BY <2>1, <2>2 DEF Delivery!Submit
<1>2. ASSUME NEW w \in Worker, HandlerSucceeds(w)
      PROVE  Finished' = Finished \/ Delivery!Finish(Current(w).job)
  <2>1. Current(w).job \in Submitted /\ Current(w).job \in Job
    BY <1>2, CurrentSubmitted DEF HandlerSucceeds, Goto
  <2>2. Finished' = Finished \cup {Current(w).job}
    BY <1>0, <1>2, <2>1 DEF HandlerSucceeds, Finished
  <2>3. Submitted' = Submitted /\ dlq' = dlq
    BY <1>2 DEF HandlerSucceeds, kafkaVars, Submitted
  <2>4. QED
    BY <2>1, <2>2, <2>3 DEF Delivery!Finish
<1>3. ASSUME NEW w \in Worker, RouteDeadLetter(w)
      PROVE  dlq' = dlq \/ Delivery!Bury(Current(w).job)
  <2>1. Current(w).job \in Submitted
    BY <1>3, CurrentSubmitted DEF RouteDeadLetter, Goto
  <2>2. dlq' = dlq \cup {Current(w).job}
    BY <1>3 DEF RouteDeadLetter
  <2>3. Submitted' = Submitted /\ Finished' = Finished
    BY <1>3 DEF RouteDeadLetter, kafkaVars, Submitted, Finished
  <2>4. QED
    BY <2>1, <2>2, <2>3 DEF Delivery!Bury
<1>4. CASE \E j \in Job : PublishJob(j)
  BY <1>1, <1>4 DEF Delivery!Next
<1>5. CASE \E w \in Worker : HandlerSucceeds(w)
  <2>1. PICK w \in Worker : HandlerSucceeds(w)
    BY <1>5
  <2>2. Current(w).job \in Job
    BY <2>1, CurrentSubmitted DEF HandlerSucceeds, Goto
  <2>3. Submitted' = Submitted /\ dlq' = dlq
    BY <2>1 DEF HandlerSucceeds, kafkaVars, Submitted
  <2>4. QED
    BY <1>2, <2>1, <2>2, <2>3 DEF Delivery!Next, Delivery!vars
<1>6. CASE \E w \in Worker : RouteDeadLetter(w)
  <2>1. PICK w \in Worker : RouteDeadLetter(w)
    BY <1>6
  <2>2. Current(w).job \in Job
    BY <2>1, CurrentSubmitted DEF RouteDeadLetter, Goto
  <2>3. Submitted' = Submitted /\ Finished' = Finished
    BY <2>1 DEF RouteDeadLetter, kafkaVars, Submitted, Finished
  <2>4. QED
    BY <1>3, <2>1, <2>2, <2>3 DEF Delivery!Next, Delivery!vars
<1>7. CASE /\ ~ \E j \in Job : PublishJob(j)
           /\ ~ \E w \in Worker : HandlerSucceeds(w) \/ RouteDeadLetter(w)
  <2>1. Submitted' = Submitted
    BY <1>7, StepSubmitted
  <2>2. executed' = executed /\ dlq' = dlq
    BY <1>7 DEF Next, vars, ExpireKey, Assign, Receive, Evict, Crash,
       Die, StartDraining, StopDraining, ProcessEvent, SkipWhileDraining,
       AppendReceived, CheckDuplicate, Admit, RouteLimited, HandlerFails,
       MarkProcessed, AppendCompleted, SuccessPathRaises, AppendFailed,
       RouteRetry, AppendOutcome, Commit, CommitRejected
  <2>3. QED
    BY <2>1, <2>2 DEF Finished, Delivery!vars
<1>8. QED
  BY <1>4, <1>5, <1>6, <1>7

\* The runtime, with all its topics, offsets, evictions, crashes and retries,
\* is a JobDelivery: a job finishes or is buried only after it was submitted,
\* one job at a time, and neither is ever undone.
THEOREM DeliveryRefinement == Spec => DeliverySpec
<1>1. Init => Delivery!Init
  BY DEF Init, Delivery!Init, Submitted, Finished, Topic
<1>2. Init => RInv
  BY InitTypeOK DEF RInv, Init, SubmittedInLog
<1>3. RInv /\ [Next]_vars => RInv'
  BY StepTypeOK, StepSubmitted DEF RInv
<1>4. RInv /\ [Next]_vars => [Delivery!Next]_(Delivery!vars)
  BY StepDelivers
<1>5. QED
  BY <1>1, <1>2, <1>3, <1>4, PTL DEF Spec, DeliverySpec, Delivery!Spec

-----------------------------------------------------------------------------
(* What is in the WAL: the inductive invariant behind CommittedIsLogged.   *)

Has(e, kinds) ==
    \E k \in kinds : RecordOf(e, k) \in wal

Terminal == {"completed", "duplicate", "limited", "retry", "dead"}

LoggedPlace(t, o) ==
    \/ [topic |-> t, offset |-> o] \in skipped
    \/ Has(log[t][o], {"received"}) /\ Has(log[t][o], Terminal)

\* The record of an event comes before what it is the record of.
HandIsLogged(w) ==
    /\ pc[w] \notin {"poll", "received"} => Has(Current(w), {"received"})
    /\ pc[w] \in {"commitDone", "commit"} => Has(Current(w), Terminal)
CurIsLogged == \A w \in Worker : HandIsLogged(w)

\* Whatever an owner has read is in the WAL, but for the event in its hands.
ReadIsLogged ==
    \A t \in Topic : \A w \in Worker : owner[t] = w =>
        \A o \in 1 .. position[t] :
            \/ LoggedPlace(t, o)
            \/ pc[w] # "poll" /\ cur[w] = [topic |-> t, offset |-> o]

LInv == IInv /\ CurIsLogged /\ ReadIsLogged /\ CommittedIsLogged

\* No record of the WAL is ever taken back.
LEMMA StepWal == [Next]_vars => wal \subseteq wal'
BY DEF Next, vars, kafkaVars, PublishJob, ExpireKey, Assign, Receive, Evict, Crash, Die,
   StartDraining, StopDraining, ProcessEvent, SkipWhileDraining, AppendReceived, Append1,
   CheckDuplicate, Admit, RouteLimited, HandlerSucceeds, HandlerFails, MarkProcessed,
   AppendCompleted, SuccessPathRaises, AppendFailed, RouteDeadLetter, RouteRetry,
   AppendOutcome, Commit, CommitRejected

\* What is logged of a place stays logged.
LEMMA LoggedIsStable ==
    ASSUME Grows, wal \subseteq wal', NEW t \in Topic, NEW o \in 1 .. Len(log[t]),
           LoggedPlace(t, o)
    PROVE  LoggedPlace(t, o)'
<1>1. log'[t][o] = log[t][o] /\ skipped \subseteq skipped'
  BY DEF Grows
<1>2. QED
  BY <1>1 DEF LoggedPlace, Has

\* A worker that keeps its event keeps what is logged of it.
LEMMA HandIsStable ==
    ASSUME TypeOK, CurInLog, Grows, wal \subseteq wal', NEW w \in Worker,
           pc[w] # "poll", cur'[w] = cur[w]
    PROVE  /\ Current(w)' = Current(w)
           /\ \A kinds : Has(Current(w), kinds) => Has(Current(w), kinds)'
<1>1. cur[w].topic \in Topic /\ cur[w].offset \in 1 .. Len(log[cur[w].topic])
  BY CurrentIsEvent DEF CurInLog
<1>2. Current(w)' = Current(w)
  BY <1>1 DEF Grows, Current, EventAt
<1>3. QED
  BY <1>2 DEF Has

\* Offsets that have not moved stay logged.
LEMMA CommittedStaysLogged ==
    ASSUME LInv, Grows, wal \subseteq wal', committed' = committed
    PROVE  CommittedIsLogged'
<1>1. ASSUME NEW t \in Topic, NEW o \in 1 .. committed[t] PROVE LoggedPlace(t, o)'
  <2>1. o \in 1 .. Len(log[t])
    BY DEF LInv, IInv, OffsetsInLog, TypeOK, Grows
  <2>2. LoggedPlace(t, o)
    BY DEF LInv, CommittedIsLogged, LoggedPlace, Has, Terminal
  <2>3. QED
    BY <2>1, <2>2, LoggedIsStable
<1>2. QED
  BY <1>1 DEF CommittedIsLogged, LoggedPlace, Has, Terminal

\* A worker that stays where it is keeps what is logged of its event.
LEMMA OtherHands ==
    ASSUME LInv, Grows, wal \subseteq wal', NEW w \in Worker,
           pc'[w] = "poll" \/ (pc'[w] = pc[w] /\ cur'[w] = cur[w])
    PROVE  HandIsLogged(w)'
<1>1. CASE pc'[w] = "poll"
  BY <1>1 DEF HandIsLogged
<1>2. CASE pc'[w] # "poll"
  <2>1. pc[w] # "poll" /\ pc'[w] = pc[w] /\ cur'[w] = cur[w]
    BY <1>2
  <2>2. \A kinds : Has(Current(w), kinds) => Has(Current(w), kinds)'
    BY <2>1, HandIsStable DEF LInv, IInv
  <2>3. QED
    BY <2>1, <2>2 DEF LInv, CurIsLogged, HandIsLogged
<1>3. QED
  BY <1>1, <1>2

\* A step inside process_event, or one outside every worker.
LEMMA LocalLogged ==
    ASSUME LInv, IInv', Grows, wal \subseteq wal', CurIsLogged',
           UNCHANGED <<owner, position, committed, cur>>,
           \A v \in Worker : pc[v] # "poll" => pc'[v] # "poll"
    PROVE  LInv'
<1>1. ReadIsLogged'
  <2> SUFFICES ASSUME NEW t \in Topic, NEW w \in Worker, owner[t] = w,
                      NEW o \in 1 .. position[t]
               PROVE  \/ LoggedPlace(t, o)'
                      \/ pc'[w] # "poll" /\ cur[w] = [topic |-> t, offset |-> o]
    BY DEF ReadIsLogged
  <2>1. o \in 1 .. Len(log[t])
    <3>1. owner[t] # Nobody
      BY ConstantsAssumption
    <3>2. position[t] <= Len(log[t])
      BY <3>1 DEF LInv, IInv, OffsetsInLog
    <3>3. position[t] \in Nat /\ Len(log[t]) \in Nat
      BY DEF LInv, IInv, TypeOK, Grows
    <3>4. QED
      BY <3>2, <3>3
  <2>2. \/ LoggedPlace(t, o)
        \/ pc[w] # "poll" /\ cur[w] = [topic |-> t, offset |-> o]
    BY DEF LInv, ReadIsLogged
  <2>3. QED
    BY <2>1, <2>2, LoggedIsStable
<1>2. QED
  BY <1>1, CommittedStaysLogged DEF LInv

\* A worker drops out, loses its topics, or both, with nothing committed.
LEMMA LossLogged ==
    ASSUME LInv, IInv', Grows, wal \subseteq wal', NEW w \in Worker,
           Revoke(w), UNCHANGED <<position, committed>>,
           \A v \in Worker \ {w} : pc'[v] = pc[v] /\ cur'[v] = cur[v],
           pc'[w] = "poll" \/ (pc'[w] = pc[w] /\ cur'[w] = cur[w])
    PROVE  LInv'
<1>1. \A t \in Topic : owner'[t] = IF owner[t] = w THEN Nobody ELSE owner[t]
  BY DEF Revoke
<1>2. ReadIsLogged'
  <2> SUFFICES ASSUME NEW t \in Topic, NEW v \in Worker, owner'[t] = v,
                      NEW o \in 1 .. position[t]
               PROVE  \/ LoggedPlace(t, o)'
                      \/ pc'[v] # "poll" /\ cur'[v] = [topic |-> t, offset |-> o]
    BY DEF ReadIsLogged
  <2>1. owner[t] = v /\ v # w /\ owner[t] # Nobody
    BY <1>1, ConstantsAssumption
  <2>2. o \in 1 .. Len(log[t])
    BY <2>1 DEF LInv, IInv, OffsetsInLog, TypeOK, Grows
  <2>3. \/ LoggedPlace(t, o)
        \/ pc[v] # "poll" /\ cur[v] = [topic |-> t, offset |-> o]
    BY <2>1 DEF LInv, ReadIsLogged
  <2>4. QED
    BY <2>1, <2>2, <2>3, LoggedIsStable
<1>3. CurIsLogged'
  <2>1. \A v \in Worker : HandIsLogged(v)'
    BY OtherHands
  <2>2. QED
    BY <2>1 DEF CurIsLogged
<1>4. QED
  BY <1>2, <1>3, CommittedStaysLogged DEF LInv

\* A step of process_event logs before it moves to the points that rely on it.
LEMMA ProcessIsLogged ==
    ASSUME LInv, Grows, wal \subseteq wal', NEW w \in Worker, ProcessEvent(w),
           ~ SkipWhileDraining(w), ~ Commit(w), ~ CommitRejected(w)
    PROVE  /\ CurIsLogged'
           /\ UNCHANGED <<owner, position, committed, cur>>
           /\ \A v \in Worker : pc[v] # "poll" => pc'[v] # "poll"
<1>0. pc \in [Worker -> ProgramPoint]
  BY DEF LInv, IInv, TypeOK
<1>1. /\ UNCHANGED <<owner, position, committed, cur>> /\ pc[w] # "poll"
      /\ \E to \in ProgramPoint \ {"poll"} : pc' = [pc EXCEPT ![w] = to]
  BY DEF ProcessEvent, Goto, kafkaVars, ProgramPoint, AppendReceived, CheckDuplicate, Admit,
     RouteLimited, HandlerSucceeds, HandlerFails, MarkProcessed, AppendCompleted,
     SuccessPathRaises, AppendFailed, RouteDeadLetter, RouteRetry, AppendOutcome
<1>2. \A v \in Worker \ {w} : pc'[v] = pc[v] /\ cur'[v] = cur[v]
  BY <1>0, <1>1
<1>3. /\ Current(w)' = Current(w)
      /\ \A kinds : Has(Current(w), kinds) => Has(Current(w), kinds)'
  BY <1>1, HandIsStable DEF LInv, IInv
<1>4. HandIsLogged(w)
  BY DEF LInv, CurIsLogged
<1>5. HandIsLogged(w)'
  <2>1. CASE AppendReceived(w)
    <3>1. pc'[w] = "checked" /\ Append1(w, "received")
      BY <1>0, <2>1 DEF AppendReceived, Goto
    <3>2. QED
      BY <1>3, <3>1 DEF HandIsLogged, Append1, Has
  <2>2. CASE AppendCompleted(w)
    <3>1. pc[w] = "complete" /\ pc'[w] = "commitDone" /\ Append1(w, "completed")
      BY <1>0, <2>2 DEF AppendCompleted, Goto
    <3>2. QED
      BY <1>3, <1>4, <3>1 DEF HandIsLogged, Append1, Has, Terminal
  <2>3. CASE AppendOutcome(w)
    <3>1. /\ pc[w] \in {"duplicate", "limited", "routed"} /\ pc'[w] = "commit"
          /\ Append1(w, OutcomeKind(w)) /\ OutcomeKind(w) \in Terminal
      BY <1>0, <2>3 DEF AppendOutcome, OutcomeKind, Terminal
    <3>2. QED
      BY <1>3, <1>4, <3>1 DEF HandIsLogged, Append1, Has
  <2>4. CASE ~ (AppendReceived(w) \/ AppendCompleted(w) \/ AppendOutcome(w))
    <3>1. /\ pc[w] \notin {"poll", "received"} /\ pc'[w] \notin {"commitDone", "commit"}
      BY <1>0, <2>4 DEF ProcessEvent, Goto, CheckDuplicate, Admit,
         RouteLimited, HandlerSucceeds, HandlerFails, MarkProcessed,
         SuccessPathRaises, AppendFailed, RouteDeadLetter, RouteRetry
    <3>2. QED
      BY <1>3, <1>4, <3>1 DEF HandIsLogged
  <2>5. QED
    BY <2>1, <2>2, <2>3, <2>4
<1>6. \A v \in Worker : HandIsLogged(v)'
  BY <1>2, <1>5, OtherHands
<1>7. \A v \in Worker : pc[v] # "poll" => pc'[v] # "poll"
  BY <1>0, <1>1
<1>8. QED
  BY <1>1, <1>6, <1>7 DEF CurIsLogged

\* Initially the invariant of dead letters and reruns holds.
LEMMA InitLInv == Init => LInv
<1> SUFFICES ASSUME Init PROVE LInv
  OBVIOUS
<1>1. ReadIsLogged /\ CommittedIsLogged
  BY ConstantsAssumption DEF Init, ReadIsLogged, CommittedIsLogged
<1>2. CurIsLogged
  BY DEF Init, CurIsLogged, HandIsLogged
<1>3. QED
  BY <1>1, <1>2, InitIInv DEF LInv

\* Every step, a stuttering one too, keeps the invariant of dead letters and reruns.
LEMMA StepLInv == LInv /\ [Next]_vars => LInv'
<1> SUFFICES ASSUME LInv, [Next]_vars PROVE LInv'
  OBVIOUS
<1>0. TypeOK /\ CurInLog /\ Grows /\ IInv' /\ wal \subseteq wal'
  BY StepGrows, StepIInv, StepWal DEF LInv, IInv
<1>1. ASSUME UNCHANGED <<owner, position, committed, cur, pc>> PROVE LInv'
  <2>1. CurIsLogged'
    BY <1>0, <1>1, OtherHands DEF CurIsLogged
  <2>2. QED
    BY <1>0, <1>1, <2>1, LocalLogged
<1>2. ASSUME NEW w \in Worker, NEW t \in Topic, Assign(w, t) PROVE LInv'
  <2>1. /\ owner' = [owner EXCEPT ![t] = w] /\ position' = [position EXCEPT ![t] = committed[t]]
        /\ owner[t] = Nobody /\ UNCHANGED <<log, committed, pc, cur, wal, skipped>>
    BY <1>2 DEF Assign
  <2>2. ReadIsLogged'
    <3> SUFFICES ASSUME NEW u \in Topic, NEW v \in Worker, owner'[u] = v,
                        NEW o \in 1 .. position'[u]
                 PROVE  \/ LoggedPlace(u, o)
                        \/ pc[v] # "poll" /\ cur[v] = [topic |-> u, offset |-> o]
      BY <2>1 DEF ReadIsLogged, LoggedPlace, Has
    <3>1. CASE u = t
      <4>1. o \in 1 .. committed[u]
        BY <1>0, <2>1, <3>1 DEF TypeOK
      <4>2. QED
        BY <4>1 DEF LInv, CommittedIsLogged, LoggedPlace, Has, Terminal
    <3>2. CASE u # t
      BY <1>0, <2>1, <3>2 DEF LInv, ReadIsLogged, TypeOK
    <3>3. QED
      BY <3>1, <3>2
  <2>3. CurIsLogged'
    BY <1>0, <2>1, OtherHands DEF CurIsLogged
  <2>4. QED
    BY <1>0, <2>1, <2>2, <2>3, CommittedStaysLogged DEF LInv
<1>3. ASSUME NEW w \in Worker, NEW t \in Topic, Receive(w, t) PROVE LInv'
  <2>1. /\ position' = [position EXCEPT ![t] = position[t] + 1] /\ owner[t] = w
        /\ cur' = [cur EXCEPT ![w] = [topic |-> t, offset |-> position[t] + 1]]
        /\ pc[w] = "poll" /\ pc' = [pc EXCEPT ![w] = "received"]
        /\ UNCHANGED <<log, owner, committed, wal, skipped>>
    BY <1>3 DEF Receive, Goto
  <2>2. /\ \A v \in Worker \ {w} : pc'[v] = pc[v] /\ cur'[v] = cur[v]
        /\ pc'[w] = "received" /\ cur'[w] = [topic |-> t, offset |-> position[t] + 1]
    BY <1>0, <2>1 DEF TypeOK
  <2>3. ReadIsLogged'
    <3> SUFFICES ASSUME NEW u \in Topic, NEW v \in Worker, owner[u] = v,
                        NEW o \in 1 .. position'[u]
                 PROVE  \/ LoggedPlace(u, o)
                        \/ pc'[v] # "poll" /\ cur'[v] = [topic |-> u, offset |-> o]
      BY <2>1 DEF ReadIsLogged, LoggedPlace, Has
    <3>1. CASE o \in 1 .. position[u]
      <4>1. \/ LoggedPlace(u, o)
            \/ pc[v] # "poll" /\ cur[v] = [topic |-> u, offset |-> o]
        BY <3>1 DEF LInv, ReadIsLogged
      <4>2. QED
        BY <2>1, <2>2, <4>1
    <3>2. CASE o \notin 1 .. position[u]
      <4>1. u = t /\ o = position[t] + 1
        BY <1>0, <2>1, <3>2 DEF TypeOK
      <4>2. QED
        BY <2>1, <2>2, <4>1
    <3>3. QED
      BY <3>1, <3>2
  <2>4. HandIsLogged(w)'
    BY <2>2 DEF HandIsLogged
  <2>5. CurIsLogged'
    BY <1>0, <2>2, <2>4, OtherHands DEF CurIsLogged
  <2>6. QED
    BY <1>0, <2>1, <2>3, <2>5, CommittedStaysLogged DEF LInv
<1>4. ASSUME NEW w \in Worker, Evict(w) \/ Die(w) PROVE LInv'
  <2>1. /\ Revoke(w) /\ UNCHANGED <<position, committed>>
        /\ \A v \in Worker \ {w} : pc'[v] = pc[v] /\ cur'[v] = cur[v]
        /\ pc'[w] = "poll" \/ (pc'[w] = pc[w] /\ cur'[w] = cur[w])
    BY <1>0, <1>4 DEF Evict, Die, BackToLoop, TypeOK
  <2>2. QED
    BY <1>0, <2>1, LossLogged
<1>5. ASSUME NEW w \in Worker, SkipWhileDraining(w) PROVE LInv'
  <2>1. /\ skipped' = skipped \cup {cur[w]} /\ pc[w] = "received"
        /\ pc' = [pc EXCEPT ![w] = "poll"] /\ cur' = [cur EXCEPT ![w] = NoPlace]
        /\ UNCHANGED <<log, owner, position, committed, wal>>
    BY <1>5 DEF SkipWhileDraining, BackToLoop, kafkaVars
  <2>2. pc'[w] = "poll" /\ \A v \in Worker \ {w} : pc'[v] = pc[v] /\ cur'[v] = cur[v]
    BY <1>0, <2>1 DEF TypeOK
  <2>3. ReadIsLogged'
    <3> SUFFICES ASSUME NEW t \in Topic, NEW v \in Worker, owner[t] = v,
                        NEW o \in 1 .. position[t]
                 PROVE  \/ LoggedPlace(t, o)'
                        \/ pc'[v] # "poll" /\ cur'[v] = [topic |-> t, offset |-> o]
      BY <2>1 DEF ReadIsLogged
    <3>1. CASE LoggedPlace(t, o)
      BY <2>1, <3>1 DEF LoggedPlace, Has
    <3>2. CASE pc[v] # "poll" /\ cur[v] = [topic |-> t, offset |-> o]
      <4>1. CASE v = w
        BY <2>1, <3>2, <4>1 DEF LoggedPlace
      <4>2. CASE v # w
        BY <2>2, <3>2, <4>2
      <4>3. QED
        BY <4>1, <4>2
    <3>3. QED
      BY <3>1, <3>2 DEF LInv, ReadIsLogged
  <2>4. CurIsLogged'
    BY <1>0, <2>2, OtherHands DEF CurIsLogged
  <2>5. QED
    BY <1>0, <2>1, <2>3, <2>4, CommittedStaysLogged DEF LInv
<1>6. ASSUME NEW w \in Worker, Commit(w) PROVE LInv'
  <2>1. /\ pc[w] \in {"commitDone", "commit"} /\ owner[cur[w].topic] = w
        /\ committed' = [t \in Topic |-> IF owner[t] = w THEN position[t] ELSE committed[t]]
        /\ pc' = [pc EXCEPT ![w] = "poll"] /\ cur' = [cur EXCEPT ![w] = NoPlace]
        /\ UNCHANGED <<log, owner, position, wal, skipped>>
    BY <1>6 DEF Commit, BackToLoop
  <2>2. pc'[w] = "poll" /\ \A v \in Worker \ {w} : pc'[v] = pc[v] /\ cur'[v] = cur[v]
    BY <1>0, <2>1 DEF TypeOK
  <2>3. ASSUME NEW t \in Topic, NEW o \in 1 .. position[t], owner[t] = w
        PROVE  LoggedPlace(t, o)
    <3>1. CASE cur[w] = [topic |-> t, offset |-> o]
      <4>1. Current(w) = log[t][o]
        BY <3>1 DEF Current, EventAt
      <4>2. QED
        BY <2>1, <4>1 DEF LInv, CurIsLogged, HandIsLogged, LoggedPlace
    <3>2. CASE cur[w] # [topic |-> t, offset |-> o]
      BY <2>3, <3>2 DEF LInv, ReadIsLogged
    <3>3. QED
      BY <3>1, <3>2
  <2>4. ReadIsLogged'
    <3> SUFFICES ASSUME NEW t \in Topic, NEW v \in Worker, owner[t] = v,
                        NEW o \in 1 .. position[t]
                 PROVE  \/ LoggedPlace(t, o)
                        \/ pc'[v] # "poll" /\ cur'[v] = [topic |-> t, offset |-> o]
      BY <2>1 DEF ReadIsLogged, LoggedPlace, Has
    <3>1. CASE v = w
      BY <2>3, <3>1
    <3>2. CASE v # w
      BY <2>2, <3>2 DEF LInv, ReadIsLogged
    <3>3. QED
      BY <3>1, <3>2
  <2>5. CommittedIsLogged'
    <3>1. ASSUME NEW t \in Topic, NEW o \in 1 .. committed'[t] PROVE LoggedPlace(t, o)
      <4>1. CASE owner[t] = w
        BY <2>1, <2>3, <4>1
      <4>2. CASE owner[t] # w
        BY <2>1, <4>2 DEF LInv, CommittedIsLogged, LoggedPlace, Has, Terminal
      <4>3. QED
        BY <4>1, <4>2
    <3>2. QED
      BY <2>1, <3>1 DEF CommittedIsLogged, LoggedPlace, Has, Terminal
  <2>6. CurIsLogged'
    BY <1>0, <2>2, OtherHands DEF CurIsLogged
  <2>7. QED
    BY <1>0, <2>4, <2>5, <2>6 DEF LInv
<1>7. ASSUME NEW w \in Worker, ProcessEvent(w) PROVE LInv'
  <2>1. CASE SkipWhileDraining(w) \/ Commit(w) \/ CommitRejected(w)
    BY <1>4, <1>5, <1>6, <2>1 DEF CommitRejected
  <2>2. CASE ~ (SkipWhileDraining(w) \/ Commit(w) \/ CommitRejected(w))
    BY <1>0, <1>7, <2>2, ProcessIsLogged, LocalLogged
  <2>3. QED
    BY <2>1, <2>2
<1>8. CASE UNCHANGED vars \/ \E j \in Job : PublishJob(j) \/ ExpireKey(j)
  BY <1>1, <1>8 DEF vars, kafkaVars, PublishJob, ExpireKey
<1>9. ASSUME NEW w \in Worker, Crash(w) \/ StartDraining(w) \/ StopDraining(w) PROVE LInv'
  BY <1>1, <1>4, <1>9 DEF Crash, StartDraining, StopDraining, kafkaVars
<1>10. QED
  BY <1>2, <1>3, <1>4, <1>7, <1>8, <1>9 DEF Next

\* Of some places of a topic one is the last.
LEMMA LastPlace ==
    ASSUME NEW n \in Nat, NEW S, S \subseteq 1 .. n, S # {}
    PROVE  \E i \in S : \A j \in S : j <= i
<1> DEFINE R == {ss \in Nat \X Nat : ss[1] < ss[2]}
           T == {n - i : i \in S}
<1>1. IsWellFoundedOn(R, Nat)
  BY NatLessThanWellFounded DEF OpToRel
<1>2. T \subseteq Nat /\ T # {}
  <2>1. \A i \in S : n - i \in Nat
    OBVIOUS
  <2>2. QED
    BY <2>1
<1>3. \A k, m \in Nat : <<m, k>> \notin R => k <= m
  OBVIOUS
<1>4. PICK k \in T : \A m \in T : <<m, k>> \notin R
  <2> HIDE DEF R, T
  <2>1. QED
    BY <1>1, <1>2, WFMin
<1>5. \A m \in T : k <= m
  <2> HIDE DEF R, T
  <2>1. QED
    BY <1>2, <1>3, <1>4
<1>6. PICK i \in S : k = n - i
  OBVIOUS
<1>7. \A j \in S : j <= i
  <2>1. \A j \in S : n - j \in T
    OBVIOUS
  <2>2. QED
    BY <1>5, <1>6, <2>1
<1>8. QED
  BY <1>7

\* The last event of a job in the retry topic was not routed to a later one: if
\* the group is past it, the job is settled.
LEMMA LastCopySettles ==
    ASSUME IInv, NEW j \in Job, executed[j] = 0, j \notin dlq,
           \A p \in skipped : EventAt(p).job # j,
           NEW t \in Topic, NEW o \in 1 .. committed[t], log[t][o].job = j
    PROVE  \E u \in Topic : \E r \in committed[u] + 1 .. Len(log[u]) : log[u][r].job = j
<1> DEFINE S == {r \in 1 .. Len(log["retry"]) : log["retry"][r].job = j}
<1>0. Len(log["retry"]) \in Nat /\ "retry" \in Topic /\ committed["retry"] \in Nat
  BY DEF IInv, TypeOK, Topic
<1>1. \A u \in Topic : \A r \in 1 .. committed[u] : log[u][r].job = j =>
          \E q \in S : u = "retry" => q > r
  <2> TAKE u \in Topic
  <2> TAKE r \in 1 .. committed[u]
  <2> HAVE log[u][r].job = j
  <2>1. [topic |-> u, offset |-> r] \notin skipped
    BY DEF EventAt
  <2>2. Routed(u, r)
    BY <2>1 DEF IInv, CommittedIsAccounted
  <2>3. QED
    BY <2>2 DEF Routed
<1>2. S # {} /\ S \subseteq 1 .. Len(log["retry"])
  BY <1>1
<1>3. PICK i \in S : \A q \in S : q <= i
  <2> HIDE DEF S
  <2>1. QED
    BY <1>0, <1>2, LastPlace
<1>4. ~ (i <= committed["retry"])
  <2> SUFFICES ASSUME i <= committed["retry"] PROVE FALSE
    OBVIOUS
  <2>1. i \in 1 .. committed["retry"] /\ log["retry"][i].job = j
    BY <1>0
  <2>2. PICK q \in S : q > i
    BY <1>0, <1>1, <2>1
  <2>3. QED
    BY <1>3, <2>2
<1>5. i \in committed["retry"] + 1 .. Len(log["retry"]) /\ log["retry"][i].job = j
  BY <1>0, <1>4
<1>6. QED
  BY <1>0, <1>5

\* durable_job_runtime.py, contract items 4 to 7: for any number of jobs,
\* workers and faults, a published job is executed, dead-lettered, dropped by a
\* draining worker or still to be read, and no offset is committed before the
\* WAL has what became of its event.
THEOREM JobsAreSafe == Spec => []JobsAreKept
<1>1. LInv => NoJobLost
  <2> SUFFICES ASSUME LInv PROVE NoJobLost
    OBVIOUS
  <2>1. "jobs" \in Topic /\ log["jobs"] \in Seq(Event) /\ committed["jobs"] \in Nat
    BY DEF LInv, IInv, TypeOK, Topic
  <2>2. \A o \in 1 .. Len(log["jobs"]) : log["jobs"][o] \in Event
    BY <2>1
  <2>3. executed \in [Job -> Nat]
    BY DEF LInv, IInv, TypeOK
  <2>4. ASSUME NEW o \in 1 .. Len(log["jobs"]), NEW j \in Job, log["jobs"][o].job = j,
               executed[j] = 0, j \notin dlq, \A p \in skipped : EventAt(p).job # j
        PROVE  \E t \in Topic : \E u \in committed[t] + 1 .. Len(log[t]) : log[t][u].job = j
    <3>1. CASE o <= committed["jobs"]
      <4>1. o \in 1 .. committed["jobs"]
        BY <2>1, <3>1
      <4>2. QED
        BY <2>1, <2>4, <4>1, LastCopySettles DEF LInv
    <3>2. CASE o > committed["jobs"]
      <4>1. o \in committed["jobs"] + 1 .. Len(log["jobs"])
        BY <2>1, <3>2
      <4>2. QED
        BY <2>1, <2>4, <4>1
    <3>3. QED
      BY <2>1, <3>1, <3>2
  <2>5. ASSUME NEW o \in 1 .. Len(log["jobs"])
        PROVE  LET j == log["jobs"][o].job IN
               \/ executed[j] > 0 \/ j \in dlq
               \/ \E p \in skipped : EventAt(p).job = j
               \/ \E t \in Topic : \E u \in committed[t] + 1 .. Len(log[t]) :
                     log[t][u].job = j
    <3>1. PICK j \in Job : log["jobs"][o].job = j
      BY <2>2 DEF Event
    <3>2. executed[j] = 0 \/ executed[j] > 0
      BY <2>3
    <3>3. QED
      BY <2>4, <3>1, <3>2
  <2>6. QED
    BY <2>5 DEF NoJobLost
<1>2. LInv => CommittedIsLogged
  BY DEF LInv
<1>3. QED
  BY InitLInv, StepLInv, <1>1, <1>2, PTL DEF Spec, JobsAreKept

-----------------------------------------------------------------------------
(* What the owners of topics hold.                                         *)

\* The event in the hands of an owner is read and not committed.
HandBounds ==
    \A w \in Worker : pc[w] # "poll" /\ owner[cur[w].topic] = w =>
        committed[cur[w].topic] < cur[w].offset /\ cur[w].offset <= position[cur[w].topic]

\* Only jobs that were published are executed or dead-lettered.
OnlySubmitted == Finished \cup dlq \subseteq Submitted

HandInv == IInv /\ SubmittedInLog /\ HandBounds /\ OnlySubmitted

\* A step of process_event moves its worker from one point to the next with the
\* same event in its hands, or takes it back to its loop.
LEMMA ProcessMoves ==
    ASSUME TypeOK, NEW w \in Worker, ProcessEvent(w)
    PROVE  /\ pc[w] # "poll"
           /\ \/ SkipWhileDraining(w) \/ Commit(w) \/ CommitRejected(w)
              \/ /\ UNCHANGED <<owner, position, committed, cur>>
                 /\ \E to \in ProgramPoint \ {"poll"} : pc' = [pc EXCEPT ![w] = to]
BY DEF TypeOK, ProcessEvent, Goto, kafkaVars, ProgramPoint, AppendReceived, CheckDuplicate,
   Admit, RouteLimited, HandlerSucceeds, HandlerFails, MarkProcessed, AppendCompleted,
   SuccessPathRaises, AppendFailed, RouteDeadLetter, RouteRetry, AppendOutcome,
   SkipWhileDraining, Commit, CommitRejected

\* A worker that loses its topics, or goes back to its loop, takes nothing from
\* the other owners.
LEMMA LossKeepsHands ==
    ASSUME IInv, HandBounds, NEW w \in Worker, Revoke(w) \/ owner' = owner,
           UNCHANGED <<position, committed>>,
           \A v \in Worker \ {w} : pc'[v] = pc[v] /\ cur'[v] = cur[v],
           pc'[w] = "poll" \/ (pc'[w] # "poll" /\ pc[w] # "poll" /\ cur'[w] = cur[w])
    PROVE  HandBounds'
<1>0. owner \in [Topic -> Worker \cup {Nobody}] /\ \A v \in Worker : cur[v].topic \in Topic
  BY DEF IInv, TypeOK, Place
<1>1. \A t \in Topic : owner'[t] = owner[t] \/ owner'[t] = Nobody
  BY <1>0 DEF Revoke
<1>2. \A v \in Worker, t \in Topic : owner'[t] = v => owner[t] = v
  BY <1>1, ConstantsAssumption
<1>3. ASSUME NEW v \in Worker, pc'[v] # "poll" PROVE pc[v] # "poll" /\ cur'[v] = cur[v]
  BY <1>3
<1>4. QED
  BY <1>0, <1>2, <1>3 DEF HandBounds

\* The hands of the owners stay within what was read and not committed.
LEMMA StepHands == IInv /\ HandBounds /\ [Next]_vars => HandBounds'
<1> SUFFICES ASSUME IInv, HandBounds, [Next]_vars PROVE HandBounds'
  OBVIOUS
<1>0. /\ owner \in [Topic -> Worker \cup {Nobody}] /\ cur \in [Worker -> Place]
      /\ pc \in [Worker -> ProgramPoint] /\ \A v \in Worker : cur[v].topic \in Topic
      /\ position \in [Topic -> Nat] /\ committed \in [Topic -> Nat]
  BY DEF IInv, TypeOK, Place
<1>1. ASSUME UNCHANGED <<owner, position, committed, cur>>,
             \A v \in Worker : pc'[v] # "poll" => pc[v] # "poll"
      PROVE  HandBounds'
  BY <1>1 DEF HandBounds
<1>2. ASSUME NEW w \in Worker, NEW t \in Topic, Assign(w, t) PROVE HandBounds'
  <2>1. /\ pc[w] = "poll" /\ owner[t] = Nobody /\ owner' = [owner EXCEPT ![t] = w]
        /\ position' = [position EXCEPT ![t] = committed[t]] /\ UNCHANGED <<pc, cur, committed>>
    BY <1>2 DEF Assign
  <2>2. /\ \A u \in Topic \ {t} : owner'[u] = owner[u] /\ position'[u] = position[u]
        /\ owner'[t] = w
    BY <1>0, <2>1
  <2>3. ASSUME NEW v \in Worker, pc[v] # "poll", owner'[cur[v].topic] = v
        PROVE  cur[v].topic # t
    BY <2>1, <2>2, <2>3
  <2>4. QED
    BY <1>0, <2>1, <2>2, <2>3 DEF HandBounds
<1>3. ASSUME NEW w \in Worker, NEW t \in Topic, Receive(w, t) PROVE HandBounds'
  <2>1. /\ owner[t] = w /\ pc[w] = "poll" /\ pc' = [pc EXCEPT ![w] = "received"]
        /\ position' = [position EXCEPT ![t] = position[t] + 1]
        /\ cur' = [cur EXCEPT ![w] = [topic |-> t, offset |-> position[t] + 1]]
        /\ UNCHANGED <<owner, committed>>
    BY <1>3 DEF Receive, Goto
  <2>2. /\ \A v \in Worker \ {w} : pc'[v] = pc[v] /\ cur'[v] = cur[v]
        /\ pc'[w] = "received" /\ cur'[w] = [topic |-> t, offset |-> position[t] + 1]
        /\ position'[t] = position[t] + 1 /\ \A u \in Topic \ {t} : position'[u] = position[u]
    BY <1>0, <2>1
  <2>3. committed[t] <= position[t]
    BY <2>1, ConstantsAssumption DEF IInv, OffsetsInLog
  <2>4. ASSUME NEW v \in Worker, pc'[v] # "poll", owner[cur'[v].topic] = v
        PROVE  committed[cur'[v].topic] < cur'[v].offset /\ cur'[v].offset <= position'[cur'[v].topic]
    <3>1. CASE v = w
      BY <1>0, <2>2, <2>3, <3>1
    <3>2. CASE v # w
      <4>1. cur'[v] = cur[v] /\ pc[v] # "poll" /\ cur[v].topic # t
        BY <2>1, <2>2, <2>4, <3>2
      <4>2. QED
        BY <1>0, <2>2, <2>4, <4>1 DEF HandBounds
    <3>3. QED
      BY <3>1, <3>2
  <2>5. QED
    BY <2>1, <2>4 DEF HandBounds
<1>4. ASSUME NEW w \in Worker, Evict(w) \/ Die(w) \/ SkipWhileDraining(w)
      PROVE  HandBounds'
  <2>1. /\ Revoke(w) \/ owner' = owner
        /\ UNCHANGED <<position, committed>>
        /\ \A v \in Worker \ {w} : pc'[v] = pc[v] /\ cur'[v] = cur[v]
        /\ pc'[w] = "poll" \/ (pc'[w] # "poll" /\ pc[w] # "poll" /\ cur'[w] = cur[w])
    BY <1>0, <1>4 DEF Evict, Die, BackToLoop, SkipWhileDraining, kafkaVars
  <2>2. QED
    BY <2>1, LossKeepsHands
<1>5. ASSUME NEW w \in Worker, Commit(w) PROVE HandBounds'
  <2>1. /\ committed' = [t \in Topic |-> IF owner[t] = w THEN position[t] ELSE committed[t]]
        /\ pc' = [pc EXCEPT ![w] = "poll"] /\ cur' = [cur EXCEPT ![w] = NoPlace]
        /\ UNCHANGED <<owner, position>>
    BY <1>5 DEF Commit, BackToLoop
  <2>2. /\ \A v \in Worker \ {w} : pc'[v] = pc[v] /\ cur'[v] = cur[v]
        /\ pc'[w] = "poll"
        /\ \A t \in Topic : owner[t] # w => committed'[t] = committed[t]
    BY <1>0, <2>1
  <2>3. QED
    BY <1>0, <2>1, <2>2 DEF HandBounds
<1>6. ASSUME NEW w \in Worker, ProcessEvent(w) PROVE HandBounds'
  <2>1. CASE SkipWhileDraining(w) \/ Commit(w) \/ CommitRejected(w)
    BY <1>4, <1>5, <2>1 DEF CommitRejected
  <2>2. CASE /\ UNCHANGED <<owner, position, committed, cur>>
             /\ \E to \in ProgramPoint \ {"poll"} : pc' = [pc EXCEPT ![w] = to]
    <3>1. pc[w] # "poll"
      BY <1>6, ProcessMoves DEF IInv
    <3>2. \A v \in Worker : pc'[v] # "poll" => pc[v] # "poll"
      BY <1>0, <2>2, <3>1
    <3>3. QED
      BY <1>1, <2>2, <3>2
  <2>3. QED
    BY <1>6, <2>1, <2>2, ProcessMoves DEF IInv
<1>7. CASE UNCHANGED vars \/ \E j \in Job : PublishJob(j) \/ ExpireKey(j)
  BY <1>1, <1>7 DEF vars, kafkaVars, PublishJob, ExpireKey
<1>8. ASSUME NEW w \in Worker, Crash(w) \/ StartDraining(w) \/ StopDraining(w)
      PROVE  HandBounds'
  BY <1>1, <1>4, <1>8 DEF Crash, StartDraining, StopDraining, kafkaVars
<1>9. QED
  BY <1>2, <1>3, <1>4, <1>6, <1>7, <1>8 DEF Next

\* The invariant about hands is inductive.
LEMMA StepHandInv == HandInv /\ [Next]_vars => HandInv'
<1> SUFFICES ASSUME HandInv, [Next]_vars PROVE HandInv'
  OBVIOUS
<1>0. RInv
  BY DEF HandInv, RInv, IInv
<1>1. IInv' /\ HandBounds'
  BY StepIInv, StepHands DEF HandInv
<1>2. SubmittedInLog'
  BY <1>0, StepSubmitted
<1>3. [Delivery!Next]_(Delivery!vars)
  BY <1>0, StepDelivers
<1>4. OnlySubmitted'
  BY <1>3 DEF HandInv, OnlySubmitted, Delivery!Next, Delivery!vars, Delivery!Submit,
     Delivery!Finish, Delivery!Bury
<1>5. QED
  BY <1>1, <1>2, <1>4 DEF HandInv

\* It holds of a group that has processed nothing.
LEMMA InitHandInv == Init => HandInv
<1> SUFFICES ASSUME Init PROVE HandInv
  OBVIOUS
<1>1. HandBounds /\ SubmittedInLog
  BY DEF Init, HandBounds, SubmittedInLog
<1>2. OnlySubmitted
  BY DEF Init, OnlySubmitted, Finished
<1>3. QED
  BY <1>1, <1>2, InitIInv DEF HandInv

-----------------------------------------------------------------------------
(* What is in the dead-letter topic: the inductive invariants behind       *)
(* DeadLetterHasHistory and BuriedAliveCostsFault.                         *)

Failed(records, j, n) == \A a \in 1 .. n : [job |-> j, kind |-> "failed", attempt |-> a] \in records

\* An event of a later attempt is in a topic only after the earlier ones failed.
AttemptsFailed ==
    /\ \A t \in Topic : \A o \in 1 .. Len(log[t]) :
           Failed(wal, log[t][o].job, log[t][o].attempt - 1)
    /\ \A w \in Worker : pc[w] = "route" => Failed(wal, Current(w).job, Current(w).attempt)

\* What a step may add to a topic: the first event of a job, or an event of the
\* job that a worker holds, for the same attempt or, past a failure, the next.
LEMMA WhatIsPublished ==
    ASSUME TypeOK, CurInLog, [Next]_vars, NEW t \in Topic, NEW o \in 1 .. Len(log'[t])
    PROVE  \/ o \in 1 .. Len(log[t]) /\ log'[t][o] = log[t][o]
           \/ \E j \in Job : PublishJob(j) /\ log'[t][o] = [job |-> j, attempt |-> 1]
           \/ \E w \in Worker :
                \/ RouteLimited(w) /\ log'[t][o] = Current(w)
                \/ /\ RouteRetry(w)
                   /\ log'[t][o] = [job |-> Current(w).job, attempt |-> Current(w).attempt + 1]
<1>0. log[t] \in Seq(Event) /\ Len(log[t]) \in Nat
  BY DEF TypeOK
<1>1. ASSUME NEW u \in Topic, NEW e \in Event, Publish(u, e)
      PROVE  (o \in 1 .. Len(log[t]) /\ log'[t][o] = log[t][o]) \/ log'[t][o] = e
  <2>1. /\ Len(log'[u]) = Len(log[u]) + 1 /\ log'[u][Len(log[u]) + 1] = e
        /\ u # t => log'[t] = log[t]
        /\ \A k \in 1 .. Len(log[t]) : log'[t][k] = log[t][k]
    BY <1>1, PublishGrows
  <2>2. CASE u = t
    BY <1>0, <2>1, <2>2
  <2>3. CASE u # t
    BY <1>0, <2>1, <2>3
  <2>4. QED
    BY <2>2, <2>3
<1>2. CASE log' = log
  BY <1>2
<1>3. ASSUME NEW j \in Job, PublishJob(j)
      PROVE  (o \in 1 .. Len(log[t]) /\ log'[t][o] = log[t][o]) \/ log'[t][o] = [job |-> j, attempt |-> 1]
  <2>1. [job |-> j, attempt |-> 1] \in Event /\ "jobs" \in Topic
    BY DEF Event, Topic
  <2>2. QED
    BY <1>1, <1>3, <2>1 DEF PublishJob
<1>4. ASSUME NEW w \in Worker, RouteLimited(w)
      PROVE  (o \in 1 .. Len(log[t]) /\ log'[t][o] = log[t][o]) \/ log'[t][o] = Current(w)
  <2>1. Current(w) \in Event /\ "retry" \in Topic
    BY <1>4, CurrentIsEvent DEF RouteLimited, Goto, Topic
  <2>2. WithAttempt(Current(w), Current(w).attempt) = Current(w)
    BY <2>1 DEF Event, WithAttempt
  <2>3. QED
    BY <1>1, <1>4, <2>1, <2>2 DEF RouteLimited
<1>5. ASSUME NEW w \in Worker, RouteRetry(w)
      PROVE  \/ o \in 1 .. Len(log[t]) /\ log'[t][o] = log[t][o]
             \/ log'[t][o] = [job |-> Current(w).job, attempt |-> Current(w).attempt + 1]
  <2>1. Current(w) \in Event /\ "retry" \in Topic
    BY <1>5, CurrentIsEvent DEF RouteRetry, Goto, Topic
  <2>2. WithAttempt(Current(w), Current(w).attempt + 1) \in Event
    BY <2>1 DEF Event, WithAttempt
  <2>3. QED
    BY <1>1, <1>5, <2>1, <2>2 DEF RouteRetry, WithAttempt
<1>6. \/ log' = log
      \/ \E j \in Job : PublishJob(j)
      \/ \E w \in Worker : RouteLimited(w) \/ RouteRetry(w)
  BY DEF Next, vars, kafkaVars, ExpireKey, Assign, Receive, Evict, Crash, Die,
     StartDraining, StopDraining, ProcessEvent, SkipWhileDraining,
     AppendReceived, CheckDuplicate, Admit, HandlerSucceeds, HandlerFails,
     MarkProcessed, AppendCompleted, SuccessPathRaises, AppendFailed,
     RouteDeadLetter, AppendOutcome, Commit, CommitRejected
<1>7. QED
  BY <1>2, <1>3, <1>4, <1>5, <1>6

\* A worker is about to route a failed event only once the WAL has the failure.
LEMMA WhoRoutes ==
    ASSUME TypeOK, CurInLog, [Next]_vars, NEW v \in Worker, pc'[v] = "route"
    PROVE  /\ cur'[v] = cur[v] /\ pc[v] # "poll"
           /\ pc[v] = "route" \/ (AppendFailed(v) /\ pc[v] = "failed")
<1>0. pc \in [Worker -> ProgramPoint] /\ cur \in [Worker -> Place]
  BY DEF TypeOK
<1>1. CASE UNCHANGED vars \/ \E j \in Job : PublishJob(j) \/ ExpireKey(j)
  BY <1>1 DEF vars, PublishJob, ExpireKey
<1>2. ASSUME NEW w \in Worker, NEW t \in Topic, Assign(w, t) \/ Receive(w, t)
      PROVE  pc[v] = "route" /\ cur'[v] = cur[v]
  BY <1>0, <1>2 DEF Assign, Receive, Goto
<1>3. ASSUME NEW w \in Worker, Die(w) PROVE pc[v] = "route" /\ cur'[v] = cur[v]
  BY <1>0, <1>3 DEF Die, BackToLoop
<1>4. ASSUME NEW w \in Worker, Evict(w) \/ Crash(w) \/ StartDraining(w) \/ StopDraining(w)
      PROVE  pc[v] = "route" /\ cur'[v] = cur[v]
  BY <1>3, <1>4 DEF Evict, Crash, StartDraining, StopDraining
<1>5. ASSUME NEW w \in Worker, ProcessEvent(w), ~ AppendFailed(w)
      PROVE  pc[v] = "route" /\ cur'[v] = cur[v]
  <2>1. CASE SkipWhileDraining(w) \/ Commit(w)
    BY <1>0, <2>1 DEF SkipWhileDraining, Commit, BackToLoop
  <2>2. CASE CommitRejected(w)
    BY <1>3, <2>2 DEF CommitRejected
  <2>3. CASE \/ AppendReceived(w) \/ CheckDuplicate(w) \/ Admit(w)
             \/ RouteLimited(w) \/ HandlerFails(w) \/ MarkProcessed(w) \/ HandlerSucceeds(w)
    BY <1>0, <2>3 DEF Goto, AppendReceived, CheckDuplicate, Admit,
       RouteLimited, HandlerFails, MarkProcessed, HandlerSucceeds
  <2>4. CASE \/ AppendCompleted(w) \/ SuccessPathRaises(w)
             \/ RouteDeadLetter(w) \/ RouteRetry(w) \/ AppendOutcome(w)
    BY <1>0, <2>4 DEF Goto, AppendCompleted, SuccessPathRaises,
       RouteDeadLetter, RouteRetry, AppendOutcome
  <2>5. QED
    BY <1>5, <2>1, <2>2, <2>3, <2>4 DEF ProcessEvent
<1>6. ASSUME NEW w \in Worker, AppendFailed(w)
      PROVE  cur'[v] = cur[v] /\ (pc[v] = "route" \/ (AppendFailed(v) /\ pc[v] = "failed"))
  <2>1. CASE w = v
    BY <1>0, <1>6, <2>1 DEF AppendFailed, Goto
  <2>2. CASE w # v
    BY <1>0, <1>6, <2>2 DEF AppendFailed, Goto
  <2>3. QED
    BY <2>1, <2>2
<1>7. QED
  BY <1>1, <1>2, <1>4, <1>5, <1>6 DEF Next

\* The failures that a later attempt, or a burial, rests on are in the WAL.
LEMMA StepAttempts ==
    ASSUME TypeOK, CurInLog, AttemptsFailed, DeadLetterHasHistory, [Next]_vars
    PROVE  AttemptsFailed' /\ DeadLetterHasHistory'
<1>0. Grows /\ wal \subseteq wal' /\ TypeOK' /\ CurInLog'
  BY StepGrows, StepWal, StepTypeOK
<1>1. \A j, n : Failed(wal, j, n) => Failed(wal', j, n)
  BY <1>0 DEF Failed
<1>2. ASSUME NEW w \in Worker, pc[w] # "poll"
      PROVE  /\ Failed(wal, Current(w).job, Current(w).attempt - 1)
             /\ Current(w).attempt \in Nat \ {0}
  <2>1. cur[w].topic \in Topic /\ cur[w].offset \in 1 .. Len(log[cur[w].topic])
    BY <1>2, CurrentIsEvent DEF CurInLog
  <2>2. Failed(wal, Current(w).job, Current(w).attempt - 1)
    BY <2>1 DEF AttemptsFailed, Current, EventAt
  <2>3. QED
    BY <1>2, <2>2, CurrentIsEvent
<1>3. ASSUME NEW t \in Topic, NEW o \in 1 .. Len(log'[t])
      PROVE  Failed(wal', log'[t][o].job, log'[t][o].attempt - 1)
  <2>1. CASE o \in 1 .. Len(log[t]) /\ log'[t][o] = log[t][o]
    <3>1. Failed(wal, log[t][o].job, log[t][o].attempt - 1)
      BY <2>1 DEF AttemptsFailed
    <3>2. QED
      BY <1>1, <2>1, <3>1
  <2>2. CASE \E j \in Job : log'[t][o] = [job |-> j, attempt |-> 1]
    BY <2>2 DEF Failed
  <2>3. ASSUME NEW w \in Worker, RouteLimited(w), log'[t][o] = Current(w)
        PROVE  Failed(wal', log'[t][o].job, log'[t][o].attempt - 1)
    BY <1>1, <1>2, <2>3 DEF RouteLimited, Goto
  <2>4. ASSUME NEW w \in Worker, RouteRetry(w),
               log'[t][o] = [job |-> Current(w).job, attempt |-> Current(w).attempt + 1]
        PROVE  Failed(wal', log'[t][o].job, log'[t][o].attempt - 1)
    <3>1. pc[w] = "route"
      BY <2>4 DEF RouteRetry, Goto
    <3>2. Failed(wal', Current(w).job, Current(w).attempt)
      BY <1>1, <3>1 DEF AttemptsFailed
    <3>3. /\ log'[t][o].job = Current(w).job
          /\ log'[t][o].attempt - 1 = Current(w).attempt
      BY <1>2, <2>4, <3>1
    <3>4. QED
      BY <3>2, <3>3
  <2>5. QED
    BY <2>1, <2>2, <2>3, <2>4, WhatIsPublished
<1>4. ASSUME NEW v \in Worker, pc'[v] = "route"
      PROVE  Failed(wal, Current(v).job, Current(v).attempt)'
  <2>1. /\ cur'[v] = cur[v] /\ pc[v] # "poll"
        /\ pc[v] = "route" \/ (AppendFailed(v) /\ pc[v] = "failed")
    BY <1>4, WhoRoutes
  <2>2. Current(v)' = Current(v)
    BY <1>0, <2>1, HandIsStable
  <2>3. CASE pc[v] = "route"
    BY <1>1, <2>2, <2>3 DEF AttemptsFailed
  <2>4. CASE AppendFailed(v)
    <3>1. [job |-> Current(v).job, kind |-> "failed", attempt |-> Current(v).attempt] \in wal'
      BY <2>4 DEF AppendFailed, Append1, RecordOf
    <3>2. Failed(wal', Current(v).job, Current(v).attempt - 1)
      BY <1>1, <1>2, <2>1
    <3>3. PICK n \in Nat : n = Current(v).attempt
      BY <1>2, <2>1
    <3>4. \A a \in 1 .. n : a \in 1 .. n - 1 \/ a = n
      OBVIOUS
    <3>5. Failed(wal', Current(v).job, n)
      BY <3>1, <3>2, <3>3, <3>4 DEF Failed
    <3>6. QED
      BY <2>2, <3>3, <3>5
  <2>5. QED
    BY <2>1, <2>3, <2>4
<1>5. ASSUME NEW j \in dlq' PROVE \A a \in 1 .. MaxAttempts : [job |-> j, kind |-> "failed", attempt |-> a] \in wal'
  <2>1. CASE j \in dlq
    BY <1>0, <2>1 DEF DeadLetterHasHistory
  <2>2. ASSUME NEW w \in Worker, RouteDeadLetter(w), j = Current(w).job
        PROVE  \A a \in 1 .. MaxAttempts : [job |-> j, kind |-> "failed", attempt |-> a] \in wal'
    <3>1. pc[w] = "route" /\ Current(w).attempt >= MaxAttempts
      BY <2>2 DEF RouteDeadLetter, Goto
    <3>2. Failed(wal, j, Current(w).attempt)
      BY <2>2, <3>1 DEF AttemptsFailed
    <3>3. PICK n \in Nat : n = Current(w).attempt
      BY <1>2, <3>1
    <3>4. \A a \in 1 .. MaxAttempts : a \in 1 .. n
      BY <3>1, <3>3, ConstantsAssumption
    <3>5. QED
      BY <1>0, <3>2, <3>3, <3>4 DEF Failed
  <2>3. dlq' = dlq \/ \E w \in Worker : RouteDeadLetter(w)
    BY DEF Next, vars, PublishJob, ExpireKey, Assign, Receive, Evict, Crash, Die,
       StartDraining, StopDraining, ProcessEvent, SkipWhileDraining,
       AppendReceived, CheckDuplicate, Admit, RouteLimited, HandlerSucceeds, HandlerFails,
       MarkProcessed, AppendCompleted, SuccessPathRaises, AppendFailed, RouteRetry,
       AppendOutcome, Commit, CommitRejected
  <2>4. j \in dlq \/ \E w \in Worker : RouteDeadLetter(w) /\ j = Current(w).job
    BY <2>3 DEF RouteDeadLetter
  <2>5. QED
    BY <2>1, <2>2, <2>4
<1>6. AttemptsFailed'
  BY <1>3, <1>4 DEF AttemptsFailed
<1>7. QED
  BY <1>5, <1>6 DEF DeadLetterHasHistory

\* A place of a topic that the group will still read, or reads now.
Open(t, o) ==
    /\ o \in 1 .. Len(log[t]) /\ o > committed[t]
    /\ ~ \E w \in Worker : /\ owner[t] = w /\ pc[w] \in SettledPoint
                           /\ cur[w] = [topic |-> t, offset |-> o]

\* A job has at most one open event, and none once it is executed or buried.
OneOpenEvent ==
    \A t, u \in Topic : \A o, p \in Nat :
        Open(t, o) /\ Open(u, p) /\ log[t][o].job = log[u][p].job => t = u /\ o = p

OpenIsUnsettled ==
    \A t \in Topic : \A o \in Nat :
        Open(t, o) => executed[log[t][o].job] = 0 /\ log[t][o].job \notin dlq

BuriedNotRun == \A j \in dlq : executed[j] = 0

\* No worker is without the topic it has its event from.
HandsOwn == \A w \in Worker : pc[w] # "poll" => owner[cur[w].topic] = w

\* What holds as long as the environment has not failed.
Calm == OneOpenEvent /\ OpenIsUnsettled /\ BuriedNotRun /\ HandsOwn

DeadInv == HandInv /\ AttemptsFailed /\ DeadLetterHasHistory /\ (faults = 0 => Calm)

\* An event that is not yet routed, in the hands of an owner, is open.
LEMMA HeldIsOpen ==
    ASSUME HandInv, NEW w \in Worker, pc[w] \notin SettledPoint \cup {"poll"},
           owner[cur[w].topic] = w
    PROVE  Open(cur[w].topic, cur[w].offset)
<1>1. cur[w].topic \in Topic /\ cur[w].offset \in 1 .. Len(log[cur[w].topic])
  BY CurrentIsEvent DEF HandInv, IInv, CurInLog
<1>2. cur[w].offset > committed[cur[w].topic]
  BY <1>1 DEF HandInv, HandBounds, IInv, TypeOK
<1>3. QED
  BY <1>1, <1>2 DEF Open

\* A step inside process_event opens no place of a topic, and closes the place
\* of its event once that is routed.
LEMMA OpenNarrows ==
    ASSUME TypeOK, NEW w \in Worker, NEW to \in ProgramPoint,
           UNCHANGED <<owner, committed, cur>>, pc' = [pc EXCEPT ![w] = to],
           pc[w] \in SettledPoint => to \in SettledPoint,
           NEW t \in Topic, NEW o \in 1 .. Len(log[t]), Open(t, o)'
    PROVE  /\ Open(t, o)
           /\ to \in SettledPoint /\ owner[cur[w].topic] = w =>
                  cur[w] # [topic |-> t, offset |-> o]
<1>0. pc \in [Worker -> ProgramPoint] /\ cur[w].topic \in Topic
  BY DEF TypeOK, Place
<1>1. pc'[w] = to /\ \A v \in Worker \ {w} : pc'[v] = pc[v]
  BY <1>0
<1>2. ASSUME NEW v \in Worker, owner[t] = v, pc[v] \in SettledPoint,
             cur[v] = [topic |-> t, offset |-> o]
      PROVE  FALSE
  <2>1. pc'[v] \in SettledPoint
    BY <1>1, <1>2
  <2>2. QED
    BY <1>2, <2>1 DEF Open
<1>3. Open(t, o)
  BY <1>2 DEF Open
<1>4. ASSUME to \in SettledPoint, owner[cur[w].topic] = w, cur[w] = [topic |-> t, offset |-> o]
      PROVE  FALSE
  BY <1>1, <1>4 DEF Open
<1>5. QED
  BY <1>3, <1>4

\* Closing places, and settling jobs that have none left, keeps a job at one.
LEMMA CalmNarrows ==
    ASSUME OneOpenEvent, OpenIsUnsettled,
           \A t \in Topic : \A o \in Nat : Open(t, o)' =>
               /\ Open(t, o) /\ log'[t][o] = log[t][o]
               /\ executed'[log[t][o].job] = executed[log[t][o].job]
               /\ log[t][o].job \in dlq' => log[t][o].job \in dlq,
           BuriedNotRun'
    PROVE  (OneOpenEvent /\ OpenIsUnsettled /\ BuriedNotRun)'
<1>1. OneOpenEvent'
  BY DEF OneOpenEvent
<1>2. OpenIsUnsettled'
  BY DEF OpenIsUnsettled
<1>3. QED
  BY <1>1, <1>2

\* So does opening one place for a job that has none.
LEMMA CalmMoves ==
    ASSUME OneOpenEvent, OpenIsUnsettled, BuriedNotRun, UNCHANGED <<executed, dlq>>,
           NEW a \in Topic, NEW b \in Nat, NEW j, log'[a][b].job = j,
           executed[j] = 0, j \notin dlq,
           \A t \in Topic : \A o \in Nat : Open(t, o)' =>
               \/ t = a /\ o = b
               \/ Open(t, o) /\ log'[t][o] = log[t][o] /\ log[t][o].job # j
    PROVE  (OneOpenEvent /\ OpenIsUnsettled /\ BuriedNotRun)'
<1>1. OneOpenEvent'
  BY DEF OneOpenEvent
<1>2. OpenIsUnsettled'
  BY DEF OpenIsUnsettled
<1>3. BuriedNotRun'
  BY DEF BuriedNotRun
<1>4. QED
  BY <1>1, <1>2, <1>3

\* Without a fault no worker loses a topic.
LEMMA StepHandsOwn ==
    ASSUME TypeOK, HandsOwn, [Next]_vars, faults' = faults
    PROVE  HandsOwn'
<1>0. /\ owner \in [Topic -> Worker \cup {Nobody}] /\ cur \in [Worker -> Place]
      /\ pc \in [Worker -> ProgramPoint] /\ \A v \in Worker : cur[v].topic \in Topic
      /\ faults \in Nat
  BY DEF TypeOK, Place
<1>1. ASSUME UNCHANGED <<owner, cur>>, \A v \in Worker : pc'[v] # "poll" => pc[v] # "poll"
      PROVE  HandsOwn'
  BY <1>1 DEF HandsOwn
<1>2. ASSUME NEW w \in Worker, NEW t \in Topic, Assign(w, t) PROVE HandsOwn'
  <2>1. owner[t] = Nobody /\ owner' = [owner EXCEPT ![t] = w] /\ UNCHANGED <<pc, cur>>
    BY <1>2 DEF Assign
  <2>2. QED
    BY <1>0, <2>1, ConstantsAssumption DEF HandsOwn
<1>3. ASSUME NEW w \in Worker, NEW t \in Topic, Receive(w, t) PROVE HandsOwn'
  <2>1. /\ owner[t] = w /\ pc' = [pc EXCEPT ![w] = "received"] /\ UNCHANGED owner
        /\ cur' = [cur EXCEPT ![w] = [topic |-> t, offset |-> position[t] + 1]]
    BY <1>3 DEF Receive, Goto
  <2>2. /\ \A v \in Worker \ {w} : pc'[v] = pc[v] /\ cur'[v] = cur[v]
        /\ cur'[w].topic = t
    BY <1>0, <2>1
  <2>3. QED
    BY <2>1, <2>2 DEF HandsOwn
<1>4. ASSUME NEW w \in Worker, ProcessEvent(w) PROVE HandsOwn'
  <2>1. CASE SkipWhileDraining(w) \/ Commit(w)
    <3>1. pc' = [pc EXCEPT ![w] = "poll"] /\ cur' = [cur EXCEPT ![w] = NoPlace] /\ UNCHANGED owner
      BY <2>1 DEF SkipWhileDraining, Commit, BackToLoop, kafkaVars
    <3>2. pc'[w] = "poll" /\ \A v \in Worker \ {w} : pc'[v] = pc[v] /\ cur'[v] = cur[v]
      BY <1>0, <3>1
    <3>3. QED
      BY <3>1, <3>2 DEF HandsOwn
  <2>2. CASE CommitRejected(w)
    BY <2>2 DEF CommitRejected, HandsOwn
  <2>3. CASE /\ UNCHANGED <<owner, position, committed, cur>>
             /\ \E to \in ProgramPoint \ {"poll"} : pc' = [pc EXCEPT ![w] = to]
    <3>1. pc[w] # "poll"
      BY <1>4, ProcessMoves
    <3>2. \A v \in Worker : pc'[v] # "poll" => pc[v] # "poll"
      BY <1>0, <2>3, <3>1
    <3>3. QED
      BY <1>1, <2>3, <3>2
  <2>4. QED
    BY <1>4, <2>1, <2>2, <2>3, ProcessMoves
<1>5. CASE UNCHANGED vars \/ \E j \in Job : PublishJob(j) \/ ExpireKey(j)
  BY <1>1, <1>5 DEF vars, kafkaVars, PublishJob, ExpireKey
<1>6. ASSUME NEW w \in Worker, Evict(w) \/ Crash(w) PROVE FALSE
  BY <1>0, <1>6 DEF Evict, Crash, Fault
<1>7. ASSUME NEW w \in Worker, StartDraining(w) \/ StopDraining(w) PROVE HandsOwn'
  BY <1>1, <1>7 DEF StartDraining, StopDraining, kafkaVars
<1>8. QED
  BY <1>2, <1>3, <1>4, <1>5, <1>6, <1>7 DEF Next

\* Without a fault the open events stay one to a job.
LEMMA StepCalm ==
    ASSUME HandInv, Calm, [Next]_vars, faults' = faults
    PROVE  Calm'
<1>0. /\ TypeOK /\ CurInLog /\ TypeOK' /\ RInv /\ \A t \in Topic : Len(log[t]) \in Nat
      /\ OneOpenEvent /\ OpenIsUnsettled /\ BuriedNotRun /\ HandsOwn
      /\ "jobs" \in Topic /\ "retry" \in Topic
  <2>1. TypeOK /\ CurInLog /\ RInv
    BY DEF HandInv, IInv, RInv
  <2>2. TypeOK'
    BY <2>1, StepTypeOK
  <2>3. \A t \in Topic : Len(log[t]) \in Nat
    BY <2>1 DEF TypeOK
  <2>4. QED
    BY <2>1, <2>2, <2>3 DEF Calm, Topic
<1>a. /\ owner \in [Topic -> Worker \cup {Nobody}] /\ cur \in [Worker -> Place]
      /\ pc \in [Worker -> ProgramPoint] /\ executed \in [Job -> Nat]
      /\ position \in [Topic -> Nat] /\ committed \in [Topic -> Nat] /\ faults \in Nat
      /\ \A v \in Worker : cur[v].topic \in Topic
  BY <1>0 DEF TypeOK, Place
<1> DEFINE Pending == OneOpenEvent /\ OpenIsUnsettled /\ BuriedNotRun
<1>1. ASSUME UNCHANGED <<log, executed, dlq>>,
             \A t \in Topic : \A o \in 1 .. Len(log[t]) : Open(t, o)' => Open(t, o)
      PROVE  Pending'
  <2>1. \A t \in Topic : \A o \in Nat : Open(t, o)' => o \in 1 .. Len(log[t])
    BY <1>1 DEF Open
  <2>2. \A t \in Topic : \A o \in Nat : Open(t, o)' =>
            /\ Open(t, o) /\ log'[t][o] = log[t][o]
            /\ executed'[log[t][o].job] = executed[log[t][o].job]
            /\ log[t][o].job \in dlq' => log[t][o].job \in dlq
    BY <1>1, <2>1
  <2>3. BuriedNotRun'
    BY <1>0, <1>1 DEF BuriedNotRun
  <2>4. QED
    BY <1>0, <2>2, <2>3, CalmNarrows
<1>2. ASSUME NEW w \in Worker, NEW to \in ProgramPoint,
             UNCHANGED <<owner, committed, cur, log, executed, dlq>>, pc' = [pc EXCEPT ![w] = to],
             pc[w] \in SettledPoint => to \in SettledPoint
      PROVE  Pending'
  BY <1>0, <1>1, <1>2, OpenNarrows
<1>3. ASSUME UNCHANGED <<owner, committed, cur, pc, log, executed, dlq>> PROVE Pending'
  <2>1. \A t \in Topic : \A o \in 1 .. Len(log[t]) : Open(t, o)' => Open(t, o)
    BY <1>3 DEF Open
  <2>2. QED
    BY <1>1, <1>3, <2>1
<1>4. ASSUME NEW w \in Worker, NEW t \in Topic, Assign(w, t) PROVE Pending'
  <2>1. /\ pc[w] = "poll" /\ owner[t] = Nobody /\ owner' = [owner EXCEPT ![t] = w]
        /\ UNCHANGED <<pc, cur, committed, log, executed, dlq>>
    BY <1>4 DEF Assign
  <2>2. \A v \in Worker, u \in Topic : owner[u] = v => owner'[u] = v
    BY <1>a, <2>1, ConstantsAssumption
  <2>3. \A u \in Topic : \A o \in 1 .. Len(log[u]) : Open(u, o)' => Open(u, o)
    BY <2>1, <2>2 DEF Open
  <2>4. QED
    BY <1>1, <2>1, <2>3
<1>5. ASSUME NEW w \in Worker, pc[w] \notin SettledPoint, pc'[w] \notin SettledPoint,
             \A v \in Worker \ {w} : pc'[v] = pc[v] /\ cur'[v] = cur[v],
             UNCHANGED <<owner, committed, log, executed, dlq>>
      PROVE  Pending'
  <2>1. \A u \in Topic : \A o \in 1 .. Len(log[u]) : Open(u, o)' => Open(u, o)
    BY <1>5 DEF Open
  <2>2. QED
    BY <1>1, <1>5, <2>1
<1>6. ASSUME NEW w \in Worker, NEW t \in Topic, Receive(w, t) PROVE Pending'
  <2>1. /\ pc[w] = "poll" /\ pc' = [pc EXCEPT ![w] = "received"]
        /\ cur' = [cur EXCEPT ![w] = [topic |-> t, offset |-> position[t] + 1]]
        /\ UNCHANGED <<owner, committed, log, executed, dlq>>
    BY <1>6 DEF Receive, Goto
  <2>2. /\ \A v \in Worker \ {w} : pc'[v] = pc[v] /\ cur'[v] = cur[v]
        /\ pc[w] \notin SettledPoint /\ pc'[w] \notin SettledPoint
    BY <1>a, <2>1 DEF SettledPoint
  <2>3. QED
    BY <1>5, <2>1, <2>2
<1>7. ASSUME NEW w \in Worker, SkipWhileDraining(w) PROVE Pending'
  <2>1. /\ pc[w] = "received" /\ pc' = [pc EXCEPT ![w] = "poll"]
        /\ cur' = [cur EXCEPT ![w] = NoPlace]
        /\ UNCHANGED <<owner, committed, log, executed, dlq>>
    BY <1>7 DEF SkipWhileDraining, BackToLoop, kafkaVars
  <2>2. /\ \A v \in Worker \ {w} : pc'[v] = pc[v] /\ cur'[v] = cur[v]
        /\ pc[w] \notin SettledPoint /\ pc'[w] \notin SettledPoint
    BY <1>a, <2>1 DEF SettledPoint
  <2>3. QED
    BY <1>5, <2>1, <2>2
<1>8. ASSUME NEW w \in Worker, Commit(w) PROVE Pending'
  <2>1. /\ pc[w] # "poll" /\ owner[cur[w].topic] = w
        /\ committed' = [t \in Topic |-> IF owner[t] = w THEN position[t] ELSE committed[t]]
        /\ pc' = [pc EXCEPT ![w] = "poll"] /\ cur' = [cur EXCEPT ![w] = NoPlace]
        /\ UNCHANGED <<owner, log, executed, dlq>>
    BY <1>8 DEF Commit, BackToLoop
  <2>2. \A v \in Worker \ {w} : pc'[v] = pc[v] /\ cur'[v] = cur[v]
    BY <1>a, <2>1
  <2>3. cur[w].offset <= position[cur[w].topic]
    BY <2>1 DEF HandInv, HandBounds
  <2>4. ASSUME NEW t \in Topic PROVE committed[t] <= committed'[t] /\ committed'[t] \in Nat
    <3>1. owner[t] = w => committed[t] <= position[t]
      BY ConstantsAssumption DEF HandInv, IInv, OffsetsInLog
    <3>2. QED
      BY <1>a, <2>1, <3>1
  <2>5. ASSUME NEW t \in Topic, NEW o \in 1 .. Len(log[t]), Open(t, o)' PROVE Open(t, o)
    <3>1. o > committed'[t] /\ o > committed[t]
      BY <1>a, <2>4, <2>5 DEF Open
    <3>2. ~ (owner[t] = w /\ cur[w] = [topic |-> t, offset |-> o])
      <4> SUFFICES ASSUME owner[t] = w, cur[w] = [topic |-> t, offset |-> o] PROVE FALSE
        OBVIOUS
      <4>1. committed'[t] = position[t] /\ o <= position[t]
        BY <2>1, <2>3
      <4>2. QED
        BY <1>a, <3>1, <4>1
    <3>3. QED
      BY <2>1, <2>2, <2>5, <3>1, <3>2 DEF Open
  <2>6. QED
    BY <1>1, <2>1, <2>5
<1>9. ASSUME NEW w \in Worker, NEW to \in ProgramPoint,
             UNCHANGED <<owner, committed, cur, log>>, pc' = [pc EXCEPT ![w] = to],
             pc[w] \notin SettledPoint \cup {"poll"}, to \in SettledPoint,
             NEW t \in Topic, NEW o \in Nat, Open(t, o)'
      PROVE  /\ Open(t, o) /\ log'[t][o] = log[t][o]
             /\ log[t][o].job # Current(w).job
  <2>1. o \in 1 .. Len(log[t])
    BY <1>9 DEF Open
  <2>2. Open(t, o) /\ (owner[cur[w].topic] = w => cur[w] # [topic |-> t, offset |-> o])
    BY <1>0, <1>9, <2>1, OpenNarrows
  <2>3. owner[cur[w].topic] = w
    BY <1>0, <1>9 DEF HandsOwn
  <2>4. Open(cur[w].topic, cur[w].offset)
    BY <1>9, <2>3, HeldIsOpen
  <2>5. /\ cur[w].topic \in Topic /\ cur[w].offset \in Nat
        /\ cur[w] = [topic |-> cur[w].topic, offset |-> cur[w].offset]
    BY <1>a DEF Place
  <2>6. ~ (t = cur[w].topic /\ o = cur[w].offset)
    BY <2>2, <2>3, <2>5
  <2>7. log[t][o].job # log[cur[w].topic][cur[w].offset].job
    BY <1>0, <2>2, <2>4, <2>5, <2>6 DEF OneOpenEvent
  <2>8. QED
    BY <1>9, <2>2, <2>7 DEF Current, EventAt
<1>10. ASSUME NEW w \in Worker, pc[w] \notin SettledPoint \cup {"poll"}
       PROVE  Current(w).job \in Job /\ executed[Current(w).job] = 0 /\ Current(w).job \notin dlq
  <2>1. owner[cur[w].topic] = w
    BY <1>0, <1>10 DEF HandsOwn
  <2>2. Open(cur[w].topic, cur[w].offset)
    BY <1>10, <2>1, HeldIsOpen
  <2>3. /\ cur[w].topic \in Topic /\ cur[w].offset \in Nat
    BY <1>a DEF Place
  <2>4. executed[Current(w).job] = 0 /\ Current(w).job \notin dlq
    BY <1>0, <2>2, <2>3 DEF OpenIsUnsettled, Current, EventAt
  <2>5. QED
    BY <1>0, <1>10, <2>4, CurrentIsEvent
<1>11. ASSUME NEW w \in Worker, HandlerSucceeds(w) PROVE Pending'
  <2>1. /\ pc[w] = "run" /\ pc' = [pc EXCEPT ![w] = "mark"]
        /\ executed' = [executed EXCEPT ![Current(w).job] = @ + 1]
        /\ UNCHANGED <<owner, committed, cur, log, dlq>>
        /\ pc[w] \notin SettledPoint \cup {"poll"} /\ "mark" \in SettledPoint /\ "mark" \in ProgramPoint
    BY <1>11 DEF HandlerSucceeds, Goto, kafkaVars, SettledPoint, ProgramPoint
  <2>2. \A t \in Topic : \A o \in Nat : Open(t, o)' =>
            Open(t, o) /\ log'[t][o] = log[t][o] /\ log[t][o].job # Current(w).job
    BY <1>9, <2>1
  <2>3. Current(w).job \in Job /\ Current(w).job \notin dlq
    BY <1>10, <2>1
  <2>4. \A j : j # Current(w).job => executed'[j] = executed[j]
    BY <1>a, <2>1
  <2>5. BuriedNotRun'
    BY <1>0, <2>1, <2>3, <2>4 DEF BuriedNotRun
  <2>6. QED
    BY <1>0, <2>1, <2>2, <2>4, <2>5, CalmNarrows
<1>12. ASSUME NEW w \in Worker, RouteDeadLetter(w) PROVE Pending'
  <2>1. /\ pc[w] = "route" /\ pc' = [pc EXCEPT ![w] = "routed"]
        /\ dlq' = dlq \cup {Current(w).job}
        /\ UNCHANGED <<owner, committed, cur, log, executed>>
        /\ pc[w] \notin SettledPoint \cup {"poll"} /\ "routed" \in SettledPoint /\ "routed" \in ProgramPoint
    BY <1>12 DEF RouteDeadLetter, Goto, kafkaVars, SettledPoint, ProgramPoint
  <2>2. \A t \in Topic : \A o \in Nat : Open(t, o)' =>
            Open(t, o) /\ log'[t][o] = log[t][o] /\ log[t][o].job # Current(w).job
    BY <1>9, <2>1
  <2>3. executed[Current(w).job] = 0
    BY <1>10, <2>1
  <2>4. BuriedNotRun'
    BY <1>0, <2>1, <2>3 DEF BuriedNotRun
  <2>5. QED
    BY <1>0, <2>1, <2>2, <2>4, CalmNarrows
<1>13. ASSUME NEW w \in Worker, NEW e \in Event, NEW to \in ProgramPoint, e.job = Current(w).job,
              Publish("retry", e), pc' = [pc EXCEPT ![w] = to],
              pc[w] \notin SettledPoint \cup {"poll"}, to \in SettledPoint,
              UNCHANGED <<owner, committed, cur, executed, dlq>>
       PROVE  Pending'
  <2>0. PICK b \in Nat : b = Len(log["retry"]) + 1
    BY <1>0
  <2>1. /\ Len(log'["retry"]) = b /\ log'["retry"][b] = e /\ b = Len(log["retry"]) + 1
        /\ log'["jobs"] = log["jobs"]
        /\ \A t \in Topic : \A o \in 1 .. Len(log[t]) : log'[t][o] = log[t][o]
    BY <1>0, <1>13, <2>0, PublishGrows
  <2>2. ASSUME NEW t \in Topic, NEW o \in Nat, Open(t, o)', ~ (t = "retry" /\ o = b)
        PROVE  Open(t, o) /\ log'[t][o] = log[t][o] /\ log[t][o].job # Current(w).job
    <3>1. o \in 1 .. Len(log'[t])
      BY <2>2 DEF Open
    <3>2. o \in 1 .. Len(log[t])
      BY <1>0, <2>0, <2>1, <2>2, <3>1 DEF Topic
    <3>3. Open(t, o) /\ (owner[cur[w].topic] = w => cur[w] # [topic |-> t, offset |-> o])
      BY <1>0, <1>13, <2>2, <3>2, OpenNarrows
    <3>4. owner[cur[w].topic] = w
      BY <1>0, <1>13 DEF HandsOwn
    <3>5. Open(cur[w].topic, cur[w].offset)
      BY <1>13, <3>4, HeldIsOpen
    <3>6. /\ cur[w].topic \in Topic /\ cur[w].offset \in Nat
          /\ cur[w] = [topic |-> cur[w].topic, offset |-> cur[w].offset]
      BY <1>a DEF Place
    <3>7. ~ (t = cur[w].topic /\ o = cur[w].offset)
      BY <3>3, <3>4, <3>6
    <3>8. log[t][o].job # log[cur[w].topic][cur[w].offset].job
      BY <1>0, <3>3, <3>5, <3>6, <3>7 DEF OneOpenEvent
    <3>9. QED
      BY <2>1, <3>2, <3>3, <3>8 DEF Current, EventAt
  <2>3. executed[Current(w).job] = 0 /\ Current(w).job \notin dlq
    BY <1>10, <1>13
  <2>4. PICK j \in Job : j = Current(w).job
    BY <1>10, <1>13
  <2>5. log'["retry"][b].job = j
    BY <1>13, <2>1, <2>4
  <2>6. QED
    BY <1>0, <1>13, <2>2, <2>3, <2>4, <2>5, CalmMoves
<1>14. ASSUME NEW w \in Worker, RouteLimited(w) \/ RouteRetry(w) PROVE Pending'
  <2>1. PICK to \in ProgramPoint :
            /\ pc' = [pc EXCEPT ![w] = to] /\ to \in SettledPoint
            /\ pc[w] \notin SettledPoint \cup {"poll"}
            /\ UNCHANGED <<owner, committed, cur, executed, dlq>>
    BY <1>14 DEF RouteLimited, RouteRetry, Goto, SettledPoint, ProgramPoint
  <2>2. Current(w).job \in Job /\ Current(w).attempt \in Nat \ {0}
    BY <1>0, <2>1, CurrentIsEvent
  <2>3. \E e \in Event : e.job = Current(w).job /\ Publish("retry", e)
    BY <1>14, <2>2 DEF RouteLimited, RouteRetry, WithAttempt, Event
  <2>4. QED
    BY <1>13, <2>1, <2>3
<1>15. ASSUME NEW j \in Job, PublishJob(j) PROVE Pending'
  <2>0. PICK b \in Nat : b = Len(log["jobs"]) + 1
    BY <1>0
  <2>1. [job |-> j, attempt |-> 1] \in Event /\ Publish("jobs", [job |-> j, attempt |-> 1])
    BY <1>15 DEF PublishJob, Event
  <2>2. /\ Len(log'["jobs"]) = b /\ log'["jobs"][b] = [job |-> j, attempt |-> 1]
        /\ log'["retry"] = log["retry"]
        /\ \A t \in Topic : \A o \in 1 .. Len(log[t]) : log'[t][o] = log[t][o]
    BY <1>0, <2>0, <2>1, PublishGrows
  <2>3. UNCHANGED <<owner, committed, pc, cur, executed, dlq>>
    BY <1>15 DEF PublishJob
  <2>4. j \notin Submitted
    BY <1>15 DEF PublishJob, Submitted
  <2>5. executed[j] = 0 /\ j \notin dlq
    <3>1. j \notin Finished /\ j \notin dlq
      BY <2>4 DEF HandInv, OnlySubmitted
    <3>2. QED
      BY <1>a, <3>1 DEF Finished
  <2>6. ASSUME NEW t \in Topic, NEW o \in Nat, Open(t, o)', ~ (t = "jobs" /\ o = b)
        PROVE  Open(t, o) /\ log'[t][o] = log[t][o] /\ log[t][o].job # j
    <3>1. o \in 1 .. Len(log'[t])
      BY <2>6 DEF Open
    <3>2. o \in 1 .. Len(log[t])
      BY <1>0, <2>0, <2>2, <2>6, <3>1 DEF Topic
    <3>3. Open(t, o)
      BY <2>3, <2>6, <3>2 DEF Open
    <3>4. log[t][o].job # j
      BY <1>0, <2>4, <3>2 DEF RInv, SubmittedInLog
    <3>5. QED
      BY <2>2, <3>2, <3>3, <3>4
  <2>7. log'["jobs"][b].job = j
    BY <2>2
  <2>8. QED
    BY <1>0, <2>3, <2>5, <2>6, <2>7, CalmMoves
<1>16. ASSUME NEW w \in Worker, ProcessEvent(w) PROVE Pending'
  <2>1. CASE SkipWhileDraining(w) \/ Commit(w) \/ RouteLimited(w) \/ RouteRetry(w)
             \/ HandlerSucceeds(w) \/ RouteDeadLetter(w)
    BY <1>7, <1>8, <1>11, <1>12, <1>14, <2>1
  <2>2. CASE CommitRejected(w)
    BY <1>0, <2>2 DEF CommitRejected, HandsOwn
  <2>3. CASE SuccessPathRaises(w)
    BY <1>0, <1>a, <2>3 DEF SuccessPathRaises, Fault, HandsOwn
  <2>4. CASE AppendReceived(w) \/ CheckDuplicate(w) \/ Admit(w) \/ HandlerFails(w)
    <3>1. PICK to \in ProgramPoint :
              /\ pc' = [pc EXCEPT ![w] = to] /\ (pc[w] \in SettledPoint => to \in SettledPoint)
              /\ UNCHANGED <<owner, committed, cur, log, executed, dlq>>
      BY <2>4 DEF AppendReceived, CheckDuplicate, Admit, HandlerFails, Goto, kafkaVars,
         SettledPoint, ProgramPoint
    <3>2. QED
      BY <1>2, <3>1
  <2>5. CASE MarkProcessed(w) \/ AppendCompleted(w) \/ AppendFailed(w) \/ AppendOutcome(w)
    <3>1. PICK to \in ProgramPoint :
              /\ pc' = [pc EXCEPT ![w] = to] /\ (pc[w] \in SettledPoint => to \in SettledPoint)
              /\ UNCHANGED <<owner, committed, cur, log, executed, dlq>>
      BY <2>5 DEF MarkProcessed, AppendCompleted, AppendFailed, AppendOutcome, Goto, kafkaVars,
         SettledPoint, ProgramPoint
    <3>2. QED
      BY <1>2, <3>1
  <2>6. QED
    BY <1>16, <2>1, <2>2, <2>3, <2>4, <2>5 DEF ProcessEvent
<1>17. ASSUME NEW w \in Worker, Evict(w) \/ Crash(w) PROVE FALSE
  BY <1>a, <1>17 DEF Evict, Crash, Fault
<1>18. ASSUME NEW j \in Job, ExpireKey(j) PROVE FALSE
  BY <1>a, <1>18 DEF ExpireKey, Fault
<1>19. ASSUME NEW w \in Worker, StartDraining(w) \/ StopDraining(w) PROVE Pending'
  BY <1>3, <1>19 DEF StartDraining, StopDraining, kafkaVars
<1>20. ASSUME UNCHANGED vars PROVE Pending'
  BY <1>3, <1>20 DEF vars, kafkaVars
<1>21. Pending'
  BY <1>4, <1>6, <1>15, <1>16, <1>17, <1>18, <1>19, <1>20 DEF Next
<1>22. QED
  BY <1>0, <1>21, StepHandsOwn DEF Calm

\* The invariant behind the dead-letter topic is inductive.
LEMMA StepDeadInv == DeadInv /\ [Next]_vars => DeadInv'
<1> SUFFICES ASSUME DeadInv, [Next]_vars PROVE DeadInv'
  OBVIOUS
<1>1. HandInv' /\ AttemptsFailed' /\ DeadLetterHasHistory'
  BY StepHandInv, StepAttempts DEF DeadInv, HandInv, IInv
<1>2. faults \in Nat /\ faults' \in Nat
  BY StepTypeOK DEF DeadInv, HandInv, IInv, TypeOK
<1>3. faults' = faults \/ faults' = faults + 1
  BY DEF Next, vars, kafkaVars, Fault, NotSeen, PublishJob, ExpireKey, Assign, Receive,
     Evict, Crash, StartDraining, StopDraining, ProcessEvent, SkipWhileDraining,
     AppendReceived, CheckDuplicate, Admit, RouteLimited, HandlerSucceeds, HandlerFails,
     MarkProcessed, AppendCompleted, SuccessPathRaises, AppendFailed, RouteDeadLetter,
     RouteRetry, AppendOutcome, Commit, CommitRejected
<1>4. ASSUME faults' = 0 PROVE Calm'
  BY <1>2, <1>3, <1>4, StepCalm DEF DeadInv
<1>5. QED
  BY <1>1, <1>4 DEF DeadInv

\* durable_job_runtime.py, contract item 6, and kafka_adapter.py 177: for any
\* number of jobs, workers and faults, a job is dead-lettered only once the WAL
\* has the failure of each of its attempts, and it has never been executed,
\* unless the environment failed.
THEOREM DeadLettersAreSound == Spec => []DeadLettersAreJustified
<1>1. Init => DeadInv
  <2> SUFFICES ASSUME Init PROVE DeadInv
    OBVIOUS
  <2>1. \A t \in Topic : Len(log[t]) = 0 /\ \A o \in 1 .. Len(log[t]) : FALSE
    BY DEF Init
  <2>2. \A t \in Topic : \A o \in Nat : ~ Open(t, o)
    BY <2>1 DEF Open
  <2>3. Calm
    BY <2>2 DEF Init, Calm, OneOpenEvent, OpenIsUnsettled, BuriedNotRun, HandsOwn
  <2>4. AttemptsFailed /\ DeadLetterHasHistory
    BY <2>1 DEF Init, AttemptsFailed, DeadLetterHasHistory
  <2>5. QED
    BY <2>3, <2>4, InitHandInv DEF DeadInv
<1>2. DeadInv /\ [Next]_vars => DeadInv'
  BY StepDeadInv
<1>3. DeadInv => DeadLettersAreJustified
  <2> SUFFICES ASSUME DeadInv PROVE DeadLettersAreJustified
    OBVIOUS
  <2>1. TypeOK
    BY DEF DeadInv, HandInv, IInv
  <2>2. ASSUME NEW j \in dlq, executed[j] > 0 PROVE faults > 0
    <3>1. faults # 0
      BY <2>2 DEF DeadInv, Calm, BuriedNotRun
    <3>2. QED
      BY <2>1, <3>1 DEF TypeOK
  <2>3. QED
    BY <2>1, <2>2 DEF DeadInv, DeadLettersAreJustified, BuriedAliveCostsFault
<1>4. QED
  BY <1>1, <1>2, <1>3, PTL DEF Spec

-----------------------------------------------------------------------------
(* What a run of a handler costs: the inductive invariant behind           *)
(* RerunsCostFaults.  A job is granted one run, and one more by each fault;*)
(* the runs it has had and the runs it may still have never exceed those.  *)

Unstarted == {"received", "checked", "run"}

\* The event of the job in the jobs topic may still run.
JobsLive(j) ==
    \E o \in 1 .. Len(log["jobs"]) :
        /\ o > committed["jobs"] /\ log["jobs"][o].job = j
        /\ ~ \E w \in Worker : /\ owner["jobs"] = w /\ pc[w] \notin Unstarted \cup {"poll"}
                               /\ cur[w] = [topic |-> "jobs", offset |-> o]

\* The owner of the retry topic has an event of the job at a point.
RetryHolder(w, j, point) ==
    owner["retry"] = w /\ pc[w] = point /\ cur[w].topic = "retry" /\ Current(w).job = j

\* Workers that may still publish the job to the retry topic.
ToRetry == {"complete", "commitDone", "failed", "route"}

\* One of the events of the job in the retry topic, or of those that are on
\* their way to it, may still run; the first that runs keeps the others away,
\* until its key is lost.
RetryLive(j) ==
    \/ \E w \in Worker : RetryHolder(w, j, "run")
    \/ /\ j \notin processed
       /\ ~ \E w \in Worker : RetryHolder(w, j, "mark")
       /\ \/ \E r \in 1 .. Len(log["retry"]) : r > committed["retry"] /\ log["retry"][r].job = j
          \/ \E w \in Worker : pc[w] \in ToRetry /\ Current(w).job = j

\* Workers that may still run the job after they have lost their topics.
Strays(j) ==
    {w \in Worker : pc[w] \in Unstarted /\ owner[cur[w].topic] # w /\ Current(w).job = j}

One(P) == IF P THEN 1 ELSE 0

Cost(j) == executed[j] + One(JobsLive(j)) + One(RetryLive(j)) + Cardinality(Strays(j))

DistinctJobs ==
    \A o, p \in 1 .. Len(log["jobs"]) : log["jobs"][o].job = log["jobs"][p].job => o = p

CostInv == HandInv /\ DistinctJobs /\ \A j \in Submitted : Cost(j) <= 1 + faults

\* How the number of strays follows their set.
LEMMA StraysCounted ==
    ASSUME NEW j
    PROVE  /\ Cardinality(Strays(j)) \in Nat /\ Cardinality(Strays(j))' \in Nat
           /\ Strays(j)' \subseteq Strays(j) => Cardinality(Strays(j))' <= Cardinality(Strays(j))
           /\ \A w : Strays(j)' \subseteq Strays(j) \cup {w} =>
                  Cardinality(Strays(j))' <= Cardinality(Strays(j)) + 1
           /\ \A w : w \in Strays(j) /\ Strays(j)' \subseteq Strays(j) \ {w} =>
                  Cardinality(Strays(j))' <= Cardinality(Strays(j)) - 1
<1>1. PICK S : S = Strays(j)
  OBVIOUS
<1>2. PICK T : T = Strays(j)'
  OBVIOUS
<1>3. S \subseteq Worker /\ T \subseteq Worker
  BY <1>1, <1>2 DEF Strays
<1>4. IsFiniteSet(S) /\ IsFiniteSet(T) /\ Cardinality(S) \in Nat /\ Cardinality(T) \in Nat
  BY <1>3, ConstantsAssumption, FS_Subset, FS_CardinalityType
<1>5. T \subseteq S => Cardinality(T) <= Cardinality(S)
  BY <1>4, FS_Subset
<1>6. ASSUME NEW w, T \subseteq S \cup {w} PROVE Cardinality(T) <= Cardinality(S) + 1
  <2>1. IsFiniteSet(S \cup {w}) /\ Cardinality(S \cup {w}) \in Nat
        /\ Cardinality(S \cup {w}) <= Cardinality(S) + 1
    BY <1>4, FS_AddElement, FS_CardinalityType
  <2>2. Cardinality(T) <= Cardinality(S \cup {w})
    BY <1>6, <2>1, FS_Subset
  <2>3. QED
    BY <1>4, <2>1, <2>2
<1>7. ASSUME NEW w \in S, T \subseteq S \ {w} PROVE Cardinality(T) <= Cardinality(S) - 1
  <2>1. /\ IsFiniteSet(S \ {w}) /\ Cardinality(S \ {w}) \in Nat
        /\ Cardinality(S \ {w}) = Cardinality(S) - 1
    BY <1>4, FS_RemoveElement, FS_CardinalityType
  <2>2. Cardinality(T) <= Cardinality(S \ {w})
    BY <1>7, <2>1, FS_Subset
  <2>3. QED
    BY <1>4, <2>1, <2>2
<1>8. Cardinality(Strays(j)) = Cardinality(S) /\ Cardinality(Strays(j))' = Cardinality(T)
  BY <1>1, <1>2
<1>9. QED
  BY <1>1, <1>2, <1>4, <1>5, <1>6, <1>7, <1>8

\* The numbers of which the cost of a job is made.
LEMMA CostParts ==
    ASSUME TypeOK, TypeOK', NEW j \in Job
    PROVE  \E e, f, s, s2, e2, f2 \in Nat : \E a, b, a2, b2 \in {0, 1} :
             /\ e = executed[j] /\ f = faults /\ e2 = executed'[j] /\ f2 = faults'
             /\ s = Cardinality(Strays(j)) /\ s2 = Cardinality(Strays(j))'
             /\ (JobsLive(j) <=> a = 1) /\ (JobsLive(j)' <=> a2 = 1)
             /\ (RetryLive(j) <=> b = 1) /\ (RetryLive(j)' <=> b2 = 1)
             /\ Cost(j) = e + a + b + s /\ Cost(j)' = e2 + a2 + b2 + s2
<1>1. /\ executed[j] \in Nat /\ faults \in Nat /\ executed'[j] \in Nat /\ faults' \in Nat
  BY DEF TypeOK
<1>2. Cardinality(Strays(j)) \in Nat /\ Cardinality(Strays(j))' \in Nat
  BY StraysCounted
<1>3. PICK a \in {0, 1} : a = One(JobsLive(j))
  BY DEF One
<1>4. PICK a2 \in {0, 1} : a2 = One(JobsLive(j)')
  BY DEF One
<1>5. PICK b \in {0, 1} : b = One(RetryLive(j))
  BY DEF One
<1>6. PICK b2 \in {0, 1} : b2 = One(RetryLive(j)')
  BY DEF One
<1>7. /\ (JobsLive(j) <=> a = 1) /\ (JobsLive(j)' <=> a2 = 1)
      /\ (RetryLive(j) <=> b = 1) /\ (RetryLive(j)' <=> b2 = 1)
  BY <1>3, <1>4, <1>5, <1>6 DEF One
<1>8. Cost(j) = executed[j] + a + b + Cardinality(Strays(j))
  BY <1>3, <1>5 DEF Cost
<1>9. Cost(j)' = executed'[j] + a2 + b2 + Cardinality(Strays(j))'
  BY <1>4, <1>6 DEF Cost
<1>10. QED
  BY <1>1, <1>2, <1>7, <1>8, <1>9

\* A step that adds no run to come costs nothing ...
LEMMA CostFalls ==
    ASSUME TypeOK, TypeOK', NEW j \in Job, Cost(j) <= 1 + faults, faults <= faults',
           executed'[j] = executed[j], JobsLive(j)' => JobsLive(j),
           RetryLive(j)' => RetryLive(j), Strays(j)' \subseteq Strays(j)
    PROVE  Cost(j)' <= 1 + faults'
<1>1. Cardinality(Strays(j))' <= Cardinality(Strays(j))
  BY StraysCounted
<1>2. PICK e, f, s, s2, e2, f2 \in Nat : \E a, b, a2, b2 \in {0, 1} :
             /\ e = executed[j] /\ f = faults /\ e2 = executed'[j] /\ f2 = faults'
             /\ s = Cardinality(Strays(j)) /\ s2 = Cardinality(Strays(j))'
             /\ (JobsLive(j) <=> a = 1) /\ (JobsLive(j)' <=> a2 = 1)
             /\ (RetryLive(j) <=> b = 1) /\ (RetryLive(j)' <=> b2 = 1)
             /\ Cost(j) = e + a + b + s /\ Cost(j)' = e2 + a2 + b2 + s2
  BY CostParts
<1>3. QED
  BY <1>1, <1>2

\* ... one that adds one is paid by a fault ...
LEMMA CostPaid ==
    ASSUME TypeOK, TypeOK', NEW j \in Job, Cost(j) <= 1 + faults, faults' = faults + 1,
           executed'[j] = executed[j], NEW w,
           \/ /\ RetryLive(j)' => RetryLive(j)
              /\ Strays(j)' \subseteq Strays(j)
           \/ /\ JobsLive(j)' => JobsLive(j)
              /\ Strays(j)' \subseteq Strays(j)
           \/ /\ JobsLive(j)' => JobsLive(j)
              /\ RetryLive(j)' => RetryLive(j)
              /\ Strays(j)' \subseteq Strays(j) \cup {w}
    PROVE  Cost(j)' <= 1 + faults'
<1>1. /\ Strays(j)' \subseteq Strays(j) => Cardinality(Strays(j))' <= Cardinality(Strays(j))
      /\ Strays(j)' \subseteq Strays(j) \cup {w} =>
             Cardinality(Strays(j))' <= Cardinality(Strays(j)) + 1
  BY StraysCounted
<1>2. PICK e, f, s, s2, e2, f2 \in Nat : \E a, b, a2, b2 \in {0, 1} :
             /\ e = executed[j] /\ f = faults /\ e2 = executed'[j] /\ f2 = faults'
             /\ s = Cardinality(Strays(j)) /\ s2 = Cardinality(Strays(j))'
             /\ (JobsLive(j) <=> a = 1) /\ (JobsLive(j)' <=> a2 = 1)
             /\ (RetryLive(j) <=> b = 1) /\ (RetryLive(j)' <=> b2 = 1)
             /\ Cost(j) = e + a + b + s /\ Cost(j)' = e2 + a2 + b2 + s2
  BY CostParts
<1>3. QED
  BY <1>1, <1>2

\* ... and a run, or a copy on its way to the retry topic, by the event, or the
\* stray, that made it.
LEMMA CostMoves ==
    ASSUME TypeOK, TypeOK', NEW j \in Job, Cost(j) <= 1 + faults, faults <= faults', NEW w,
           \/ executed'[j] = executed[j]
           \/ executed'[j] = executed[j] + 1 /\ (RetryLive(j)' => RetryLive(j)),
           \/ JobsLive(j) /\ ~ JobsLive(j)' /\ Strays(j)' \subseteq Strays(j)
           \/ /\ JobsLive(j)' => JobsLive(j)
              /\ w \in Strays(j) /\ Strays(j)' \subseteq Strays(j) \ {w}
    PROVE  Cost(j)' <= 1 + faults'
<1>1. /\ Strays(j)' \subseteq Strays(j) => Cardinality(Strays(j))' <= Cardinality(Strays(j))
      /\ w \in Strays(j) /\ Strays(j)' \subseteq Strays(j) \ {w} =>
             Cardinality(Strays(j))' <= Cardinality(Strays(j)) - 1
  BY StraysCounted
<1>2. PICK e, f, s, s2, e2, f2 \in Nat : \E a, b, a2, b2 \in {0, 1} :
             /\ e = executed[j] /\ f = faults /\ e2 = executed'[j] /\ f2 = faults'
             /\ s = Cardinality(Strays(j)) /\ s2 = Cardinality(Strays(j))'
             /\ (JobsLive(j) <=> a = 1) /\ (JobsLive(j)' <=> a2 = 1)
             /\ (RetryLive(j) <=> b = 1) /\ (RetryLive(j)' <=> b2 = 1)
             /\ Cost(j) = e + a + b + s /\ Cost(j)' = e2 + a2 + b2 + s2
  BY CostParts
<1>3. QED
  BY <1>1, <1>2

\* A run of a retried event by the owner of the retry topic is paid by that event.
LEMMA CostOfRetry ==
    ASSUME TypeOK, TypeOK', NEW j \in Job, Cost(j) <= 1 + faults, faults <= faults',
           executed'[j] = executed[j] + 1, JobsLive(j)' => JobsLive(j),
           RetryLive(j), ~ RetryLive(j)', Strays(j)' \subseteq Strays(j)
    PROVE  Cost(j)' <= 1 + faults'
<1>1. Cardinality(Strays(j))' <= Cardinality(Strays(j))
  BY StraysCounted
<1>2. PICK e, f, s, s2, e2, f2 \in Nat : \E a, b, a2, b2 \in {0, 1} :
             /\ e = executed[j] /\ f = faults /\ e2 = executed'[j] /\ f2 = faults'
             /\ s = Cardinality(Strays(j)) /\ s2 = Cardinality(Strays(j))'
             /\ (JobsLive(j) <=> a = 1) /\ (JobsLive(j)' <=> a2 = 1)
             /\ (RetryLive(j) <=> b = 1) /\ (RetryLive(j)' <=> b2 = 1)
             /\ Cost(j) = e + a + b + s /\ Cost(j)' = e2 + a2 + b2 + s2
  BY CostParts
<1>3. QED
  BY <1>1, <1>2

\* A worker that keeps its event keeps the event of that place.
LEMMA SameEvents ==
    ASSUME TypeOK, CurInLog, Grows, UNCHANGED cur
    PROVE  \A v \in Worker : pc[v] # "poll" => Current(v)' = Current(v)
<1> SUFFICES ASSUME NEW v \in Worker, pc[v] # "poll" PROVE Current(v)' = Current(v)
  OBVIOUS
<1>1. cur[v].topic \in Topic /\ cur[v].offset \in 1 .. Len(log[cur[v].topic])
  BY CurrentIsEvent DEF CurInLog
<1>2. QED
  BY <1>1 DEF Grows, Current, EventAt

\* What a step of process_event that stays inside it does to the event of a job
\* in the jobs topic, and to the strays.
LEMMA InsideStep ==
    ASSUME TypeOK, CurInLog, Grows, NEW w \in Worker, NEW to \in ProgramPoint \ {"poll"},
           UNCHANGED <<owner, committed, cur>>, pc[w] # "poll", pc' = [pc EXCEPT ![w] = to],
           log'["jobs"] = log["jobs"], to \in Unstarted => pc[w] \in Unstarted, NEW j
    PROVE  /\ JobsLive(j)' => JobsLive(j)
           /\ Strays(j)' \subseteq Strays(j)
           /\ to \notin Unstarted => w \notin Strays(j)'
<1>0. /\ pc \in [Worker -> ProgramPoint] /\ pc'[w] = to
      /\ \A v \in Worker \ {w} : pc'[v] = pc[v]
  BY DEF TypeOK
<1>1. \A v \in Worker : pc[v] # "poll" => Current(v)' = Current(v)
  BY SameEvents
<1>2. \A v \in Worker : pc[v] \notin Unstarted \cup {"poll"} => pc'[v] \notin Unstarted \cup {"poll"}
  BY <1>0
<1>3. JobsLive(j)' => JobsLive(j)
  <2> SUFFICES ASSUME NEW o \in 1 .. Len(log["jobs"]), o > committed["jobs"], log["jobs"][o].job = j,
                      ~ \E v \in Worker : /\ owner["jobs"] = v /\ pc'[v] \notin Unstarted \cup {"poll"}
                                          /\ cur[v] = [topic |-> "jobs", offset |-> o]
               PROVE  JobsLive(j)
    BY DEF JobsLive
  <2>1. ~ \E v \in Worker : /\ owner["jobs"] = v /\ pc[v] \notin Unstarted \cup {"poll"}
                            /\ cur[v] = [topic |-> "jobs", offset |-> o]
    BY <1>2
  <2>2. QED
    BY <2>1 DEF JobsLive
<1>4. ASSUME NEW v \in Strays(j)' PROVE v \in Strays(j)
  <2>1. /\ v \in Worker /\ pc'[v] \in Unstarted /\ owner[cur[v].topic] # v
        /\ Current(v)'.job = j
    BY <1>4 DEF Strays
  <2>2. pc[v] \in Unstarted /\ pc[v] # "poll"
    BY <1>0, <2>1 DEF Unstarted
  <2>3. Current(v)' = Current(v)
    BY <1>1, <2>1, <2>2
  <2>4. QED
    BY <2>1, <2>2, <2>3 DEF Strays
<1>5. to \notin Unstarted => w \notin Strays(j)'
  BY <1>0 DEF Strays
<1>6. QED
  BY <1>3, <1>4, <1>5

\* The owner of the jobs topic that holds the event of the job takes the run of
\* it into its hands.
LEMMA JobsEventStarts ==
    ASSUME HandInv, DistinctJobs, NEW w \in Worker, NEW to \in ProgramPoint \ {"poll"},
           UNCHANGED <<owner, committed, cur>>, pc[w] \in Unstarted, to \notin Unstarted,
           pc' = [pc EXCEPT ![w] = to], log'["jobs"] = log["jobs"],
           owner["jobs"] = w, cur[w].topic = "jobs"
    PROVE  JobsLive(Current(w).job) /\ ~ JobsLive(Current(w).job)'
<1>0. /\ pc'[w] = to /\ pc[w] # "poll"
      /\ cur[w] = [topic |-> "jobs", offset |-> cur[w].offset]
      /\ cur[w].offset \in 1 .. Len(log["jobs"]) /\ cur[w].offset > committed["jobs"]
  <2>1. TypeOK /\ CurInLog /\ pc[w] # "poll"
    BY DEF HandInv, IInv, Unstarted
  <2>2. pc'[w] = to /\ committed["jobs"] \in Nat
    BY <2>1 DEF TypeOK, Topic
  <2>3. cur[w] = [topic |-> "jobs", offset |-> cur[w].offset]
    BY <2>1, CurrentIsEvent
  <2>4. cur[w].offset \in 1 .. Len(log["jobs"]) /\ committed["jobs"] < cur[w].offset
    BY <2>1 DEF CurInLog, HandInv, HandBounds
  <2>5. QED
    BY <2>1, <2>2, <2>3, <2>4
<1>1. PICK n \in 1 .. Len(log["jobs"]) : n = cur[w].offset
  BY <1>0
<1>2. log["jobs"][n].job = Current(w).job
  BY <1>1 DEF Current, EventAt
<1>3. JobsLive(Current(w).job)
  BY <1>0, <1>1, <1>2 DEF JobsLive
<1>4. ASSUME NEW o \in 1 .. Len(log["jobs"]), log["jobs"][o].job = Current(w).job
      PROVE  o = n
  BY <1>2, <1>4 DEF DistinctJobs
<1>5. Current(w)' = Current(w)
  BY <1>0, <1>1 DEF Current, EventAt
<1>6. ASSUME JobsLive(Current(w).job)' PROVE FALSE
  <2>1. PICK o \in 1 .. Len(log["jobs"]) :
            /\ log["jobs"][o].job = Current(w).job
            /\ ~ \E v \in Worker : /\ owner["jobs"] = v /\ pc'[v] \notin Unstarted \cup {"poll"}
                                   /\ cur[v] = [topic |-> "jobs", offset |-> o]
    BY <1>5, <1>6 DEF JobsLive
  <2>2. o = n
    BY <1>4, <2>1
  <2>3. QED
    BY <1>0, <1>1, <2>1, <2>2
<1>7. QED
  BY <1>3, <1>6

\* The owner of the retry topic that holds an event of the job, whose key is not
\* set and whose handler has not just run, keeps the job live.
LEMMA RetryHeldIsLive ==
    ASSUME HandInv, NEW w \in Worker, pc[w] \notin {"poll", "mark"},
           owner["retry"] = w, cur[w].topic = "retry", Current(w).job \notin processed
    PROVE  RetryLive(Current(w).job)
<1>1. TypeOK /\ CurInLog
  BY DEF HandInv, IInv
<1>2. /\ cur[w].offset \in 1 .. Len(log["retry"]) /\ committed["retry"] < cur[w].offset
  BY <1>1 DEF CurInLog, HandInv, HandBounds
<1>3. PICK n \in 1 .. Len(log["retry"]) : n = cur[w].offset
  BY <1>2
<1>4. log["retry"][n].job = Current(w).job /\ n > committed["retry"]
  <2>1. committed["retry"] \in Nat
    BY <1>1 DEF TypeOK, Topic
  <2>2. QED
    BY <1>2, <1>3, <2>1 DEF Current, EventAt
<1>5. ~ \E v \in Worker : RetryHolder(v, Current(w).job, "mark")
  BY DEF RetryHolder
<1>6. QED
  BY <1>4, <1>5 DEF RetryLive

\* A step of process_event about another job, or one that neither starts nor
\* ends a run and brings no event on its way to the retry topic, adds no run of
\* the job to come.
LEMMA RetryNotMoved ==
    ASSUME TypeOK, CurInLog, Grows, NEW w \in Worker, NEW to \in ProgramPoint \ {"poll"},
           UNCHANGED <<owner, committed, cur>>, pc[w] # "poll", pc' = [pc EXCEPT ![w] = to],
           NEW j, j \in processed => j \in processed',
           \/ Current(w).job # j
           \/ owner["retry"] # w \/ cur[w].topic # "retry" \/ {pc[w], to} \cap {"run", "mark"} = {},
           \/ Current(w).job # j
           \/ to \in ToRetry => pc[w] \in ToRetry,
           \A r \in 1 .. Len(log'["retry"]) : log'["retry"][r].job = j =>
               r \in 1 .. Len(log["retry"]) /\ log["retry"][r].job = j
    PROVE  RetryLive(j)' => RetryLive(j)
<1> SUFFICES ASSUME RetryLive(j)' PROVE RetryLive(j)
  OBVIOUS
<1>0. /\ pc \in [Worker -> ProgramPoint] /\ pc'[w] = to
      /\ \A v \in Worker \ {w} : pc'[v] = pc[v]
  BY DEF TypeOK
<1>1. \A v \in Worker : pc[v] # "poll" => Current(v)' = Current(v)
  BY SameEvents
<1>2. \A v \in Worker : pc'[v] # "poll" => pc[v] # "poll"
  BY <1>0
<1>3. ASSUME NEW v \in Worker, NEW point \in {"run", "mark"}
      PROVE  RetryHolder(v, j, point)' <=> RetryHolder(v, j, point)
  <2>1. CASE v = w
    <3>1. Current(w)' = Current(w)
      BY <1>1
    <3>2. QED
      BY <1>0, <2>1, <3>1 DEF RetryHolder
  <2>2. CASE v # w
    <3>1. pc'[v] = pc[v]
      BY <1>0, <2>2
    <3>2. pc[v] = point => Current(v)' = Current(v)
      BY <1>1
    <3>3. QED
      BY <3>1, <3>2 DEF RetryHolder
  <2>3. QED
    BY <2>1, <2>2
<1>4. CASE \E v \in Worker : RetryHolder(v, j, "run")'
  BY <1>3, <1>4 DEF RetryLive
<1>5. CASE ~ \E v \in Worker : RetryHolder(v, j, "run")'
  <2>1. /\ j \notin processed' /\ ~ \E v \in Worker : RetryHolder(v, j, "mark")'
        /\ \/ \E r \in 1 .. Len(log'["retry"]) : r > committed["retry"] /\ log'["retry"][r].job = j
           \/ \E v \in Worker : pc'[v] \in ToRetry /\ Current(v)'.job = j
    BY <1>5 DEF RetryLive
  <2>2. j \notin processed /\ ~ \E v \in Worker : RetryHolder(v, j, "mark")
    BY <1>3, <2>1
  <2>3. ASSUME NEW v \in Worker, pc'[v] \in ToRetry, Current(v)'.job = j
        PROVE  pc[v] \in ToRetry /\ Current(v).job = j
    <3>1. pc[v] # "poll"
      BY <1>2, <2>3 DEF ToRetry
    <3>2. Current(v)' = Current(v)
      BY <1>1, <3>1
    <3>3. QED
      BY <1>0, <2>3, <3>2
  <2>4. QED
    BY <2>1, <2>2, <2>3 DEF RetryLive
<1>6. QED
  BY <1>4, <1>5

\* A worker that goes back to its loop, loses topics, or both: what it no longer
\* keeps from running may run again.
LEMMA LossCost ==
    ASSUME TypeOK, CurInLog, NEW w \in Worker, UNCHANGED <<log, committed, processed>>,
           \A v \in Worker \ {w} : pc'[v] = pc[v] /\ cur'[v] = cur[v],
           \A v \in Worker \ {w} : \A t \in Topic : owner'[t] = v <=> owner[t] = v,
           \/ pc'[w] = "poll"
           \/ /\ pc'[w] = pc[w] /\ cur'[w] = cur[w]
              /\ \A t \in Topic : owner'[t] = w => owner[t] = w,
           NEW j
    PROVE  /\ pc[w] \in Unstarted \cup {"poll"} \/ owner["jobs"] # w \/ cur[w].topic # "jobs" =>
                  (JobsLive(j)' => JobsLive(j))
           /\ pc[w] # "mark" \/ cur[w].topic # "retry" => (RetryLive(j)' => RetryLive(j))
           /\ Strays(j)' \subseteq Strays(j) \cup {w}
           /\ pc[w] \notin Unstarted \/ pc'[w] = "poll" => Strays(j)' \subseteq Strays(j)
<1>0. "jobs" \in Topic /\ "retry" \in Topic /\ \A v \in Worker : cur[v].topic \in Topic
  BY DEF TypeOK, Place, Topic
<1>1. \A v \in Worker : pc'[v] # "poll" => cur'[v] = cur[v] /\ Current(v)' = Current(v) /\ pc'[v] = pc[v]
  BY DEF Current, EventAt
<1>2. ASSUME pc[w] \in Unstarted \cup {"poll"} \/ owner["jobs"] # w \/ cur[w].topic # "jobs",
             JobsLive(j)'
      PROVE  JobsLive(j)
  <2>1. PICK o \in 1 .. Len(log["jobs"]) :
            /\ o > committed["jobs"] /\ log["jobs"][o].job = j
            /\ ~ \E v \in Worker : /\ owner'["jobs"] = v /\ pc'[v] \notin Unstarted \cup {"poll"}
                                   /\ cur'[v] = [topic |-> "jobs", offset |-> o]
    BY <1>2 DEF JobsLive
  <2>2. ASSUME NEW v \in Worker, owner["jobs"] = v, pc[v] \notin Unstarted \cup {"poll"},
               cur[v] = [topic |-> "jobs", offset |-> o]
        PROVE  FALSE
    <3>1. v # w
      BY <1>2, <2>2
    <3>2. owner'["jobs"] = v /\ pc'[v] = pc[v] /\ cur'[v] = cur[v]
      BY <1>0, <2>2, <3>1
    <3>3. QED
      BY <2>1, <2>2, <3>2
  <2>3. QED
    BY <2>1, <2>2 DEF JobsLive
<1>3. ASSUME NEW v \in Worker, NEW point \in {"run", "mark"}, RetryHolder(v, j, point)'
      PROVE  RetryHolder(v, j, point)
  <2>1. pc'[v] # "poll"
    BY <1>3 DEF RetryHolder
  <2>2. owner["retry"] = v
    BY <1>0, <1>3, <2>1 DEF RetryHolder
  <2>3. QED
    BY <1>1, <1>3, <2>1, <2>2 DEF RetryHolder
<1>4. ASSUME pc[w] # "mark" \/ cur[w].topic # "retry", RetryLive(j)' PROVE RetryLive(j)
  <2>1. CASE \E v \in Worker : RetryHolder(v, j, "run")'
    BY <1>3, <2>1 DEF RetryLive
  <2>2. CASE ~ \E v \in Worker : RetryHolder(v, j, "run")'
    <3>1. /\ j \notin processed /\ ~ \E v \in Worker : RetryHolder(v, j, "mark")'
          /\ \/ \E r \in 1 .. Len(log["retry"]) : r > committed["retry"] /\ log["retry"][r].job = j
             \/ \E v \in Worker : pc'[v] \in ToRetry /\ Current(v)'.job = j
      BY <1>4, <2>2 DEF RetryLive
    <3>2. ASSUME NEW v \in Worker, RetryHolder(v, j, "mark") PROVE FALSE
      <4>1. v # w
        BY <1>4, <3>2 DEF RetryHolder
      <4>2. pc'[v] = pc[v] /\ cur'[v] = cur[v] /\ owner'["retry"] = v
        BY <1>0, <3>2, <4>1 DEF RetryHolder
      <4>3. RetryHolder(v, j, "mark")'
        BY <3>2, <4>2 DEF RetryHolder, Current, EventAt
      <4>4. QED
        BY <3>1, <4>3
    <3>3. ASSUME NEW v \in Worker, pc'[v] \in ToRetry, Current(v)'.job = j
          PROVE  pc[v] \in ToRetry /\ Current(v).job = j
      BY <1>1, <3>3 DEF ToRetry
    <3>4. QED
      BY <3>1, <3>2, <3>3 DEF RetryLive
  <2>3. QED
    BY <2>1, <2>2
<1>5. ASSUME NEW v \in Strays(j)', v # w PROVE v \in Strays(j)
  <2>1. /\ v \in Worker /\ pc'[v] \in Unstarted /\ owner'[cur'[v].topic] # v
        /\ Current(v)'.job = j
    BY <1>5 DEF Strays
  <2>2. pc'[v] = pc[v] /\ cur'[v] = cur[v] /\ owner[cur[v].topic] # v
    BY <1>0, <1>5, <2>1
  <2>3. QED
    BY <2>1, <2>2 DEF Strays, Current, EventAt
<1>6. w \in Strays(j)' => pc'[w] \in Unstarted
  BY DEF Strays
<1>7. ASSUME pc[w] \notin Unstarted \/ pc'[w] = "poll" PROVE Strays(j)' \subseteq Strays(j)
  BY <1>5, <1>6, <1>7 DEF Unstarted
<1>8. QED
  BY <1>2, <1>4, <1>5, <1>7

\* What the environment, the loop of a worker and its commits cost a job.
LEMMA OutsideCost ==
    ASSUME CostInv, NEW j \in Job, Cost(j) <= 1 + faults, j \in Submitted, [Next]_vars, NEW w,
           \/ UNCHANGED vars \/ \E i \in Job : PublishJob(i) \/ ExpireKey(i)
           \/ /\ w \in Worker
              /\ \/ \E t \in Topic : Assign(w, t) \/ Receive(w, t)
                 \/ Evict(w) \/ Crash(w) \/ StartDraining(w) \/ StopDraining(w)
                 \/ SkipWhileDraining(w) \/ Commit(w) \/ CommitRejected(w)
    PROVE  Cost(j)' <= 1 + faults'
<1>0. /\ TypeOK /\ CurInLog /\ TypeOK' /\ Grows /\ "jobs" \in Topic /\ "retry" \in Topic
      /\ owner \in [Topic -> Worker \cup {Nobody}] /\ cur \in [Worker -> Place]
      /\ pc \in [Worker -> ProgramPoint] /\ executed \in [Job -> Nat]
      /\ position \in [Topic -> Nat] /\ committed \in [Topic -> Nat] /\ faults \in Nat
      /\ \A v \in Worker : cur[v].topic \in Topic
  BY StepTypeOK, StepGrows DEF CostInv, HandInv, IInv, TypeOK, Place, Topic
<1>1. ASSUME UNCHANGED <<log, owner, committed, pc, cur, processed, executed, faults>>
      PROVE  Cost(j)' <= 1 + faults'
  <2>1. JobsLive(j)' => JobsLive(j)
    BY <1>1 DEF JobsLive
  <2>2. RetryLive(j)' => RetryLive(j)
    BY <1>1 DEF RetryLive, RetryHolder, Current, EventAt
  <2>3. Strays(j)' \subseteq Strays(j)
    BY <1>1 DEF Strays, Current, EventAt
  <2>4. QED
    BY <1>0, <1>1, <2>1, <2>2, <2>3, CostFalls
<1>2. ASSUME NEW i \in Job, PublishJob(i) PROVE Cost(j)' <= 1 + faults'
  <2>1. [job |-> i, attempt |-> 1] \in Event /\ Publish("jobs", [job |-> i, attempt |-> 1])
    BY <1>2 DEF PublishJob, Event
  <2>2. UNCHANGED <<owner, committed, pc, cur, processed, executed, faults>>
    BY <1>2 DEF PublishJob
  <2>3. PICK n \in Nat : n = Len(log["jobs"])
    BY <1>0 DEF TypeOK
  <2>4. /\ Len(log'["jobs"]) = n + 1 /\ log'["jobs"][n + 1] = [job |-> i, attempt |-> 1]
        /\ log'["retry"] = log["retry"]
        /\ \A o \in 1 .. n : log'["jobs"][o] = log["jobs"][o]
    BY <1>0, <2>1, <2>3, PublishGrows
  <2>5. i # j
    BY <1>2 DEF PublishJob, Submitted
  <2>6. \A v \in Worker : pc[v] # "poll" => Current(v)' = Current(v)
    BY <1>0, <2>2, SameEvents
  <2>7. JobsLive(j)' => JobsLive(j)
    <3> SUFFICES ASSUME NEW o \in 1 .. n + 1, o > committed["jobs"], log'["jobs"][o].job = j,
                        ~ \E v \in Worker : /\ owner["jobs"] = v /\ pc[v] \notin Unstarted \cup {"poll"}
                                            /\ cur[v] = [topic |-> "jobs", offset |-> o]
                 PROVE  JobsLive(j)
      BY <2>2, <2>4 DEF JobsLive
    <3>1. o # n + 1
      BY <2>4, <2>5
    <3>2. o \in 1 .. n /\ log["jobs"][o].job = j
      BY <2>4, <3>1
    <3>3. QED
      BY <2>3, <3>2 DEF JobsLive
  <2>8. \A v \in Worker, point \in {"run", "mark"} :
            RetryHolder(v, j, point)' <=> RetryHolder(v, j, point)
    BY <2>2, <2>6 DEF RetryHolder
  <2>9. \A v \in Worker : pc[v] \in ToRetry => Current(v)' = Current(v)
    BY <2>6 DEF ToRetry
  <2>10. RetryLive(j)' => RetryLive(j)
    BY <2>2, <2>4, <2>8, <2>9 DEF RetryLive
  <2>11. Strays(j)' \subseteq Strays(j)
    <3>1. \A v \in Worker : pc[v] \in Unstarted => Current(v)' = Current(v)
      BY <2>6 DEF Unstarted
    <3>2. QED
      BY <2>2, <3>1 DEF Strays
  <2>12. QED
    BY <1>0, <2>2, <2>7, <2>10, <2>11, CostFalls
<1>3. ASSUME NEW i \in Job, ExpireKey(i) PROVE Cost(j)' <= 1 + faults'
  <2>1. UNCHANGED <<log, owner, committed, pc, cur, executed>> /\ faults' = faults + 1
    BY <1>3 DEF ExpireKey, Fault, kafkaVars
  <2>2. JobsLive(j)' => JobsLive(j)
    BY <2>1 DEF JobsLive
  <2>3. Strays(j)' \subseteq Strays(j)
    BY <2>1 DEF Strays, Current, EventAt
  <2>4. QED
    BY <1>0, <2>1, <2>2, <2>3, CostPaid
<1>4. ASSUME w \in Worker, NEW t \in Topic, Assign(w, t) PROVE Cost(j)' <= 1 + faults'
  <2>1. /\ pc[w] = "poll" /\ owner[t] = Nobody /\ owner' = [owner EXCEPT ![t] = w]
        /\ UNCHANGED <<log, committed, pc, cur, processed, executed, faults>>
    BY <1>4 DEF Assign
  <2>2. \A v \in Worker \ {w} : \A u \in Topic : owner'[u] = v <=> owner[u] = v
    BY <1>0, <1>4, <2>1, ConstantsAssumption
  <2>3. pc'[w] = "poll" /\ pc[w] \in Unstarted \cup {"poll"} /\ pc[w] # "mark"
    BY <2>1
  <2>4. /\ JobsLive(j)' => JobsLive(j)
        /\ RetryLive(j)' => RetryLive(j)
        /\ Strays(j)' \subseteq Strays(j)
    BY <1>0, <1>4, <2>1, <2>2, <2>3, LossCost
  <2>5. QED
    BY <1>0, <1>4, <2>1, <2>4, CostFalls
<1>5. ASSUME w \in Worker, NEW t \in Topic, Receive(w, t) PROVE Cost(j)' <= 1 + faults'
  <2>1. /\ owner[t] = w /\ pc[w] = "poll" /\ pc' = [pc EXCEPT ![w] = "received"]
        /\ cur' = [cur EXCEPT ![w] = [topic |-> t, offset |-> position[t] + 1]]
        /\ UNCHANGED <<log, owner, committed, processed, executed, faults>>
    BY <1>5 DEF Receive, Goto
  <2>2. /\ \A v \in Worker \ {w} : pc'[v] = pc[v] /\ cur'[v] = cur[v] /\ Current(v)' = Current(v)
        /\ pc'[w] = "received" /\ cur'[w].topic = t
    BY <1>0, <1>5, <2>1 DEF Current, EventAt
  <2>3. JobsLive(j)' => JobsLive(j)
    <3>1. \A v \in Worker : pc[v] \notin Unstarted \cup {"poll"} =>
              pc'[v] = pc[v] /\ cur'[v] = cur[v]
      BY <2>1, <2>2
    <3>2. QED
      BY <2>1, <3>1 DEF JobsLive
  <2>4. RetryLive(j)' => RetryLive(j)
    <3>1. \A v \in Worker, point \in {"run", "mark"} :
              RetryHolder(v, j, point)' <=> RetryHolder(v, j, point)
      BY <2>1, <2>2 DEF RetryHolder
    <3>2. \A v \in Worker : pc'[v] \in ToRetry /\ Current(v)'.job = j =>
              pc[v] \in ToRetry /\ Current(v).job = j
      BY <2>2 DEF ToRetry
    <3>3. QED
      BY <2>1, <3>1, <3>2 DEF RetryLive
  <2>5. Strays(j)' \subseteq Strays(j)
    <3>1. w \notin Strays(j)'
      BY <2>1, <2>2 DEF Strays
    <3>2. \A v \in Worker \ {w} : v \in Strays(j)' => v \in Strays(j)
      BY <2>1, <2>2 DEF Strays
    <3>3. Strays(j)' \subseteq Worker
      BY DEF Strays
    <3>4. QED
      BY <3>1, <3>2, <3>3
  <2>6. QED
    BY <1>0, <1>5, <2>1, <2>3, <2>4, <2>5, CostFalls
<1>6. ASSUME w \in Worker, Evict(w) \/ Crash(w) PROVE Cost(j)' <= 1 + faults'
  <2>1. /\ Revoke(w) /\ faults' = faults + 1 /\ UNCHANGED <<log, committed, processed, executed>>
        /\ \A v \in Worker \ {w} : pc'[v] = pc[v] /\ cur'[v] = cur[v]
        /\ pc'[w] = "poll" \/ (pc'[w] = pc[w] /\ cur'[w] = cur[w])
    BY <1>0, <1>6 DEF Evict, Crash, Die, Fault, BackToLoop
  <2>2. /\ \A v \in Worker \ {w} : \A t \in Topic : owner'[t] = v <=> owner[t] = v
        /\ \A t \in Topic : owner'[t] = w => owner[t] = w
    BY <1>0, <1>6, <2>1, ConstantsAssumption DEF Revoke
  <2>3. /\ pc[w] \in Unstarted \cup {"poll"} \/ owner["jobs"] # w \/ cur[w].topic # "jobs" =>
               (JobsLive(j)' => JobsLive(j))
        /\ pc[w] # "mark" \/ cur[w].topic # "retry" => (RetryLive(j)' => RetryLive(j))
        /\ Strays(j)' \subseteq Strays(j) \cup {w}
        /\ pc[w] \notin Unstarted \/ pc'[w] = "poll" => Strays(j)' \subseteq Strays(j)
    BY <1>0, <1>6, <2>1, <2>2, LossCost
  <2>4. CASE pc[w] \in Unstarted
    <3>1. pc[w] # "mark"
      BY <2>4 DEF Unstarted
    <3>2. QED
      BY <1>0, <1>6, <2>1, <2>3, <2>4, <3>1, CostPaid
  <2>5. CASE pc[w] \notin Unstarted /\ cur[w].topic = "jobs"
    BY <1>0, <1>6, <2>1, <2>3, <2>5, CostPaid
  <2>6. CASE pc[w] \notin Unstarted /\ cur[w].topic # "jobs"
    BY <1>0, <1>6, <2>1, <2>3, <2>6, CostPaid
  <2>7. QED
    BY <2>4, <2>5, <2>6
<1>7. ASSUME w \in Worker, CommitRejected(w) \/ SkipWhileDraining(w) PROVE Cost(j)' <= 1 + faults'
  <2>1. /\ Revoke(w) \/ owner' = owner
        /\ UNCHANGED <<log, committed, processed, executed, faults>>
        /\ pc' = [pc EXCEPT ![w] = "poll"] /\ cur' = [cur EXCEPT ![w] = NoPlace]
    BY <1>7 DEF CommitRejected, SkipWhileDraining, Die, BackToLoop, kafkaVars
  <2>2. pc'[w] = "poll" /\ \A v \in Worker \ {w} : pc'[v] = pc[v] /\ cur'[v] = cur[v]
    BY <1>0, <1>7, <2>1
  <2>3. \A v \in Worker \ {w} : \A t \in Topic : owner'[t] = v <=> owner[t] = v
    BY <1>0, <1>7, <2>1, ConstantsAssumption DEF Revoke
  <2>4. /\ pc[w] \in Unstarted \cup {"poll"} \/ owner["jobs"] # w \/ cur[w].topic # "jobs"
        /\ pc[w] # "mark"
    BY <1>7 DEF CommitRejected, SkipWhileDraining, Unstarted
  <2>5. /\ JobsLive(j)' => JobsLive(j)
        /\ RetryLive(j)' => RetryLive(j)
        /\ Strays(j)' \subseteq Strays(j)
    BY <1>0, <1>7, <2>1, <2>2, <2>3, <2>4, LossCost
  <2>6. QED
    BY <1>0, <1>7, <2>1, <2>5, CostFalls
<1>8. ASSUME w \in Worker, Commit(w) PROVE Cost(j)' <= 1 + faults'
  <2>1. /\ pc[w] \in {"commitDone", "commit"} /\ owner[cur[w].topic] = w
        /\ committed' = [t \in Topic |-> IF owner[t] = w THEN position[t] ELSE committed[t]]
        /\ pc' = [pc EXCEPT ![w] = "poll"] /\ cur' = [cur EXCEPT ![w] = NoPlace]
        /\ UNCHANGED <<log, owner, processed, executed, faults>>
    BY <1>8 DEF Commit, BackToLoop
  <2>2. /\ pc'[w] = "poll"
        /\ \A v \in Worker \ {w} : pc'[v] = pc[v] /\ cur'[v] = cur[v] /\ Current(v)' = Current(v)
    BY <1>0, <1>8, <2>1 DEF Current, EventAt
  <2>3. ASSUME NEW t \in Topic PROVE committed[t] <= committed'[t] /\ committed'[t] \in Nat
    <3>1. owner[t] = w => committed[t] <= position[t]
      BY <1>8, ConstantsAssumption DEF CostInv, HandInv, IInv, OffsetsInLog
    <3>2. QED
      BY <1>0, <1>8, <2>1, <3>1
  <2>4. JobsLive(j)' => JobsLive(j)
    <3> SUFFICES ASSUME NEW o \in 1 .. Len(log["jobs"]), o > committed'["jobs"], log["jobs"][o].job = j,
                        ~ \E v \in Worker : /\ owner["jobs"] = v /\ pc'[v] \notin Unstarted \cup {"poll"}
                                            /\ cur'[v] = [topic |-> "jobs", offset |-> o]
                 PROVE  JobsLive(j)
      BY <2>1 DEF JobsLive
    <3>1. o > committed["jobs"]
      BY <1>0, <1>8, <2>3
    <3>2. ASSUME owner["jobs"] = w, cur[w] = [topic |-> "jobs", offset |-> o] PROVE FALSE
      <4>1. o <= position["jobs"]
        BY <1>8, <2>1, <3>2 DEF CostInv, HandInv, HandBounds
      <4>2. committed'["jobs"] = position["jobs"]
        BY <1>0, <1>8, <2>1, <3>2
      <4>3. QED
        BY <1>0, <1>8, <4>1, <4>2
    <3>3. ~ \E v \in Worker : /\ owner["jobs"] = v /\ pc[v] \notin Unstarted \cup {"poll"}
                              /\ cur[v] = [topic |-> "jobs", offset |-> o]
      BY <2>2, <3>2
    <3>4. QED
      BY <3>1, <3>3 DEF JobsLive
  <2>5. RetryLive(j)' => RetryLive(j)
    <3>1. \A v \in Worker, point \in {"run", "mark"} :
              RetryHolder(v, j, point)' <=> RetryHolder(v, j, point)
      BY <2>1, <2>2 DEF RetryHolder
    <3>2. \A v \in Worker : pc'[v] \in ToRetry /\ Current(v)'.job = j =>
              pc[v] \in ToRetry /\ Current(v).job = j
      BY <2>2 DEF ToRetry
    <3>3. \A r \in 1 .. Len(log["retry"]) : r > committed'["retry"] => r > committed["retry"]
      BY <1>0, <1>8, <2>3
    <3>4. QED
      BY <2>1, <3>1, <3>2, <3>3 DEF RetryLive
  <2>6. Strays(j)' \subseteq Strays(j)
    <3>1. w \notin Strays(j)'
      BY <2>2 DEF Strays, Unstarted
    <3>2. \A v \in Worker \ {w} : v \in Strays(j)' => v \in Strays(j)
      BY <2>1, <2>2 DEF Strays
    <3>3. Strays(j)' \subseteq Worker
      BY DEF Strays
    <3>4. QED
      BY <3>1, <3>2, <3>3
  <2>7. QED
    BY <1>0, <1>8, <2>1, <2>4, <2>5, <2>6, CostFalls
<1>9. ASSUME StartDraining(w) \/ StopDraining(w) PROVE Cost(j)' <= 1 + faults'
  BY <1>1, <1>9 DEF StartDraining, StopDraining, kafkaVars
<1>10. CASE UNCHANGED vars
  BY <1>1, <1>10 DEF vars, kafkaVars
<1>11. QED
  BY <1>2, <1>3, <1>4, <1>5, <1>6, <1>7, <1>8, <1>9, <1>10

\* What the steps inside process_event cost a job.
LEMMA InsideCost ==
    ASSUME CostInv, NEW j \in Job, Cost(j) <= 1 + faults, [Next]_vars,
           NEW w \in Worker, ProcessEvent(w),
           ~ (SkipWhileDraining(w) \/ Commit(w) \/ CommitRejected(w))
    PROVE  Cost(j)' <= 1 + faults'
<1>0. /\ TypeOK /\ CurInLog /\ TypeOK' /\ Grows /\ "jobs" \in Topic /\ "retry" \in Topic
      /\ pc \in [Worker -> ProgramPoint] /\ executed \in [Job -> Nat] /\ faults \in Nat
      /\ cur[w].topic \in Topic /\ HandInv /\ DistinctJobs
      /\ pc[w] # "poll" /\ Current(w) \in Event
  BY StepTypeOK, StepGrows, ProcessMoves, CurrentIsEvent DEF CostInv, HandInv, IInv, TypeOK, Place, Topic
<1>1. PICK to \in ProgramPoint \ {"poll"} :
          pc' = [pc EXCEPT ![w] = to] /\ UNCHANGED <<owner, position, committed, cur>>
  BY <1>0, ProcessMoves
<1>2. pc'[w] = to
  BY <1>0, <1>1
<1>3. log'["jobs"] = log["jobs"]
  BY <1>0 DEF ProcessEvent, kafkaVars, AppendReceived, CheckDuplicate, Admit, RouteLimited,
     HandlerSucceeds, HandlerFails, MarkProcessed, AppendCompleted, SuccessPathRaises,
     AppendFailed, RouteDeadLetter, RouteRetry, AppendOutcome, Publish, TypeOK
<1>4. to \in Unstarted => pc[w] \in Unstarted
  BY <1>0, <1>1, <1>2 DEF ProcessEvent, Goto, AppendReceived, CheckDuplicate, Admit, RouteLimited,
     HandlerSucceeds, HandlerFails, MarkProcessed, AppendCompleted, SuccessPathRaises,
     AppendFailed, RouteDeadLetter, RouteRetry, AppendOutcome, Unstarted
<1>5. /\ JobsLive(j)' => JobsLive(j)
      /\ Strays(j)' \subseteq Strays(j)
      /\ to \notin Unstarted => w \notin Strays(j)'
  BY <1>0, <1>1, <1>3, <1>4, InsideStep
\* A step that moves the only event that may be replayed, or a stray.
<1>6. ASSUME pc[w] \in Unstarted, to \notin Unstarted, Current(w).job = j,
             cur[w].topic = "jobs" \/ owner[cur[w].topic] # w
      PROVE  \/ JobsLive(j) /\ ~ JobsLive(j)' /\ Strays(j)' \subseteq Strays(j)
             \/ /\ JobsLive(j)' => JobsLive(j)
                /\ w \in Strays(j) /\ Strays(j)' \subseteq Strays(j) \ {w}
  <2>1. CASE owner[cur[w].topic] # w
    <3>1. w \in Strays(j)
      BY <1>6, <2>1 DEF Strays
    <3>2. QED
      BY <1>5, <1>6, <3>1
  <2>2. CASE owner[cur[w].topic] = w
    <3>1. JobsLive(j) /\ ~ JobsLive(j)'
      <4>1. owner["jobs"] = w /\ cur[w].topic = "jobs"
        BY <1>6, <2>2
      <4>2. PICK i : i = Current(w).job
        OBVIOUS
      <4>3. Current(w)' = Current(w)
        BY <1>0, <1>1, SameEvents
      <4>4. JobsLive(Current(w).job) /\ ~ JobsLive(Current(w).job)'
        BY <1>0, <1>1, <1>3, <1>6, <4>1, JobsEventStarts
      <4>5. QED
        BY <1>6, <4>3, <4>4 DEF JobsLive
    <3>2. QED
      BY <1>5, <3>1
  <2>3. QED
    BY <2>1, <2>2
\* A step that leaves the runs to come from the retry topic as they are.
<1>7. ASSUME RetryLive(j)' => RetryLive(j), executed'[j] = executed[j], faults <= faults'
      PROVE  Cost(j)' <= 1 + faults'
  BY <1>0, <1>5, <1>7, CostFalls
<1>8. ASSUME log' = log PROVE \A r \in 1 .. Len(log'["retry"]) : log'["retry"][r].job = j =>
               r \in 1 .. Len(log["retry"]) /\ log["retry"][r].job = j
  BY <1>8
<1>9. ASSUME NEW e \in Event, Publish("retry", e), e.job = Current(w).job, Current(w).job # j
      PROVE  \A r \in 1 .. Len(log'["retry"]) : log'["retry"][r].job = j =>
               r \in 1 .. Len(log["retry"]) /\ log["retry"][r].job = j
  <2>1. PICK n \in Nat : n = Len(log["retry"])
    BY <1>0 DEF TypeOK
  <2>2. /\ Len(log'["retry"]) = n + 1 /\ log'["retry"][n + 1] = e
        /\ \A o \in 1 .. n : log'["retry"][o] = log["retry"][o]
    BY <1>0, <1>9, <2>1, PublishGrows
  <2>3. \A r \in 1 .. n + 1 : r \in 1 .. n \/ r = n + 1
    BY <2>1
  <2>4. QED
    BY <1>9, <2>1, <2>2, <2>3
<1>10. ASSUME \/ AppendReceived(w) \/ CheckDuplicate(w) \/ AppendCompleted(w)
              \/ SuccessPathRaises(w) \/ AppendFailed(w) \/ RouteDeadLetter(w) \/ AppendOutcome(w)
       PROVE  Cost(j)' <= 1 + faults'
  <2>1. /\ UNCHANGED <<log, processed, executed>>
        /\ {pc[w], to} \cap {"run", "mark"} = {} /\ (to \in ToRetry => pc[w] \in ToRetry)
    BY <1>0, <1>2, <1>10 DEF Goto, kafkaVars, AppendReceived, CheckDuplicate, AppendCompleted,
       SuccessPathRaises, AppendFailed, RouteDeadLetter, AppendOutcome, ToRetry
  <2>2. faults <= faults'
    BY <1>0, <1>10 DEF AppendReceived, CheckDuplicate, AppendCompleted,
       SuccessPathRaises, AppendFailed, RouteDeadLetter, AppendOutcome, Fault
  <2>3. RetryLive(j)' => RetryLive(j)
    BY <1>0, <1>1, <1>8, <2>1, RetryNotMoved
  <2>4. QED
    BY <1>7, <2>1, <2>2, <2>3
<1>11. ASSUME Admit(w) PROVE Cost(j)' <= 1 + faults'
  <2>1. /\ pc[w] = "checked" /\ to = "run" /\ UNCHANGED <<log, processed, executed>>
        /\ \/ Current(w).job \notin processed /\ faults' = faults
           \/ faults' = faults + 1
    BY <1>0, <1>2, <1>11 DEF Admit, NotSeen, Fault, Goto, kafkaVars
  <2>2. CASE faults' = faults + 1
    BY <1>0, <1>5, <2>1, <2>2, CostPaid
  <2>3. CASE faults' = faults /\ Current(w).job \notin processed
    <3>1. CASE Current(w).job = j /\ owner["retry"] = w /\ cur[w].topic = "retry"
      <4>1. RetryLive(j)
        BY <1>0, <2>1, <2>3, <3>1, RetryHeldIsLive
      <4>2. QED
        BY <1>0, <1>7, <2>1, <2>3, <4>1
    <3>2. CASE ~ (Current(w).job = j /\ owner["retry"] = w /\ cur[w].topic = "retry")
      <4>1. to \notin ToRetry
        BY <2>1 DEF ToRetry
      <4>2. RetryLive(j)' => RetryLive(j)
        BY <1>0, <1>1, <1>8, <2>1, <3>2, <4>1, RetryNotMoved
      <4>3. QED
        BY <1>0, <1>7, <2>1, <2>3, <4>2
    <3>3. QED
      BY <3>1, <3>2
  <2>4. QED
    BY <2>1, <2>2, <2>3
<1>12. ASSUME RouteLimited(w) PROVE Cost(j)' <= 1 + faults'
  <2>1. /\ pc[w] = "checked" /\ to = "limited" /\ UNCHANGED <<processed, executed>>
        /\ \/ Current(w).job \notin processed /\ faults' = faults
           \/ faults' = faults + 1
        /\ Publish("retry", WithAttempt(Current(w), Current(w).attempt))
    BY <1>0, <1>2, <1>12 DEF RouteLimited, NotSeen, Fault, Goto
  <2>2. PICK e \in Event : Publish("retry", e) /\ e.job = Current(w).job
    BY <1>0, <2>1 DEF Event, WithAttempt
  <2>3. to \notin Unstarted /\ pc[w] \in Unstarted /\ to \notin ToRetry
        /\ {pc[w], to} \cap {"run", "mark"} = {}
    BY <2>1 DEF Unstarted, ToRetry
  <2>4. CASE faults' = faults + 1
    BY <1>0, <1>5, <2>1, <2>4, CostPaid
  <2>5. CASE Current(w).job # j
    <3>1. RetryLive(j)' => RetryLive(j)
      BY <1>0, <1>1, <1>9, <2>1, <2>2, <2>3, <2>5, RetryNotMoved
    <3>2. QED
      BY <1>0, <1>7, <2>1, <3>1
  <2>6. CASE Current(w).job = j /\ faults' = faults /\ Current(w).job \notin processed
    <3>1. CASE owner[cur[w].topic] = w /\ cur[w].topic = "retry"
      <4>1. RetryLive(j)
        BY <1>0, <2>1, <2>6, <3>1, RetryHeldIsLive
      <4>2. QED
        BY <1>0, <1>7, <2>1, <2>6, <4>1
    <3>2. CASE owner[cur[w].topic] # w \/ cur[w].topic = "jobs"
      <4>1. \/ JobsLive(j) /\ ~ JobsLive(j)' /\ Strays(j)' \subseteq Strays(j)
            \/ /\ JobsLive(j)' => JobsLive(j)
               /\ w \in Strays(j) /\ Strays(j)' \subseteq Strays(j) \ {w}
        BY <1>6, <2>3, <2>6, <3>2
      <4>2. executed'[j] = executed[j] /\ faults <= faults'
        BY <1>0, <2>1, <2>6
      <4>3. QED
        BY <1>0, <4>1, <4>2, CostMoves
    <3>3. QED
      BY <1>0, <3>1, <3>2 DEF Topic
  <2>7. QED
    BY <2>1, <2>4, <2>5, <2>6
<1>13. ASSUME HandlerSucceeds(w) PROVE Cost(j)' <= 1 + faults'
  <2>1. /\ pc[w] = "run" /\ to = "mark" /\ UNCHANGED <<log, processed, faults>>
        /\ executed' = [executed EXCEPT ![Current(w).job] = @ + 1]
    BY <1>0, <1>2, <1>13 DEF HandlerSucceeds, Goto, kafkaVars
  <2>2. to \notin Unstarted /\ pc[w] \in Unstarted /\ to \notin ToRetry
    BY <2>1 DEF Unstarted, ToRetry
  <2>3. CASE Current(w).job # j
    <3>1. RetryLive(j)' => RetryLive(j)
      BY <1>0, <1>1, <1>8, <2>1, <2>2, <2>3, RetryNotMoved
    <3>2. executed'[j] = executed[j]
      BY <1>0, <2>1, <2>3
    <3>3. QED
      BY <1>0, <1>7, <2>1, <3>1, <3>2
  <2>4. CASE Current(w).job = j
    <3>1. executed'[j] = executed[j] + 1 /\ faults <= faults'
      BY <1>0, <2>1, <2>4
    <3>2. CASE owner[cur[w].topic] = w /\ cur[w].topic = "retry"
      <4>1. RetryLive(j)
        BY <2>1, <2>4, <3>2 DEF RetryLive, RetryHolder
      <4>2. ~ RetryLive(j)'
        <5>1. Current(w)' = Current(w)
          BY <1>0, <1>1, SameEvents
        <5>2. RetryHolder(w, j, "mark")'
          BY <1>1, <1>2, <2>1, <2>4, <3>2, <5>1 DEF RetryHolder
        <5>3. ~ \E v \in Worker : RetryHolder(v, j, "run")'
          BY <1>1, <1>2, <2>1, <3>2 DEF RetryHolder
        <5>4. QED
          BY <5>2, <5>3 DEF RetryLive
      <4>3. QED
        BY <1>0, <1>5, <3>1, <4>1, <4>2, CostOfRetry
    <3>3. CASE owner[cur[w].topic] # w \/ cur[w].topic = "jobs"
      <4>1. \/ JobsLive(j) /\ ~ JobsLive(j)' /\ Strays(j)' \subseteq Strays(j)
            \/ /\ JobsLive(j)' => JobsLive(j)
               /\ w \in Strays(j) /\ Strays(j)' \subseteq Strays(j) \ {w}
        BY <1>6, <2>2, <2>4, <3>3
      <4>2. RetryLive(j)' => RetryLive(j)
        <5>1. owner["retry"] # w \/ cur[w].topic # "retry"
          BY <3>3
        <5>2. QED
          BY <1>0, <1>1, <1>8, <2>1, <2>2, <5>1, RetryNotMoved
      <4>3. QED
        BY <1>0, <3>1, <4>1, <4>2, CostMoves
    <3>4. QED
      BY <1>0, <3>2, <3>3 DEF Topic
  <2>5. QED
    BY <2>3, <2>4
<1>14. ASSUME HandlerFails(w) PROVE Cost(j)' <= 1 + faults'
  <2>1. pc[w] = "run" /\ to = "failed" /\ UNCHANGED <<log, processed, executed, faults>>
    BY <1>0, <1>2, <1>14 DEF HandlerFails, Goto, kafkaVars
  <2>2. to \notin Unstarted /\ pc[w] \in Unstarted
    BY <2>1 DEF Unstarted
  <2>3. CASE Current(w).job # j
    <3>1. RetryLive(j)' => RetryLive(j)
      BY <1>0, <1>1, <1>8, <2>1, <2>3, RetryNotMoved
    <3>2. QED
      BY <1>0, <1>7, <2>1, <3>1
  <2>4. CASE Current(w).job = j
    <3>1. CASE owner[cur[w].topic] = w /\ cur[w].topic = "retry"
      <4>1. RetryLive(j)
        BY <2>1, <2>4, <3>1 DEF RetryLive, RetryHolder
      <4>2. QED
        BY <1>0, <1>7, <2>1, <4>1
    <3>2. CASE owner[cur[w].topic] # w \/ cur[w].topic = "jobs"
      <4>1. \/ JobsLive(j) /\ ~ JobsLive(j)' /\ Strays(j)' \subseteq Strays(j)
            \/ /\ JobsLive(j)' => JobsLive(j)
               /\ w \in Strays(j) /\ Strays(j)' \subseteq Strays(j) \ {w}
        BY <1>6, <2>2, <2>4, <3>2
      <4>2. executed'[j] = executed[j] /\ faults <= faults'
        BY <1>0, <2>1
      <4>3. QED
        BY <1>0, <4>1, <4>2, CostMoves
    <3>3. QED
      BY <1>0, <3>1, <3>2 DEF Topic
  <2>5. QED
    BY <2>3, <2>4
<1>15. ASSUME MarkProcessed(w) PROVE Cost(j)' <= 1 + faults'
  <2>1. /\ pc[w] = "mark" /\ to = "complete" /\ UNCHANGED <<log, executed>>
        /\ \/ processed' = processed \cup {Current(w).job} /\ faults' = faults
           \/ faults' = faults + 1
    BY <1>0, <1>2, <1>15 DEF MarkProcessed, Fault, Goto, kafkaVars
  <2>2. CASE faults' = faults + 1
    BY <1>0, <1>5, <2>1, <2>2, CostPaid
  <2>3. CASE processed' = processed \cup {Current(w).job} /\ faults' = faults /\ Current(w).job # j
    <3>1. RetryLive(j)' => RetryLive(j)
      BY <1>0, <1>1, <1>8, <2>1, <2>3, RetryNotMoved
    <3>2. QED
      BY <1>0, <1>7, <2>1, <2>3, <3>1
  <2>4. CASE processed' = processed \cup {Current(w).job} /\ faults' = faults /\ Current(w).job = j
    <3>1. ASSUME RetryLive(j)' PROVE RetryLive(j)
      <4>1. PICK v \in Worker : RetryHolder(v, j, "run")'
        BY <2>4, <3>1 DEF RetryLive
      <4>2. v # w /\ pc[v] = "run" /\ cur'[v] = cur[v] /\ owner["retry"] = v
        BY <1>0, <1>1, <2>1, <4>1 DEF RetryHolder
      <4>3. Current(v)' = Current(v)
        BY <1>0, <1>1, <4>2, SameEvents
      <4>4. RetryHolder(v, j, "run")
        BY <4>1, <4>2, <4>3 DEF RetryHolder
      <4>5. QED
        BY <4>4 DEF RetryLive
    <3>2. QED
      BY <1>0, <1>7, <2>1, <2>4, <3>1
  <2>5. QED
    BY <2>1, <2>2, <2>3, <2>4
<1>16. ASSUME RouteRetry(w) PROVE Cost(j)' <= 1 + faults'
  <2>1. /\ pc[w] = "route" /\ to = "routed" /\ UNCHANGED <<processed, executed, faults>>
        /\ Publish("retry", WithAttempt(Current(w), Current(w).attempt + 1))
    BY <1>0, <1>2, <1>16 DEF RouteRetry, Goto
  <2>2. PICK e \in Event : Publish("retry", e) /\ e.job = Current(w).job
    BY <1>0, <2>1 DEF Event, WithAttempt
  <2>3. to \notin ToRetry /\ {pc[w], to} \cap {"run", "mark"} = {} /\ pc[w] \in ToRetry
    BY <2>1 DEF ToRetry
  <2>4. CASE Current(w).job # j
    <3>1. RetryLive(j)' => RetryLive(j)
      BY <1>0, <1>1, <1>9, <2>1, <2>2, <2>3, <2>4, RetryNotMoved
    <3>2. QED
      BY <1>0, <1>7, <2>1, <3>1
  <2>5. CASE Current(w).job = j
    <3>1. ASSUME RetryLive(j)' PROVE RetryLive(j)
      <4>1. \A v \in Worker : pc[v] # "poll" => Current(v)' = Current(v)
        BY <1>0, <1>1, SameEvents
      <4>2. ASSUME NEW v \in Worker, NEW point \in {"run", "mark"}
            PROVE  RetryHolder(v, j, point)' <=> RetryHolder(v, j, point)
        <5>1. CASE v = w
          BY <1>1, <1>2, <2>1, <5>1 DEF RetryHolder
        <5>2. CASE v # w
          <6>1. pc'[v] = pc[v] /\ cur'[v] = cur[v] /\ owner' = owner
            BY <1>0, <1>1, <5>2
          <6>2. pc[v] = point => Current(v)' = Current(v)
            BY <4>1
          <6>3. QED
            BY <6>1, <6>2 DEF RetryHolder
        <5>3. QED
          BY <5>1, <5>2
      <4>3. CASE \E v \in Worker : RetryHolder(v, j, "run")'
        BY <4>2, <4>3 DEF RetryLive
      <4>4. CASE ~ \E v \in Worker : RetryHolder(v, j, "run")'
        <5>1. j \notin processed /\ ~ \E v \in Worker : RetryHolder(v, j, "mark")
          BY <2>1, <3>1, <4>2, <4>4 DEF RetryLive
        <5>2. QED
          BY <2>3, <2>5, <5>1 DEF RetryLive
      <4>5. QED
        BY <4>3, <4>4
    <3>2. QED
      BY <1>0, <1>7, <2>1, <3>1
  <2>6. QED
    BY <2>4, <2>5
<1>17. QED
  BY <1>10, <1>11, <1>12, <1>13, <1>14, <1>15, <1>16 DEF ProcessEvent

\* No step exceeds the runs that a job was granted.
LEMMA StepCostInv == CostInv /\ [Next]_vars => CostInv'
<1> SUFFICES ASSUME CostInv, [Next]_vars PROVE CostInv'
  OBVIOUS
<1>0. /\ TypeOK /\ CurInLog /\ TypeOK' /\ RInv /\ RInv' /\ HandInv'
      /\ "jobs" \in Topic /\ "retry" \in Topic /\ Len(log["jobs"]) \in Nat
  <2>1. TypeOK /\ CurInLog /\ RInv /\ HandInv'
    BY StepHandInv DEF CostInv, HandInv, IInv, RInv
  <2>2. TypeOK' /\ RInv'
    BY <2>1 DEF HandInv, IInv, RInv
  <2>3. QED
    BY <2>1, <2>2 DEF TypeOK, Topic
<1>1. Submitted \subseteq Job /\ Submitted' \subseteq Job
  <2>1. \A o \in 1 .. Len(log["jobs"]) : log["jobs"][o] \in Event
    BY <1>0 DEF TypeOK
  <2>2. log'["jobs"] \in Seq(Event)
    BY <1>0 DEF TypeOK
  <2>3. \A o \in 1 .. Len(log'["jobs"]) : log'["jobs"][o] \in Event
    BY <2>2
  <2>4. QED
    BY <2>1, <2>3 DEF Submitted, Event
<1>2. ASSUME NEW j \in Submitted PROVE Cost(j)' <= 1 + faults'
  <2>1. j \in Job /\ Cost(j) <= 1 + faults
    BY <1>1 DEF CostInv
  <2>2. ASSUME NEW w \in Worker, ProcessEvent(w) PROVE Cost(j)' <= 1 + faults'
    <3>1. CASE SkipWhileDraining(w) \/ Commit(w) \/ CommitRejected(w)
      BY <2>1, <3>1, OutsideCost
    <3>2. CASE ~ (SkipWhileDraining(w) \/ Commit(w) \/ CommitRejected(w))
      BY <2>1, <2>2, <3>2, InsideCost
    <3>3. QED
      BY <3>1, <3>2
  <2>3. ASSUME NEW w \in Worker,
               \/ \E t \in Topic : Assign(w, t) \/ Receive(w, t)
               \/ Evict(w) \/ Crash(w) \/ StartDraining(w) \/ StopDraining(w)
        PROVE  Cost(j)' <= 1 + faults'
    BY <2>1, <2>3, OutsideCost
  <2>4. CASE UNCHANGED vars \/ \E i \in Job : PublishJob(i) \/ ExpireKey(i)
    BY <2>1, <2>4, OutsideCost
  <2>5. QED
    BY <2>2, <2>3, <2>4 DEF Next
<1>3. ASSUME NEW i \in Job, PublishJob(i), i \notin Submitted
      PROVE  Cost(i)' <= 1 + faults' /\ DistinctJobs'
  <2>0. PICK n \in Nat : n = Len(log["jobs"])
    BY <1>0
  <2>1. [job |-> i, attempt |-> 1] \in Event /\ Publish("jobs", [job |-> i, attempt |-> 1])
    BY <1>3 DEF PublishJob, Event
  <2>2. /\ Len(log'["jobs"]) = n + 1 /\ log'["jobs"][n + 1] = [job |-> i, attempt |-> 1]
        /\ log'["retry"] = log["retry"]
        /\ \A o \in 1 .. n : log'["jobs"][o] = log["jobs"][o]
    BY <1>0, <2>0, <2>1, PublishGrows
  <2>3. UNCHANGED <<owner, committed, pc, cur, executed, faults>>
    BY <1>3 DEF PublishJob
  <2>4. \A o \in 1 .. n : log["jobs"][o].job # i
    BY <1>3, <2>0 DEF PublishJob
  <2>5. DistinctJobs'
    <3>1. \A o, p \in 1 .. n : log["jobs"][o].job = log["jobs"][p].job => o = p
      BY <2>0 DEF CostInv, DistinctJobs
    <3>2. \A o \in 1 .. n + 1 : o \in 1 .. n \/ o = n + 1
      BY <2>0
    <3>3. \A o, p \in 1 .. n + 1 : log'["jobs"][o].job = log'["jobs"][p].job => o = p
      BY <2>2, <2>4, <3>1, <3>2
    <3>4. QED
      BY <2>2, <3>3 DEF DistinctJobs
  <2>6. executed'[i] = 0
    <3>1. i \notin Finished
      BY <1>3 DEF CostInv, HandInv, OnlySubmitted
    <3>2. QED
      BY <1>0, <2>3, <3>1 DEF Finished, TypeOK
  <2>7. Grows
    BY <1>0, StepGrows
  <2>8. \A v \in Worker : pc[v] # "poll" => Current(v)'.job # i
    BY <1>0, <1>3, <2>3, <2>7, SameEvents, CurrentSubmitted
  <2>9. ~ RetryLive(i)'
    <3>1. \A r \in 1 .. Len(log["retry"]) : log["retry"][r].job # i
      BY <1>0, <1>3 DEF RInv, SubmittedInLog, Topic
    <3>2. QED
      BY <2>2, <2>3, <2>8, <3>1 DEF RetryLive, RetryHolder, ToRetry
  <2>10. Strays(i)' = {}
    BY <2>3, <2>8 DEF Strays, Unstarted
  <2>11. PICK a \in {0, 1} : a = One(JobsLive(i)')
    BY DEF One
  <2>12. Cost(i)' = 0 + a + 0 + 0
    <3>1. Cardinality(Strays(i))' = 0
      BY <2>10, FS_EmptySet
    <3>2. One(RetryLive(i)') = 0
      BY <2>9 DEF One
    <3>3. QED
      BY <2>6, <2>11, <3>1, <3>2 DEF Cost
  <2>13. faults' \in Nat
    BY <1>0 DEF TypeOK
  <2>14. a <= 1 + faults'
    BY <2>11, <2>13
  <2>15. QED
    BY <2>5, <2>12, <2>14
<1>4. CASE Submitted' = Submitted /\ ~ \E i \in Job : PublishJob(i)
  <2>1. log'["jobs"] = log["jobs"]
    BY <1>0, <1>4 DEF Next, vars, kafkaVars, ExpireKey, Assign, Receive, Evict, Crash, Die,
       StartDraining, StopDraining, ProcessEvent, SkipWhileDraining, AppendReceived,
       CheckDuplicate, Admit, RouteLimited, HandlerSucceeds, HandlerFails, MarkProcessed,
       AppendCompleted, SuccessPathRaises, AppendFailed, RouteDeadLetter, RouteRetry,
       AppendOutcome, Commit, CommitRejected, Publish, TypeOK
  <2>2. DistinctJobs'
    BY <2>1 DEF CostInv, DistinctJobs
  <2>3. QED
    BY <1>0, <1>2, <1>4, <2>2 DEF CostInv
<1>5. ASSUME NEW i \in Job, PublishJob(i) PROVE CostInv'
  <2>1. i \notin Submitted
    BY <1>5 DEF PublishJob, Submitted
  <2>2. Submitted' \subseteq Submitted \cup {i}
    <3>1. [job |-> i, attempt |-> 1] \in Event /\ Publish("jobs", [job |-> i, attempt |-> 1])
      BY <1>5 DEF PublishJob, Event
    <3>2. PICK n \in Nat : n = Len(log["jobs"])
      BY <1>0
    <3>3. /\ Len(log'["jobs"]) = n + 1 /\ log'["jobs"][n + 1] = [job |-> i, attempt |-> 1]
          /\ \A o \in 1 .. n : log'["jobs"][o] = log["jobs"][o]
      BY <1>0, <3>1, <3>2, PublishGrows
    <3>4. \A o \in 1 .. n + 1 : o \in 1 .. n \/ o = n + 1
      BY <3>2
    <3>5. QED
      BY <3>2, <3>3, <3>4 DEF Submitted
  <2>3. QED
    BY <1>0, <1>2, <1>3, <1>5, <2>1, <2>2 DEF CostInv
<1>6. QED
  BY <1>0, <1>4, <1>5, StepSubmitted

\* durable_job_runtime.py 17-19: for any number of jobs, workers and faults, a
\* job is executed at most once, and once more for each fault.
THEOREM RerunsAreBounded == Spec => []RerunsCostFaults
<1>1. Init => CostInv
  <2> SUFFICES ASSUME Init PROVE CostInv
    OBVIOUS
  <2>1. Len(log["jobs"]) = 0
    BY DEF Init, Topic
  <2>2. Submitted = {} /\ DistinctJobs
    BY <2>1 DEF Submitted, DistinctJobs
  <2>3. QED
    BY <2>2, InitHandInv DEF CostInv
<1>2. CostInv /\ [Next]_vars => CostInv'
  BY StepCostInv
<1>3. CostInv => RerunsCostFaults
  <2> SUFFICES ASSUME CostInv, NEW j \in Job PROVE executed[j] <= 1 + faults
    BY DEF RerunsCostFaults
  <2>1. executed[j] \in Nat /\ faults \in Nat
    BY DEF CostInv, HandInv, IInv, TypeOK
  <2>2. CASE j \in Submitted
    <3>1. Cost(j) <= 1 + faults /\ Cardinality(Strays(j)) \in Nat
      BY <2>2, StraysCounted DEF CostInv
    <3>2. PICK a \in {0, 1} : a = One(JobsLive(j))
      BY DEF One
    <3>3. PICK b \in {0, 1} : b = One(RetryLive(j))
      BY DEF One
    <3>4. Cost(j) = executed[j] + a + b + Cardinality(Strays(j))
      BY <3>2, <3>3 DEF Cost
    <3>5. QED
      BY <2>1, <3>1, <3>4
  <2>3. CASE j \notin Submitted
    <3>1. executed[j] = 0
      BY <2>1, <2>3 DEF CostInv, HandInv, OnlySubmitted, Finished
    <3>2. QED
      BY <2>1, <3>1
  <2>4. QED
    BY <2>2, <2>3
<1>4. QED
  BY <1>1, <1>2, <1>3, PTL DEF Spec

=============================================================================
