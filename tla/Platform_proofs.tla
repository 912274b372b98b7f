--------------------------- MODULE Platform_proofs ---------------------------
(***************************************************************************)
(* Proofs about the services around the workers, for every number of them: *)
(* the cache of credentials, the probes and metrics of a runtime, and the  *)
(* worker of divar_bot/core; about the leads that harvests, crawls and     *)
(* syncs share; about the tools that send leads to a sheet; and about the  *)
(* plans of the orchestrator.                                              *)
(***************************************************************************)
EXTENDS CredentialCache, RuntimeProbes, WorkerCore, Orchestration, LeadSync, SheetSync, Integers,
        FiniteSetTheorems, SequenceTheorems, WellFoundedInduction, TLAPS

-----------------------------------------------------------------------------
(* CredentialCache: the inductive invariant.                               *)

CallTypeOK ==
    /\ second \in Nat /\ second <= MaxSeconds
    /\ current \in 1 .. MaxVersion
    /\ replaced \in [1 .. MaxVersion -> 0 .. MaxSeconds]
    /\ entry \in [version : 0 .. current, expires : Nat]
    /\ call \in [Resolution -> [at : Point, since : Nat, attempts : 0 .. MaxRetry, until : Nat,
                                version : 0 .. MaxVersion]]

\* Version v was still the current one no longer than d before the time t.
Recent(v, d, t) ==
    v \in 1 .. current /\ (v # current => replaced[v] + d >= t)

\* A wait ends by its deadline, and what it brings was current when it began.
WaitsEnd ==
    \A r \in Resolution :
        /\ call[r].at \in {"asked", "answered"} =>
               second <= call[r].until /\ call[r].until <= second + Timeout
        /\ call[r].at = "answered" => Recent(call[r].version, Timeout, call[r].until)

EntryIsRecent ==
    entry.version # 0 =>
        /\ Recent(entry.version, Timeout + CacheTtl, entry.expires)
        /\ entry.expires <= second + CacheTtl

AnswersAreRecent ==
    \A r \in Resolution :
        /\ call[r].at = "resolved" => Recent(call[r].version, Timeout, second)
        /\ call[r].at = "cached" => Recent(call[r].version, Timeout + CacheTtl, second)
        /\ call[r].at = "degraded" =>
               Recent(call[r].version, Longest(MaxRetry) + Timeout, second)

\* Since its lookup a resolution finds nothing but what another one stored.
FoundIsNew ==
    \A r \in Resolution : Resolving(r) =>
        /\ call[r].since <= second
        /\ entry.version # 0 => entry.expires >= call[r].since + CacheTtl

\* The attempts so far and the sleep after the last end in time.
ResolutionsEnd ==
    \A r \in Resolution : Resolving(r) =>
        /\ call[r].attempts >= 1
        /\ call[r].at = "sleeping" => second <= call[r].until
        /\ call[r].until + (IF call[r].at = "sleeping" THEN 0 ELSE Pause(call[r].attempts))
               <= call[r].since + Longest(call[r].attempts)

CredentialInv ==
    /\ CallTypeOK /\ WaitsEnd /\ EntryIsRecent /\ AnswersAreRecent
    /\ FoundIsNew /\ ResolutionsEnd

-----------------------------------------------------------------------------
(* RuntimeProbes: the inductive invariant.                                 *)

\* The marker is there while a start of draining holds, and nobody is about to
\* take it away; only such a probe must be refused.
ToldIsMarked ==
    /\ told \in BOOLEAN /\ refuse \in [Runtime -> BOOLEAN]
    /\ told => marker /\ ~Stopping
    /\ \A r \in Runtime : refuse[r] => told
    /\ \A r \in Runtime : probe[r] = "ready" => ~refuse[r]

CountTypeOK ==
    /\ counting \in [Thread -> [metric : Metric \cup {"none"}, read : Nat]]
    /\ \A t \in Thread : counting[t].metric = "none" => counting[t] = NotCounting
    /\ counts \in [Metric -> Nat]
    /\ crossed \subseteq Metric
    /\ raises \in Nat

\* The increments that are under way fit the bound, and none has read more
\* than was counted.
CountsFit ==
    \A m \in Metric :
        /\ IsFiniteSet(Counting(m)) /\ Cardinality(Counting(m)) + counts[m] <= MaxCounts
        /\ metrics[m] <= counts[m]
        /\ \A t \in Counting(m) : counting[t].read <= counts[m]

\* A metric that two threads never counted at once is exact, and the thread
\* that counts it, if any, is alone and has read what is there.
AloneIsExact ==
    \A m \in Metric \ crossed :
        /\ metrics[m] = counts[m]
        /\ \A t \in Counting(m) : counting[t].read = metrics[m] /\ Counting(m) = {t}

\* No entry goes away: a scrape that raises has seen one come.
ScrapesPay ==
    /\ raises <= Entries
    /\ scrape # NoScrape => raises <= scrape /\ scrape <= Entries

CountInv == CountTypeOK /\ CountsFit /\ AloneIsExact /\ ScrapesPay
ProbeInv == ProbeTypeOK /\ ToldIsMarked /\ CountInv

-----------------------------------------------------------------------------
(* WorkerCore: the inductive invariant.                                    *)

InHand(t) == task = t
Before == {"validates", "rejects", "starts", "extracts", "stops", "waits", "saves"}
One(b) == IF b THEN 1 ELSE 0

WorkTypeOK ==
    /\ WorkerTypeOK
    /\ failures \in [Task -> Nat] /\ kept \in [Task -> Nat]
    /\ started \in Nat /\ broken \in Nat /\ late \in Nat /\ errors \in Nat
    /\ signalled \in BOOLEAN /\ requested \in BOOLEAN

\* What a place says of the job in the worker's hands, and of one that waits.
HandTells ==
    /\ \A t \in Task : state[t] = "pending" => kept[t] = 0 /\ failures[t] = 0 /\ task # t
    /\ place \in Before => kept[task] = 0 /\ failures[task] = 0 /\ state[task] = "running"
    /\ place = "completes" => kept[task] > 0 /\ failures[task] = 0 /\ state[task] = "running"
    /\ place = "excepts" =>
           /\ failures[task] <= 1
           /\ failures[task] = 1 => state[task] = "failed" /\ kept[task] = 0
           /\ failures[task] = 0 => state[task] \in {"running", "completed"}
           /\ state[task] = "completed" => kept[task] > 0

Spoilt ==
    {t \in Task :
        \/ state[t] = "failed" /\ kept[t] > 0
        \/ failures[t] > 1
        \/ state[t] = "running" /\ task # t}

\* The job in hand will be failed after its result was saved, or again: its
\* fault has happened.
Troubled == place = "excepts" /\ (kept[task] > 0 \/ failures[task] > 0)

FaultsPay ==
    /\ IsFiniteSet(Spoilt)
    /\ Cardinality(Spoilt) + One(Troubled) <= errors
    /\ \A t \in Task : failures[t] <= 1 + errors /\ (state[t] = "completed" => kept[t] > 0)
    /\ task # Idle => failures[task] <= errors

\* After the one job in transit there is no other way to the queue.
OneInTransit ==
    /\ late <= 1
    /\ late = 1 => \/ signalled /\ place \notin {"asks", "takes"}
                   \/ requested /\ place # "takes"

PluginsAccounted ==
    /\ started <= broken + One(place \in {"extracts", "stops"})
    /\ place \in {"extracts", "stops"} => started > 0

WorkInv == WorkTypeOK /\ HandTells /\ FaultsPay /\ OneInTransit /\ PluginsAccounted

-----------------------------------------------------------------------------
(* CredentialCache: the proofs.                                            *)

\* The assumptions in a form the provers read.
LEMMA CredentialConstants ==
    /\ MaxRetry \in Nat /\ Timeout \in Nat /\ CacheTtl \in Nat /\ MaxSeconds \in Nat
    /\ MaxVersion \in Nat /\ MaxVersion >= 1
BY CredentialAssumption

\* One more attempt lasts its timeout and its sleep longer.
LEMMA LongestGrows ==
    ASSUME NEW n \in Nat
    PROVE  /\ Longest(n) \in Nat /\ Pause(n + 1) \in Nat
           /\ Longest(n + 1) = Longest(n) + Timeout + Pause(n + 1)
<1>1. PICK t : t = Timeout /\ t \in Nat
  BY CredentialConstants
<1>2. /\ Pause(n + 1) = IF n = 0 THEN 2 ELSE IF n = 1 THEN 4 ELSE IF n = 2 THEN 8 ELSE 10
      /\ Longest(n) = n * t + (IF n = 0 THEN 0 ELSE IF n = 1 THEN 2 ELSE IF n = 2 THEN 6
                                ELSE IF n = 3 THEN 14 ELSE 10 * n - 16)
      /\ Longest(n + 1) = (n + 1) * t + (IF n = 0 THEN 2 ELSE IF n = 1 THEN 6
                                          ELSE IF n = 2 THEN 14 ELSE 10 * (n + 1) - 16)
  BY <1>1 DEF Pause, Longest
<1>3. n * t \in Nat /\ (n + 1) * t = n * t + t
  BY <1>1
<1>4. PICK m : m = n * t /\ m \in Nat
  BY <1>3
<1>5. QED
  BY <1>1, <1>2, <1>3, <1>4

\* What was recent stays so when the provider rotates: a version is replaced
\* now at the earliest.
LEMMA RecentAfterRotate ==
    ASSUME CallTypeOK, Rotate, NEW v, NEW d \in Nat, NEW t \in Nat, Recent(v, d, t),
           t <= second + d
    PROVE  Recent(v, d, t)'
<1>1. /\ current \in 1 .. MaxVersion /\ current' = current + 1 /\ second \in Nat
      /\ replaced' = [replaced EXCEPT ![current] = second]
      /\ replaced \in [1 .. MaxVersion -> 0 .. MaxSeconds]
  BY DEF CallTypeOK, Rotate
<1>2. MaxVersion \in Nat
  BY CredentialConstants
<1>3. v \in 1 .. current /\ (v # current => replaced[v] + d >= t)
  BY DEF Recent
<1>4. v \in 1 .. current' /\ v # current'
  BY <1>1, <1>2, <1>3
<1>5. CASE v = current
  <2>1. replaced'[v] = second
    BY <1>1, <1>5
  <2>2. QED
    BY <1>1, <1>4, <2>1 DEF Recent
<1>6. CASE v # current
  <2>1. replaced'[v] = replaced[v]
    BY <1>1, <1>2, <1>3, <1>6
  <2>2. QED
    BY <1>3, <1>4, <1>6, <2>1 DEF Recent
<1>7. QED
  BY <1>5, <1>6

\* Nothing has been resolved.
LEMMA InitCredentialInv == CredentialInit => CredentialInv
<1> SUFFICES ASSUME CredentialInit PROVE CredentialInv
  OBVIOUS
<1> USE CredentialConstants
<1>1. call = [r \in Resolution |-> Idling] /\ Idling.at = "idle"
  BY DEF CredentialInit, Idling
<1>2. CallTypeOK
  BY <1>1 DEF CredentialInit, CallTypeOK, Idling, NoEntry, Point
<1>3. WaitsEnd /\ AnswersAreRecent /\ FoundIsNew /\ ResolutionsEnd
  BY <1>1 DEF WaitsEnd, AnswersAreRecent, FoundIsNew, ResolutionsEnd, Resolving
<1>4. EntryIsRecent
  BY DEF CredentialInit, EntryIsRecent, NoEntry
<1>5. QED
  BY <1>2, <1>3, <1>4 DEF CredentialInv

\* Every step keeps the types.
LEMMA StepCallTypeOK ==
    ASSUME CredentialInv, [CredentialNext]_credentialVars
    PROVE  CallTypeOK'
<1>0. CallTypeOK
  BY DEF CredentialInv
<1> USE CredentialConstants
<1>1. CASE UNCHANGED credentialVars
  BY <1>0, <1>1 DEF credentialVars, CallTypeOK
<1>2. CASE Rotate
  BY <1>0, <1>2 DEF Rotate, CallTypeOK
<1>3. CASE Elapse
  BY <1>0, <1>3 DEF Elapse, CallTypeOK
<1>4. ASSUME NEW r \in Resolution,
             Resolve(r) \/ Answers(r) \/ Stores(r) \/ Fails(r) \/ Retries(r) \/ Returns(r)
      PROVE  CallTypeOK'
  <2>1. UNCHANGED <<second, replaced, current>>
    BY <1>4 DEF Resolve, Answers, Stores, Fails, Retries, Returns
  <2>2. entry' \in [version : 0 .. current, expires : Nat]
    <3>1. CASE Stores(r)
      <4>1. call[r].version \in 1 .. current
        BY <3>1 DEF Stores, CredentialInv, WaitsEnd, Recent
      <4>2. second + CacheTtl \in Nat
        BY <1>0 DEF CallTypeOK
      <4>3. QED
        BY <1>0, <3>1, <4>1, <4>2 DEF Stores, CallTypeOK
    <3>2. CASE Resolve(r)
      BY <1>0, <3>2 DEF Resolve, Lookup, NoEntry, CallTypeOK
    <3>3. CASE Answers(r) \/ Fails(r) \/ Retries(r) \/ Returns(r)
      BY <1>0, <3>3 DEF Answers, Fails, Retries, Returns, CallTypeOK
    <3>4. QED
      BY <1>4, <3>1, <3>2, <3>3
  <2>3. call' \in [Resolution -> [at : Point, since : Nat, attempts : 0 .. MaxRetry, until : Nat,
                                  version : 0 .. MaxVersion]]
    <3> DEFINE C == [at : Point, since : Nat, attempts : 0 .. MaxRetry, until : Nat,
                     version : 0 .. MaxVersion]
    <3>0. call \in [Resolution -> C] /\ call[r] \in C /\ second \in Nat
      BY <1>0 DEF CallTypeOK
    <3>1. ASSUME NEW to \in Point, NEW v \in 0 .. MaxVersion, Proceeds(r, to, v)
          PROVE  call' \in [Resolution -> C]
      BY <3>0, <3>1 DEF Proceeds
    <3>2. ASSUME NEW n \in 0 .. MaxRetry, Ask(r, n) PROVE call' \in [Resolution -> C]
      <4>1. second + Timeout \in Nat /\ "asked" \in Point
        BY <3>0 DEF Point
      <4>2. QED
        BY <3>0, <3>2, <4>1 DEF Ask
    <3>3. ASSUME GiveUp(r) PROVE call' \in [Resolution -> C]
      <4>1. entry'.version \in 0 .. MaxVersion
        BY <1>0, <2>2 DEF CallTypeOK
      <4>2. "degraded" \in Point /\ "raised" \in Point /\ 0 \in 0 .. MaxVersion
        BY DEF Point
      <4>3. CASE Proceeds(r, "degraded", entry'.version)
        BY <3>1, <4>1, <4>2, <4>3
      <4>4. CASE Proceeds(r, "raised", 0)
        BY <3>1, <4>2, <4>4
      <4>5. QED
        BY <3>3, <4>3, <4>4 DEF GiveUp
    <3>4. {"answered", "resolved", "sleeping", "cached"} \subseteq Point
      BY DEF Point
    <3>5. CASE Resolve(r)
      <4>1. CASE Proceeds(r, "cached", entry.version)
        <5>1. entry.version \in 0 .. MaxVersion
          BY <1>0 DEF CallTypeOK
        <5>2. QED
          BY <3>1, <3>4, <4>1, <5>1
      <4>2. CASE MaxRetry > 0 /\ Begin(r)
        <5>1. second + Timeout \in Nat /\ 1 \in 0 .. MaxRetry
          BY <3>0, <4>2
        <5>2. QED
          <6>1. call' = [call EXCEPT ![r] = [at |-> "asked", since |-> second, attempts |-> 1,
                                             until |-> second + Timeout, version |-> 0]]
            BY <4>2 DEF Begin, Idling
          <6>2. "asked" \in Point /\ 0 \in 0 .. MaxVersion
            BY DEF Point
          <6>3. QED
            BY <3>0, <5>1, <6>1, <6>2
      <4>3. CASE GiveUp(r)
        BY <3>3, <4>3
      <4>4. QED
        BY <3>5, <4>1, <4>2, <4>3 DEF Resolve
    <3>6. CASE Answers(r)
      <4>1. current \in 0 .. MaxVersion
        BY <1>0 DEF CallTypeOK
      <4>2. QED
        BY <3>1, <3>4, <3>6, <4>1 DEF Answers
    <3>7. CASE Stores(r)
      BY <3>0, <3>1, <3>4, <3>7 DEF Stores
    <3>11. CASE Fails(r)
      <4>1. call[r].attempts \in Nat /\ call[r].attempts >= 1
        BY <3>0, <3>11 DEF CredentialInv, ResolutionsEnd, Fails, Resolving
      <4>2. PICK n \in Nat : call[r].attempts = n + 1
        BY <4>1
      <4>3. second + Pause(call[r].attempts) \in Nat
        <5>1. Pause(n + 1) \in Nat
          BY LongestGrows
        <5>2. QED
          BY <3>0, <4>2, <5>1
      <4>4. QED
        BY <3>0, <3>4, <3>11, <4>3 DEF Fails
    <3>8. CASE Retries(r)
      <4>1. CASE call[r].attempts < MaxRetry /\ Ask(r, call[r].attempts + 1)
        <5>1. call[r].attempts + 1 \in 0 .. MaxRetry
          BY <3>0, <4>1
        <5>2. QED
          BY <3>2, <4>1, <5>1
      <4>2. QED
        BY <3>3, <3>8, <4>1 DEF Retries
    <3>9. CASE Returns(r)
      BY <3>0, <3>9 DEF Returns, Idling, Point
    <3>10. QED
      BY <1>4, <3>5, <3>6, <3>7, <3>8, <3>9, <3>11
  <2>4. QED
    BY <1>0, <2>1, <2>2, <2>3 DEF CallTypeOK
<1>5. QED
  BY <1>1, <1>2, <1>3, <1>4 DEF CredentialNext

\* A resolution's step moves only that resolution, and where it goes.
LEMMA ResolutionMoves ==
    ASSUME CallTypeOK, NEW r \in Resolution,
           Resolve(r) \/ Answers(r) \/ Stores(r) \/ Fails(r) \/ Retries(r) \/ Returns(r)
    PROVE  /\ \A q \in Resolution : q # r => call'[q] = call[q]
           /\ UNCHANGED <<second, replaced, current>>
           /\ call'[r].at = "asked" =>
                  /\ call'[r].until = second + Timeout
                  /\ \/ Resolve(r) /\ call'[r].since = second /\ call'[r].attempts = 1
                     \/ Retries(r) /\ call'[r].attempts = call[r].attempts + 1
           /\ call'[r].at = "answered" =>
                  /\ Answers(r) /\ call'[r].version = current
                  /\ call'[r].until = call[r].until /\ call'[r].attempts = call[r].attempts
           /\ call'[r].at = "sleeping" =>
                  /\ Fails(r) /\ call'[r].attempts = call[r].attempts
                  /\ call'[r].until = second + Pause(call[r].attempts)
           /\ call'[r].at = "resolved" =>
                  Stores(r) /\ call'[r].version = call[r].version
           /\ call'[r].at = "cached" =>
                  /\ call'[r].version = entry.version /\ entry.version # 0
                  /\ entry.expires >= second
           /\ call'[r].at = "degraded" =>
                  /\ Retries(r) /\ call[r].attempts >= MaxRetry
                  /\ entry' = entry /\ entry.version # 0 /\ call'[r].version = entry.version
           /\ call'[r].at \in {"asked", "answered", "sleeping"} =>
                  \/ /\ Resolve(r) /\ entry'.version = 0
                     /\ call'[r].at = "asked" /\ call'[r].since = second
                  \/ /\ Resolving(r) /\ ~Resolve(r) /\ entry' = entry
                     /\ call'[r].since = call[r].since
<1>1. /\ call \in [Resolution -> [at : Point, since : Nat, attempts : 0 .. MaxRetry,
                                  until : Nat, version : 0 .. MaxVersion]]
      /\ MaxRetry \in Nat
  BY CredentialConstants DEF CallTypeOK
<1>2. ASSUME NEW to, NEW v, Proceeds(r, to, v)
      PROVE  /\ \A q \in Resolution : q # r => call'[q] = call[q]
             /\ call'[r].at = to /\ call'[r].version = v /\ call'[r].until = call[r].until
             /\ call'[r].since = call[r].since /\ call'[r].attempts = call[r].attempts
  BY <1>1, <1>2 DEF Proceeds
<1>3. ASSUME NEW n, Ask(r, n)
      PROVE  /\ \A q \in Resolution : q # r => call'[q] = call[q]
             /\ call'[r].at = "asked" /\ call'[r].until = second + Timeout
             /\ call'[r].since = call[r].since /\ call'[r].attempts = n
  BY <1>1, <1>3 DEF Ask
<1>12. ASSUME Begin(r)
       PROVE  /\ \A q \in Resolution : q # r => call'[q] = call[q]
              /\ call'[r].at = "asked" /\ call'[r].until = second + Timeout
              /\ call'[r].since = second /\ call'[r].attempts = 1
  BY <1>1, <1>12 DEF Begin, Idling
<1>4. ASSUME GiveUp(r)
      PROVE  /\ \A q \in Resolution : q # r => call'[q] = call[q]
             /\ call'[r].at \in {"degraded", "raised"}
             /\ call'[r].at = "degraded" =>
                    entry'.version # 0 /\ call'[r].version = entry'.version
  <2>1. CASE Proceeds(r, "degraded", entry'.version) /\ entry'.version # 0
    BY <1>2, <2>1
  <2>2. CASE Proceeds(r, "raised", 0)
    BY <1>2, <2>2
  <2>3. QED
    BY <1>4, <2>1, <2>2 DEF GiveUp
<1>5. CASE Resolve(r)
  <2>1. CASE Proceeds(r, "cached", entry.version) /\ entry.version # 0 /\ entry.expires >= second
    BY <1>2, <1>5, <2>1 DEF Resolve
  <2>2. CASE (entry.version = 0 \/ entry.expires < second) /\ (Begin(r) \/ GiveUp(r))
    <3>1. entry'.version = 0
      BY <1>5, <2>2 DEF Resolve, Lookup, NoEntry
    <3>2. CASE Begin(r)
      BY <1>12, <1>5, <3>1, <3>2 DEF Resolve
    <3>3. CASE GiveUp(r)
      BY <1>4, <1>5, <3>1, <3>3 DEF Resolve
    <3>4. QED
      BY <2>2, <3>2, <3>3
  <2>3. QED
    BY <1>5, <2>1, <2>2 DEF Resolve
<1>6. CASE Answers(r)
  <2>1. call[r].at = "asked" /\ ~Resolve(r)
    BY <1>6 DEF Answers, Resolve
  <2>2. QED
    BY <1>2, <1>6, <2>1 DEF Answers, Resolving
<1>7. CASE Stores(r)
  BY <1>2, <1>7 DEF Stores
<1>8. CASE Fails(r)
  <2>1. Resolving(r) /\ ~Resolve(r)
    BY <1>8 DEF Fails, Resolve, Resolving
  <2>2. /\ \A q \in Resolution : q # r => call'[q] = call[q]
        /\ call'[r].at = "sleeping" /\ call'[r].until = second + Pause(call[r].attempts)
        /\ call'[r].since = call[r].since /\ call'[r].attempts = call[r].attempts
    BY <1>1, <1>8 DEF Fails
  <2>3. QED
    BY <1>8, <2>1, <2>2 DEF Fails
<1>9. CASE Retries(r)
  <2>1. CASE Ask(r, call[r].attempts + 1)
    <3>1. Resolving(r) /\ ~Resolve(r) /\ UNCHANGED <<second, replaced, current, entry>>
      BY <1>9 DEF Retries, Resolve, Resolving
    <3>2. QED
      BY <1>3, <1>9, <2>1, <3>1
  <2>2. CASE GiveUp(r) /\ ~(call[r].attempts < MaxRetry)
    <3>1. call[r].attempts >= MaxRetry /\ UNCHANGED <<second, replaced, current, entry>>
      BY <1>1, <1>9, <2>2 DEF Retries
    <3>2. QED
      BY <1>4, <1>9, <2>2, <3>1
  <2>3. QED
    BY <1>9, <2>1, <2>2 DEF Retries
<1>10. CASE Returns(r)
  <2>1. /\ \A q \in Resolution : q # r => call'[q] = call[q]
        /\ call'[r].at = "idle"
    BY <1>1, <1>10 DEF Returns, Idling
  <2>2. QED
    BY <1>10, <2>1 DEF Returns
<1>11. QED
  BY <1>5, <1>6, <1>7, <1>8, <1>9, <1>10

\* What comes back was current when it was asked for, and is stored from now.
LEMMA ResolutionStep ==
    ASSUME CredentialInv, CallTypeOK', NEW r \in Resolution,
           Resolve(r) \/ Answers(r) \/ Stores(r) \/ Fails(r) \/ Retries(r) \/ Returns(r)
    PROVE  /\ WaitsEnd' /\ EntryIsRecent' /\ AnswersAreRecent'
           /\ FoundIsNew' /\ ResolutionsEnd'
<1> USE CredentialConstants
<1>0. /\ CallTypeOK /\ WaitsEnd /\ EntryIsRecent /\ AnswersAreRecent
      /\ FoundIsNew /\ ResolutionsEnd
  BY DEF CredentialInv
<1>1. /\ second \in Nat /\ current \in Nat /\ current >= 1 /\ entry.expires \in Nat
      /\ \A v \in 1 .. current : replaced[v] \in Nat
      /\ \A q \in Resolution :
             call[q].until \in Nat /\ call[q].since \in Nat /\ call[q].attempts \in 0 .. MaxRetry
  <2>1. second \in Nat /\ current \in Nat /\ current >= 1 /\ entry.expires \in Nat
    BY <1>0 DEF CallTypeOK
  <2>2. ASSUME NEW v \in 1 .. current PROVE replaced[v] \in Nat
    <3>1. v \in 1 .. MaxVersion
      BY <1>0 DEF CallTypeOK
    <3>2. replaced[v] \in 0 .. MaxSeconds
      BY <1>0, <3>1 DEF CallTypeOK
    <3>3. QED
      BY <3>2
  <2>3. ASSUME NEW q \in Resolution
        PROVE  /\ call[q].until \in Nat /\ call[q].since \in Nat
               /\ call[q].attempts \in 0 .. MaxRetry
    BY <1>0 DEF CallTypeOK
  <2>4. QED
    BY <2>1, <2>2, <2>3
<1>2. UNCHANGED <<second, replaced, current>>
  BY <1>0, ResolutionMoves
<1>3. ASSUME NEW v, NEW d, NEW t, Recent(v, d, t) PROVE Recent(v, d, t)'
  BY <1>2, <1>3 DEF Recent
<1>4. WaitsEnd'
  <2> SUFFICES ASSUME NEW q \in Resolution
               PROVE  /\ call'[q].at \in {"asked", "answered"} =>
                            second <= call'[q].until /\ call'[q].until <= second + Timeout
                      /\ call'[q].at = "answered" =>
                            Recent(call'[q].version, Timeout, call'[q].until)
    BY <1>2 DEF WaitsEnd, Recent
  <2>1. CASE q # r
    <3>1. call'[q] = call[q]
      BY <1>0, <2>1, ResolutionMoves
    <3>2. QED
      BY <1>0, <3>1 DEF WaitsEnd
  <2>2. CASE q = r
    <3>1. call'[r].at = "asked" => call'[r].until = second + Timeout
      BY <1>0, ResolutionMoves
    <3>2. ASSUME call'[r].at = "answered"
          PROVE  /\ second <= call'[r].until /\ call'[r].until <= second + Timeout
                 /\ Recent(call'[r].version, Timeout, call'[r].until)
      <4>1. Answers(r) /\ call'[r].version = current /\ call'[r].until = call[r].until
        BY <1>0, <3>2, ResolutionMoves
      <4>2. second <= call[r].until /\ call[r].until <= second + Timeout
        BY <1>0, <4>1 DEF Answers, WaitsEnd
      <4>3. Recent(current, Timeout, call[r].until)
        BY <1>1 DEF Recent
      <4>4. QED
        BY <4>1, <4>2, <4>3
    <3>3. QED
      BY <1>1, <2>2, <3>1, <3>2
  <2>3. QED
    BY <2>1, <2>2
<1>5. EntryIsRecent'
  <2>1. CASE Stores(r)
    <3>1. entry' = [version |-> call[r].version, expires |-> second + CacheTtl]
      BY <2>1 DEF Stores
    <3>2. Recent(call[r].version, Timeout, call[r].until) /\ second <= call[r].until
      BY <1>0, <2>1 DEF Stores, WaitsEnd
    <3>3. Recent(call[r].version, Timeout + CacheTtl, second + CacheTtl)
      BY <1>1, <3>2 DEF Recent
    <3>4. entry'.version = call[r].version /\ entry'.expires = second + CacheTtl
      BY <3>1
    <3>5. Recent(entry.version, Timeout + CacheTtl, entry.expires)'
      BY <1>2, <3>3, <3>4 DEF Recent
    <3>6. entry'.expires <= second' + CacheTtl
      BY <1>1, <1>2, <3>4
    <3>7. QED
      BY <3>5, <3>6 DEF EntryIsRecent
  <2>2. CASE ~Stores(r)
    <3> SUFFICES ASSUME entry'.version # 0
                 PROVE  /\ Recent(entry.version, Timeout + CacheTtl, entry.expires)'
                        /\ entry'.expires <= second' + CacheTtl
      BY DEF EntryIsRecent
    <3>1. entry' = entry
      BY <2>2 DEF Resolve, Lookup, NoEntry, Answers, Fails, Retries, Returns
    <3>2. QED
      BY <1>0, <1>2, <3>1 DEF EntryIsRecent, Recent
  <2>3. QED
    BY <2>1, <2>2
<1>6. AnswersAreRecent'
  <2> SUFFICES ASSUME NEW q \in Resolution
               PROVE  /\ call'[q].at = "resolved" => Recent(call'[q].version, Timeout, second)
                      /\ call'[q].at = "cached" =>
                            Recent(call'[q].version, Timeout + CacheTtl, second)
                      /\ call'[q].at = "degraded" =>
                            Recent(call'[q].version, Longest(MaxRetry) + Timeout, second)
    BY <1>2 DEF AnswersAreRecent, Recent
  <2>1. CASE q # r
    <3>1. call'[q] = call[q]
      BY <1>0, <2>1, ResolutionMoves
    <3>2. QED
      BY <1>0, <3>1 DEF AnswersAreRecent
  <2>2. CASE q = r
    <3>1. ASSUME call'[r].at = "resolved" PROVE Recent(call'[r].version, Timeout, second)
      <4>1. Stores(r) /\ call'[r].version = call[r].version
        BY <1>0, <3>1, ResolutionMoves
      <4>2. Recent(call[r].version, Timeout, call[r].until) /\ second <= call[r].until
        BY <1>0, <4>1 DEF Stores, WaitsEnd
      <4>3. QED
        BY <1>1, <4>1, <4>2 DEF Recent
    <3>2. ASSUME call'[r].at = "cached"
          PROVE  Recent(call'[r].version, Timeout + CacheTtl, second)
      <4>1. call'[r].version = entry.version /\ entry.version # 0 /\ entry.expires >= second
        BY <1>0, <3>2, ResolutionMoves
      <4>2. Recent(entry.version, Timeout + CacheTtl, entry.expires)
        BY <1>0, <4>1 DEF EntryIsRecent
      <4>3. QED
        BY <1>1, <4>1, <4>2 DEF Recent
    <3>4. ASSUME call'[r].at = "degraded"
          PROVE  Recent(call'[r].version, Longest(MaxRetry) + Timeout, second)
      <4>1. /\ Retries(r) /\ call[r].attempts >= MaxRetry
            /\ entry.version # 0 /\ call'[r].version = entry.version
        BY <1>0, <3>4, ResolutionMoves
      <4>2. Resolving(r) /\ call[r].at = "sleeping" /\ second = call[r].until
        BY <4>1 DEF Retries, Resolving
      <4>3. call[r].attempts = MaxRetry
        BY <1>1, <4>1
      <4>4. second <= call[r].since + Longest(MaxRetry)
        BY <1>0, <1>1, <4>2, <4>3 DEF ResolutionsEnd
      <4>5. entry.expires >= call[r].since + CacheTtl
        BY <1>0, <4>1, <4>2 DEF FoundIsNew
      <4>6. Recent(entry.version, Timeout + CacheTtl, entry.expires)
        BY <1>0, <4>1 DEF EntryIsRecent
      <4>7. PICK l \in Nat : l = Longest(MaxRetry)
        BY LongestGrows
      <4>8. PICK b \in Nat : b = call[r].since
        BY <1>1
      <4>9. Recent(entry.version, l + Timeout, second)
        BY <1>1, <4>4, <4>5, <4>6, <4>7, <4>8 DEF Recent
      <4>10. QED
        BY <4>1, <4>7, <4>9
    <3>3. QED
      BY <2>2, <3>1, <3>2, <3>4
  <2>3. QED
    BY <2>1, <2>2
<1>7. FoundIsNew'
  <2> SUFFICES ASSUME NEW q \in Resolution, call'[q].at \in {"asked", "answered", "sleeping"}
               PROVE  /\ call'[q].since <= second
                      /\ entry'.version # 0 => entry'.expires >= call'[q].since + CacheTtl
    BY <1>2 DEF FoundIsNew, Resolving
  <2>1. \/ entry' = entry \/ entry'.version = 0
        \/ entry'.expires = second + CacheTtl
    BY DEF Resolve, Lookup, Answers, Stores, Fails, Retries, Returns, NoEntry
  <2>2. CASE Resolving(q) /\ call'[q].since = call[q].since
    <3>1. /\ call[q].since <= second
          /\ entry.version # 0 => entry.expires >= call[q].since + CacheTtl
      BY <1>0, <2>2 DEF FoundIsNew
    <3>2. PICK b \in Nat : b = call[q].since
      BY <1>1
    <3>3. QED
      BY <1>1, <2>1, <2>2, <3>1, <3>2
  <2>3. CASE q # r
    <3>1. call'[q] = call[q]
      BY <1>0, <2>3, ResolutionMoves
    <3>2. QED
      BY <2>2, <3>1 DEF Resolving
  <2>4. CASE q = r
    <3>1. CASE entry'.version = 0 /\ call'[r].since = second
      BY <1>1, <2>4, <3>1
    <3>2. CASE Resolving(r) /\ call'[r].since = call[r].since
      BY <2>2, <2>4, <3>2
    <3>3. QED
      BY <1>0, <2>4, <3>1, <3>2, ResolutionMoves
  <2>5. QED
    BY <2>3, <2>4
<1>9. ResolutionsEnd'
  <2> SUFFICES ASSUME NEW q \in Resolution, call'[q].at \in {"asked", "answered", "sleeping"}
               PROVE  /\ call'[q].attempts >= 1
                      /\ call'[q].at = "sleeping" => second <= call'[q].until
                      /\ call'[q].until + (IF call'[q].at = "sleeping" THEN 0
                                           ELSE Pause(call'[q].attempts))
                             <= call'[q].since + Longest(call'[q].attempts)
    BY <1>2 DEF ResolutionsEnd, Resolving
  <2>1. CASE q # r
    <3>1. call'[q] = call[q]
      BY <1>0, <2>1, ResolutionMoves
    <3>2. Resolving(q)
      BY <3>1 DEF Resolving
    <3>3. QED
      BY <1>0, <3>1, <3>2 DEF ResolutionsEnd
  <2>2. CASE q = r
    <3>1. /\ call[r].until \in Nat /\ call[r].since \in Nat /\ call[r].attempts \in Nat
      BY <1>1
    <3>2. CASE call'[r].since = second /\ call'[r].at = "asked" /\ Resolve(r)
      <4>1. call'[r].until = second + Timeout /\ call'[r].attempts = 1
        BY <1>0, <3>2, ResolutionMoves DEF Resolve, Retries
      <4>2. Longest(0) = 0 /\ Longest(0 + 1) = Longest(0) + Timeout + Pause(0 + 1) /\ Pause(0 + 1) \in Nat
        BY LongestGrows DEF Longest
      <4>3. Longest(1) = Timeout + Pause(1) /\ Pause(1) \in Nat
        BY <4>2
      <4>4. QED
        BY <1>1, <2>2, <3>2, <4>1, <4>3
    <3>3. CASE Resolving(r) /\ ~Resolve(r) /\ call'[r].since = call[r].since
      <4>1. /\ call[r].attempts >= 1
            /\ call[r].until + (IF call[r].at = "sleeping" THEN 0 ELSE Pause(call[r].attempts))
                   <= call[r].since + Longest(call[r].attempts)
        BY <1>0, <3>3 DEF ResolutionsEnd
      <4>2. PICK n \in Nat : call[r].attempts = n + 1
        BY <3>1, <4>1
      <4>3. /\ Longest(n + 1) \in Nat /\ Pause(n + 1) \in Nat
            /\ Longest(n + 2) = Longest(n + 1) + Timeout + Pause(n + 2) /\ Pause(n + 2) \in Nat
        <5>1. n + 1 \in Nat /\ (n + 1) + 1 = n + 2
          OBVIOUS
        <5>2. Pause(n + 1) \in Nat
          BY LongestGrows
        <5>3. /\ Longest(n + 1) \in Nat /\ Pause((n + 1) + 1) \in Nat
              /\ Longest((n + 1) + 1) = Longest(n + 1) + Timeout + Pause((n + 1) + 1)
          BY <5>1, LongestGrows
        <5>4. QED
          BY <5>1, <5>2, <5>3
      <4>4. PICK b \in Nat : b = call[r].since
        BY <3>1
      <4>5. PICK l \in Nat : l = Longest(n + 1)
        BY <4>3
      <4>6. PICK a \in Nat : a = Pause(n + 1)
        BY <4>3
      <4>7. PICK a2 \in Nat : a2 = Pause(n + 2)
        BY <4>3
      <4>8. CASE call'[r].at = "asked"
        <5>1. /\ call'[r].until = second + Timeout /\ call'[r].attempts = n + 2
              /\ Longest(call'[r].attempts) = l + Timeout + a2 /\ Pause(call'[r].attempts) = a2
          <6>1. call'[r].until = second + Timeout /\ call'[r].attempts = call[r].attempts + 1
            BY <1>0, <1>1, <3>3, <4>8, ResolutionMoves DEF Retries, Resolving, Resolve
          <6>2. (n + 1) + 1 = n + 2
            OBVIOUS
          <6>3. QED
            BY <4>2, <4>3, <4>5, <4>7, <6>1, <6>2
        <5>2. second = call[r].until /\ call[r].at = "sleeping"
          BY <1>0, <3>3, <4>8, <1>1, <5>1, ResolutionMoves DEF Retries
        <5>3. second <= b + l
          BY <1>1, <3>1, <4>1, <4>2, <4>4, <4>5, <5>2
        <5>4. QED
          BY <1>1, <2>2, <3>3, <4>4, <4>8, <5>1, <5>3
      <4>9. CASE call'[r].at = "answered"
        <5>1. /\ call'[r].until = call[r].until /\ call'[r].attempts = call[r].attempts
              /\ call[r].at = "asked"
          BY <1>0, <4>9, ResolutionMoves DEF Answers
        <5>2. QED
          BY <2>2, <3>3, <4>1, <4>9, <5>1
      <4>10. CASE call'[r].at = "sleeping"
        <5>1. /\ call'[r].until = second + a /\ call'[r].attempts = n + 1
              /\ Longest(call'[r].attempts) = l
          <6>1. call'[r].until = second + Pause(call[r].attempts) /\ call'[r].attempts = call[r].attempts
            BY <1>0, <4>10, ResolutionMoves
          <6>2. QED
            BY <4>2, <4>5, <4>6, <6>1
        <5>2. call[r].at \in {"asked", "answered"}
          BY <1>0, <4>10, ResolutionMoves DEF Fails
        <5>3. second <= call[r].until
          BY <1>0, <5>2 DEF WaitsEnd
        <5>4. call[r].until + a <= b + l
          BY <4>1, <4>2, <4>4, <4>5, <4>6, <5>2
        <5>5. QED
          BY <1>1, <2>2, <3>1, <3>3, <4>4, <4>10, <5>1, <5>3, <5>4
      <4>11. QED
        BY <2>2, <4>8, <4>9, <4>10
    <3>4. QED
      BY <1>0, <2>2, <3>2, <3>3, ResolutionMoves
  <2>3. QED
    BY <2>1, <2>2
<1>8. QED
  BY <1>4, <1>5, <1>6, <1>7, <1>9

\* Neither does a rotation or a second spoil what is recent.
LEMMA ProviderStep ==
    ASSUME CredentialInv, CallTypeOK', Rotate \/ Elapse
    PROVE  /\ WaitsEnd' /\ EntryIsRecent' /\ AnswersAreRecent'
           /\ FoundIsNew' /\ ResolutionsEnd'
<1> USE CredentialConstants
<1>0. /\ CallTypeOK /\ WaitsEnd /\ EntryIsRecent /\ AnswersAreRecent
      /\ FoundIsNew /\ ResolutionsEnd
  BY DEF CredentialInv
<1>1. /\ second \in Nat /\ entry.expires \in Nat
      /\ \A q \in Resolution : call[q].until \in Nat /\ call[q].since \in Nat
  BY <1>0 DEF CallTypeOK
<1>2. UNCHANGED <<entry, call>>
  BY DEF Rotate, Elapse
<1>3. FoundIsNew' /\ ResolutionsEnd'
  <2> SUFFICES ASSUME NEW q \in Resolution, Resolving(q)
               PROVE  call[q].since <= second' /\ (call[q].at = "sleeping" => second' <= call[q].until)
    BY <1>0, <1>2 DEF FoundIsNew, ResolutionsEnd, Resolving
  <2>1. call[q].since <= second /\ (call[q].at = "sleeping" => second <= call[q].until)
    BY <1>0 DEF FoundIsNew, ResolutionsEnd
  <2>2. second' = second \/ (second' = second + 1 /\ second < call[q].until)
    BY DEF Rotate, Elapse
  <2>3. QED
    BY <1>1, <2>1, <2>2
<1>4. CASE Rotate
  <2>1. second' = second
    BY <1>4 DEF Rotate
  <2>2. ASSUME NEW q \in Resolution, call[q].at = "answered"
        PROVE  Recent(call[q].version, Timeout, call[q].until)'
    <3>1. Recent(call[q].version, Timeout, call[q].until) /\ call[q].until <= second + Timeout
      BY <1>0, <2>2 DEF WaitsEnd
    <3> DEFINE v == call[q].version
               t == call[q].until
    <3>2. Recent(v, Timeout, t) /\ t <= second + Timeout /\ t \in Nat
      BY <1>1, <3>1
    <3>3. v' = v /\ t' = t
      BY <1>2
    <3> HIDE DEF v, t
    <3>4. PICK u, s : u = v /\ s = t
      OBVIOUS
    <3>5. Recent(u, Timeout, s)'
      BY <1>0, <1>4, <3>2, <3>4, RecentAfterRotate
    <3>6. Recent(v, Timeout, t)'
      BY <3>3, <3>4, <3>5 DEF Recent
    <3>7. QED
      BY <3>6 DEF v, t
  <2>3. WaitsEnd'
    BY <1>0, <1>2, <2>1, <2>2 DEF WaitsEnd
  <2>4. EntryIsRecent'
    <3> SUFFICES ASSUME entry.version # 0
                 PROVE  /\ Recent(entry.version, Timeout + CacheTtl, entry.expires)'
                        /\ entry.expires <= second + CacheTtl
      BY <1>2, <2>1 DEF EntryIsRecent
    <3>1. /\ Recent(entry.version, Timeout + CacheTtl, entry.expires)
          /\ entry.expires <= second + CacheTtl
      BY <1>0 DEF EntryIsRecent
    <3>2. PICK u, s : u = entry.version /\ s = entry.expires
      OBVIOUS
    <3>3. Recent(u, Timeout + CacheTtl, s)'
      BY <1>0, <1>1, <1>4, <3>1, <3>2, RecentAfterRotate
    <3>4. QED
      BY <1>2, <3>1, <3>2, <3>3 DEF Recent
  <2>5. AnswersAreRecent'
    <3>1. ASSUME NEW u, NEW d \in Nat, Recent(u, d, second) PROVE Recent(u, d, second)'
      <4>1. PICK s : s = second
        OBVIOUS
      <4>2. Recent(u, d, s)'
        BY <1>0, <1>1, <1>4, <3>1, <4>1, RecentAfterRotate
      <4>3. QED
        BY <2>1, <4>1, <4>2 DEF Recent
    <3>2. ASSUME NEW q \in Resolution, NEW d \in Nat, Recent(call[q].version, d, second)
          PROVE  Recent(call[q].version, d, second)'
      <4>1. PICK u : u = call[q].version
        OBVIOUS
      <4>2. Recent(u, d, second)'
        BY <3>1, <3>2, <4>1
      <4>3. QED
        BY <1>2, <4>1, <4>2 DEF Recent
    <3>3. Timeout \in Nat /\ Timeout + CacheTtl \in Nat /\ Longest(MaxRetry) + Timeout \in Nat
      BY LongestGrows
    <3>4. QED
      BY <1>0, <1>2, <3>2, <3>3 DEF AnswersAreRecent
  <2>6. QED
    BY <1>3, <2>3, <2>4, <2>5
<1>5. CASE Elapse
  <2>1. UNCHANGED <<replaced, current>> /\ second' = second + 1
    BY <1>5 DEF Elapse
  <2>2. WaitsEnd'
    <3> SUFFICES ASSUME NEW q \in Resolution, call[q].at \in {"asked", "answered"}
                 PROVE  /\ second + 1 <= call[q].until /\ call[q].until <= second + 1 + Timeout
                        /\ call[q].at = "answered" =>
                               Recent(call[q].version, Timeout, call[q].until)
      BY <1>2, <2>1 DEF WaitsEnd, Recent
    <3>1. second < call[q].until
      BY <1>5 DEF Elapse, Resolving
    <3>2. QED
      BY <1>0, <1>1, <3>1 DEF WaitsEnd
  <2>3. EntryIsRecent'
    BY <1>0, <1>1, <1>2, <2>1 DEF EntryIsRecent, Recent
  <2>4. AnswersAreRecent'
    BY <1>2, <1>5 DEF Elapse, AnswersAreRecent
  <2>5. QED
    BY <1>3, <2>2, <2>3, <2>4
<1>6. QED
  BY <1>4, <1>5

\* The invariant is inductive.
LEMMA StepCredentialInv ==
    CredentialInv /\ [CredentialNext]_credentialVars => CredentialInv'
<1> SUFFICES ASSUME CredentialInv, [CredentialNext]_credentialVars PROVE CredentialInv'
  OBVIOUS
<1>1. CallTypeOK'
  BY StepCallTypeOK
<1>2. CASE UNCHANGED credentialVars
  BY <1>1, <1>2 DEF CredentialInv, credentialVars, WaitsEnd, EntryIsRecent, AnswersAreRecent,
                    FoundIsNew, ResolutionsEnd, Recent, Resolving
<1>3. CASE Rotate \/ Elapse
  BY <1>1, <1>3, ProviderStep DEF CredentialInv
<1>4. ASSUME NEW r \in Resolution,
             Resolve(r) \/ Answers(r) \/ Stores(r) \/ Fails(r) \/ Retries(r) \/ Returns(r)
      PROVE  CredentialInv'
  BY <1>1, <1>4, ResolutionStep DEF CredentialInv
<1>5. QED
  BY <1>2, <1>3, <1>4 DEF CredentialNext

\* Whichever resolutions overlap, and however often the provider rotates, no
\* caller gets a credential replaced for longer than a timeout when it was just
\* resolved, the ttl and a timeout when it was cached, and the longest
\* resolution and a timeout in the degraded mode.
THEOREM CredentialSafety == CredentialSpec => []CredentialsAreFresh
<1> USE CredentialConstants
<1>1. CredentialInv => CredentialsAreFresh
  <2> SUFFICES ASSUME CredentialInv PROVE CredentialsAreFresh
    OBVIOUS
  <2>1. CallTypeOK
    BY DEF CredentialInv
  <2>2. CredentialTypeOK
    BY <2>1 DEF CallTypeOK, CredentialTypeOK
  <2>3. ASSUME NEW v, NEW d \in Nat, Recent(v, d, second) PROVE Age(v) <= d
    BY <2>1, <2>3 DEF CallTypeOK, Recent, Age
  <2>4. ASSUME NEW r \in Resolution
        PROVE  /\ call[r].at = "resolved" => Age(call[r].version) <= Timeout
               /\ call[r].at = "cached" => Age(call[r].version) <= CacheTtl + Timeout
               /\ call[r].at = "degraded" =>
                      Age(call[r].version) <= Longest(MaxRetry) + Timeout
    <3>1. call[r].at = "cached" => Age(call[r].version) <= Timeout + CacheTtl
      BY <2>3 DEF CredentialInv, AnswersAreRecent
    <3>2. Timeout + CacheTtl = CacheTtl + Timeout
      OBVIOUS
    <3>3. Longest(MaxRetry) + Timeout \in Nat
      BY LongestGrows
    <3>4. QED
      BY <2>3, <3>1, <3>2, <3>3 DEF CredentialInv, AnswersAreRecent
  <2>5. QED
    BY <2>2, <2>4 DEF CredentialsAreFresh
<1>2. QED
  BY <1>1, InitCredentialInv, StepCredentialInv, PTL DEF CredentialSpec

-----------------------------------------------------------------------------
(* RuntimeProbes: the proofs.                                              *)

\* Nobody drains, probes or counts.
LEMMA InitProbeInv == ProbeInit => ProbeInv
<1> SUFFICES ASSUME ProbeInit PROVE ProbeInv
  OBVIOUS
<1> USE ProbeAssumption
<1>1. Cardinality(Metric) \in Nat
  BY FS_CardinalityType
<1>2. ProbeTypeOK
  BY <1>1 DEF ProbeInit, ProbeTypeOK, NoScrape
<1>3. ToldIsMarked
  BY DEF ProbeInit, ToldIsMarked
<1>4. CountTypeOK
  BY DEF ProbeInit, CountTypeOK, NotCounting
<1>5. ASSUME NEW m \in Metric PROVE Counting(m) = {} /\ counts[m] = 0 /\ metrics[m] = 0
  BY <1>5 DEF ProbeInit, Counting, NotCounting
<1>6. CountsFit
  <2>1. IsFiniteSet({}) /\ Cardinality({}) = 0
    BY FS_EmptySet
  <2>2. ASSUME NEW m \in Metric
        PROVE  /\ IsFiniteSet(Counting(m)) /\ Cardinality(Counting(m)) + counts[m] <= MaxCounts
               /\ metrics[m] <= counts[m]
               /\ \A t \in Counting(m) : counting[t].read <= counts[m]
    <3>1. Counting(m) = {} /\ counts[m] = 0 /\ metrics[m] = 0
      BY <1>5
    <3>2. IsFiniteSet(Counting(m)) /\ Cardinality(Counting(m)) = 0
      BY <2>1, <3>1
    <3>3. QED
      BY <3>1, <3>2
  <2>3. QED
    BY <2>2 DEF CountsFit
<1>7. AloneIsExact
  BY <1>5 DEF AloneIsExact
<1>8. ScrapesPay
  <2>1. Entries = 0
    <3>1. {m \in Metric : metrics[m] > 0} = {}
      BY <1>5
    <3>2. QED
      BY <3>1, FS_EmptySet DEF Entries
  <2>2. QED
    BY <2>1 DEF ProbeInit, ScrapesPay
<1>9. QED
  BY <1>2, <1>3, <1>4, <1>6, <1>7, <1>8 DEF ProbeInv, CountInv

\* A step of a main thread or of a probe.
LEMMA StepDraining ==
    ASSUME ProbeInv, DrainNext, UNCHANGED countVars
    PROVE  ProbeInv'
<1>0. ProbeTypeOK /\ ToldIsMarked
  BY DEF ProbeInv
<1>1. CountInv'
  BY DEF ProbeInv, countVars, CountInv, CountTypeOK, CountsFit, AloneIsExact, ScrapesPay,
         Counting, Entries
<1>2. PICK r \in Runtime :
          \/ SetEvent(r) \/ WriteMarker(r) \/ ClearEvent(r) \/ FindMarker(r) \/ Unlink(r)
          \/ Restarted(r) \/ ProbeComes(r) \/ ReadEvent(r) \/ ReadMarker(r)
  BY DEF DrainNext
<1>3. ProbeTypeOK'
  <2>1. UNCHANGED <<metrics, scrape>>
    BY DEF countVars
  <2>2. event' \in [Runtime -> BOOLEAN] /\ marker' \in BOOLEAN
    BY <1>0, <1>2 DEF ProbeTypeOK, SetEvent, WriteMarker, ClearEvent, FindMarker, Unlink,
                      Restarted, ProbeComes, ReadEvent, ReadMarker
  <2>3. main' \in [Runtime -> {"runs", "starting", "stopping", "unlinking", "raised"}]
    BY <1>0, <1>2 DEF ProbeTypeOK, SetEvent, WriteMarker, ClearEvent, FindMarker, Unlink,
                      Restarted, ProbeComes, ReadEvent, ReadMarker, At
  <2>4. probe' \in [Runtime -> {"none", "came", "unset", "ready", "refused"}]
    BY <1>0, <1>2 DEF ProbeTypeOK, SetEvent, WriteMarker, ClearEvent, FindMarker, Unlink,
                      Restarted, ProbeComes, ReadEvent, ReadMarker
  <2>5. QED
    BY <1>0, <2>1, <2>2, <2>3, <2>4 DEF ProbeTypeOK
<1>4. ToldIsMarked'
  <2> USE DEF ToldIsMarked, Stopping
  <2>1. CASE SetEvent(r)
    BY <1>0, <2>1 DEF SetEvent, At, ProbeTypeOK
  <2>2. CASE WriteMarker(r)
    BY <1>0, <2>2 DEF WriteMarker, At, ProbeTypeOK
  <2>3. CASE ClearEvent(r)
    BY <1>0, <2>3 DEF ClearEvent, At, ProbeTypeOK
  <2>4. CASE FindMarker(r)
    BY <1>0, <2>4 DEF FindMarker, At, ProbeTypeOK
  <2>5. CASE Unlink(r)
    BY <1>0, <2>5 DEF Unlink, At, ProbeTypeOK
  <2>6. CASE Restarted(r)
    BY <1>0, <2>6 DEF Restarted, ProbeTypeOK
  <2>7. CASE ProbeComes(r)
    BY <1>0, <2>7 DEF ProbeComes, ProbeTypeOK
  <2>8. CASE ReadEvent(r)
    BY <1>0, <2>8 DEF ReadEvent, ProbeTypeOK
  <2>9. CASE ReadMarker(r)
    BY <1>0, <2>9 DEF ReadMarker, ProbeTypeOK
  <2>10. QED
    BY <1>2, <2>1, <2>2, <2>3, <2>4, <2>5, <2>6, <2>7, <2>8, <2>9
<1>5. QED
  BY <1>1, <1>3, <1>4 DEF ProbeInv

\* The number of entries is no larger than that of the metrics.
LEMMA EntriesCount ==
    ASSUME NEW f
    PROVE  /\ Cardinality(Metric) \in Nat
           /\ Cardinality({m \in Metric : f[m] > 0}) \in 0 .. Cardinality(Metric)
<1> DEFINE E == {m \in Metric : f[m] > 0}
<1>1. IsFiniteSet(Metric) /\ E \subseteq Metric
  BY ProbeAssumption
<1> HIDE DEF E
<1>2. IsFiniteSet(E) /\ Cardinality(E) <= Cardinality(Metric)
  BY <1>1, FS_Subset
<1>3. Cardinality(E) \in Nat /\ Cardinality(Metric) \in Nat
  BY <1>1, <1>2, FS_CardinalityType
<1>4. Cardinality(E) \in 0 .. Cardinality(Metric)
  BY <1>2, <1>3
<1>5. QED
  BY <1>3, <1>4 DEF E

\* Entries that stay keep their number.
LEMMA EntriesGrow ==
    ASSUME \A m \in Metric : metrics[m] > 0 => metrics'[m] > 0
    PROVE  Entries <= Entries'
<1> DEFINE E == {m \in Metric : metrics[m] > 0}
           F == {m \in Metric : metrics'[m] > 0}
<1>1. IsFiniteSet(Metric) /\ F \subseteq Metric /\ E \subseteq F
  BY ProbeAssumption
<1> HIDE DEF E, F
<1>2. IsFiniteSet(F)
  BY <1>1, FS_Subset
<1>3. Cardinality(E) <= Cardinality(F)
  BY <1>1, <1>2, FS_Subset
<1>4. QED
  BY <1>3 DEF Entries, E, F

\* A thread reads a metric: it may now be one of two that count it.
LEMMA ReadStep ==
    ASSUME ProbeInv, NEW t \in Thread, NEW m \in Metric, ReadMetric(t, m), UNCHANGED drainVars
    PROVE  CountInv' /\ ProbeTypeOK'
<1>0. ProbeTypeOK /\ CountTypeOK /\ CountsFit /\ AloneIsExact /\ ScrapesPay
  BY DEF ProbeInv, CountInv
<1> USE ProbeAssumption
<1>1. /\ counting[t] = NotCounting
      /\ Cardinality(Counting(m)) + counts[m] < MaxCounts
      /\ counting' = [counting EXCEPT ![t] = [metric |-> m, read |-> metrics[m]]]
      /\ crossed' = IF Counting(m) = {} THEN crossed ELSE crossed \cup {m}
      /\ UNCHANGED <<metrics, counts, scrape, raises>>
  BY DEF ReadMetric
<1>2. metrics[m] \in Nat /\ counts[m] \in Nat /\ m # "none" /\ counting[t].metric = "none"
  BY <1>0, <1>1 DEF ProbeTypeOK, CountTypeOK, NotCounting
<1>3. CountTypeOK'
  BY <1>0, <1>1, <1>2 DEF CountTypeOK
<1>4. /\ Counting(m)' = Counting(m) \cup {t} /\ t \notin Counting(m)
      /\ counting'[t].read = metrics[m]
      /\ \A u \in Counting(m) : counting'[u] = counting[u]
  BY <1>0, <1>1, <1>2 DEF Counting, CountTypeOK
<1>5. ASSUME NEW n \in Metric, n # m
      PROVE  Counting(n)' = Counting(n) /\ \A u \in Counting(n) : counting'[u] = counting[u]
  BY <1>0, <1>1, <1>2, <1>5 DEF Counting, CountTypeOK
<1>6. CountsFit'
  <2> SUFFICES ASSUME NEW n \in Metric
               PROVE  /\ IsFiniteSet(Counting(n)') /\ Cardinality(Counting(n)') + counts[n] <= MaxCounts
                      /\ metrics[n] <= counts[n]
                      /\ \A u \in Counting(n)' : counting'[u].read <= counts[n]
    BY <1>1 DEF CountsFit
  <2>1. /\ IsFiniteSet(Counting(n)) /\ Cardinality(Counting(n)) + counts[n] <= MaxCounts
        /\ metrics[n] <= counts[n]
        /\ \A u \in Counting(n) : counting[u].read <= counts[n]
    BY <1>0 DEF CountsFit
  <2>2. CASE n # m
    BY <1>5, <2>1, <2>2
  <2>3. CASE n = m
    <3> DEFINE C == Counting(m)
    <3>1. IsFiniteSet(C) /\ t \notin C
      BY <1>4, <2>1, <2>3
    <3> HIDE DEF C
    <3>2. IsFiniteSet(C \cup {t}) /\ Cardinality(C \cup {t}) = Cardinality(C) + 1 /\ Cardinality(C) \in Nat
      BY <3>1, FS_AddElement, FS_CardinalityType
    <3>3. Cardinality(C) + counts[m] < MaxCounts
      BY <1>1 DEF C
    <3>4. IsFiniteSet(Counting(m)') /\ Cardinality(Counting(m)') + counts[m] <= MaxCounts
      BY <1>2, <1>4, <3>2, <3>3 DEF C
    <3>5. \A u \in Counting(m)' : counting'[u].read <= counts[m]
      BY <1>4, <2>1, <2>3
    <3>6. QED
      BY <2>1, <2>3, <3>4, <3>5
  <2>4. QED
    BY <2>2, <2>3
<1>7. AloneIsExact'
  <2> SUFFICES ASSUME NEW n \in Metric, n \notin crossed'
               PROVE  /\ metrics[n] = counts[n]
                      /\ \A u \in Counting(n)' : counting'[u].read = metrics[n] /\ Counting(n)' = {u}
    BY <1>1 DEF AloneIsExact
  <2>1. n \notin crossed
    BY <1>1
  <2>2. /\ metrics[n] = counts[n]
        /\ \A u \in Counting(n) : counting[u].read = metrics[n] /\ Counting(n) = {u}
    BY <1>0, <2>1 DEF AloneIsExact
  <2>3. CASE n # m
    BY <1>5, <2>2, <2>3
  <2>4. CASE n = m
    <3>1. Counting(m) = {}
      BY <1>1, <2>4
    <3>2. QED
      BY <1>4, <2>2, <2>4, <3>1
  <2>5. QED
    BY <2>3, <2>4
<1>8. ScrapesPay' /\ ProbeTypeOK'
  BY <1>0, <1>1 DEF ScrapesPay, ProbeTypeOK, Entries, NoScrape, drainVars
<1>9. QED
  BY <1>3, <1>6, <1>7, <1>8 DEF CountInv

\* A thread writes what it read, plus one: an entry never goes, and one that no
\* other thread counted meanwhile gains exactly one.
LEMMA WriteStep ==
    ASSUME ProbeInv, NEW t \in Thread, WriteMetric(t), UNCHANGED drainVars
    PROVE  CountInv' /\ ProbeTypeOK'
<1>0. ProbeTypeOK /\ CountTypeOK /\ CountsFit /\ AloneIsExact /\ ScrapesPay
  BY DEF ProbeInv, CountInv
<1> USE ProbeAssumption
<1>1. PICK m : m = counting[t].metric
  OBVIOUS
<1>2. PICK read : read = counting[t].read
  OBVIOUS
<1>3. /\ counting[t] # NotCounting
      /\ metrics' = [metrics EXCEPT ![m] = read + 1]
      /\ counts' = [counts EXCEPT ![m] = @ + 1]
      /\ counting' = [counting EXCEPT ![t] = NotCounting]
      /\ UNCHANGED <<crossed, scrape, raises>>
  BY <1>1, <1>2 DEF WriteMetric
<1>4. m \in Metric /\ m # "none" /\ read \in Nat /\ t \in Counting(m)
  BY <1>0, <1>1, <1>2, <1>3 DEF CountTypeOK, Counting
<1>5. metrics[m] \in Nat /\ counts[m] \in Nat /\ MaxCounts \in Nat
  BY <1>0, <1>4 DEF ProbeTypeOK, CountTypeOK
<1>6. /\ metrics'[m] = read + 1 /\ counts'[m] = counts[m] + 1
      /\ \A n \in Metric : n # m => metrics'[n] = metrics[n] /\ counts'[n] = counts[n]
  BY <1>0, <1>3, <1>4 DEF ProbeTypeOK, CountTypeOK
<1>7. /\ counting'[t] = NotCounting
      /\ \A u \in Thread : u # t => counting'[u] = counting[u]
  BY <1>0, <1>3 DEF CountTypeOK
<1>8. /\ Counting(m)' = Counting(m) \ {t}
      /\ \A n \in Metric : n # m => Counting(n)' = Counting(n)
      /\ \A n \in Metric : \A u \in Counting(n)' : counting'[u] = counting[u]
  BY <1>1, <1>4, <1>7 DEF Counting, NotCounting
<1>9. /\ IsFiniteSet(Counting(m)') /\ Cardinality(Counting(m)') + counts'[m] <= MaxCounts
      /\ read <= counts[m] /\ counts[m] + 1 <= MaxCounts
  <2> DEFINE C == Counting(m)
  <2>1. IsFiniteSet(C) /\ Cardinality(C) + counts[m] <= MaxCounts /\ t \in C
    BY <1>0, <1>4 DEF CountsFit
  <2>2. read <= counts[m]
    BY <1>0, <1>2, <1>4 DEF CountsFit
  <2> HIDE DEF C
  <2>3. /\ IsFiniteSet(C \ {t}) /\ Cardinality(C \ {t}) = Cardinality(C) - 1
        /\ Cardinality(C) \in Nat /\ Cardinality(C \ {t}) \in Nat
    BY <2>1, FS_RemoveElement, FS_CardinalityType
  <2>4. Counting(m)' = C \ {t}
    BY <1>8 DEF C
  <2>5. IsFiniteSet(Counting(m)') /\ Cardinality(Counting(m)') = Cardinality(C \ {t})
    BY <2>3, <2>4
  <2>6. QED
    BY <1>5, <1>6, <2>1, <2>2, <2>3, <2>5
<1>10. CountTypeOK'
  <2>1. counting' \in [Thread -> [metric : Metric \cup {"none"}, read : Nat]]
    BY <1>0, <1>3 DEF CountTypeOK, NotCounting
  <2>2. counts' \in [Metric -> Nat]
    <3>1. counts \in [Metric -> Nat] /\ counts[m] + 1 \in Nat
      BY <1>0, <1>5 DEF CountTypeOK
    <3>2. counts' = [counts EXCEPT ![m] = counts[m] + 1]
      BY <1>3
    <3>3. QED
      BY <3>1, <3>2
  <2>3. \A u \in Thread : counting'[u].metric = "none" => counting'[u] = NotCounting
    BY <1>0, <1>7 DEF CountTypeOK
  <2>4. QED
    BY <1>0, <1>3, <2>1, <2>2, <2>3 DEF CountTypeOK, NotCounting
<1>11. CountsFit'
  <2> SUFFICES ASSUME NEW n \in Metric
               PROVE  /\ IsFiniteSet(Counting(n)') /\ Cardinality(Counting(n)') + counts'[n] <= MaxCounts
                      /\ metrics'[n] <= counts'[n]
                      /\ \A u \in Counting(n)' : counting'[u].read <= counts'[n]
    BY DEF CountsFit
  <2>1. /\ IsFiniteSet(Counting(n)) /\ Cardinality(Counting(n)) + counts[n] <= MaxCounts
        /\ metrics[n] <= counts[n]
        /\ \A u \in Counting(n) : counting[u].read <= counts[n]
    BY <1>0 DEF CountsFit
  <2>2. CASE n # m
    BY <1>6, <1>8, <2>1, <2>2
  <2>3. CASE n = m
    <3>1. ASSUME NEW u \in Counting(m)' PROVE counting'[u].read <= counts[m] + 1
      <4>1. u \in Counting(m) /\ counting'[u] = counting[u]
        BY <1>4, <1>8
      <4>2. counting[u].read <= counts[m] /\ counting[u].read \in Nat
        BY <1>0, <2>1, <2>3, <4>1 DEF CountTypeOK, Counting
      <4>3. QED
        BY <1>5, <4>1, <4>2
    <3>2. metrics'[m] <= counts'[m]
      BY <1>4, <1>5, <1>6, <1>9
    <3>3. QED
      BY <1>6, <1>9, <2>3, <3>1, <3>2
  <2>4. QED
    BY <2>2, <2>3
<1>12. AloneIsExact'
  <2> SUFFICES ASSUME NEW n \in Metric, n \notin crossed
               PROVE  /\ metrics'[n] = counts'[n]
                      /\ \A u \in Counting(n)' : counting'[u].read = metrics'[n] /\ Counting(n)' = {u}
    BY <1>3 DEF AloneIsExact
  <2>1. /\ metrics[n] = counts[n]
        /\ \A u \in Counting(n) : counting[u].read = metrics[n] /\ Counting(n) = {u}
    BY <1>0 DEF AloneIsExact
  <2>2. CASE n # m
    BY <1>6, <1>8, <2>1, <2>2
  <2>3. CASE n = m
    <3>1. read = metrics[m] /\ Counting(m) = {t}
      BY <1>2, <1>4, <2>1, <2>3
    <3>2. Counting(m)' = {}
      BY <1>8, <3>1
    <3>3. QED
      BY <1>6, <2>1, <2>3, <3>1, <3>2
  <2>4. QED
    BY <2>2, <2>3
<1>13. ProbeTypeOK'
  <2>1. metrics' \in [Metric -> 0 .. MaxCounts]
    <3>1. read + 1 \in 0 .. MaxCounts
      BY <1>4, <1>5, <1>9
    <3>2. QED
      BY <1>0, <1>3, <3>1 DEF ProbeTypeOK
  <2>2. QED
    BY <1>0, <1>3, <2>1 DEF ProbeTypeOK, drainVars, NoScrape
<1>14. ScrapesPay'
  <2>1. Entries <= Entries'
    <3>1. \A n \in Metric : metrics[n] > 0 => metrics'[n] > 0
      BY <1>4, <1>6
    <3>2. QED
      BY <3>1, EntriesGrow
  <2>2. Entries \in Nat /\ Entries' \in Nat
    BY EntriesCount DEF Entries
  <2>3. raises \in Nat /\ scrape \in Nat
    <3>1. Cardinality(Metric) \in Nat
      BY EntriesCount
    <3>2. QED
      BY <1>0, <3>1 DEF CountTypeOK, ProbeTypeOK, NoScrape
  <2>4. QED
    BY <1>0, <1>3, <2>1, <2>2, <2>3 DEF ScrapesPay, NoScrape
<1>15. QED
  BY <1>10, <1>11, <1>12, <1>13, <1>14 DEF CountInv

\* A scrape begins, or ends and raises if an entry has come since.
LEMMA ScrapeStep ==
    ASSUME ProbeInv, ScrapeComes \/ ScrapeEnds, UNCHANGED drainVars
    PROVE  CountInv' /\ ProbeTypeOK'
<1>0. ProbeTypeOK /\ CountTypeOK /\ CountsFit /\ AloneIsExact /\ ScrapesPay
  BY DEF ProbeInv, CountInv
<1>1. UNCHANGED <<metrics, counting, counts, crossed>>
  BY DEF ScrapeComes, ScrapeEnds
<1>2. Entries \in 0 .. Cardinality(Metric) /\ Cardinality(Metric) \in Nat /\ Entries' = Entries
  BY <1>1, EntriesCount DEF Entries
<1>3. CountsFit' /\ AloneIsExact'
  BY <1>0, <1>1 DEF CountsFit, AloneIsExact, Counting
<1>4. raises \in Nat /\ scrape \in Nat /\ NoScrape \in Nat /\ Entries \in Nat /\ Entries # NoScrape
  BY <1>0, <1>2 DEF CountTypeOK, ProbeTypeOK, NoScrape
<1>5. raises' \in Nat /\ scrape' \in 0 .. NoScrape
  BY <1>2, <1>4 DEF ScrapeComes, ScrapeEnds, NoScrape
<1>6. ScrapesPay'
  <2>1. raises <= Entries /\ (scrape # NoScrape => raises <= scrape /\ scrape <= Entries)
    BY <1>0 DEF ScrapesPay
  <2>2. CASE ScrapeComes
    <3>1. scrape' = Entries /\ raises' = raises
      BY <2>2 DEF ScrapeComes
    <3>2. QED
      BY <1>2, <1>4, <2>1, <3>1 DEF ScrapesPay
  <2>3. CASE ScrapeEnds
    <3>1. /\ scrape # NoScrape /\ scrape' = NoScrape
          /\ raises' = IF Entries = scrape THEN raises ELSE raises + 1
      BY <2>3 DEF ScrapeEnds
    <3>2. raises' <= Entries
      BY <1>4, <2>1, <3>1
    <3>3. NoScrape' = NoScrape
      BY DEF NoScrape
    <3>4. QED
      BY <1>2, <3>1, <3>2, <3>3 DEF ScrapesPay
  <2>4. QED
    BY <2>2, <2>3
<1>7. CountTypeOK' /\ ProbeTypeOK'
  BY <1>0, <1>1, <1>5 DEF CountTypeOK, ProbeTypeOK, NoScrape, NotCounting, drainVars
<1>8. QED
  BY <1>3, <1>6, <1>7 DEF CountInv

\* The invariant is inductive.
LEMMA StepProbeInv == ProbeInv /\ [ProbeNext]_probeVars => ProbeInv'
<1> SUFFICES ASSUME ProbeInv, [ProbeNext]_probeVars PROVE ProbeInv'
  OBVIOUS
<1>1. CASE UNCHANGED probeVars
  <2>1. /\ UNCHANGED <<event, marker, main, probe, told, refuse>>
        /\ UNCHANGED <<metrics, counting, counts, crossed, scrape, raises>>
    BY <1>1 DEF probeVars, drainVars, countVars
  <2>2. ProbeTypeOK' /\ ToldIsMarked'
    BY <2>1 DEF ProbeInv, ProbeTypeOK, NoScrape, ToldIsMarked, Stopping
  <2>3. CountTypeOK' /\ ScrapesPay'
    BY <2>1 DEF ProbeInv, CountInv, CountTypeOK, ScrapesPay, Entries, NotCounting, NoScrape
  <2>4. CountsFit' /\ AloneIsExact'
    BY <2>1 DEF ProbeInv, CountInv, CountsFit, AloneIsExact, Counting
  <2>5. QED
    BY <2>2, <2>3, <2>4 DEF ProbeInv, CountInv
<1>2. CASE DrainNext /\ UNCHANGED countVars
  BY <1>2, StepDraining
<1>3. ASSUME CountNext, UNCHANGED drainVars PROVE ProbeInv'
  <2>1. ToldIsMarked'
    BY <1>3 DEF ProbeInv, ToldIsMarked, drainVars, Stopping
  <2>2. CountInv' /\ ProbeTypeOK'
    BY <1>3, ReadStep, WriteStep, ScrapeStep DEF CountNext
  <2>3. QED
    BY <2>1, <2>2 DEF ProbeInv
<1>4. QED
  BY <1>1, <1>2, <1>3 DEF ProbeNext

\* However many runtimes share the drain file and threads count: a probe that
\* comes after a start of draining returned is refused until a stop begins, a
\* metric counted by one thread at a time is exact, and no more scrapes raise
\* than there are metrics.
THEOREM ProbeSafety == ProbeSpec => []ProbesAreHonest
<1>1. ProbeInv => ProbesAreHonest
  BY DEF ProbeInv, CountInv, ToldIsMarked, AloneIsExact, ScrapesPay, ProbesAreHonest
<1>2. QED
  BY <1>1, InitProbeInv, StepProbeInv, PTL DEF ProbeSpec

-----------------------------------------------------------------------------
(* WorkerCore: the proofs.                                                 *)

FlagStep ==
    /\ Signalled \/ Requested \/ MemoryMoves
    /\ UNCHANGED <<backendVars, pluginVars, place, task, late, errors>>

\* No job has been taken.
LEMMA InitWorkInv == WorkerInit => WorkInv
<1> SUFFICES ASSUME WorkerInit PROVE WorkInv
  OBVIOUS
<1>1. /\ task = Idle /\ place = "loop" /\ try = 1 /\ late = 0 /\ errors = 0 /\ started = 0 /\ broken = 0
      /\ \A t \in Task : state[t] = "pending" /\ failures[t] = 0 /\ kept[t] = 0 /\ t # Idle
  BY WorkerAssumption DEF WorkerInit
<1>2. WorkTypeOK
  <2>1. try \in 1 .. Tries
    BY <1>1, WorkerAssumption
  <2>2. /\ state \in [Task -> {"pending", "running", "completed", "failed"}]
        /\ failures \in [Task -> Nat] /\ kept \in [Task -> Nat]
        /\ signalled \in BOOLEAN /\ requested \in BOOLEAN
    BY DEF WorkerInit
  <2>3. WorkerTypeOK
    BY <1>1, <2>1, <2>2 DEF WorkerTypeOK
  <2>4. QED
    BY <1>1, <2>2, <2>3 DEF WorkTypeOK
<1>3. HandTells
  BY <1>1 DEF HandTells, Before
<1>4. Spoilt = {}
  BY <1>1 DEF Spoilt
<1>5. FaultsPay
  BY <1>1, <1>4, FS_EmptySet DEF FaultsPay, Troubled, One
<1>6. OneInTransit /\ PluginsAccounted
  BY <1>1 DEF OneInTransit, PluginsAccounted, One
<1>7. QED
  BY <1>2, <1>3, <1>5, <1>6 DEF WorkInv

\* In every place but those of a worker without a job there is one in its hands.
LEMMA HandIsTask ==
    ASSUME WorkTypeOK
    PROVE  /\ task # Idle => task \in Task
           /\ place \notin {"loop", "asks", "takes", "out"} => task \in Task
           /\ Idle \notin Task
BY WorkerAssumption DEF WorkTypeOK, WorkerTypeOK

\* Every step keeps the types.
LEMMA StepWorkTypeOK ==
    ASSUME WorkTypeOK, PluginsAccounted, [WorkerNext]_workVars
    PROVE  WorkTypeOK'
<1> USE WorkerAssumption, HandIsTask DEF WorkTypeOK, WorkerTypeOK, Goes, Error, Release, backendVars, flagVars, pluginVars
<1>1. CASE Loop
  BY <1>1 DEF Loop
<1>2. CASE Check
  BY <1>2 DEF Check
<1>3. CASE Take
  BY <1>3 DEF Take, Claimed
<1>4. CASE TakeRaises
  BY <1>4 DEF TakeRaises, Claimed
<1>5. CASE Validate
  BY <1>5 DEF Validate
<1>6. CASE Reject
  BY <1>6 DEF Reject, FailJob, Marked
<1>7. CASE StartPlugin \/ ExtractTask
  BY <1>7 DEF StartPlugin, ExtractTask
<1>8. CASE StopPlugin
  BY <1>8 DEF StopPlugin, PluginsAccounted
<1>9. CASE AttemptRaises
  BY <1>9 DEF AttemptRaises
<1>10. CASE Waited
  BY <1>10 DEF Waited
<1>11. CASE Save
  BY <1>11 DEF Save
<1>12. CASE Complete
  BY <1>12 DEF Complete, Marked
<1>13. CASE Except
  BY <1>13 DEF Except, FailJob, Marked
<1>14. CASE Dies
  <2>1. 1 \in 1 .. Tries
    BY WorkerAssumption
  <2>2. /\ place' = "loop" /\ task' = Idle /\ try' = 1 /\ started' = 0 /\ broken' = 0
        /\ signalled' = FALSE /\ requested' = FALSE /\ late' = 0 /\ errors' = errors + 1
        /\ UNCHANGED <<state, failures, kept>>
    BY <1>14 DEF Dies
  <2>3. WorkerTypeOK'
    BY <2>1, <2>2
  <2>4. errors' \in Nat
    BY <2>2
  <2>5. QED
    BY <2>2, <2>3, <2>4
<1>15. CASE FlagStep
  BY <1>15 DEF FlagStep, Signalled, Requested, MemoryMoves
<1>16. CASE UNCHANGED workVars
  BY <1>16 DEF workVars
<1>17. QED
  BY <1>1, <1>2, <1>3, <1>4, <1>5, <1>6, <1>7, <1>8, <1>9, <1>10, <1>11, <1>12, <1>13, <1>14,
     <1>15, <1>16 DEF WorkerNext, FlagStep

\* After a request to shut down no second job is taken.
LEMMA StepInTransit ==
    ASSUME WorkTypeOK, OneInTransit, [WorkerNext]_workVars
    PROVE  OneInTransit'
<1> USE DEF WorkTypeOK, WorkerTypeOK, OneInTransit, Goes, backendVars, flagVars, pluginVars
<1>1. CASE Loop
  BY <1>1 DEF Loop
<1>2. CASE Check
  BY <1>2 DEF Check
<1>3. CASE Take
  BY <1>3 DEF Take
<1>4. CASE TakeRaises
  BY <1>4 DEF TakeRaises
<1>5. CASE Validate \/ Reject
  BY <1>5 DEF Validate, Reject
<1>6. CASE StartPlugin \/ ExtractTask \/ StopPlugin \/ AttemptRaises \/ Waited
  BY <1>6 DEF StartPlugin, ExtractTask, StopPlugin, AttemptRaises, Waited
<1>7. CASE Save \/ Complete \/ Except
  BY <1>7 DEF Save, Complete, Except
<1>8. CASE Dies
  BY <1>8 DEF Dies
<1>9. CASE FlagStep
  BY <1>9 DEF FlagStep, Signalled, Requested, MemoryMoves
<1>10. CASE UNCHANGED workVars
  BY <1>10 DEF workVars
<1>11. QED
  BY <1>1, <1>2, <1>3, <1>4, <1>5, <1>6, <1>7, <1>8, <1>9, <1>10 DEF WorkerNext, FlagStep

\* An attempt leaves its plugin running only if it raised.
LEMMA StepPlugins ==
    ASSUME WorkTypeOK, PluginsAccounted, [WorkerNext]_workVars
    PROVE  PluginsAccounted'
<1> USE DEF WorkTypeOK, PluginsAccounted, One, Goes, backendVars, flagVars, pluginVars
<1>1. CASE Loop \/ Check \/ Validate \/ Waited
  BY <1>1 DEF Loop, Check, Validate, Waited
<1>2. CASE Take \/ TakeRaises \/ Reject
  BY <1>2 DEF Take, TakeRaises, Reject
<1>3. CASE StartPlugin
  BY <1>3 DEF StartPlugin
<1>4. CASE ExtractTask
  BY <1>4 DEF ExtractTask
<1>5. CASE StopPlugin
  BY <1>5 DEF StopPlugin
<1>6. CASE AttemptRaises
  BY <1>6 DEF AttemptRaises
<1>7. CASE Save \/ Complete \/ Except
  BY <1>7 DEF Save, Complete, Except
<1>8. CASE Dies
  BY <1>8 DEF Dies
<1>9. CASE FlagStep
  BY <1>9 DEF FlagStep
<1>10. CASE UNCHANGED workVars
  BY <1>10 DEF workVars
<1>11. QED
  BY <1>1, <1>2, <1>3, <1>4, <1>5, <1>6, <1>7, <1>8, <1>9, <1>10 DEF WorkerNext, FlagStep

\* What each place says of the job in hand is kept.
LEMMA StepHandTells ==
    ASSUME WorkTypeOK, HandTells, [WorkerNext]_workVars
    PROVE  HandTells'
<1>0. /\ task # Idle => task \in Task
      /\ place \notin {"loop", "asks", "takes", "out"} => task \in Task
      /\ place \in {"loop", "asks", "takes", "out"} => task = Idle
      /\ Idle \notin Task
      /\ state \in [Task -> {"pending", "running", "completed", "failed"}]
      /\ failures \in [Task -> Nat] /\ kept \in [Task -> Nat]
  BY HandIsTask DEF WorkTypeOK, WorkerTypeOK
<1> USE DEF HandTells, Before, Goes, backendVars, pluginVars, flagVars
<1>1. CASE Loop \/ Check
  BY <1>0, <1>1 DEF Loop, Check
<1>2. CASE Take
  <2>1. CASE task' = task /\ place' = "loop"
    BY <1>0, <1>2, <2>1 DEF Take, Claimed
  <2>2. ASSUME NEW t \in Task, Claimed(t), task' = t, place' = "validates", place = "takes"
        PROVE  HandTells'
    <3>1. /\ state[t] = "pending" /\ state'[t] = "running"
          /\ \A u \in Task : u # t => state'[u] = state[u]
          /\ UNCHANGED <<failures, kept>> /\ task = Idle
      BY <1>0, <1>2, <2>2 DEF Take, Claimed
    <3>2. kept[t] = 0 /\ failures[t] = 0
      BY <3>1
    <3>3. \A u \in Task : state'[u] = "pending" => kept'[u] = 0 /\ failures'[u] = 0 /\ task' # u
      BY <2>2, <3>1
    <3>4. QED
      BY <2>2, <3>1, <3>2, <3>3
  <2>3. QED
    BY <1>2, <2>1, <2>2 DEF Take
<1>3. CASE TakeRaises
  BY <1>0, <1>3 DEF TakeRaises, Claimed
<1>4. CASE Validate
  BY <1>0, <1>4 DEF Validate
<1>5. CASE Reject
  <2>1. /\ state' = [state EXCEPT ![task] = "failed"]
        /\ failures' = [failures EXCEPT ![task] = @ + 1] /\ UNCHANGED kept
        /\ place = "rejects" /\ task \in Task
        /\ \/ place' = "loop" /\ task' = Idle
           \/ place' = "excepts" /\ task' = task
    BY <1>0, <1>5 DEF Reject, FailJob, Marked, Release
  <2>2. /\ state'[task] = "failed" /\ failures'[task] = 1 /\ kept'[task] = 0
        /\ \A u \in Task : u # task =>
               state'[u] = state[u] /\ failures'[u] = failures[u] /\ kept'[u] = kept[u]
    BY <1>0, <2>1
  <2>3. \A u \in Task : state'[u] = "pending" => kept'[u] = 0 /\ failures'[u] = 0 /\ task' # u
    BY <1>0, <2>1, <2>2
  <2>4. QED
    BY <2>1, <2>2, <2>3
<1>6. CASE StartPlugin \/ ExtractTask \/ StopPlugin \/ AttemptRaises \/ Waited
  BY <1>0, <1>6 DEF StartPlugin, ExtractTask, StopPlugin, AttemptRaises, Waited
<1>7. CASE Save
  <2>1. /\ UNCHANGED <<state, failures, task>> /\ place = "saves" /\ task \in Task
        /\ \/ place' = "completes" /\ kept' = [kept EXCEPT ![task] = @ + 1]
           \/ place' = "excepts" /\ kept' \in {kept, [kept EXCEPT ![task] = @ + 1]}
    BY <1>0, <1>7 DEF Save
  <2>2. /\ \A u \in Task : u # task => kept'[u] = kept[u]
        /\ kept'[task] \in Nat /\ (place' = "completes" => kept'[task] > 0)
    BY <1>0, <2>1
  <2>3. state[task] = "running" /\ failures[task] = 0
    BY <2>1
  <2>4. QED
    BY <2>1, <2>2, <2>3
<1>8. CASE Complete
  <2>1. place = "completes" /\ task \in Task /\ kept[task] > 0 /\ failures[task] = 0
    BY <1>0, <1>8 DEF Complete
  <2>2. /\ UNCHANGED <<kept, failures>>
        /\ state' = state \/ state' = [state EXCEPT ![task] = "completed"]
        /\ \/ place' = "loop" /\ task' = Idle
           \/ place' = "excepts" /\ task' = task
    BY <1>8 DEF Complete, Marked, Release
  <2>3. /\ state'[task] \in {"running", "completed"}
        /\ \A u \in Task : u # task => state'[u] = state[u]
    BY <1>0, <2>1, <2>2
  <2>4. QED
    BY <1>0, <2>1, <2>2, <2>3
<1>9. CASE Except
  <2>1. /\ place = "excepts" /\ task \in Task /\ place' = "loop" /\ task' = Idle /\ UNCHANGED kept
        /\ \/ UNCHANGED <<state, failures>>
           \/ /\ state' = [state EXCEPT ![task] = "failed"]
              /\ failures' = [failures EXCEPT ![task] = @ + 1]
    BY <1>0, <1>9 DEF Except, FailJob, Marked, Release
  <2>2. \A u \in Task : state'[u] = "pending" => u # task /\ state[u] = "pending" /\ failures'[u] = failures[u]
    BY <1>0, <2>1
  <2>3. QED
    BY <1>0, <2>1, <2>2
<1>10. CASE Dies
  BY <1>0, <1>10 DEF Dies, Release
<1>11. CASE FlagStep
  BY <1>11 DEF FlagStep
<1>12. CASE UNCHANGED workVars
  BY <1>12 DEF workVars
<1>13. QED
  BY <1>1, <1>2, <1>3, <1>4, <1>5, <1>6, <1>7, <1>8, <1>9, <1>10, <1>11, <1>12
  DEF WorkerNext, FlagStep

\* Which jobs a step can spoil, and what it costs: nothing is spoilt for free.
LEMMA SpoiltStep ==
    ASSUME WorkTypeOK, HandTells, FaultsPay, [WorkerNext]_workVars,
           NEW t, Spoilt' \subseteq Spoilt \cup {t}, errors' \in Nat,
           \/ errors' = errors + 1 /\ (~Troubled' \/ Spoilt' \subseteq Spoilt)
           \/ errors' = errors /\ Spoilt' \subseteq Spoilt /\ (Troubled' => Troubled)
           \/ errors' = errors /\ Troubled /\ ~Troubled'
    PROVE  IsFiniteSet(Spoilt') /\ Cardinality(Spoilt') + One(Troubled)' <= errors'
<1> DEFINE S == Spoilt
           T == Spoilt'
<1>1. /\ IsFiniteSet(S) /\ Cardinality(S) + One(Troubled) <= errors /\ errors \in Nat
      /\ T \subseteq S \cup {t}
  BY DEF FaultsPay, WorkTypeOK
<1> HIDE DEF S, T
<1>2. /\ IsFiniteSet(S \cup {t})
      /\ Cardinality(S \cup {t}) = IF t \in S THEN Cardinality(S) ELSE Cardinality(S) + 1
  BY <1>1, FS_AddElement
<1>3. IsFiniteSet(T) /\ Cardinality(T) <= Cardinality(S \cup {t})
  BY <1>1, <1>2, FS_Subset
<1>4. T \subseteq S => Cardinality(T) <= Cardinality(S)
  BY <1>1, FS_Subset
<1>5. Cardinality(T) \in Nat /\ Cardinality(S) \in Nat
  BY <1>1, <1>3, FS_CardinalityType
<1>6. Cardinality(T) <= Cardinality(S) + 1
  BY <1>2, <1>3, <1>5
<1>7. One(Troubled)' = (IF Troubled' THEN 1 ELSE 0) /\ One(Troubled) = IF Troubled THEN 1 ELSE 0
  BY DEF One
<1>8. CASE errors' = errors + 1 /\ (~Troubled' \/ Spoilt' \subseteq Spoilt)
  <2>1. CASE ~Troubled'
    BY <1>1, <1>3, <1>5, <1>6, <1>7, <1>8, <2>1 DEF T
  <2>2. CASE Spoilt' \subseteq Spoilt
    BY <1>1, <1>3, <1>4, <1>5, <1>7, <1>8, <2>2 DEF S, T
  <2>3. QED
    BY <1>8, <2>1, <2>2
<1>9. CASE errors' = errors /\ Spoilt' \subseteq Spoilt /\ (Troubled' => Troubled)
  BY <1>1, <1>3, <1>4, <1>5, <1>7, <1>9 DEF S, T
<1>10. CASE errors' = errors /\ Troubled /\ ~Troubled'
  BY <1>1, <1>3, <1>5, <1>6, <1>7, <1>10 DEF T
<1>11. QED
  BY <1>8, <1>9, <1>10

\* A step that spoils a job costs a fault, now or, of a job in trouble, before.
LEMMA SpoiltMoves ==
    ASSUME WorkTypeOK, HandTells, [WorkerNext]_workVars
    PROVE  \E t : /\ Spoilt' \subseteq Spoilt \cup {t}
                  /\ \/ errors' = errors + 1 /\ (~Troubled' \/ Spoilt' \subseteq Spoilt)
                     \/ errors' = errors /\ Spoilt' \subseteq Spoilt /\ (Troubled' => Troubled)
                     \/ errors' = errors /\ Troubled /\ ~Troubled'
<1>0. /\ task # Idle => task \in Task
      /\ place \notin {"loop", "asks", "takes", "out"} => task \in Task
      /\ place \in {"loop", "asks", "takes", "out"} => task = Idle
      /\ Idle \notin Task
      /\ state \in [Task -> {"pending", "running", "completed", "failed"}]
      /\ failures \in [Task -> Nat] /\ kept \in [Task -> Nat]
  BY HandIsTask DEF WorkTypeOK, WorkerTypeOK
<1> DEFINE Free == errors' = errors /\ Spoilt' \subseteq Spoilt /\ (Troubled' => Troubled)
           Paid(t) == errors' = errors + 1 /\ Spoilt' \subseteq Spoilt \cup {t} /\ ~Troubled'
           PaidAhead == errors' = errors + 1 /\ Spoilt' \subseteq Spoilt
           Redeemed == errors' = errors /\ Spoilt' \subseteq Spoilt \cup {task} /\ Troubled /\ ~Troubled'
<1>1. SUFFICES Free \/ (\E t : Paid(t)) \/ PaidAhead \/ Redeemed
  OBVIOUS
<1>2. ASSUME UNCHANGED <<state, failures, kept, task, errors>>, Troubled' => Troubled PROVE Free
  BY <1>2 DEF Spoilt
<1>3. CASE Loop \/ Check \/ StartPlugin \/ ExtractTask \/ StopPlugin \/ Waited
  <2>1. UNCHANGED <<state, failures, kept, task, errors>> /\ place' # "excepts"
    BY <1>3 DEF Loop, Check, StartPlugin, ExtractTask, StopPlugin, Waited, Goes, backendVars
  <2>2. QED
    BY <1>2, <2>1 DEF Troubled
<1>4. CASE Validate \/ AttemptRaises
  <2>1. UNCHANGED <<state, failures, kept, task, errors>> /\ place \in Before
    BY <1>4 DEF Validate, AttemptRaises, backendVars, Before
  <2>2. ~Troubled'
    BY <2>1 DEF Troubled, HandTells
  <2>3. QED
    BY <1>2, <2>1, <2>2
<1>5. CASE Take
  <2>1. UNCHANGED <<failures, kept, errors>> /\ task = Idle /\ place' # "excepts"
    BY <1>0, <1>5 DEF Take, Goes
  <2>2. ASSUME NEW u \in Task, state'[u] = "running", task' # u PROVE state[u] = "running"
    BY <1>0, <1>5, <2>2 DEF Take, Claimed
  <2>3. ASSUME NEW u \in Task, state'[u] = "failed" PROVE state[u] = "failed"
    BY <1>0, <1>5, <2>3 DEF Take, Claimed
  <2>4. Spoilt' \subseteq Spoilt
    BY <1>0, <2>1, <2>2, <2>3 DEF Spoilt
  <2>5. QED
    BY <2>1, <2>4 DEF Troubled
<1>6. CASE TakeRaises
  <2>1. UNCHANGED <<failures, kept, task>> /\ place' = "loop" /\ errors' = errors + 1
    BY <1>6 DEF TakeRaises, Goes, Error
  <2>2. PICK t : \A u \in Task : u # t => state'[u] = state[u]
    BY <1>0, <1>6 DEF TakeRaises, Claimed
  <2>3. Spoilt' \subseteq Spoilt \cup {t}
    BY <2>1, <2>2 DEF Spoilt
  <2>4. ~Troubled'
    BY <2>1 DEF Troubled
  <2>5. QED
    BY <2>1, <2>3, <2>4
<1>7. CASE Reject
  <2>1. /\ state' = [state EXCEPT ![task] = "failed"]
        /\ failures' = [failures EXCEPT ![task] = @ + 1] /\ UNCHANGED kept
        /\ place = "rejects" /\ task \in Task
        /\ \/ place' = "loop" /\ task' = Idle /\ errors' = errors
           \/ place' = "excepts" /\ task' = task /\ errors' = errors + 1
    BY <1>0, <1>7 DEF Reject, FailJob, Marked, Release, Goes, Error
  <2>2. kept[task] = 0 /\ failures[task] = 0
    BY <2>1 DEF HandTells, Before
  <2>3. /\ state'[task] = "failed" /\ failures'[task] = 1 /\ kept'[task] = 0
        /\ \A u \in Task : u # task =>
               state'[u] = state[u] /\ failures'[u] = failures[u] /\ kept'[u] = kept[u]
    BY <1>0, <2>1, <2>2
  <2>4. Spoilt' \subseteq Spoilt
    <3>1. task \notin Spoilt'
      BY <2>3 DEF Spoilt
    <3>2. QED
      BY <2>3, <3>1 DEF Spoilt
  <2>5. QED
    BY <2>1, <2>4 DEF Troubled
<1>8. CASE Save
  <2>1. UNCHANGED <<state, failures, task>> /\ place = "saves" /\ task \in Task
    BY <1>0, <1>8 DEF Save, Goes
  <2>2. \A u \in Task : u # task => kept'[u] = kept[u]
    BY <1>0, <1>8 DEF Save
  <2>3. state[task] = "running"
    BY <2>1 DEF HandTells, Before
  <2>4. Spoilt' \subseteq Spoilt
    BY <2>1, <2>2, <2>3 DEF Spoilt
  <2>5. \/ errors' = errors /\ place' = "completes"
        \/ errors' = errors + 1
    BY <1>8 DEF Save, Goes, Error
  <2>6. QED
    BY <2>4, <2>5 DEF Troubled
<1>9. CASE Complete
  <2>1. place = "completes" /\ task \in Task /\ failures[task] = 0 /\ state[task] = "running"
    BY <1>0, <1>9 DEF Complete, HandTells, Goes
  <2>2. /\ UNCHANGED <<kept, failures>>
        /\ \/ /\ state' = [state EXCEPT ![task] = "completed"]
              /\ place' = "loop" /\ task' = Idle /\ errors' = errors
           \/ /\ state' = state \/ state' = [state EXCEPT ![task] = "completed"]
              /\ task' = task /\ errors' = errors + 1
    BY <1>9 DEF Complete, Marked, Release, Goes, Error
  <2>3. /\ state'[task] = "completed" \/ (state'[task] = "running" /\ task' = task)
        /\ \A u \in Task : u # task => state'[u] = state[u]
    BY <1>0, <2>1, <2>2
  <2>4. Spoilt' \subseteq Spoilt
    <3>1. task \notin Spoilt'
      BY <2>1, <2>2, <2>3 DEF Spoilt
    <3>2. QED
      BY <2>2, <2>3, <3>1 DEF Spoilt
  <2>5. QED
    BY <2>2, <2>4 DEF Troubled
<1>10. CASE Except
  <2>1. /\ place = "excepts" /\ task \in Task /\ place' = "loop" /\ task' = Idle /\ UNCHANGED kept
        /\ \/ errors' = errors + 1 /\ UNCHANGED <<state, failures>>
           \/ /\ errors' \in {errors, errors + 1}
              /\ state' = [state EXCEPT ![task] = "failed"]
              /\ failures' = [failures EXCEPT ![task] = @ + 1]
    BY <1>0, <1>10 DEF Except, FailJob, Marked, Release, Goes, Error, backendVars
  <2>2. \A u \in Task : u # task => state'[u] = state[u] /\ failures'[u] = failures[u]
    BY <1>0, <2>1
  <2>3. Spoilt' \subseteq Spoilt \cup {task} /\ ~Troubled'
    BY <2>1, <2>2 DEF Spoilt, Troubled
  <2>4. CASE errors' = errors + 1
    BY <2>3, <2>4
  <2>5. CASE errors' = errors /\ Troubled
    BY <2>3, <2>5
  <2>6. CASE errors' = errors /\ ~Troubled
    <3>1. kept[task] = 0 /\ failures[task] = 0
      BY <1>0, <2>1, <2>6 DEF Troubled
    <3>2. failures' = [failures EXCEPT ![task] = @ + 1] /\ state' = [state EXCEPT ![task] = "failed"]
      BY <2>1, <2>6 DEF WorkTypeOK
    <3>3. failures'[task] = 1 /\ kept'[task] = 0 /\ state'[task] = "failed"
      BY <1>0, <2>1, <3>1, <3>2
    <3>4. task \notin Spoilt'
      BY <3>3 DEF Spoilt
    <3>5. QED
      BY <2>3, <2>6, <3>4
  <2>7. QED
    BY <2>1, <2>4, <2>5, <2>6
<1>11. CASE Dies
  <2>1. UNCHANGED <<state, failures, kept>> /\ place' = "loop" /\ task' = Idle /\ errors' = errors + 1
    BY <1>11 DEF Dies, Release, Error, backendVars
  <2>2. Spoilt' \subseteq Spoilt \cup {task} /\ ~Troubled'
    BY <2>1 DEF Spoilt, Troubled
  <2>3. QED
    BY <2>1, <2>2
<1>12. CASE FlagStep
  <2>1. UNCHANGED <<state, failures, kept, task, errors, place>>
    BY <1>12 DEF FlagStep, backendVars
  <2>2. QED
    BY <1>2, <2>1 DEF Troubled
<1>13. CASE UNCHANGED workVars
  <2>1. UNCHANGED <<state, failures, kept, task, errors, place>>
    BY <1>13 DEF workVars
  <2>2. QED
    BY <1>2, <2>1 DEF Troubled
<1>14. QED
  BY <1>3, <1>4, <1>5, <1>6, <1>7, <1>8, <1>9, <1>10, <1>11, <1>12, <1>13
  DEF WorkerNext, FlagStep

\* Faults pay for what is spoilt and for what is failed again.
LEMMA StepFaultsPay ==
    ASSUME WorkTypeOK, HandTells, FaultsPay, [WorkerNext]_workVars, WorkTypeOK'
    PROVE  FaultsPay'
<1>0. /\ task # Idle => task \in Task
      /\ place \notin {"loop", "asks", "takes", "out"} => task \in Task
      /\ Idle \notin Task
      /\ state \in [Task -> {"pending", "running", "completed", "failed"}]
      /\ failures \in [Task -> Nat] /\ kept \in [Task -> Nat]
  BY HandIsTask DEF WorkTypeOK, WorkerTypeOK
<1>1. IsFiniteSet(Spoilt') /\ Cardinality(Spoilt') + One(Troubled)' <= errors'
  <2>1. errors' \in Nat
    BY DEF WorkTypeOK
  <2>2. QED
    BY <2>1, SpoiltMoves, SpoiltStep
<1>2. errors \in Nat /\ errors' \in Nat /\ errors <= errors'
  <2>1. errors' = errors \/ errors' = errors + 1
    BY SpoiltMoves
  <2>2. QED
    BY <2>1 DEF WorkTypeOK
<1>3. /\ \A t \in Task : failures[t] <= 1 + errors /\ (state[t] = "completed" => kept[t] > 0)
      /\ task # Idle => failures[task] <= errors
      /\ \A t \in Task : failures[t] \in Nat
  BY <1>0 DEF FaultsPay
<1>4. SUFFICES /\ \A t \in Task : failures'[t] <= 1 + errors' /\ (state'[t] = "completed" => kept'[t] > 0)
               /\ task' # Idle => failures'[task'] <= errors'
  BY <1>1 DEF FaultsPay
<1>5. ASSUME UNCHANGED <<failures, kept>>, task' = task \/ task' = Idle,
             \A t \in Task : state'[t] = "completed" => state[t] = "completed" \/ kept[t] > 0
      PROVE  /\ \A t \in Task : failures'[t] <= 1 + errors' /\ (state'[t] = "completed" => kept'[t] > 0)
             /\ task' # Idle => failures'[task'] <= errors'
  <2>1. ASSUME NEW t \in Task
        PROVE  failures'[t] <= 1 + errors' /\ (state'[t] = "completed" => kept'[t] > 0)
    <3>1. failures'[t] = failures[t] /\ kept'[t] = kept[t] /\ failures[t] \in Nat
      BY <1>3, <1>5
    <3>2. QED
      BY <1>2, <1>3, <1>5, <3>1
  <2>2. ASSUME task' # Idle PROVE failures'[task'] <= errors'
    <3>1. task \in Task /\ failures'[task'] = failures[task] /\ failures[task] \in Nat
      BY <1>0, <1>3, <1>5, <2>2
    <3>2. QED
      BY <1>2, <1>3, <1>5, <2>2, <3>1
  <2>3. QED
    BY <2>1, <2>2
<1>6. CASE \/ Loop \/ Check \/ Validate \/ StartPlugin \/ ExtractTask \/ StopPlugin \/ AttemptRaises
           \/ Waited \/ Dies \/ FlagStep \/ UNCHANGED workVars
  <2>1. UNCHANGED <<state, failures, kept>> /\ (task' = task \/ task' = Idle)
    BY <1>6 DEF Loop, Check, Validate, StartPlugin, ExtractTask, StopPlugin, AttemptRaises, Waited,
                Dies, Release, FlagStep, backendVars, workVars
  <2>2. QED
    BY <1>5, <2>1
<1>7. CASE Take
  <2>1. UNCHANGED <<failures, kept>>
    BY <1>7 DEF Take
  <2>2. \A t \in Task : state'[t] = "completed" => state[t] = "completed"
    BY <1>0, <1>7 DEF Take, Claimed
  <2>3. ASSUME NEW t \in Task, Claimed(t), task' = t PROVE failures'[task'] = 0
    BY <2>1, <2>3 DEF Claimed, HandTells
  <2>4. CASE task' = task
    BY <1>5, <2>1, <2>2, <2>4
  <2>5. CASE failures'[task'] = 0
    <3>1. ASSUME NEW t \in Task
          PROVE  failures'[t] <= 1 + errors' /\ (state'[t] = "completed" => kept'[t] > 0)
      BY <1>2, <1>3, <2>1, <2>2
    <3>2. QED
      BY <1>2, <2>5, <3>1
  <2>6. QED
    BY <1>7, <2>3, <2>4, <2>5 DEF Take
<1>8. CASE TakeRaises
  <2>1. UNCHANGED <<failures, kept, task>>
    BY <1>8 DEF TakeRaises
  <2>2. \A t \in Task : state'[t] = "completed" => state[t] = "completed"
    BY <1>0, <1>8 DEF TakeRaises, Claimed
  <2>3. QED
    BY <1>5, <2>1, <2>2
<1>9. CASE Reject
  <2>1. /\ state' = [state EXCEPT ![task] = "failed"]
        /\ failures' = [failures EXCEPT ![task] = @ + 1] /\ UNCHANGED kept
        /\ place = "rejects" /\ task \in Task
        /\ \/ task' = Idle /\ errors' = errors
           \/ task' = task /\ errors' = errors + 1
    BY <1>0, <1>9 DEF Reject, FailJob, Marked, Release, Goes, Error
  <2>2. failures[task] = 0
    BY <2>1 DEF HandTells, Before
  <2>3. /\ failures'[task] = 1 /\ state'[task] = "failed"
        /\ \A u \in Task : u # task =>
               state'[u] = state[u] /\ failures'[u] = failures[u] /\ kept'[u] = kept[u]
    BY <1>0, <2>1, <2>2
  <2>4. ASSUME NEW t \in Task
        PROVE  failures'[t] <= 1 + errors' /\ (state'[t] = "completed" => kept'[t] > 0)
    <3>1. CASE t = task
      BY <1>2, <2>3, <3>1
    <3>2. CASE t # task
      BY <1>2, <1>3, <2>3, <3>2
    <3>3. QED
      BY <3>1, <3>2
  <2>5. task' # Idle => failures'[task'] <= errors'
    BY <1>2, <2>1, <2>3
  <2>6. QED
    BY <2>4, <2>5
<1>10. CASE Save
  <2>1. UNCHANGED <<state, failures, task>> /\ task \in Task
    BY <1>0, <1>10 DEF Save, Goes
  <2>2. \A u \in Task : kept'[u] = kept[u] \/ kept'[u] = kept[u] + 1
    BY <1>0, <1>10, <2>1 DEF Save
  <2>3. ASSUME NEW t \in Task
        PROVE  failures'[t] <= 1 + errors' /\ (state'[t] = "completed" => kept'[t] > 0)
    <3>1. kept[t] \in Nat /\ failures[t] \in Nat
      BY <1>0
    <3>2. QED
      BY <1>2, <1>3, <2>1, <2>2, <3>1
  <2>4. failures'[task'] <= errors'
    BY <1>0, <1>2, <1>3, <2>1
  <2>5. QED
    BY <2>3, <2>4
<1>11. CASE Complete
  <2>1. place = "completes" /\ task \in Task /\ kept[task] > 0
    BY <1>0, <1>11 DEF Complete, HandTells, Goes
  <2>2. /\ UNCHANGED <<kept, failures>> /\ (task' = task \/ task' = Idle)
        /\ state' = state \/ state' = [state EXCEPT ![task] = "completed"]
    BY <1>11 DEF Complete, Marked, Release
  <2>3. \A u \in Task : u # task => state'[u] = state[u]
    BY <1>0, <2>2
  <2>4. QED
    BY <1>5, <2>1, <2>2, <2>3
<1>12. CASE Except
  <2>1. /\ task \in Task /\ task' = Idle /\ UNCHANGED kept
        /\ \/ UNCHANGED <<state, failures>>
           \/ /\ state' = [state EXCEPT ![task] = "failed"]
              /\ failures' = [failures EXCEPT ![task] = @ + 1]
    BY <1>0, <1>12 DEF Except, FailJob, Marked, Release, Goes, backendVars
  <2>2. CASE UNCHANGED <<state, failures>>
    BY <1>5, <2>1, <2>2
  <2>3. CASE /\ state' = [state EXCEPT ![task] = "failed"]
             /\ failures' = [failures EXCEPT ![task] = @ + 1]
    <3>1. /\ failures'[task] = failures[task] + 1 /\ state'[task] = "failed"
          /\ \A u \in Task : u # task =>
                 state'[u] = state[u] /\ failures'[u] = failures[u] /\ kept'[u] = kept[u]
      BY <1>0, <2>1, <2>3
    <3>2. failures[task] <= errors
      BY <1>0, <1>3, <2>1
    <3>3. ASSUME NEW t \in Task
          PROVE  failures'[t] <= 1 + errors' /\ (state'[t] = "completed" => kept'[t] > 0)
      <4>1. CASE t = task
        BY <1>2, <1>3, <3>1, <3>2, <4>1
      <4>2. CASE t # task
        BY <1>2, <1>3, <3>1, <4>2
      <4>3. QED
        BY <4>1, <4>2
    <3>4. QED
      BY <2>1, <3>3
  <2>4. QED
    BY <2>1, <2>2, <2>3
<1>13. QED
  BY <1>6, <1>7, <1>8, <1>9, <1>10, <1>11, <1>12 DEF WorkerNext, FlagStep

\* The invariant is inductive.
LEMMA StepWorkInv == WorkInv /\ [WorkerNext]_workVars => WorkInv'
BY StepWorkTypeOK, StepHandTells, StepFaultsPay, StepInTransit, StepPlugins DEF WorkInv

\* For any number of jobs, attempts and faults: a completed job has left a
\* result, every job that ended otherwise than it should has cost a fault of
\* its own, at most the job in transit is taken after a request to shut down,
\* and no plugin is left running by an attempt that did not raise.
THEOREM WorkSafety == WorkerSpec => []WorkIsAccounted
<1>1. WorkInv => WorkIsAccounted
  <2> SUFFICES ASSUME WorkInv PROVE WorkIsAccounted
    OBVIOUS
  <2>1. WorkTypeOK /\ FaultsPay /\ OneInTransit /\ PluginsAccounted
    BY DEF WorkInv
  <2>2. Cardinality(Spoilt) \in Nat
    BY <2>1, FS_CardinalityType DEF FaultsPay
  <2>3. errors >= Cardinality(Spoilt)
    BY <2>1, <2>2 DEF FaultsPay, One, WorkTypeOK
  <2>4. place = "loop" => started <= broken
    BY <2>1 DEF PluginsAccounted, One, WorkTypeOK
  <2>5. QED
    BY <2>1, <2>3, <2>4 DEF WorkTypeOK, FaultsPay, OneInTransit, Spoilt, WorkIsAccounted
<1>2. QED
  BY <1>1, InitWorkInv, StepWorkInv, PTL DEF WorkerSpec

-----------------------------------------------------------------------------
(* LeadSync: the inductive invariant.                                      *)

NoneTwice(q) == \A i, j \in 1 .. Len(q) : q[i] = q[j] => i = j

Looping == {"extract", "crawling", "post", "mark"}
LoopOf(at) == IF at = "mark" THEN "post" ELSE at

\* A process has rows in hand exactly while it is in a loop.
LoopsHaveRows == \A p \in Process : todo[p] # <<>> <=> stage[p] \in Looping

\* A process that is about to mark a lead has the server's word for it.
MarkIsAccepted == \A p \in Process : stage[p] = "mark" => accepted[Head(todo[p])] > 0

\* The one process that is in a loop has each of its rows once, all of them
\* among the leads it was to select from.
Alone(loop, leads) ==
    \A p \in Process : LoopOf(stage[p]) = loop =>
        /\ NoneTwice(todo[p])
        /\ \A i \in 1 .. Len(todo[p]) : todo[p][i] \in leads
        /\ \A q \in Process : LoopOf(stage[q]) = loop => q = p

\* While no two processes have been in a loop, its rows are as selected.
ExtractAlone ==
    "extract" \notin overlapped => Alone("extract", {b \in Lead : status[b] # "done"})

CrawlAlone ==
    "crawling" \notin overlapped =>
        /\ Alone("crawling", {b \in Lead : extractions[b] = 0})
        /\ \A b \in Lead : extractions[b] <= 1

SyncedAlone == overlapped \cap {"crawling", "post"} = {}

PostAlone == SyncedAlone => Alone("post", Lead \ synced)

\* The posts of a lead that left a mark, or are about to.
MarkedOrDue(b) == b \in synced \/ \E p \in Process : stage[p] = "mark" /\ Head(todo[p]) = b

PostsAreMarked ==
    SyncedAlone =>
        \A b \in Lead :
            accepted[b] <= lostAcks[b] + 1 /\ (~MarkedOrDue(b) => accepted[b] <= lostAcks[b])

LeadInv ==
    /\ SyncedWasAccepted
    /\ LoopsHaveRows
    /\ MarkIsAccepted
    /\ ExtractAlone
    /\ CrawlAlone
    /\ PostAlone
    /\ PostsAreMarked

-----------------------------------------------------------------------------
(* Selection: what a selection returns.                                    *)

\* A set of numbers that is not empty has a least one.
LEMMA LeastNumber ==
  ASSUME NEW S, S \subseteq Nat, S # {}
  PROVE  \E n \in S : \A m \in S : n <= m
<1> DEFINE R == {ss \in Nat \X Nat : ss[1] < ss[2]}
<1>1. IsWellFoundedOn(R, Nat)
  BY NatLessThanWellFounded DEF OpToRel
<1>2. \A m, n \in Nat : <<m, n>> \notin R => n <= m
  OBVIOUS
<1> HIDE DEF R
<1>3. \E n \in S : \A m \in S : <<m, n>> \notin R
  BY <1>1, WFMin
<1>4. QED
  BY <1>2, <1>3

Row == Nat \X Nat

\* Of the rows of a result one has the least id.
LEMMA FirstRow ==
  ASSUME NEW s \in SUBSET Row, s # {}
  PROVE  \E r \in s : \A t \in s : r[1] <= t[1]
<1> DEFINE D == {t[1] : t \in s}
<1>1. D \subseteq Nat /\ D # {}
  BY DEF Row
<1>2. PICK d \in D : \A e \in D : d <= e
  <2> HIDE DEF D
  <2>1. QED
    BY <1>1, LeastNumber
<1>3. QED
  BY <1>2

Sorts(q, s) ==
    /\ q \in [1 .. Cardinality(s) -> s]
    /\ IsInjective(q) /\ \A i, j \in DOMAIN q : i < j => q[i][1] <= q[j][1]

\* A row in front of the others that has their least id leaves them sorted.
LEMMA RowInFront ==
  ASSUME NEW s \in SUBSET Row, NEW r \in s, IsFiniteSet(s),
         \A t \in s : r[1] <= t[1], \E q : Sorts(q, s \ {r})
  PROVE  \E q : Sorts(q, s)
<1>1. PICK n \in Nat : n = Cardinality(s)
  BY FS_CardinalityType
<1>2. /\ IsFiniteSet(s \ {r}) /\ Cardinality(s \ {r}) = n - 1
      /\ n - 1 \in Nat
  <2>1. IsFiniteSet(s \ {r}) /\ Cardinality(s \ {r}) = n - 1
    BY <1>1, FS_RemoveElement
  <2>2. n # 0
    BY <1>1, FS_EmptySet
  <2>3. QED
    BY <2>1, <2>2
<1>3. PICK q : Sorts(q, s \ {r})
  OBVIOUS
<1>4. /\ q \in [1 .. n - 1 -> s \ {r}] /\ IsInjective(q)
      /\ \A i, j \in 1 .. n - 1 : i < j => q[i][1] <= q[j][1]
  BY <1>2, <1>3 DEF Sorts
<1> DEFINE p == [i \in 1 .. n |-> IF i = 1 THEN r ELSE q[i - 1]]
<1>5. \A i \in 1 .. n : i = 1 \/ i - 1 \in 1 .. n - 1
  BY <1>2
<1>6. /\ p \in [1 .. n -> s] /\ (1 \in 1 .. n => p[1] = r)
      /\ \A i \in 1 .. n : i # 1 => p[i] = q[i - 1] /\ q[i - 1] \in s /\ q[i - 1] # r
  BY <1>1, <1>2, <1>4, <1>5
<1> HIDE DEF p
<1>7. IsInjective(p)
  <2> SUFFICES ASSUME NEW i \in 1 .. n, NEW j \in 1 .. n, p[i] = p[j] PROVE i = j
    BY <1>6 DEF IsInjective
  <2>1. CASE i = 1 \/ j = 1
    BY <1>6, <2>1
  <2>2. CASE i # 1 /\ j # 1
    <3>1. q[i - 1] = q[j - 1] /\ i - 1 \in 1 .. n - 1 /\ j - 1 \in 1 .. n - 1
      BY <1>5, <1>6, <2>2
    <3>2. i - 1 = j - 1
      BY <1>4, <3>1 DEF IsInjective
    <3>3. QED
      BY <3>2
  <2>3. QED
    BY <2>1, <2>2
<1>8. ASSUME NEW i \in 1 .. n, NEW j \in 1 .. n, i < j PROVE p[i][1] <= p[j][1]
  <2>1. j # 1
    BY <1>8
  <2>2. CASE i = 1
    BY <1>6, <2>1, <2>2
  <2>3. CASE i # 1
    <3>1. i - 1 \in 1 .. n - 1 /\ j - 1 \in 1 .. n - 1 /\ i - 1 < j - 1
      BY <1>5, <1>8, <2>1, <2>3
    <3>2. QED
      BY <1>4, <1>6, <2>1, <2>3, <3>1
  <2>4. QED
    BY <2>2, <2>3
<1>9. Sorts(p, s)
  BY <1>1, <1>6, <1>7, <1>8 DEF Sorts
<1>10. QED
  BY <1>9

\* The rows of a result can be put in the order of their ids, however many.
LEMMA RowsAreSorted ==
  ASSUME NEW s \in SUBSET Row, IsFiniteSet(s)
  PROVE  \E q : Sorts(q, s)
<1> DEFINE Unsorted(t) == t \in SUBSET Row /\ IsFiniteSet(t) /\ ~ \E q : Sorts(q, t)
           N == {Cardinality(t) : t \in {u \in SUBSET Row : Unsorted(u)}}
<1>1. SUFFICES ASSUME Unsorted(s) PROVE FALSE
  OBVIOUS
<1>2. N \subseteq Nat
  BY FS_CardinalityType
<1>3. N # {}
  BY <1>1
<1>4. PICK n \in N : \A m \in N : n <= m
  <2> HIDE DEF N
  <2>1. QED
    BY <1>2, <1>3, LeastNumber
<1>5. PICK t \in SUBSET Row : Unsorted(t) /\ Cardinality(t) = n
  OBVIOUS
<1>6. n \in Nat /\ IsFiniteSet(t)
  BY <1>2, <1>5
<1>7. CASE t = {}
  <2>1. Cardinality(t) = 0
    BY <1>7, FS_EmptySet
  <2>2. Sorts([i \in 1 .. 0 |-> 0], t)
    BY <2>1 DEF Sorts, IsInjective
  <2>3. QED
    BY <1>5, <2>2
<1>8. CASE t # {}
  <2>1. PICK r \in t : \A u \in t : r[1] <= u[1]
    BY <1>8, FirstRow
  <2>2. IsFiniteSet(t \ {r}) /\ Cardinality(t \ {r}) = n - 1
    BY <1>5, <1>6, FS_RemoveElement
  <2>3. ~ Unsorted(t \ {r})
    <3>1. ASSUME Unsorted(t \ {r}) PROVE FALSE
      <4>1. n - 1 \in N
        BY <2>2, <3>1
      <4>2. n <= n - 1
        BY <1>4, <4>1
      <4>3. QED
        BY <1>6, <4>2
    <3>2. QED
      BY <3>1
  <2>4. \E q : Sorts(q, t \ {r})
    BY <2>2, <2>3
  <2>5. \E q : Sorts(q, t)
    <3> HIDE DEF Unsorted, N
    <3>1. QED
      BY <1>6, <2>1, <2>4, RowInFront
  <2>6. QED
    BY <1>5, <2>5
<1>9. QED
  BY <1>7, <1>8

\* The ids of f are those of the first k rows of q, which are rows of s, each
\* at most once.
Lists(f, s, q, k) ==
    /\ f = [i \in 1 .. k |-> q[i][1]]
    /\ (k = 0 <=> s = {})
    /\ \A i \in 1 .. k : q[i] \in s
    /\ \A i, j \in 1 .. k : q[i] = q[j] => i = j

\* A selection has rows of its result, each at most once, and is empty only
\* if the result is; without a limit it has them all.
LEMMA SelectedRows ==
  ASSUME NEW s \in SUBSET Row, IsFiniteSet(s), NEW limit \in Nat, s # {} => limit > 0
  PROVE  \E q : \E k \in Nat :
           /\ Lists(FirstById(s, limit), s, q, k)
           /\ limit >= Cardinality(s) => \A r \in s : \E i \in 1 .. k : q[i] = r
<1>1. PICK n \in Nat : n = Cardinality(s)
  BY FS_CardinalityType
<1>2. PICK q : q = ById(s)
  OBVIOUS
<1>3. q \in [1 .. n -> s] /\ IsInjective(q)
  <2>1. \E p \in [1 .. Cardinality(s) -> s] :
           IsInjective(p) /\ \A i, j \in DOMAIN p : i < j => p[i][1] <= p[j][1]
    BY RowsAreSorted DEF Sorts
  <2>2. QED
    BY <1>1, <1>2, <2>1 DEF ById
<1>4. PICK k : k = IF n < limit THEN n ELSE limit
  OBVIOUS
<1>5. k \in Nat /\ k <= n /\ (n # 0 /\ limit > 0 => k > 0) /\ (limit >= n => k = n)
  BY <1>4
<1>6. FirstById(s, limit) = [i \in 1 .. k |-> q[i][1]]
  BY <1>1, <1>2, <1>4 DEF FirstById
<1>7. s = {} <=> n = 0
  BY <1>1, FS_EmptySet
<1>8. \A i \in 1 .. k : i \in 1 .. n
  BY <1>5
<1>9. \A i, j \in 1 .. k : q[i] = q[j] => i = j
  BY <1>3, <1>8 DEF IsInjective
<1>10. ASSUME limit >= n, NEW r \in s PROVE \E i \in 1 .. k : q[i] = r
  <2>1. q \in Surjection(1 .. n, s)
    <3>1. q \in Injection(1 .. n, s)
      BY <1>3 DEF Injection, IsInjective
    <3>2. IsFiniteSet(1 .. n) /\ Cardinality(1 .. n) = n
      <4>1. 1 \in Int /\ n \in Int
        OBVIOUS
      <4>2. QED
        BY <4>1, FS_Interval
    <3>3. QED
      BY <1>1, <3>1, <3>2, FS_Injection
  <2>2. QED
    BY <1>5, <1>10, <2>1 DEF Surjection
<1>11. Lists(FirstById(s, limit), s, q, k)
  BY <1>3, <1>5, <1>6, <1>7, <1>8, <1>9 DEF Lists
<1>12. QED
  BY <1>1, <1>5, <1>10, <1>11

\* Rows of a table are finitely many, and each id has one of them.
LEMMA UnjoinedRows ==
  ASSUME NEW ids \in SUBSET Nat, IsFiniteSet(ids)
  PROVE  /\ IsFiniteSet(Unjoined(ids)) /\ Unjoined(ids) \in SUBSET Row
         /\ Cardinality(Unjoined(ids)) = Cardinality(ids)
         /\ (Unjoined(ids) = {} <=> ids = {})
         /\ \A r \in Unjoined(ids) : r[1] \in ids
         /\ \A r, t \in Unjoined(ids) : r[1] = t[1] => r = t
         /\ \A b \in ids : <<b, 1>> \in Unjoined(ids)
<1>1. IsFiniteSet({1}) /\ Cardinality({1}) = 1 /\ Cardinality(ids) \in Nat
  BY FS_Singleton, FS_CardinalityType
<1>2. IsFiniteSet(Unjoined(ids)) /\ Cardinality(Unjoined(ids)) = Cardinality(ids)
  BY <1>1, FS_Product DEF Unjoined
<1>3. \A b \in ids : <<b, 1>> \in Unjoined(ids)
  BY DEF Unjoined
<1>4. \A r \in Unjoined(ids) : r[1] \in ids /\ r[2] = 1 /\ r = <<r[1], r[2]>> /\ r \in Row
  <2>1. \A r \in Unjoined(ids) : r[1] \in ids /\ r[2] = 1 /\ r = <<r[1], r[2]>>
    BY DEF Unjoined
  <2>2. \A b \in ids : <<b, 1>> \in Row
    BY DEF Row
  <2>3. QED
    BY <2>1, <2>2
<1>5. Unjoined(ids) = {} <=> ids = {}
  BY <1>3, <1>4
<1>6. \A r, t \in Unjoined(ids) : r[1] = t[1] => r = t
  BY <1>4
<1>7. QED
  BY <1>2, <1>3, <1>4, <1>5, <1>6

\* Joined rows are finitely many; an id without a second match has one.
LEMMA JoinedRows ==
  ASSUME NEW ids \in SUBSET Nat, IsFiniteSet(ids), NEW n, \A b \in ids : n[b] \in Nat,
         NEW s, \A r : r \in s <=> \E b \in ids : r \in LeftJoined(b, n[b])
  PROVE  /\ IsFiniteSet(s) /\ s \in SUBSET Row
         /\ \A r \in s : r[1] \in ids
         /\ \A r, t \in s : r[1] = t[1] /\ n[r[1]] <= 1 => r = t
<1>1. s = UNION {LeftJoined(b, n[b]) : b \in ids}
  <2>1. \A r : r \in UNION {LeftJoined(b, n[b]) : b \in ids} <=> r \in s
    OBVIOUS
  <2>2. QED
    BY <2>1
<1>2. ASSUME NEW b \in ids
      PROVE  /\ IsFiniteSet(LeftJoined(b, n[b])) /\ LeftJoined(b, n[b]) \in SUBSET Row
             /\ \A r \in LeftJoined(b, n[b]) : r = <<b, r[2]>> /\ (n[b] <= 1 => r[2] = 1)
  <2>1. PICK m \in Nat : m = IF n[b] = 0 THEN 1 ELSE n[b]
    OBVIOUS
  <2>2. LeftJoined(b, n[b]) = {b} \X (1 .. m)
    BY <2>1 DEF LeftJoined
  <2>3. IsFiniteSet({b}) /\ IsFiniteSet(1 .. m)
    <3>1. 1 \in Int /\ m \in Int
      OBVIOUS
    <3>2. IsFiniteSet(1 .. m)
      BY <3>1, FS_Interval
    <3>3. QED
      BY <3>2, FS_Singleton
  <2>4. IsFiniteSet({b} \X (1 .. m))
    BY <2>3, FS_Product
  <2>5. \A r \in LeftJoined(b, n[b]) : r = <<b, r[2]>> /\ r[2] \in 1 .. m
    BY <2>2
  <2>6. \A r \in LeftJoined(b, n[b]) : r \in Row
    <3>1. \A k \in 1 .. m : <<b, k>> \in Row
      BY DEF Row
    <3>2. QED
      BY <2>5, <3>1
  <2>7. n[b] <= 1 => m = 1
    BY <2>1
  <2>8. \A r \in LeftJoined(b, n[b]) : n[b] <= 1 => r[2] = 1
    BY <2>5, <2>7
  <2>9. QED
    BY <2>2, <2>4, <2>5, <2>6, <2>8
<1>3. IsFiniteSet(s)
  <2>1. IsFiniteSet({LeftJoined(b, n[b]) : b \in ids})
    <3>1. [b \in ids |-> LeftJoined(b, n[b])] \in Surjection(ids, {LeftJoined(b, n[b]) : b \in ids})
      BY DEF Surjection
    <3>2. QED
      BY <3>1, FS_Surjection
  <2>2. PICK parts : parts = {LeftJoined(b, n[b]) : b \in ids}
    OBVIOUS
  <2>3. \A t \in parts : IsFiniteSet(t)
    BY <1>2, <2>2
  <2>4. IsFiniteSet(UNION parts)
    BY <2>1, <2>2, <2>3, FS_UNION
  <2>5. QED
    BY <1>1, <2>2, <2>4
<1>4. s \in SUBSET Row
  BY <1>1, <1>2
<1>5. \A r \in s : r[1] \in ids /\ r \in LeftJoined(r[1], n[r[1]])
  BY <1>1, <1>2
<1>6. ASSUME NEW r \in s, NEW t \in s, r[1] = t[1], n[r[1]] <= 1 PROVE r = t
  BY <1>2, <1>5, <1>6
<1>7. QED
  BY <1>1, <1>3, <1>4, <1>5, <1>6

\* Positions of k in q: at most one.
OnceIn(k, q) == \A i, j \in 1 .. Len(q) : q[i] = k /\ q[j] = k => i = j

\* What a selection lists: ids of its result, an id with one row at most once;
\* nothing only if the result is empty, and everything if the limit allows it.
LEMMA SelectedIds ==
  ASSUME NEW ids \in SUBSET Nat, NEW s \in SUBSET Row, IsFiniteSet(s),
         \A r \in s : r[1] \in ids, NEW limit \in Nat, s # {} => limit > 0
  PROVE  /\ FirstById(s, limit) \in Seq(ids)
         /\ (FirstById(s, limit) = <<>> <=> s = {})
         /\ \A b \in ids : (\A r, t \in s : r[1] = b /\ t[1] = b => r = t)
                => OnceIn(b, FirstById(s, limit))
         /\ limit >= Cardinality(s) =>
                \A r \in s : \E i \in 1 .. Len(FirstById(s, limit)) : FirstById(s, limit)[i] = r[1]
<1>1. PICK f : f = FirstById(s, limit)
  OBVIOUS
<1>2. PICK q : \E k \in Nat :
          /\ Lists(f, s, q, k)
          /\ limit >= Cardinality(s) => \A r \in s : \E i \in 1 .. k : q[i] = r
  BY <1>1, SelectedRows
<1>3. PICK k \in Nat :
          /\ Lists(f, s, q, k)
          /\ limit >= Cardinality(s) => \A r \in s : \E i \in 1 .. k : q[i] = r
  BY <1>2
<1>4. \A i \in 1 .. k : q[i] \in s /\ q[i][1] \in ids
  BY <1>3 DEF Lists
<1>5. f \in Seq(ids) /\ Len(f) = k /\ \A i \in 1 .. k : f[i] = q[i][1]
  <2>1. f \in [1 .. k -> ids] /\ \A i \in 1 .. k : f[i] = q[i][1]
    BY <1>3, <1>4 DEF Lists
  <2>2. QED
    BY <1>3, <2>1
<1>6. f = <<>> <=> s = {}
  <2>1. f = <<>> <=> k = 0
    BY <1>5
  <2>2. QED
    BY <1>3, <2>1 DEF Lists
<1>7. ASSUME NEW b \in ids, \A r, t \in s : r[1] = b /\ t[1] = b => r = t
      PROVE  OnceIn(b, f)
  <2>1. ASSUME NEW i \in 1 .. k, NEW j \in 1 .. k, f[i] = b, f[j] = b PROVE i = j
    <3>1. q[i] = q[j]
      BY <1>4, <1>5, <1>7, <2>1
    <3>2. QED
      BY <1>3, <2>1, <3>1 DEF Lists
  <2>2. QED
    BY <1>5, <2>1 DEF OnceIn
<1>8. limit >= Cardinality(s) => \A r \in s : \E i \in 1 .. Len(f) : f[i] = r[1]
  BY <1>3, <1>5
<1>9. QED
  BY <1>1, <1>5, <1>6, <1>7, <1>8

-----------------------------------------------------------------------------
(* LeadSync: what its selections return.                                   *)

\* The leads are finitely many, and numbers; where there are some, the bound
\* is positive.
LEMMA LeadsAreFinite ==
  ASSUME NEW s \in SUBSET Lead
  PROVE  s \in SUBSET Nat /\ IsFiniteSet(s) /\ MaxLeads \in Nat /\ (s # {} => MaxLeads > 0)
<1>1. MaxLeads \in Nat /\ 1 \in Int /\ MaxLeads \in Int
  BY LeadAssumption
<1>2. IsFiniteSet(1 .. MaxLeads)
  BY <1>1, FS_Interval
<1>3. IsFiniteSet(s) /\ s \in SUBSET Nat
  <2>1. Lead = 1 .. MaxLeads
    BY DEF Lead
  <2>2. s \in SUBSET (1 .. MaxLeads)
    BY <2>1
  <2>3. IsFiniteSet(s)
    BY <1>2, <2>2, FS_Subset
  <2>4. s \in SUBSET Nat
    BY <1>1, <2>2
  <2>5. QED
    BY <2>3, <2>4
<1>4. ASSUME s # {} PROVE MaxLeads > 0
  <2>1. PICK b \in 1 .. MaxLeads : TRUE
    BY <1>4 DEF Lead
  <2>2. QED
    BY <1>1, <2>1
<1>5. QED
  BY <1>1, <1>3, <1>4

\* A selection without a join.
LEMMA TableLeads ==
  ASSUME NEW s \in SUBSET Lead, NEW limit \in Nat, s # {} => limit > 0
  PROVE  /\ FirstById(Unjoined(s), limit) \in Seq(Lead)
         /\ (FirstById(Unjoined(s), limit) = <<>> <=> s = {})
         /\ \A i \in 1 .. Len(FirstById(Unjoined(s), limit)) : FirstById(Unjoined(s), limit)[i] \in s
         /\ NoneTwice(FirstById(Unjoined(s), limit))
<1>1. PICK u : u = Unjoined(s)
  OBVIOUS
<1>2. /\ IsFiniteSet(u) /\ u \in SUBSET Row /\ (u = {} <=> s = {})
      /\ \A r \in u : r[1] \in s
      /\ \A r, t \in u : r[1] = t[1] => r = t
  BY <1>1, LeadsAreFinite, UnjoinedRows
<1>3. u # {} => limit > 0
  BY <1>2
<1>4. PICK f : f = FirstById(u, limit)
  OBVIOUS
<1>5. /\ f \in Seq(s) /\ (f = <<>> <=> u = {})
      /\ \A b \in s : (\A r, t \in u : r[1] = b /\ t[1] = b => r = t) => OnceIn(b, f)
  <2>1. s \in SUBSET Nat
    BY LeadsAreFinite
  <2>2. QED
    BY <1>2, <1>3, <1>4, <2>1, SelectedIds
<1>6. f \in Seq(Lead) /\ \A i \in 1 .. Len(f) : f[i] \in s
  BY <1>5
<1>7. NoneTwice(f)
  BY <1>2, <1>5, <1>6 DEF OnceIn, NoneTwice
<1>8. QED
  BY <1>1, <1>2, <1>4, <1>5, <1>6, <1>7

\* An extraction is given rows that are not done, each once.
LEMMA NextIsUndone ==
  ASSUME LeadTypeOK
  PROVE  /\ NextBusinesses \in Seq(Lead) /\ NoneTwice(NextBusinesses)
         /\ \A i \in 1 .. Len(NextBusinesses) : status[NextBusinesses[i]] # "done"
<1> DEFINE retryable == {b \in Lead : status[b] = "failed" /\ retryCount[b] < RetryLimit}
           first == {b \in retryable : \A c \in retryable : retryCount[b] <= retryCount[c]}
           pending == {b \in Lead : status[b] = "pending"}
<1>1. PICK f : f = first
  OBVIOUS
<1>2. PICK g : g = pending
  OBVIOUS
<1>3. f \in SUBSET Lead /\ g \in SUBSET Lead /\ \A b \in f \cup g : status[b] # "done"
  BY <1>1, <1>2
<1>4. g # {} => MaxLeads > 0
  BY <1>3, LeadsAreFinite
<1>5. /\ FirstById(Unjoined(f), 1) \in Seq(Lead) /\ NoneTwice(FirstById(Unjoined(f), 1))
      /\ \A i \in 1 .. Len(FirstById(Unjoined(f), 1)) : FirstById(Unjoined(f), 1)[i] \in f
  <2>1. 1 \in Nat /\ (f # {} => 1 > 0)
    OBVIOUS
  <2>2. QED
    BY <1>3, <2>1, TableLeads
<1>6. /\ FirstById(Unjoined(g), MaxLeads) \in Seq(Lead) /\ NoneTwice(FirstById(Unjoined(g), MaxLeads))
      /\ \A i \in 1 .. Len(FirstById(Unjoined(g), MaxLeads)) : FirstById(Unjoined(g), MaxLeads)[i] \in g
  BY <1>3, <1>4, TableLeads, LeadAssumption
<1>7. NextBusinesses = FirstById(Unjoined(f), 1) \/ NextBusinesses = FirstById(Unjoined(g), MaxLeads)
  BY <1>1, <1>2 DEF NextBusinesses
<1>8. QED
  BY <1>3, <1>5, <1>6, <1>7

\* A crawler is given leads without an extraction, each once.
LEMMA CrawlIsFirst ==
  /\ FirstById(Unjoined(ToCrawl), CrawlLimit) \in Seq(Lead)
  /\ FirstById(Unjoined(ToCrawl), CrawlLimit) = <<>> <=> ToCrawl = {}
  /\ NoneTwice(FirstById(Unjoined(ToCrawl), CrawlLimit))
  /\ \A i \in 1 .. Len(FirstById(Unjoined(ToCrawl), CrawlLimit)) :
        extractions[FirstById(Unjoined(ToCrawl), CrawlLimit)[i]] = 0
<1>1. PICK s : s = ToCrawl
  OBVIOUS
<1>2. s \in SUBSET Lead /\ \A b \in s : extractions[b] = 0
  BY <1>1 DEF ToCrawl
<1>3. CrawlLimit \in Nat /\ CrawlLimit > 0
  BY LeadAssumption
<1>4. PICK f : f = FirstById(Unjoined(s), CrawlLimit)
  OBVIOUS
<1>5. /\ f \in Seq(Lead) /\ NoneTwice(f) /\ (f = <<>> <=> s = {})
      /\ \A i \in 1 .. Len(f) : f[i] \in s
  BY <1>2, <1>3, <1>4, TableLeads
<1>6. QED
  BY <1>1, <1>2, <1>4, <1>5

\* A sync is given done leads that are not marked, each once if none has been
\* crawled twice.
LEMMA SyncIsUnmarked ==
  ASSUME LeadTypeOK
  PROVE  /\ SyncRows \in Seq(Lead)
         /\ \A i \in 1 .. Len(SyncRows) : SyncRows[i] \notin synced
         /\ (\A b \in Lead : extractions[b] <= 1) => NoneTwice(SyncRows)
<1>1. PICK s : s = ToSync
  OBVIOUS
<1>2. s \in SUBSET Lead /\ \A b \in s : b \notin synced
  BY <1>1 DEF ToSync
<1>3. PICK n : n = extractions
  OBVIOUS
<1> DEFINE joined == UNION {LeftJoined(b, n[b]) : b \in s}
<1>4. PICK rs : rs = joined
  OBVIOUS
<1>5. \A b \in s : n[b] \in Nat
  BY <1>2, <1>3 DEF LeadTypeOK
<1>6. \A r : r \in rs <=> \E b \in s : r \in LeftJoined(b, n[b])
  BY <1>4
<1>7. s \in SUBSET Nat /\ IsFiniteSet(s)
  BY <1>2, LeadsAreFinite
<1>8. /\ IsFiniteSet(rs) /\ rs \in SUBSET Row
      /\ \A r \in rs : r[1] \in s
      /\ \A r, t \in rs : r[1] = t[1] /\ n[r[1]] <= 1 => r = t
  BY <1>5, <1>6, <1>7, JoinedRows
<1>9. (\A b \in Lead : extractions[b] <= 1) => \A r, t \in rs : r[1] = t[1] => r = t
  BY <1>2, <1>3, <1>8
<1>10. PICK f : f = FirstById(rs, SyncLimit)
  OBVIOUS
<1>11. f = SyncRows
  BY <1>1, <1>3, <1>4, <1>10 DEF SyncRows
<1>12. /\ f \in Seq(Lead)
       /\ \A i \in 1 .. Len(f) : f[i] \in s
       /\ (\A r, t \in rs : r[1] = t[1] => r = t) => NoneTwice(f)
  <2>1. SyncLimit \in Nat /\ (rs # {} => SyncLimit > 0)
    BY LeadAssumption
  <2>2. /\ f \in Seq(s)
        /\ \A b \in s : (\A r, t \in rs : r[1] = b /\ t[1] = b => r = t) => OnceIn(b, f)
    BY <1>7, <1>8, <1>10, <2>1, SelectedIds
  <2>3. f \in Seq(Lead) /\ \A i \in 1 .. Len(f) : f[i] \in s
    BY <1>2, <2>2
  <2>4. ASSUME \A r, t \in rs : r[1] = t[1] => r = t PROVE NoneTwice(f)
    BY <2>2, <2>3, <2>4 DEF OnceIn, NoneTwice
  <2>5. QED
    BY <2>3, <2>4
<1>13. QED
  BY <1>2, <1>9, <1>11, <1>12

\* What is left of a loop when its first row has been dealt with.
LEMMA RestOfLoop ==
  ASSUME NEW q \in Seq(Lead), q # <<>>
  PROVE  /\ Head(q) \in Lead /\ Tail(q) \in Seq(Lead) /\ Len(q) \in Nat /\ Len(q) >= 1
         /\ Head(q) = q[1] /\ 1 \in 1 .. Len(q)
         /\ Tail(q) = <<>> <=> Len(q) = 1
         /\ \A i \in 1 .. Len(Tail(q)) : i + 1 \in 1 .. Len(q) /\ Tail(q)[i] = q[i + 1]
         /\ NoneTwice(q) => NoneTwice(Tail(q)) /\ \A i \in 1 .. Len(Tail(q)) : Tail(q)[i] # Head(q)
<1>1. /\ Head(q) = q[1] /\ Head(q) \in Lead /\ Tail(q) \in Seq(Lead)
      /\ Len(q) \in Nat /\ Len(q) >= 1
      /\ Len(Tail(q)) = Len(q) - 1 /\ \A i \in 1 .. Len(Tail(q)) : Tail(q)[i] = q[i + 1]
  BY EmptySeq, HeadTailProperties
<1>2. \A i \in 1 .. Len(Tail(q)) : i + 1 \in 1 .. Len(q) /\ i + 1 # 1
  BY <1>1
<1>3. Tail(q) = <<>> <=> Len(q) = 1
  <2>1. Tail(q) = <<>> <=> Len(Tail(q)) = 0
    BY <1>1, EmptySeq
  <2>2. QED
    BY <1>1, <2>1
<1>4. ASSUME NoneTwice(q), NEW i \in 1 .. Len(Tail(q)), NEW j \in 1 .. Len(Tail(q)),
             Tail(q)[i] = Tail(q)[j]
      PROVE  i = j
  <2>1. q[i + 1] = q[j + 1] /\ i + 1 \in 1 .. Len(q) /\ j + 1 \in 1 .. Len(q)
    BY <1>1, <1>2, <1>4
  <2>2. i + 1 = j + 1
    BY <1>4, <2>1 DEF NoneTwice
  <2>3. QED
    BY <2>2
<1>5. ASSUME NoneTwice(q), NEW i \in 1 .. Len(Tail(q)) PROVE Tail(q)[i] # Head(q)
  BY <1>1, <1>2, <1>5 DEF NoneTwice
<1>6. QED
  BY <1>1, <1>2, <1>3, <1>4, <1>5 DEF NoneTwice

-----------------------------------------------------------------------------
(* LeadSync: the invariant is inductive.                                   *)

\* Initially the invariant of the leads holds.
LEMMA InitLeadInv == LeadInit => LeadInv
<1> SUFFICES ASSUME LeadInit PROVE LeadInv
  OBVIOUS
<1>1. <<>> \in Seq(Lead)
  BY EmptySeq
<1>2. LeadTypeOK
  <2>1. /\ stage \in [Process -> Stage]
        /\ status \in [Lead -> {"absent", "pending", "done", "failed"}]
    BY DEF LeadInit, Stage
  <2>2. /\ retryCount \in [Lead -> Nat] /\ extractions \in [Lead -> Nat]
        /\ accepted \in [Lead -> Nat] /\ lostAcks \in [Lead -> Nat]
        /\ faults \in 0 .. MaxFaults
    BY LeadAssumption DEF LeadInit
  <2>3. /\ syncColumn \in BOOLEAN /\ synced \subseteq Lead /\ todo \in [Process -> Seq(Lead)]
        /\ overlapped \subseteq {"extract", "crawling", "post"}
    BY <1>1 DEF LeadInit
  <2>4. QED
    BY <2>1, <2>2, <2>3 DEF LeadTypeOK
<1>3. \A p \in Process : stage[p] = "idle" /\ todo[p] = <<>>
  BY DEF LeadInit
<1>4. LoopsHaveRows /\ MarkIsAccepted /\ ExtractAlone /\ PostAlone
  BY <1>3 DEF LoopsHaveRows, MarkIsAccepted, ExtractAlone, PostAlone, Alone, LoopOf, Looping
<1>5. CrawlAlone /\ PostsAreMarked /\ SyncedWasAccepted
  BY <1>2, <1>3 DEF LeadInit, CrawlAlone, Alone, LoopOf, PostsAreMarked, SyncedWasAccepted
<1>6. QED
  BY <1>4, <1>5 DEF LeadInv

\* What the properties need to know of a step outside the loops.
Between(p) ==
    Begins(p) \/ SkipCrawl(p) \/ Collect(p) \/ SyncUnmigrated(p)

\* A step of a loop that is not its first.
Inside(p) ==
    \/ ExtractSucceeds(p) \/ ExtractFails(p) \/ CrawlOne(p)
    \/ MarkSynced(p) \/ MarkFails(p) \/ PostRejected(p) \/ PostTimesOut(p)

\* A loop is entered.
Enters(p) == FetchRound(p) \/ CrawlSelect(p) \/ SyncSelect(p)

\* A process leaves what it is in.
Leaves(p) == Unreachable(p) \/ Die(p)

\* Whoever takes a step is in one of these cases.
LEMMA LeadStep ==
  ASSUME LeadNext
  PROVE  \/ AddColumn
         \/ \E p \in Process : \/ Between(p) \/ Enters(p) \/ Inside(p) \/ PostAccepted(p)
                               \/ Leaves(p)
BY DEF LeadNext, Harvest, Sync, Between, Enters, Inside, Leaves

\* A process is in a loop with rows that are leads.
LEMMA HeadIsLead ==
  ASSUME LeadTypeOK, LoopsHaveRows, NEW p \in Process, stage[p] \in Looping
  PROVE  todo[p] \in Seq(Lead) /\ todo[p] # <<>> /\ Head(todo[p]) \in Lead
<1>1. todo[p] \in Seq(Lead) /\ todo[p] # <<>>
  BY DEF LeadTypeOK, LoopsHaveRows
<1>2. QED
  BY <1>1, RestOfLoop

\* What a step of each case does to the rows in hand.
LEMMA BetweenMoves ==
  ASSUME LeadTypeOK, LoopsHaveRows, NEW p \in Process, Between(p)
  PROVE  /\ todo' = todo /\ stage[p] \notin Looping
         /\ stage' \in [Process -> Stage] /\ stage'[p] \notin Looping
         /\ \A q \in Process \ {p} : stage'[q] = stage[q]
         /\ UNCHANGED <<syncColumn, retryCount, extractions, synced, accepted, lostAcks,
                        overlapped, faults>>
         /\ status' \in [Lead -> {"absent", "pending", "done", "failed"}]
         /\ \A b \in Lead : status'[b] = status[b] \/ (status'[b] = "pending" /\ status[b] = "absent")
<1>1. PICK from \in {"idle", "search", "sync"}, to \in {"sync", "search", "idle", "fetch"} :
        stage[p] = from /\ stage' = [stage EXCEPT ![p] = to]
  BY DEF Between, Begins, SkipCrawl, Collect, SyncUnmigrated, Passes, AfterRun
<1>2. /\ stage[p] \notin Looping /\ stage' \in [Process -> Stage] /\ stage'[p] \notin Looping
      /\ \A q \in Process \ {p} : stage'[q] = stage[q]
  BY <1>1 DEF LeadTypeOK, Stage, Looping
<1>3. /\ todo' = todo
      /\ UNCHANGED <<syncColumn, retryCount, extractions, synced, accepted, lostAcks,
                     overlapped, faults>>
  BY DEF Between, Begins, SkipCrawl, Collect, SyncUnmigrated, rows, history
<1>4. /\ status' \in [Lead -> {"absent", "pending", "done", "failed"}]
      /\ \A b \in Lead : status'[b] = status[b] \/ (status'[b] = "pending" /\ status[b] = "absent")
  <2>1. CASE status' = status
    BY <2>1 DEF LeadTypeOK
  <2>2. CASE Collect(p)
    BY <2>2 DEF Collect, LeadTypeOK
  <2>3. QED
    BY <2>1, <2>2 DEF Between, Begins, SkipCrawl, SyncUnmigrated, rows
<1>5. QED
  BY <1>2, <1>3, <1>4

\* Inside a loop a process takes the next row, or is over.
LEMMA InsideMoves ==
  ASSUME LeadTypeOK, LoopsHaveRows, NEW p \in Process, Inside(p)
  PROVE  /\ stage[p] \in Looping
         /\ todo' = [todo EXCEPT ![p] = Tail(todo[p])]
         /\ todo' \in [Process -> Seq(Lead)] /\ todo'[p] = Tail(todo[p])
         /\ \A q \in Process \ {p} : todo'[q] = todo[q] /\ stage'[q] = stage[q]
         /\ stage' \in [Process -> Stage]
         /\ todo'[p] = <<>> => stage'[p] \notin Looping
         /\ todo'[p] # <<>> => stage'[p] \in Looping \ {"mark"} /\ LoopOf(stage'[p]) = LoopOf(stage[p])
         /\ UNCHANGED <<syncColumn, overlapped>>
<1>1. PICK again \in {"extract", "crawling", "post"}, over \in {"fetch", "idle", "sync"} :
        stage[p] \in Looping /\ LoopOf(stage[p]) = again /\ Visited(p, again, over)
  <2>1. CASE ExtractSucceeds(p) \/ ExtractFails(p)
    BY <2>1 DEF ExtractSucceeds, ExtractFails, Looping, LoopOf
  <2>2. CASE CrawlOne(p)
    BY <2>2 DEF CrawlOne, AfterRun, Looping, LoopOf
  <2>3. CASE MarkSynced(p) \/ MarkFails(p)
    BY <2>3 DEF MarkSynced, MarkFails, Looping, LoopOf
  <2>4. CASE PostRejected(p) \/ PostTimesOut(p)
    BY <2>4 DEF PostRejected, PostTimesOut, Looping, LoopOf
  <2>5. QED
    BY <2>1, <2>2, <2>3, <2>4 DEF Inside
<1>2. todo[p] \in Seq(Lead) /\ todo[p] # <<>>
  BY <1>1, HeadIsLead
<1>3. Tail(todo[p]) \in Seq(Lead) /\ (Tail(todo[p]) = <<>> <=> Len(todo[p]) = 1)
  BY <1>2, RestOfLoop
<1>4. PICK rest \in Seq(Lead) : rest = Tail(todo[p])
  BY <1>3
<1>5. PICK to \in {again, over} :
        stage' = [stage EXCEPT ![p] = to] /\ to = IF rest = <<>> THEN over ELSE again
  BY <1>1, <1>3, <1>4 DEF Visited
<1>6. todo' = [todo EXCEPT ![p] = rest]
  BY <1>1, <1>4 DEF Visited
<1>7. /\ todo' \in [Process -> Seq(Lead)] /\ todo'[p] = rest
      /\ \A q \in Process \ {p} : todo'[q] = todo[q]
  BY <1>6 DEF LeadTypeOK
<1>8. /\ stage' \in [Process -> Stage] /\ stage'[p] = to
      /\ \A q \in Process \ {p} : stage'[q] = stage[q]
  BY <1>5 DEF LeadTypeOK, Stage
<1>9. /\ over \notin Looping /\ again \in Looping \ {"mark"} /\ LoopOf(again) = again
  BY DEF Looping, LoopOf
<1>10. UNCHANGED <<syncColumn, overlapped>>
  BY DEF Inside, ExtractSucceeds, ExtractFails, CrawlOne, MarkSynced, MarkFails, PostRejected,
         PostTimesOut, history
<1>11. QED
  BY <1>1, <1>4, <1>5, <1>6, <1>7, <1>8, <1>9, <1>10

\* Who enters a loop has the rows of its selection, if there are any.
LEMMA EntersMoves ==
  ASSUME LeadTypeOK, LoopsHaveRows, NEW p \in Process, Enters(p)
  PROVE  \E loop \in {"extract", "crawling", "post"}, next \in Seq(Lead) :
         /\ stage[p] \notin Looping
         /\ todo' = [todo EXCEPT ![p] = next]
         /\ todo' \in [Process -> Seq(Lead)] /\ todo'[p] = next
         /\ \A q \in Process \ {p} : todo'[q] = todo[q] /\ stage'[q] = stage[q]
         /\ stage' \in [Process -> Stage]
         /\ next = <<>> => stage'[p] \notin Looping
         /\ next # <<>> => stage'[p] = loop
         /\ Entered(p, loop)
         /\ UNCHANGED <<syncColumn, rows, accepted, lostAcks, faults>>
         /\ loop = "extract" => next = NextBusinesses
         /\ loop = "crawling" => next = FirstById(Unjoined(ToCrawl), CrawlLimit)
         /\ loop = "post" => next = SyncRows
<1>1. PICK loop \in {"extract", "crawling", "post"}, next \in Seq(Lead), to \in Stage :
        /\ stage[p] \in {"fetch", "search", "sync"} /\ stage' = [stage EXCEPT ![p] = to]
        /\ todo' = [todo EXCEPT ![p] = next]
        /\ next = <<>> => to \in {"search", "idle", "sync"}
        /\ next # <<>> => to = loop
        /\ Entered(p, loop)
        /\ UNCHANGED <<syncColumn, rows, accepted, lostAcks, faults>>
        /\ loop = "extract" => next = NextBusinesses
        /\ loop = "crawling" => next = FirstById(Unjoined(ToCrawl), CrawlLimit)
        /\ loop = "post" => next = SyncRows
  <2>1. CASE FetchRound(p)
    <3>1. NextBusinesses \in Seq(Lead)
      BY NextIsUndone
    <3>2. QED
      BY <2>1, <3>1 DEF FetchRound, Passes, Stage
  <2>2. CASE CrawlSelect(p)
    <3>1. PICK next : next = FirstById(Unjoined(ToCrawl), CrawlLimit)
      OBVIOUS
    <3>2. next \in Seq(Lead) /\ (next = <<>> <=> ToCrawl = {})
      BY <3>1, CrawlIsFirst
    <3>3. /\ todo' = [todo EXCEPT ![p] = next] /\ Entered(p, "crawling")
          /\ UNCHANGED <<syncColumn, rows, accepted, lostAcks, faults>>
      BY <2>2, <3>1 DEF CrawlSelect
    <3>4. PICK to \in {"idle", "sync", "crawling"} :
            /\ stage[p] = "search" /\ stage' = [stage EXCEPT ![p] = to]
            /\ (ToCrawl = {} => to # "crawling")
            /\ (ToCrawl # {} => to = "crawling")
      BY <2>2 DEF CrawlSelect, Passes, AfterRun
    <3>5. (next = <<>> => to \in {"search", "idle", "sync"}) /\ (next # <<>> => to = "crawling")
      BY <3>2, <3>4
    <3>6. to \in Stage
      BY DEF Stage
    <3>7. QED
      BY <3>1, <3>2, <3>3, <3>4, <3>5, <3>6
  <2>3. CASE SyncSelect(p)
    <3>1. SyncRows \in Seq(Lead)
      BY SyncIsUnmarked
    <3>2. QED
      BY <2>3, <3>1 DEF SyncSelect, Passes, Stage
  <2>4. QED
    BY <2>1, <2>2, <2>3 DEF Enters
<1>2. /\ todo' \in [Process -> Seq(Lead)] /\ todo'[p] = next
      /\ \A q \in Process \ {p} : todo'[q] = todo[q]
  BY <1>1 DEF LeadTypeOK
<1>3. /\ stage' \in [Process -> Stage] /\ stage'[p] = to
      /\ \A q \in Process \ {p} : stage'[q] = stage[q]
  BY <1>1 DEF LeadTypeOK
<1>4. stage[p] \notin Looping /\ (next = <<>> => stage'[p] \notin Looping) /\ (next # <<>> => stage'[p] = loop)
  BY <1>1, <1>3 DEF Looping
<1>5. QED
  BY <1>1, <1>2, <1>3, <1>4

\* Who leaves a loop has no rows.
LEMMA LeavesMoves ==
  ASSUME LeadTypeOK, NEW p \in Process, Leaves(p)
  PROVE  /\ todo' = [todo EXCEPT ![p] = <<>>]
         /\ todo' \in [Process -> Seq(Lead)] /\ todo'[p] = <<>>
         /\ \A q \in Process \ {p} : todo'[q] = todo[q] /\ stage'[q] = stage[q]
         /\ stage' \in [Process -> Stage] /\ stage'[p] = "idle"
         /\ UNCHANGED <<syncColumn, rows, accepted, overlapped>>
<1>1. /\ stage' = [stage EXCEPT ![p] = "idle"] /\ todo' = [todo EXCEPT ![p] = <<>>]
      /\ UNCHANGED <<syncColumn, rows, accepted, overlapped>>
  BY DEF Leaves, Unreachable, Die, Passes, history
<1>2. <<>> \in Seq(Lead)
  BY EmptySeq
<1>3. QED
  BY <1>1, <1>2 DEF LeadTypeOK, Stage

\* A counter of one lead goes up by one.
LEMMA Counted ==
  ASSUME NEW f \in [Lead -> Nat], NEW h \in Lead
  PROVE  LET g == [f EXCEPT ![h] = f[h] + 1] IN
         /\ g \in [Lead -> Nat] /\ g[h] = f[h] + 1
         /\ \A b \in Lead : b # h => g[b] = f[b]
         /\ \A b \in Lead : g[b] >= f[b]
OBVIOUS

\* What a step inside a loop does to the rows of the tables and the server.
LEMMA InsideWrites ==
  ASSUME LeadTypeOK, LoopsHaveRows, NEW p \in Process, Inside(p), NEW h \in Lead, h = Head(todo[p])
  PROVE  /\ \/ status' = status
            \/ stage[p] = "extract" /\ \E s \in {"done", "failed"} : status' = [status EXCEPT ![h] = s]
         /\ \/ extractions' = extractions
            \/ stage[p] = "crawling" /\ extractions' = [extractions EXCEPT ![h] = extractions[h] + 1]
         /\ \/ UNCHANGED <<synced, accepted, lostAcks>> /\ stage[p] # "mark"
            \/ stage[p] = "mark" /\ synced' = synced \cup {h} /\ UNCHANGED <<accepted, lostAcks>>
            \/ /\ stage[p] = "mark" /\ UNCHANGED <<synced, accepted>>
               /\ lostAcks' = [lostAcks EXCEPT ![h] = lostAcks[h] + 1]
            \/ /\ stage[p] = "post" /\ UNCHANGED synced
               /\ accepted' = [accepted EXCEPT ![h] = accepted[h] + 1]
               /\ lostAcks' = [lostAcks EXCEPT ![h] = lostAcks[h] + 1]
<1>1. CASE ExtractSucceeds(p)
  BY <1>1 DEF ExtractSucceeds, history
<1>2. CASE ExtractFails(p)
  BY <1>2 DEF ExtractFails, history
<1>3. CASE CrawlOne(p)
  BY <1>3 DEF CrawlOne, history
<1>4. CASE MarkSynced(p)
  BY <1>4 DEF MarkSynced, history
<1>5. CASE MarkFails(p)
  BY <1>5 DEF MarkFails, rows
<1>6. CASE PostRejected(p)
  BY <1>6 DEF PostRejected, history, rows
<1>7. CASE PostTimesOut(p)
  BY <1>7 DEF PostTimesOut, rows
<1>8. QED
  BY <1>1, <1>2, <1>3, <1>4, <1>5, <1>6, <1>7 DEF Inside

\* Every step keeps the types of the tables.
LEMMA StepLeadTypeOK == LeadTypeOK /\ LoopsHaveRows /\ LeadNext => LeadTypeOK'
<1> SUFFICES ASSUME LeadTypeOK, LoopsHaveRows, LeadNext PROVE LeadTypeOK'
  OBVIOUS
<1>1. CASE AddColumn
  BY <1>1 DEF AddColumn, LeadTypeOK, rows, history
<1>2. ASSUME NEW p \in Process, Between(p) PROVE LeadTypeOK'
  BY <1>2, BetweenMoves DEF LeadTypeOK
<1>3. ASSUME NEW p \in Process, Enters(p) PROVE LeadTypeOK'
  <2>1. PICK loop \in {"extract", "crawling", "post"} :
          /\ todo' \in [Process -> Seq(Lead)] /\ stage' \in [Process -> Stage]
          /\ Entered(p, loop)
          /\ UNCHANGED <<syncColumn, rows, accepted, lostAcks, faults>>
    BY <1>3, EntersMoves
  <2>2. overlapped' \subseteq {"extract", "crawling", "post"}
    BY <2>1 DEF Entered, LeadTypeOK
  <2>3. QED
    BY <2>1, <2>2 DEF LeadTypeOK, rows
<1>4. ASSUME NEW p \in Process, Inside(p) PROVE LeadTypeOK'
  <2>1. /\ todo' \in [Process -> Seq(Lead)] /\ stage' \in [Process -> Stage]
        /\ UNCHANGED <<syncColumn, overlapped>> /\ stage[p] \in Looping
    BY <1>4, InsideMoves
  <2>2. PICK h \in Lead : h = Head(todo[p])
    BY <2>1, HeadIsLead
  <2>3. /\ status' \in [Lead -> {"absent", "pending", "done", "failed"}]
        /\ extractions' \in [Lead -> Nat]
    <3>1. \/ status' = status
          \/ \E s \in {"done", "failed"} : status' = [status EXCEPT ![h] = s]
      BY <1>4, <2>2, InsideWrites
    <3>2. status' \in [Lead -> {"absent", "pending", "done", "failed"}]
      BY <3>1 DEF LeadTypeOK
    <3>3. extractions' = extractions \/ extractions' = [extractions EXCEPT ![h] = extractions[h] + 1]
      BY <1>4, <2>2, InsideWrites
    <3>4. extractions \in [Lead -> Nat]
      BY DEF LeadTypeOK
    <3>5. QED
      BY <3>2, <3>3, <3>4, Counted
  <2>4. synced' \subseteq Lead /\ accepted' \in [Lead -> Nat] /\ lostAcks' \in [Lead -> Nat]
    <3>1. /\ synced' = synced \/ synced' = synced \cup {h}
          /\ accepted' = accepted \/ accepted' = [accepted EXCEPT ![h] = accepted[h] + 1]
          /\ lostAcks' = lostAcks \/ lostAcks' = [lostAcks EXCEPT ![h] = lostAcks[h] + 1]
      BY <1>4, <2>2, InsideWrites
    <3>2. accepted \in [Lead -> Nat] /\ lostAcks \in [Lead -> Nat] /\ synced \subseteq Lead
      BY DEF LeadTypeOK
    <3>3. QED
      BY <3>1, <3>2, Counted
  <2>5. faults' \in 0 .. MaxFaults
    <3>1. faults' = faults \/ Fault
      BY <1>4 DEF Inside, ExtractSucceeds, ExtractFails, CrawlOne, MarkSynced, MarkFails,
                  PostRejected, PostTimesOut
    <3>2. QED
      BY <3>1, LeadAssumption DEF Fault, LeadTypeOK
  <2>6. retryCount' \in [Lead -> Nat]
    <3>1. retryCount' = retryCount \/ retryCount' = [retryCount EXCEPT ![h] = retryCount[h] + 1]
      BY <1>4, <2>2 DEF Inside, ExtractSucceeds, ExtractFails, CrawlOne, MarkSynced, MarkFails,
                        PostRejected, PostTimesOut, rows
    <3>2. retryCount \in [Lead -> Nat]
      BY DEF LeadTypeOK
    <3>3. QED
      BY <3>1, <3>2, Counted
  <2>7. QED
    BY <2>1, <2>3, <2>4, <2>5, <2>6 DEF LeadTypeOK
<1>5. ASSUME NEW p \in Process, PostAccepted(p) PROVE LeadTypeOK'
  <2>1. stage[p] \in Looping
    BY <1>5 DEF PostAccepted, Passes, Looping
  <2>2. PICK h \in Lead : h = Head(todo[p])
    BY <2>1, HeadIsLead
  <2>3. accepted' \in [Lead -> Nat]
    BY <1>5, <2>2 DEF PostAccepted, LeadTypeOK
  <2>4. stage' \in [Process -> Stage]
    BY <1>5 DEF PostAccepted, Passes, LeadTypeOK, Stage
  <2>5. QED
    BY <1>5, <2>3, <2>4 DEF PostAccepted, LeadTypeOK, rows
<1>6. ASSUME NEW p \in Process, Leaves(p) PROVE LeadTypeOK'
  <2>1. /\ todo' \in [Process -> Seq(Lead)] /\ stage' \in [Process -> Stage]
        /\ UNCHANGED <<syncColumn, rows, accepted, overlapped>>
    BY <1>6, LeavesMoves
  <2>2. faults' \in 0 .. MaxFaults
    <3>1. Fault
      BY <1>6 DEF Leaves, Unreachable, Die
    <3>2. QED
      BY <3>1, LeadAssumption DEF Fault, LeadTypeOK
  <2>3. lostAcks' \in [Lead -> Nat]
    <3>1. CASE lostAcks' = lostAcks
      BY <3>1 DEF LeadTypeOK
    <3>2. CASE stage[p] = "mark" /\ lostAcks' = [lostAcks EXCEPT ![Head(todo[p])] = lostAcks[Head(todo[p])] + 1]
      <4>1. PICK h \in Lead : h = Head(todo[p])
        BY <3>2, HeadIsLead DEF Looping
      <4>2. QED
        BY <3>2, <4>1 DEF LeadTypeOK
    <3>3. QED
      BY <1>6, <3>1, <3>2 DEF Leaves, Unreachable, Die, history
  <2>4. QED
    BY <2>1, <2>2, <2>3 DEF LeadTypeOK, rows
<1>7. QED
  BY <1>1, <1>2, <1>3, <1>4, <1>5, <1>6, LeadStep

\* Every step keeps rows in the hands of those who are in a loop, only.
LEMMA StepLoopsHaveRows == LeadTypeOK /\ LoopsHaveRows /\ LeadNext => LoopsHaveRows'
<1> SUFFICES ASSUME LeadTypeOK, LoopsHaveRows, LeadNext PROVE LoopsHaveRows'
  OBVIOUS
<1>1. CASE AddColumn
  BY <1>1 DEF AddColumn, LoopsHaveRows
<1>2. ASSUME NEW p \in Process,
             \/ Between(p) \/ Enters(p) \/ Inside(p) \/ PostAccepted(p) \/ Leaves(p)
      PROVE  LoopsHaveRows'
  <2>1. \A q \in Process \ {p} : todo'[q] = todo[q] /\ stage'[q] = stage[q]
    <3>1. CASE PostAccepted(p)
      BY <3>1 DEF PostAccepted, Passes, LeadTypeOK
    <3>2. QED
      BY <1>2, <3>1, BetweenMoves, EntersMoves, InsideMoves, LeavesMoves
  <2>2. todo'[p] # <<>> <=> stage'[p] \in Looping
    <3>1. CASE Between(p)
      BY <3>1, BetweenMoves DEF LoopsHaveRows
    <3>2. CASE Enters(p)
      BY <3>2, EntersMoves DEF Looping
    <3>3. CASE Inside(p)
      BY <3>3, InsideMoves
    <3>4. CASE PostAccepted(p)
      BY <3>4 DEF PostAccepted, Passes, LeadTypeOK, LoopsHaveRows, Looping
    <3>5. CASE Leaves(p)
      BY <3>5, LeavesMoves DEF Looping
    <3>6. QED
      BY <1>2, <3>1, <3>2, <3>3, <3>4, <3>5
  <2>3. QED
    BY <2>1, <2>2 DEF LoopsHaveRows
<1>3. QED
  BY <1>1, <1>2, LeadStep

\* What was accepted stays so, and what was known to overlap.
LEMMA HistoryGrows ==
  ASSUME LeadTypeOK, LoopsHaveRows, LeadNext
  PROVE  overlapped \subseteq overlapped' /\ \A b \in Lead : accepted'[b] >= accepted[b]
<1>1. \A b \in Lead : accepted[b] \in Nat
  BY DEF LeadTypeOK
<1>2. CASE AddColumn
  BY <1>1, <1>2 DEF AddColumn, history
<1>3. ASSUME NEW p \in Process, Between(p)
      PROVE  overlapped' = overlapped /\ accepted' = accepted
  BY <1>3, BetweenMoves
<1>4. ASSUME NEW p \in Process, Enters(p)
      PROVE  overlapped \subseteq overlapped' /\ accepted' = accepted
  <2>1. PICK loop : Entered(p, loop) /\ accepted' = accepted
    BY <1>4, EntersMoves
  <2>2. QED
    BY <2>1 DEF Entered
<1>5. ASSUME NEW p \in Process, Inside(p)
      PROVE  overlapped' = overlapped /\ \A b \in Lead : accepted'[b] >= accepted[b]
  <2>1. overlapped' = overlapped /\ stage[p] \in Looping
    BY <1>5, InsideMoves
  <2>2. PICK h \in Lead : h = Head(todo[p])
    BY <2>1, HeadIsLead
  <2>3. accepted' = accepted \/ accepted' = [accepted EXCEPT ![h] = accepted[h] + 1]
    BY <1>5, <2>2, InsideWrites
  <2>4. accepted \in [Lead -> Nat]
    BY DEF LeadTypeOK
  <2>5. QED
    BY <1>1, <2>1, <2>3, <2>4, Counted
<1>6. ASSUME NEW p \in Process, PostAccepted(p)
      PROVE  overlapped' = overlapped /\ \A b \in Lead : accepted'[b] >= accepted[b]
  BY <1>1, <1>6 DEF PostAccepted, LeadTypeOK
<1>7. ASSUME NEW p \in Process, Leaves(p)
      PROVE  overlapped' = overlapped /\ accepted' = accepted
  BY <1>7, LeavesMoves
<1>8. QED
  BY <1>1, <1>2, <1>3, <1>4, <1>5, <1>6, <1>7, LeadStep

\* Every step keeps that what is marked, or will be next, was accepted.
LEMMA StepAccepted ==
  ASSUME LeadTypeOK, LoopsHaveRows, MarkIsAccepted, SyncedWasAccepted, LeadNext
  PROVE  MarkIsAccepted' /\ SyncedWasAccepted'
<1>1. /\ LeadTypeOK' /\ LoopsHaveRows' /\ \A b \in Lead : accepted'[b] >= accepted[b]
      /\ \A b \in Lead : accepted[b] \in Nat /\ accepted'[b] \in Nat
  <2>1. LeadTypeOK' /\ LoopsHaveRows'
    BY StepLeadTypeOK, StepLoopsHaveRows
  <2>2. QED
    BY <2>1, HistoryGrows DEF LeadTypeOK
<1>2. ASSUME NEW q \in Process, stage[q] = "mark" PROVE Head(todo[q]) \in Lead
  BY <1>2, HeadIsLead DEF Looping
<1>3. ASSUME NEW q \in Process, stage'[q] = "mark"
      PROVE  accepted'[Head(todo'[q])] > 0
  <2>1. CASE stage[q] = "mark" /\ todo'[q] = todo[q]
    <3>1. PICK h \in Lead : h = Head(todo[q])
      BY <1>2, <2>1
    <3>2. accepted[h] > 0
      BY <2>1, <3>1 DEF MarkIsAccepted
    <3>3. QED
      BY <1>1, <2>1, <3>1, <3>2
  <2>2. CASE PostAccepted(q)
    <3>1. PICK h \in Lead : h = Head(todo[q])
      BY <2>2, HeadIsLead DEF PostAccepted, Passes, Looping
    <3>2. accepted' = [accepted EXCEPT ![h] = accepted[h] + 1] /\ todo' = todo
      BY <2>2, <3>1 DEF PostAccepted
    <3>3. QED
      BY <1>1, <3>1, <3>2 DEF LeadTypeOK
  <2>3. (stage[q] = "mark" /\ todo'[q] = todo[q]) \/ PostAccepted(q)
    <3>1. CASE AddColumn
      BY <1>3, <3>1 DEF AddColumn
    <3>2. ASSUME NEW p \in Process,
                 \/ Between(p) \/ Enters(p) \/ Inside(p) \/ PostAccepted(p) \/ Leaves(p)
          PROVE  (stage[q] = "mark" /\ todo'[q] = todo[q]) \/ PostAccepted(q)
      <4>1. CASE PostAccepted(p)
        BY <1>3, <4>1 DEF PostAccepted, Passes, LeadTypeOK
      <4>2. CASE Between(p)
        BY <1>3, <4>2, BetweenMoves DEF Looping
      <4>3. CASE Enters(p)
        BY <1>3, <4>3, EntersMoves DEF Looping
      <4>4. CASE Inside(p)
        BY <1>3, <4>4, InsideMoves DEF Looping
      <4>5. CASE Leaves(p)
        BY <1>3, <4>5, LeavesMoves
      <4>6. QED
        BY <3>2, <4>1, <4>2, <4>3, <4>4, <4>5
    <3>3. QED
      BY <3>1, <3>2, LeadStep
  <2>4. QED
    BY <2>1, <2>2, <2>3
<1>4. ASSUME NEW b \in synced' PROVE accepted'[b] > 0
  <2>1. b \in Lead
    BY <1>1 DEF LeadTypeOK
  <2>2. CASE b \in synced
    <3>1. accepted[b] > 0
      BY <2>2 DEF SyncedWasAccepted
    <3>2. QED
      BY <1>1, <2>1, <3>1
  <2>3. CASE b \notin synced
    <3>1. PICK p \in Process : MarkSynced(p)
      BY <1>4, <2>3 DEF LeadNext, AddColumn, Begins, Harvest, Sync, Collect, FetchRound,
         ExtractSucceeds, ExtractFails, SkipCrawl, CrawlSelect, CrawlOne, SyncSelect,
         SyncUnmigrated, PostAccepted, PostRejected, MarkFails, PostTimesOut, Unreachable, Die,
         rows
    <3>2. stage[p] = "mark" /\ b = Head(todo[p])
      BY <1>4, <2>3, <3>1 DEF MarkSynced
    <3>3. accepted[b] > 0
      BY <3>2 DEF MarkIsAccepted
    <3>4. QED
      BY <1>1, <2>1, <3>3
  <2>4. QED
    BY <2>2, <2>3
<1>5. QED
  BY <1>1, <1>3, <1>4 DEF MarkIsAccepted, SyncedWasAccepted

\* If a process has each row once and alone, from the leads it was to select
\* from, a step leaves it so: what ceases to be such a lead is the row in hand.
LEMMA AloneStep ==
  ASSUME LeadTypeOK, LoopsHaveRows, NEW p \in Process,
         \/ Between(p) \/ Enters(p) \/ Inside(p) \/ PostAccepted(p) \/ Leaves(p),
         NEW loop \in {"extract", "crawling", "post"}, loop \notin overlapped',
         NEW G \in SUBSET Lead, NEW H \in SUBSET Lead, Alone(loop, G),
         \A b \in G \ H : Inside(p) /\ LoopOf(stage[p]) = loop /\ b = Head(todo[p]),
         Enters(p) /\ LoopOf(stage'[p]) = loop =>
             NoneTwice(todo'[p]) /\ \A i \in 1 .. Len(todo'[p]) : todo'[p][i] \in H
  PROVE  \A q \in Process : LoopOf(stage'[q]) = loop =>
             /\ NoneTwice(todo'[q])
             /\ \A i \in 1 .. Len(todo'[q]) : todo'[q][i] \in H
             /\ \A r \in Process : LoopOf(stage'[r]) = loop => r = q
<1>1. \A q \in Process \ {p} : todo'[q] = todo[q] /\ stage'[q] = stage[q]
  <2>1. CASE PostAccepted(p)
    BY <2>1 DEF PostAccepted, Passes, LeadTypeOK
  <2>2. QED
    BY <2>1, BetweenMoves, EntersMoves, InsideMoves, LeavesMoves
<1>2. \A at \in Stage : LoopOf(at) = loop => at \in Looping
  BY DEF LoopOf, Looping, Stage
<1>3. stage \in [Process -> Stage] /\ stage' \in [Process -> Stage]
  <2>1. CASE PostAccepted(p)
    BY <2>1 DEF PostAccepted, Passes, LeadTypeOK, Stage
  <2>2. QED
    BY <2>1, BetweenMoves, EntersMoves, InsideMoves, LeavesMoves DEF LeadTypeOK
<1>4. CASE LoopOf(stage[p]) = loop
  <2>1. /\ NoneTwice(todo[p]) /\ \A i \in 1 .. Len(todo[p]) : todo[p][i] \in G
        /\ \A q \in Process \ {p} : LoopOf(stage[q]) # loop
    BY <1>4 DEF Alone
  <2>2. \A q \in Process \ {p} : LoopOf(stage'[q]) # loop
    BY <1>1, <2>1
  <2>3. stage[p] \in Looping
    BY <1>2, <1>3, <1>4
  <2>4. todo[p] \in Seq(Lead) /\ todo[p] # <<>>
    BY <2>3, HeadIsLead
  <2>5. ASSUME LoopOf(stage'[p]) = loop
        PROVE  NoneTwice(todo'[p]) /\ \A i \in 1 .. Len(todo'[p]) : todo'[p][i] \in H
    <3>1. CASE Inside(p)
      <4>1. PICK q \in Seq(Lead) : q = todo[p]
        BY <2>4
      <4>2. todo'[p] = Tail(q) /\ q # <<>>
        BY <2>4, <3>1, <4>1, InsideMoves
      <4>3. /\ NoneTwice(Tail(q))
            /\ \A i \in 1 .. Len(Tail(q)) : Tail(q)[i] # Head(q)
            /\ \A i \in 1 .. Len(Tail(q)) : i + 1 \in 1 .. Len(q) /\ Tail(q)[i] = q[i + 1]
        BY <2>1, <4>1, <4>2, RestOfLoop
      <4>4. \A i \in 1 .. Len(Tail(q)) : Tail(q)[i] \in G
        BY <2>1, <4>1, <4>3
      <4>5. \A b \in G : b # Head(q) => b \in H
        BY <4>1
      <4>6. QED
        BY <4>2, <4>3, <4>4, <4>5
    <3>2. CASE PostAccepted(p)
      <4>1. todo' = todo /\ stage'[p] = "mark"
        BY <1>3, <3>2 DEF PostAccepted, Passes
      <4>2. ~Inside(p)
        BY <4>1, InsideMoves DEF Looping
      <4>3. \A b \in G : b \in H
        BY <4>2
      <4>4. QED
        BY <2>1, <4>1, <4>3
    <3>3. ~Between(p) /\ ~Enters(p)
      BY <2>3, BetweenMoves, EntersMoves
    <3>4. ~Leaves(p)
      BY <1>2, <1>3, <2>5, LeavesMoves DEF Looping
    <3>5. QED
      BY <3>1, <3>2, <3>3, <3>4
  <2>6. QED
    BY <2>2, <2>5
<1>5. CASE LoopOf(stage[p]) # loop
  <2>1. \A b \in G : b \in H
    BY <1>5
  <2>2. CASE LoopOf(stage'[p]) # loop
    <3>1. ASSUME NEW q \in Process, LoopOf(stage'[q]) = loop
          PROVE  q # p /\ LoopOf(stage[q]) = loop /\ todo'[q] = todo[q]
      BY <1>1, <2>2, <3>1
    <3>2. \A q \in Process : LoopOf(stage'[q]) = loop =>
            /\ NoneTwice(todo[q]) /\ \A i \in 1 .. Len(todo[q]) : todo[q][i] \in H
            /\ \A r \in Process : LoopOf(stage[r]) = loop => r = q
      BY <2>1, <3>1 DEF Alone
    <3>3. QED
      BY <3>1, <3>2
  <2>3. CASE LoopOf(stage'[p]) = loop
    <3>1. stage'[p] \in Looping
      BY <1>2, <1>3, <2>3
    <3>2. Enters(p)
      <4>1. ~Between(p)
        BY <3>1, BetweenMoves
      <4>2. ~Leaves(p)
        BY <3>1, LeavesMoves DEF Looping
      <4>3. ~Inside(p)
        BY <1>5, <2>3, <3>1, InsideMoves
      <4>4. ~PostAccepted(p)
        <5>1. PostAccepted(p) => stage[p] = "post" /\ stage'[p] = "mark"
          BY <1>3 DEF PostAccepted, Passes
        <5>2. QED
          BY <1>5, <2>3, <5>1 DEF LoopOf
      <4>5. QED
        BY <4>1, <4>2, <4>3, <4>4
    <3>3. PICK lp \in {"extract", "crawling", "post"} : stage'[p] = lp /\ Entered(p, lp)
      BY <3>1, <3>2, EntersMoves
    <3>4. lp = loop
      BY <2>3, <3>3 DEF LoopOf
    <3>5. \A q \in Process \ {p} : LoopOf(stage[q]) # loop
      <4> SUFFICES ASSUME NEW q \in Process \ {p}, LoopOf(stage[q]) = loop PROVE FALSE
        OBVIOUS
      <4>1. stage[q] \in Looping /\ todo[q] # <<>>
        BY <1>2, <1>3 DEF LoopsHaveRows
      <4>2. stage[q] \in IF loop = "post" THEN {"post", "mark"} ELSE {loop}
        BY <4>1 DEF LoopOf, Looping
      <4>3. loop \in overlapped'
        BY <3>3, <3>4, <4>1, <4>2 DEF Entered
      <4>4. QED
        BY <4>3
    <3>6. \A q \in Process \ {p} : LoopOf(stage'[q]) # loop
      BY <1>1, <3>5
    <3>7. QED
      BY <2>3, <3>2, <3>6
  <2>4. QED
    BY <2>2, <2>3
<1>6. QED
  BY <1>4, <1>5

\* A lead that ceases to be one an extraction may have is the one in hand.
LEMMA StepExtractAlone ==
  ASSUME LeadTypeOK, LoopsHaveRows, ExtractAlone, LeadNext
  PROVE  ExtractAlone'
<1> SUFFICES ASSUME "extract" \notin overlapped' PROVE Alone("extract", {b \in Lead : status[b] # "done"})'
  BY DEF ExtractAlone
<1>1. PICK G \in SUBSET Lead : G = {b \in Lead : status[b] # "done"}
  OBVIOUS
<1>2. PICK H \in SUBSET Lead : H = {b \in Lead : status'[b] # "done"}
  OBVIOUS
<1>3. Alone("extract", G)
  BY <1>1, HistoryGrows DEF ExtractAlone
<1>4. CASE AddColumn
  <2>1. stage' = stage /\ todo' = todo /\ G = H
    BY <1>1, <1>2, <1>4 DEF AddColumn, rows
  <2>2. QED
    BY <1>2, <1>3, <2>1 DEF Alone
<1>5. ASSUME NEW p \in Process,
             \/ Between(p) \/ Enters(p) \/ Inside(p) \/ PostAccepted(p) \/ Leaves(p)
      PROVE  Alone("extract", {b \in Lead : status[b] # "done"})'
  <2>1. ASSUME NEW b \in G \ H
        PROVE  Inside(p) /\ LoopOf(stage[p]) = "extract" /\ b = Head(todo[p])
    <3>1. b \in Lead /\ status[b] # "done" /\ status'[b] = "done"
      BY <1>1, <1>2
    <3>2. ~Between(p)
      BY <3>1, BetweenMoves
    <3>3. ~Enters(p) /\ ~PostAccepted(p) /\ ~Leaves(p)
      BY <3>1, EntersMoves, LeavesMoves DEF PostAccepted, rows
    <3>4. Inside(p)
      BY <1>5, <3>2, <3>3
    <3>5. PICK h \in Lead : h = Head(todo[p])
      BY <3>4, InsideMoves, HeadIsLead
    <3>6. PICK s \in {"done", "failed"} : stage[p] = "extract" /\ status' = [status EXCEPT ![h] = s]
      BY <3>1, <3>4, <3>5, InsideWrites
    <3>7. b = h
      BY <3>1, <3>6 DEF LeadTypeOK
    <3>8. QED
      BY <3>4, <3>5, <3>6, <3>7 DEF LoopOf
  <2>2. ASSUME Enters(p), LoopOf(stage'[p]) = "extract"
        PROVE  NoneTwice(todo'[p]) /\ \A i \in 1 .. Len(todo'[p]) : todo'[p][i] \in H
    <3>1. PICK loop \in {"extract", "crawling", "post"}, next \in Seq(Lead) :
            /\ stage' \in [Process -> Stage] /\ todo'[p] = next
            /\ next = <<>> => stage'[p] \notin Looping
            /\ next # <<>> => stage'[p] = loop
            /\ UNCHANGED rows
            /\ loop = "extract" => next = NextBusinesses
      BY <2>2, EntersMoves
    <3>2. stage'[p] = "extract"
      BY <2>2 DEF LoopOf
    <3>3. next = NextBusinesses
      BY <3>1, <3>2 DEF Looping
    <3>4. /\ NoneTwice(next) /\ \A i \in 1 .. Len(next) : status[next[i]] # "done"
      BY <3>3, NextIsUndone
    <3>5. \A i \in 1 .. Len(next) : next[i] \in Lead
      BY <3>1
    <3>6. status' = status
      BY <3>1 DEF rows
    <3>7. QED
      BY <1>2, <3>1, <3>4, <3>5, <3>6
  <2>3. \A q \in Process : LoopOf(stage'[q]) = "extract" =>
             /\ NoneTwice(todo'[q])
             /\ \A i \in 1 .. Len(todo'[q]) : todo'[q][i] \in H
             /\ \A r \in Process : LoopOf(stage'[r]) = "extract" => r = q
    BY <1>3, <1>5, <2>1, <2>2, AloneStep
  <2>4. QED
    BY <1>2, <2>3 DEF Alone
<1>6. QED
  BY <1>4, <1>5, LeadStep

\* A lead that has been crawled was in hand, and alone crawled once.
LEMMA StepCrawlAlone ==
  ASSUME LeadTypeOK, LoopsHaveRows, CrawlAlone, LeadNext
  PROVE  CrawlAlone'
<1> SUFFICES ASSUME "crawling" \notin overlapped'
             PROVE  /\ Alone("crawling", {b \in Lead : extractions[b] = 0})'
                    /\ \A b \in Lead : extractions'[b] <= 1
  BY DEF CrawlAlone
<1>1. PICK G \in SUBSET Lead : G = {b \in Lead : extractions[b] = 0}
  OBVIOUS
<1>2. PICK H \in SUBSET Lead : H = {b \in Lead : extractions'[b] = 0}
  OBVIOUS
<1>3. Alone("crawling", G) /\ \A b \in Lead : extractions[b] <= 1
  BY <1>1, HistoryGrows DEF CrawlAlone
<1>4. CASE AddColumn
  <2>1. stage' = stage /\ todo' = todo /\ G = H /\ extractions' = extractions
    BY <1>1, <1>2, <1>4 DEF AddColumn, rows
  <2>2. QED
    BY <1>2, <1>3, <2>1 DEF Alone
<1>5. ASSUME NEW p \in Process,
             \/ Between(p) \/ Enters(p) \/ Inside(p) \/ PostAccepted(p) \/ Leaves(p)
      PROVE  /\ Alone("crawling", {b \in Lead : extractions[b] = 0})'
             /\ \A b \in Lead : extractions'[b] <= 1
  <2>1. \/ extractions' = extractions
        \/ /\ Inside(p) /\ LoopOf(stage[p]) = "crawling" /\ Head(todo[p]) \in G
           /\ extractions' = [extractions EXCEPT ![Head(todo[p])] = 1]
    <3>1. CASE Inside(p) /\ extractions' # extractions
      <4>1. stage[p] \in Looping
        BY <3>1, InsideMoves
      <4>2. PICK q \in Seq(Lead) : q = todo[p] /\ q # <<>>
        BY <4>1, HeadIsLead
      <4>3. Head(q) \in Lead /\ Head(q) = q[1] /\ 1 \in 1 .. Len(q)
        BY <4>2, RestOfLoop
      <4>4. PICK h \in Lead : h = Head(todo[p])
        BY <4>2, <4>3
      <4>5. stage[p] = "crawling" /\ extractions' = [extractions EXCEPT ![h] = extractions[h] + 1]
        BY <3>1, <4>4, InsideWrites
      <4>6. h \in G
        BY <1>3, <4>2, <4>3, <4>4, <4>5 DEF Alone, LoopOf
      <4>7. extractions[h] = 0
        BY <1>1, <4>6
      <4>8. extractions[h] + 1 = 1
        BY <4>7
      <4>9. QED
        BY <3>1, <4>4, <4>5, <4>6, <4>8 DEF LoopOf
    <3>2. CASE ~Inside(p)
      BY <1>5, <3>2, BetweenMoves, EntersMoves, LeavesMoves DEF PostAccepted, rows
    <3>3. QED
      BY <3>1, <3>2
  <2>2. \A b \in Lead : extractions'[b] <= 1
    <3>1. \A b \in Lead : extractions'[b] = extractions[b] \/ extractions'[b] = 1
      BY <2>1 DEF LeadTypeOK
    <3>2. QED
      BY <1>3, <3>1
  <2>3. ASSUME NEW b \in G \ H
        PROVE  Inside(p) /\ LoopOf(stage[p]) = "crawling" /\ b = Head(todo[p])
    BY <1>1, <1>2, <2>1 DEF LeadTypeOK
  <2>4. ASSUME Enters(p), LoopOf(stage'[p]) = "crawling"
        PROVE  NoneTwice(todo'[p]) /\ \A i \in 1 .. Len(todo'[p]) : todo'[p][i] \in H
    <3>1. PICK loop \in {"extract", "crawling", "post"}, next \in Seq(Lead) :
            /\ todo'[p] = next
            /\ next = <<>> => stage'[p] \notin Looping
            /\ next # <<>> => stage'[p] = loop
            /\ UNCHANGED rows
            /\ loop = "crawling" => next = FirstById(Unjoined(ToCrawl), CrawlLimit)
      BY <2>4, EntersMoves
    <3>2. stage'[p] = "crawling"
      BY <2>4 DEF LoopOf
    <3>3. next = FirstById(Unjoined(ToCrawl), CrawlLimit)
      BY <3>1, <3>2 DEF Looping
    <3>4. /\ NoneTwice(next) /\ \A i \in 1 .. Len(next) : extractions[next[i]] = 0
      BY <3>3, CrawlIsFirst
    <3>5. \A i \in 1 .. Len(next) : next[i] \in Lead
      BY <3>1
    <3>6. extractions' = extractions
      BY <3>1 DEF rows
    <3>7. QED
      BY <1>2, <3>1, <3>4, <3>5, <3>6
  <2>5. \A q \in Process : LoopOf(stage'[q]) = "crawling" =>
             /\ NoneTwice(todo'[q])
             /\ \A i \in 1 .. Len(todo'[q]) : todo'[q][i] \in H
             /\ \A r \in Process : LoopOf(stage'[r]) = "crawling" => r = q
    BY <1>3, <1>5, <2>3, <2>4, AloneStep
  <2>6. QED
    BY <1>2, <2>2, <2>5 DEF Alone
<1>6. QED
  BY <1>4, <1>5, LeadStep

\* A lead that has been marked was in hand; a sync that nobody overlaps was
\* given each lead once.
LEMMA StepPostAlone ==
  ASSUME LeadTypeOK, LoopsHaveRows, CrawlAlone, PostAlone, LeadNext
  PROVE  PostAlone'
<1> SUFFICES ASSUME SyncedAlone' PROVE Alone("post", Lead \ synced)'
  BY DEF PostAlone
<1>1. PICK G \in SUBSET Lead : G = Lead \ synced
  OBVIOUS
<1>2. PICK H \in SUBSET Lead : H = Lead \ synced'
  OBVIOUS
<1>3. /\ Alone("post", G) /\ \A b \in Lead : extractions[b] <= 1
      /\ "post" \notin overlapped'
  BY <1>1, HistoryGrows DEF PostAlone, SyncedAlone, CrawlAlone
<1>4. CASE AddColumn
  <2>1. stage' = stage /\ todo' = todo /\ G = H
    BY <1>1, <1>2, <1>4 DEF AddColumn, rows
  <2>2. QED
    BY <1>2, <1>3, <2>1 DEF Alone
<1>5. ASSUME NEW p \in Process,
             \/ Between(p) \/ Enters(p) \/ Inside(p) \/ PostAccepted(p) \/ Leaves(p)
      PROVE  Alone("post", Lead \ synced)'
  <2>1. ASSUME NEW b \in G \ H
        PROVE  Inside(p) /\ LoopOf(stage[p]) = "post" /\ b = Head(todo[p])
    <3>1. b \in Lead /\ b \notin synced /\ b \in synced'
      BY <1>1, <1>2
    <3>2. Inside(p)
      BY <1>5, <3>1, BetweenMoves, EntersMoves, LeavesMoves DEF PostAccepted, rows
    <3>3. PICK h \in Lead : h = Head(todo[p])
      BY <3>2, InsideMoves, HeadIsLead
    <3>4. stage[p] = "mark" /\ synced' = synced \cup {h}
      BY <3>1, <3>2, <3>3, InsideWrites
    <3>5. QED
      BY <3>1, <3>2, <3>3, <3>4 DEF LoopOf
  <2>2. ASSUME Enters(p), LoopOf(stage'[p]) = "post"
        PROVE  NoneTwice(todo'[p]) /\ \A i \in 1 .. Len(todo'[p]) : todo'[p][i] \in H
    <3>1. PICK loop \in {"extract", "crawling", "post"}, next \in Seq(Lead) :
            /\ todo'[p] = next
            /\ next = <<>> => stage'[p] \notin Looping
            /\ next # <<>> => stage'[p] = loop
            /\ UNCHANGED rows
            /\ loop = "post" => next = SyncRows
      BY <2>2, EntersMoves
    <3>2. stage'[p] \in {"post", "mark"}
      BY <2>2 DEF LoopOf
    <3>3. next = SyncRows
      BY <3>1, <3>2 DEF Looping
    <3>4. /\ NoneTwice(next) /\ \A i \in 1 .. Len(next) : next[i] \notin synced
      BY <1>3, <3>3, SyncIsUnmarked
    <3>5. \A i \in 1 .. Len(next) : next[i] \in Lead
      BY <3>1
    <3>6. synced' = synced
      BY <3>1 DEF rows
    <3>7. QED
      BY <1>2, <3>1, <3>4, <3>5, <3>6
  <2>3. \A q \in Process : LoopOf(stage'[q]) = "post" =>
             /\ NoneTwice(todo'[q])
             /\ \A i \in 1 .. Len(todo'[q]) : todo'[q][i] \in H
             /\ \A r \in Process : LoopOf(stage'[r]) = "post" => r = q
    BY <1>3, <1>5, <2>1, <2>2, AloneStep
  <2>4. QED
    BY <1>2, <2>3 DEF Alone
<1>6. QED
  BY <1>4, <1>5, LeadStep

\* A mark that was made or is due stays so, unless it was due from the one
\* that took the step and is not made.
LEMMA MarkedStays ==
  ASSUME NEW p \in Process, \A q \in Process \ {p} : todo'[q] = todo[q] /\ stage'[q] = stage[q],
         synced \subseteq synced', NEW b \in Lead, MarkedOrDue(b),
         (stage[p] = "mark" /\ b = Head(todo[p])) => b \in synced'
  PROVE  MarkedOrDue(b)'
<1>1. CASE b \in synced
  BY <1>1 DEF MarkedOrDue
<1>2. ASSUME NEW q \in Process, stage[q] = "mark" /\ Head(todo[q]) = b
      PROVE  MarkedOrDue(b)'
  <2>1. CASE q = p
    BY <1>2, <2>1 DEF MarkedOrDue
  <2>2. CASE q # p
    BY <1>2, <2>2 DEF MarkedOrDue
  <2>3. QED
    BY <2>1, <2>2
<1>3. QED
  BY <1>1, <1>2 DEF MarkedOrDue

\* A post that is alone is of a lead that has no mark and is due for none.
LEMMA PostIsUnmarked ==
  ASSUME LeadTypeOK, LoopsHaveRows, PostAlone, SyncedAlone, NEW p \in Process, stage[p] = "post",
         NEW h \in Lead, h = Head(todo[p])
  PROVE  ~MarkedOrDue(h)
<1>1. /\ \A i \in 1 .. Len(todo[p]) : todo[p][i] \notin synced
      /\ \A q \in Process : LoopOf(stage[q]) = "post" => q = p
  BY DEF PostAlone, Alone, LoopOf
<1>2. PICK s \in Seq(Lead) : s = todo[p] /\ s # <<>>
  BY HeadIsLead DEF Looping
<1>3. Head(s) = s[1] /\ 1 \in 1 .. Len(s)
  BY <1>2, RestOfLoop
<1>4. h \notin synced
  BY <1>1, <1>2, <1>3
<1>5. \A q \in Process : stage[q] # "mark"
  BY <1>1 DEF LoopOf
<1>6. QED
  BY <1>4, <1>5 DEF MarkedOrDue

\* While nobody overlaps, every step keeps the posts of a lead to those that
\* were lost and one that left a mark.
LEMMA StepPostsAreMarked ==
  ASSUME LeadTypeOK, LoopsHaveRows, PostAlone, PostsAreMarked, LeadNext
  PROVE  PostsAreMarked'
<1> DEFINE Fine(b) == accepted[b] <= lostAcks[b] + 1 /\ (~MarkedOrDue(b) => accepted[b] <= lostAcks[b])
<1>1. SUFFICES ASSUME SyncedAlone' PROVE \A b \in Lead : Fine(b)'
  BY DEF PostsAreMarked
<1>2. SyncedAlone /\ \A b \in Lead : Fine(b)
  BY <1>1, HistoryGrows DEF SyncedAlone, PostsAreMarked
<1>3. \A b \in Lead : accepted[b] \in Nat /\ lostAcks[b] \in Nat
  BY DEF LeadTypeOK
<1>4. ASSUME NEW b \in Lead, accepted'[b] = accepted[b], lostAcks'[b] = lostAcks[b],
             MarkedOrDue(b) => MarkedOrDue(b)'
      PROVE  Fine(b)'
  BY <1>2, <1>4
<1>5. ASSUME NEW b \in Lead, accepted'[b] = accepted[b], lostAcks'[b] = lostAcks[b] + 1
      PROVE  Fine(b)'
  BY <1>2, <1>3, <1>5
<1>6. ASSUME NEW b \in Lead, accepted'[b] = accepted[b] + 1, lostAcks'[b] = lostAcks[b] + 1,
             MarkedOrDue(b) => MarkedOrDue(b)'
      PROVE  Fine(b)'
  BY <1>2, <1>3, <1>6
<1>7. ASSUME NEW b \in Lead, accepted'[b] = accepted[b] + 1, lostAcks'[b] = lostAcks[b],
             ~MarkedOrDue(b), MarkedOrDue(b)'
      PROVE  Fine(b)'
  BY <1>2, <1>3, <1>7
<1> HIDE DEF Fine
<1>8. CASE AddColumn
  <2>1. UNCHANGED <<synced, stage, todo, accepted, lostAcks>>
    BY <1>8 DEF AddColumn, rows, history
  <2>2. QED
    BY <1>4, <2>1 DEF MarkedOrDue
<1>9. ASSUME NEW p \in Process, Between(p) \/ Enters(p) PROVE \A b \in Lead : Fine(b)'
  <2>1. /\ \A q \in Process \ {p} : todo'[q] = todo[q] /\ stage'[q] = stage[q]
        /\ UNCHANGED <<synced, accepted, lostAcks>> /\ stage[p] \notin Looping
    BY <1>9, BetweenMoves, EntersMoves DEF rows
  <2>2. stage[p] # "mark"
    BY <2>1 DEF Looping
  <2>3. \A b \in Lead : MarkedOrDue(b) => MarkedOrDue(b)'
    BY <2>1, <2>2, MarkedStays
  <2>4. QED
    BY <1>4, <2>1, <2>3
<1>10. ASSUME NEW p \in Process, Inside(p) PROVE \A b \in Lead : Fine(b)'
  <2>1. stage[p] \in Looping /\ \A q \in Process \ {p} : todo'[q] = todo[q] /\ stage'[q] = stage[q]
    BY <1>10, InsideMoves
  <2>2. PICK h \in Lead : h = Head(todo[p])
    BY <2>1, HeadIsLead
  <2>3. ASSUME NEW b \in Lead, synced \subseteq synced', b # h \/ stage[p] # "mark" \/ h \in synced'
        PROVE  MarkedOrDue(b) => MarkedOrDue(b)'
    BY <2>1, <2>2, <2>3, MarkedStays
  <2>4. CASE UNCHANGED <<synced, accepted, lostAcks>> /\ stage[p] # "mark"
    BY <1>4, <2>3, <2>4
  <2>5. CASE synced' = synced \cup {h} /\ UNCHANGED <<accepted, lostAcks>>
    BY <1>4, <2>3, <2>5
  <2>6. CASE /\ UNCHANGED <<synced, accepted>>
             /\ lostAcks' = [lostAcks EXCEPT ![h] = lostAcks[h] + 1]
    <3>1. \A b \in Lead : accepted'[b] = accepted[b] /\ lostAcks'[b] = IF b = h THEN lostAcks[b] + 1 ELSE lostAcks[b]
      BY <2>6 DEF LeadTypeOK
    <3>2. \A b \in Lead \ {h} : Fine(b)'
      BY <1>4, <2>3, <2>6, <3>1
    <3>3. Fine(h)'
      BY <1>5, <3>1
    <3>4. QED
      BY <3>2, <3>3
  <2>7. CASE /\ stage[p] = "post" /\ UNCHANGED synced
             /\ accepted' = [accepted EXCEPT ![h] = accepted[h] + 1]
             /\ lostAcks' = [lostAcks EXCEPT ![h] = lostAcks[h] + 1]
    <3>1. \A b \in Lead : MarkedOrDue(b) => MarkedOrDue(b)'
      BY <2>3, <2>7
    <3>2. \A b \in Lead \ {h} : accepted'[b] = accepted[b] /\ lostAcks'[b] = lostAcks[b]
      BY <2>7 DEF LeadTypeOK
    <3>3. accepted'[h] = accepted[h] + 1 /\ lostAcks'[h] = lostAcks[h] + 1
      BY <2>7 DEF LeadTypeOK
    <3>4. \A b \in Lead \ {h} : Fine(b)'
      BY <1>4, <3>1, <3>2
    <3>5. Fine(h)'
      BY <1>6, <3>1, <3>3
    <3>6. QED
      BY <3>4, <3>5
  <2>8. QED
    BY <1>10, <2>2, <2>4, <2>5, <2>6, <2>7, InsideWrites
<1>11. ASSUME NEW p \in Process, PostAccepted(p) PROVE \A b \in Lead : Fine(b)'
  <2>1. /\ stage[p] = "post" /\ stage' = [stage EXCEPT ![p] = "mark"] /\ UNCHANGED <<todo, synced, lostAcks>>
        /\ accepted' = [accepted EXCEPT ![Head(todo[p])] = @ + 1]
    BY <1>11 DEF PostAccepted, Passes, rows
  <2>2. PICK h \in Lead : h = Head(todo[p])
    BY <2>1, HeadIsLead DEF Looping
  <2>3. /\ accepted'[h] = accepted[h] + 1
        /\ \A b \in Lead \ {h} : accepted'[b] = accepted[b]
    BY <2>1, <2>2 DEF LeadTypeOK
  <2>4. stage'[p] = "mark" /\ \A q \in Process \ {p} : stage'[q] = stage[q]
    BY <2>1 DEF LeadTypeOK
  <2>5. ~MarkedOrDue(h)
    BY <1>2, <2>1, <2>2, PostIsUnmarked
  <2>6. MarkedOrDue(h)'
    BY <2>1, <2>2, <2>4 DEF MarkedOrDue
  <2>7. Fine(h)'
    BY <1>7, <2>1, <2>3, <2>5, <2>6
  <2>8. ASSUME NEW b \in Lead \ {h} PROVE Fine(b)'
    <3>1. MarkedOrDue(b) => MarkedOrDue(b)'
      BY <2>1, <2>4, MarkedStays
    <3>2. QED
      BY <1>4, <2>1, <2>3, <3>1
  <2>9. QED
    BY <2>7, <2>8
<1>12. ASSUME NEW p \in Process, Leaves(p) PROVE \A b \in Lead : Fine(b)'
  <2>1. /\ \A q \in Process \ {p} : todo'[q] = todo[q] /\ stage'[q] = stage[q]
        /\ UNCHANGED <<synced, accepted>>
    BY <1>12, LeavesMoves DEF rows
  <2>2. \A b \in Lead : (stage[p] = "mark" /\ b = Head(todo[p])) \/ (MarkedOrDue(b) => MarkedOrDue(b)')
    BY <2>1, MarkedStays
  <2>3. CASE stage[p] # "mark"
    <3>1. lostAcks' = lostAcks
      BY <1>12, <2>3 DEF Leaves, Unreachable, Die, history
    <3>2. QED
      BY <1>4, <2>1, <2>2, <2>3, <3>1
  <2>4. CASE stage[p] = "mark"
    <3>1. PICK h \in Lead : h = Head(todo[p])
      BY <2>4, HeadIsLead DEF Looping
    <3>2. lostAcks' = [lostAcks EXCEPT ![h] = lostAcks[h] + 1]
      BY <1>12, <2>4, <3>1 DEF Leaves, Unreachable, Die, Passes
    <3>3. lostAcks'[h] = lostAcks[h] + 1 /\ \A b \in Lead \ {h} : lostAcks'[b] = lostAcks[b]
      BY <3>2 DEF LeadTypeOK
    <3>4. Fine(h)'
      BY <1>5, <2>1, <3>3
    <3>5. \A b \in Lead \ {h} : Fine(b)'
      BY <1>4, <2>1, <2>2, <3>1, <3>3
    <3>6. QED
      BY <3>4, <3>5
  <2>5. QED
    BY <2>3, <2>4
<1>13. QED
  BY <1>8, <1>9, <1>10, <1>11, <1>12, LeadStep

\* Every step keeps the invariant of the leads.
LEMMA StepLeadInv == LeadInv /\ [LeadNext]_leadVars => LeadInv'
<1> SUFFICES ASSUME LeadInv, [LeadNext]_leadVars PROVE LeadInv'
  OBVIOUS
<1>1. LeadTypeOK
  BY DEF LeadInv, SyncedWasAccepted
<1>2. CASE LeadNext
  <2>1. LoopsHaveRows' /\ ExtractAlone'
    BY <1>1, <1>2, StepLoopsHaveRows, StepExtractAlone DEF LeadInv
  <2>2. CrawlAlone' /\ PostAlone'
    BY <1>1, <1>2, StepCrawlAlone, StepPostAlone DEF LeadInv
  <2>3. MarkIsAccepted' /\ SyncedWasAccepted' /\ PostsAreMarked'
    BY <1>1, <1>2, StepAccepted, StepPostsAreMarked DEF LeadInv
  <2>4. QED
    BY <2>1, <2>2, <2>3 DEF LeadInv
<1>3. CASE UNCHANGED leadVars
  <2>1. UNCHANGED <<syncColumn, status, retryCount, extractions, synced, stage, todo, accepted,
                    lostAcks, overlapped, faults>>
    BY <1>3 DEF leadVars, rows, history
  <2>2. LeadTypeOK' /\ LoopsHaveRows' /\ MarkIsAccepted' /\ SyncedWasAccepted'
    BY <1>1, <2>1 DEF LeadInv, LeadTypeOK, LoopsHaveRows, MarkIsAccepted, SyncedWasAccepted
  <2>3. ExtractAlone' /\ CrawlAlone'
    BY <2>1 DEF LeadInv, ExtractAlone, CrawlAlone, Alone
  <2>4. PostAlone' /\ PostsAreMarked'
    BY <2>1 DEF LeadInv, PostAlone, PostsAreMarked, SyncedAlone, MarkedOrDue, Alone
  <2>5. QED
    BY <2>2, <2>3, <2>4 DEF LeadInv
<1>4. QED
  BY <1>2, <1>3

\* No step undoes a completed lead, unless extractions overlapped.
LEMMA StepCompletedStays ==
  ASSUME LeadInv, LeadNext, NEW b \in Lead, status[b] = "done", status'[b] # "done"
  PROVE  "extract" \in overlapped
<1>1. LeadTypeOK /\ LoopsHaveRows
  BY DEF LeadInv, SyncedWasAccepted
<1>2. ~AddColumn
  BY DEF AddColumn, rows
<1>3. PICK p \in Process : Inside(p)
  <2>1. ASSUME NEW p \in Process, Between(p) \/ Enters(p) \/ PostAccepted(p) \/ Leaves(p)
        PROVE  FALSE
    BY <1>1, <2>1, BetweenMoves, EntersMoves, LeavesMoves DEF PostAccepted, rows
  <2>2. QED
    BY <1>2, <2>1, LeadStep
<1>4. PICK s \in Seq(Lead) : s = todo[p] /\ s # <<>>
  BY <1>1, <1>3, InsideMoves, HeadIsLead
<1>5. Head(s) = s[1] /\ 1 \in 1 .. Len(s) /\ Head(s) \in Lead
  BY <1>4, RestOfLoop
<1>6. PICK h \in Lead : h = Head(todo[p])
  BY <1>4, <1>5
<1>7. PICK new \in {"done", "failed"} : stage[p] = "extract" /\ status' = [status EXCEPT ![h] = new]
  BY <1>1, <1>3, <1>6, InsideWrites
<1>8. b = h
  BY <1>1, <1>7 DEF LeadTypeOK
<1>9. SUFFICES ASSUME "extract" \notin overlapped PROVE FALSE
  OBVIOUS
<1>10. \A i \in 1 .. Len(todo[p]) : status[todo[p][i]] # "done"
  BY <1>7, <1>9 DEF LeadInv, ExtractAlone, Alone, LoopOf
<1>11. QED
  BY <1>4, <1>5, <1>6, <1>8, <1>10

\* Whatever harvests, crawls and syncs run side by side on the leads, however
\* they end, and however the server answers: a lead marked synced was taken by
\* the server; it was taken again only for an answer lost or an overlap; and
\* only overlapping extractions undo a completed lead.
THEOREM SyncSafety == LeadSpec => SyncIsHonest
<1>1. LeadInv => SyncedWasAccepted /\ SecondPostCostsFault
  <2> SUFFICES ASSUME LeadInv PROVE SyncedWasAccepted /\ SecondPostCostsFault
    OBVIOUS
  <2>1. SyncedWasAccepted
    BY DEF LeadInv
  <2>2. \A b \in Lead : lostAcks[b] \in Nat
    BY <2>1 DEF SyncedWasAccepted, LeadTypeOK
  <2>3. SecondPostCostsFault
    BY <2>2 DEF LeadInv, PostsAreMarked, SyncedAlone, SecondPostCostsFault
  <2>4. QED
    BY <2>1, <2>3
<1>2. LeadInv /\ [LeadNext]_leadVars =>
        [\A b \in Lead :
           status[b] = "done" /\ status'[b] # "done" => "extract" \in overlapped]_leadVars
  BY StepCompletedStays
<1>3. QED
  BY <1>1, <1>2, InitLeadInv, StepLeadInv, PTL
     DEF LeadSpec, SyncIsHonest, CompletedStays

-----------------------------------------------------------------------------
(* SheetSync: the inductive invariant.                                     *)

\* What the sheet tools plan to write.
PlanTypeOK ==
    /\ appending \in [SheetTool -> Seq(PlaceKey)]
    /\ updating \in [SheetTool -> Seq(Nat \X PlaceKey)]

OnSheet(k) == \E i \in 1 .. Len(sheet) : sheet[i] = k

\* The sheet begins with its headers, before a tool reads it.
HeaderIsFirst ==
    /\ sheet # <<>> => sheet[1] = Header
    /\ \A t \in SheetTool :
          tool[t] \in {"open", "cache", "append", "update", "mark"} => sheet # <<>>

\* An update writes what its row has already: rows are never moved.
UpdatesInPlace ==
    \A t \in SheetTool : \A i \in 1 .. Len(updating[t]) :
        /\ updating[t][i][1] \in 1 .. Len(sheet)
        /\ sheet[updating[t][i][1]] = updating[t][i][2]

\* Past its plan a tool has every row of its batch on the sheet or, until it
\* has appended, among the rows it will append.
BatchReaches ==
    \A t \in SheetTool : tool[t] \in {"append", "update", "mark"} =>
        \A i \in 1 .. Len(batch[t]) :
            \/ OnSheet(keyOf[batch[t][i]])
            \/ /\ tool[t] = "append"
               /\ \E j \in 1 .. Len(appending[t]) : appending[t][j] = keyOf[batch[t][i]]

\* An uploader at work has a row at hand, and an attempt left before it sends;
\* a row it has sent is in AfraKala.
UploadsAreSent ==
    \A u \in Uploader :
        /\ tool[u] \in {"idle", "send"} => sends[u] < Attempts
        /\ tool[u] \in {"send", "sent", "given up"} => batch[u] # <<>>
        /\ tool[u] = "sent" => Head(batch[u]) \in upserted

\* One place has the key, and no second row in website_extractions.
Single(k) ==
    \A b, c \in Place : keyOf[b] = k /\ keyOf[c] = k => b = c /\ crawls[b] <= 1

\* Positions of a batch whose key is k: at most one.
KeyOnce(k, q) ==
    \A i, j \in 1 .. Len(q) : keyOf[q[i]] = k /\ keyOf[q[j]] = k => i = j

\* Where no two tools overlapped, such a key is at most once on the sheet, in
\* a batch that is about to be planned, and among rows to be appended, which
\* are not on the sheet.
SingleOnce ==
    \A k \in PlaceKey : Single(k) /\ ~staleAppend =>
        /\ OnceIn(k, sheet)
        /\ \A t \in SheetTool :
              /\ tool[t] = "cache" => KeyOnce(k, batch[t])
              /\ tool[t] = "append" =>
                    /\ OnceIn(k, appending[t])
                    /\ \A i \in 1 .. Len(appending[t]) : appending[t][i] = k => ~OnSheet(k)

SheetInv ==
    /\ SheetTypeOK /\ PlanTypeOK
    /\ HeaderIsFirst /\ UpdatesInPlace /\ BatchReaches /\ UploadsAreSent /\ SyncedIsDelivered
    /\ SingleOnce

-----------------------------------------------------------------------------
(* SheetSync: what its selections return.                                  *)

\* The whole of a selection, in order.
LEMMA InOrderIds ==
  ASSUME NEW ids \in SUBSET Nat, NEW s \in SUBSET Row, IsFiniteSet(s), \A r \in s : r[1] \in ids
  PROVE  /\ InOrder(s) \in Seq(ids)
         /\ \A b \in ids : (\A r, t \in s : r[1] = b /\ t[1] = b => r = t) => OnceIn(b, InOrder(s))
         /\ \A r \in s : \E i \in 1 .. Len(InOrder(s)) : InOrder(s)[i] = r[1]
<1>1. PICK n \in Nat : n = Cardinality(s)
  BY FS_CardinalityType
<1>2. s # {} => n > 0
  BY <1>1, FS_EmptySet
<1>3. PICK f : f = FirstById(s, n)
  OBVIOUS
<1>4. /\ f \in Seq(ids)
      /\ \A b \in ids : (\A r, t \in s : r[1] = b /\ t[1] = b => r = t) => OnceIn(b, f)
      /\ n >= Cardinality(s) => \A r \in s : \E i \in 1 .. Len(f) : f[i] = r[1]
  BY <1>2, <1>3, SelectedIds
<1>5. InOrder(s) = f
  BY <1>1, <1>3 DEF InOrder
<1>6. QED
  BY <1>1, <1>4, <1>5

\* A batch is of places, and has a single key once.
LEMMA PendingPlaces ==
  ASSUME SheetTypeOK
  PROVE  /\ PendingRows \in Seq(Place)
         /\ \A k : Single(k) => KeyOnce(k, PendingRows)
<1>1. PICK s : s = {b \in extracted : syncStatus[b] = "pending"}
  OBVIOUS
<1>2. s \in SUBSET Place
  BY <1>1 DEF SheetTypeOK
<1>3. PICK n : n = crawls
  OBVIOUS
<1> DEFINE joined == UNION {LeftJoined(b, n[b]) : b \in s}
<1>4. PICK rs : rs = joined
  OBVIOUS
<1>5. \A b \in s : n[b] \in Nat
  <2>1. \A b \in s : n[b] \in 0 .. MaxCrawls
    BY <1>2, <1>3 DEF SheetTypeOK
  <2>2. MaxCrawls \in Nat
    BY SheetAssumption
  <2>3. QED
    BY <2>1, <2>2
<1>6. \A r : r \in rs <=> \E b \in s : r \in LeftJoined(b, n[b])
  BY <1>4
<1>7. s \in SUBSET Nat /\ IsFiniteSet(s)
  BY <1>2, SheetAssumption, FS_Subset
<1>8. /\ IsFiniteSet(rs) /\ rs \in SUBSET Row
      /\ \A r \in rs : r[1] \in s
      /\ \A r, t \in rs : r[1] = t[1] /\ n[r[1]] <= 1 => r = t
  BY <1>5, <1>6, <1>7, JoinedRows
<1>9. PICK f : f = InOrder(rs)
  OBVIOUS
<1>10. /\ f \in Seq(s)
       /\ \A b \in s : (\A r, t \in rs : r[1] = b /\ t[1] = b => r = t) => OnceIn(b, f)
  BY <1>7, <1>8, <1>9, InOrderIds
<1>11. f = PendingRows
  BY <1>1, <1>3, <1>4, <1>9 DEF PendingRows
<1>12. f \in Seq(Place) /\ \A i \in 1 .. Len(f) : f[i] \in s
  BY <1>2, <1>10
<1>13. ASSUME NEW k, Single(k), NEW i \in 1 .. Len(f), NEW j \in 1 .. Len(f),
              keyOf[f[i]] = k, keyOf[f[j]] = k
       PROVE  i = j
  <2>1. PICK b \in s : b = f[i] /\ b = f[j] /\ n[b] <= 1
    BY <1>2, <1>3, <1>12, <1>13 DEF Single
  <2>2. OnceIn(b, f)
    BY <1>8, <1>10, <2>1
  <2>3. QED
    BY <1>13, <2>1, <2>2 DEF OnceIn
<1>14. \A k : Single(k) => KeyOnce(k, f)
  BY <1>13 DEF KeyOnce
<1>15. QED
  BY <1>11, <1>12, <1>14

\* The positions of a batch that are to be appended, or updated.
LEMMA Positions ==
  ASSUME NEW n \in Nat, NEW s \in SUBSET (1 .. n)
  PROVE  /\ InOrder(Unjoined(s)) \in Seq(s)
         /\ \A b \in s : OnceIn(b, InOrder(Unjoined(s)))
         /\ \A b \in s : \E i \in 1 .. Len(InOrder(Unjoined(s))) : InOrder(Unjoined(s))[i] = b
<1>1. s \in SUBSET Nat /\ IsFiniteSet(s)
  <2>1. 1 \in Int /\ n \in Int
    OBVIOUS
  <2>2. IsFiniteSet(1 .. n)
    BY <2>1, FS_Interval
  <2>3. IsFiniteSet(s)
    BY <2>2, FS_Subset
  <2>4. QED
    BY <2>3
<1>2. PICK u : u = Unjoined(s)
  OBVIOUS
<1>3. /\ IsFiniteSet(u) /\ u \in SUBSET Row
      /\ \A r \in u : r[1] \in s
      /\ \A r, t \in u : r[1] = t[1] => r = t
      /\ \A b \in s : <<b, 1>> \in u
  BY <1>1, <1>2, UnjoinedRows
<1>4. PICK f : f = InOrder(u)
  OBVIOUS
<1>5. /\ f \in Seq(s)
      /\ \A b \in s : (\A r, t \in u : r[1] = b /\ t[1] = b => r = t) => OnceIn(b, f)
      /\ \A r \in u : \E i \in 1 .. Len(f) : f[i] = r[1]
  BY <1>1, <1>3, <1>4, InOrderIds
<1>6. \A b \in s : \E i \in 1 .. Len(f) : f[i] = b
  BY <1>3, <1>5
<1>7. QED
  BY <1>2, <1>3, <1>4, <1>5, <1>6

-----------------------------------------------------------------------------
(* SheetSync: the steps of the tools.                                      *)

\* At first the sheet is empty and nothing is marked.
LEMMA InitSheetInv == SheetInit => SheetInv
<1> SUFFICES ASSUME SheetInit PROVE SheetInv
  OBVIOUS
<1>1. /\ MaxCrawls \in Nat /\ MaxMishaps \in Nat /\ Attempts \in Nat /\ 0 < Attempts
      /\ 0 \in 0 .. MaxCrawls /\ 0 \in 0 .. MaxMishaps /\ 0 \in 0 .. Attempts
  BY SheetAssumption
<1>2. <<>> \in Seq(PlaceKey \cup {Header}) /\ <<>> \in Seq(Place) /\ <<>> \in Seq(PlaceKey)
      /\ <<>> \in Seq(Nat \X PlaceKey) /\ Len(<<>>) = 0 /\ \A i : i \notin 1 .. 0
  BY EmptySeq
<1>3. SheetTypeOK
  BY <1>1, <1>2 DEF SheetInit, SheetTypeOK
<1>4. PlanTypeOK
  BY <1>2 DEF SheetInit, PlanTypeOK
<1>5. \A t \in SheetTool : tool[t] = "idle" /\ updating[t] = <<>>
  BY DEF SheetInit, Tool
<1>6. HeaderIsFirst /\ BatchReaches
  BY <1>5 DEF SheetInit, HeaderIsFirst, BatchReaches
<1>7. UpdatesInPlace
  BY <1>2, <1>5 DEF UpdatesInPlace
<1>8. UploadsAreSent
  <2>1. \A u \in Uploader : tool[u] = "idle" /\ sends[u] = 0
    BY DEF SheetInit, Tool
  <2>2. QED
    BY <1>1, <2>1 DEF UploadsAreSent
<1>9. SyncedIsDelivered
  BY <1>3 DEF SheetInit, SyncedIsDelivered
<1>10. SingleOnce
  <2>1. sheet = <<>>
    BY DEF SheetInit
  <2>2. \A k : OnceIn(k, sheet)
    BY <1>2, <2>1 DEF OnceIn
  <2>3. QED
    BY <1>5, <2>2 DEF SingleOnce
<1>11. QED
  BY <1>3, <1>4, <1>6, <1>7, <1>8, <1>9, <1>10 DEF SheetInv

\* A step of one tool leaves the others where they are.
LEMMA OthersStay ==
  ASSUME SheetTypeOK, PlanTypeOK, NEW t \in Tool,
         (t \in SheetTool /\ SheetSteps(t)) \/ (t \in Uploader /\ UploadSteps(t))
  PROVE  /\ \A s \in Tool \ {t} : tool'[s] = tool[s] /\ batch'[s] = batch[s]
         /\ \A s \in SheetTool \ {t} : appending'[s] = appending[s] /\ updating'[s] = updating[s]
         /\ \A s \in Uploader \ {t} : sends'[s] = sends[s]
<1> USE DEF SheetTypeOK, PlanTypeOK, ToolGoes, planVars
<1>1. CASE t \in SheetTool /\ SheetSteps(t)
  <2> USE <1>1
  <2>1. CASE OpenSheet(t) \/ AddHeader(t) \/ SelectRaises(t)
    BY <2>1 DEF OpenSheet, AddHeader, SelectRaises
  <2>2. CASE SelectPending(t)
    BY <2>2 DEF SelectPending
  <2>3. CASE PlanRows(t)
    BY <2>3 DEF PlanRows
  <2>4. CASE AppendRows(t) \/ UpdateRow(t)
    BY <2>4 DEF AppendRows, UpdateRow
  <2>5. CASE CallRaises(t) \/ MarkBatch(t)
    BY <2>5 DEF CallRaises, MarkBatch
  <2>6. QED
    BY <2>1, <2>2, <2>3, <2>4, <2>5 DEF SheetSteps
<1>2. CASE t \in Uploader /\ UploadSteps(t)
  <2> USE <1>2
  <2>1. CASE StartUpload(t)
    BY <2>1 DEF StartUpload
  <2>2. CASE Upsert(t) \/ UpsertFails(t)
    BY <2>2 DEF Upsert, UpsertFails
  <2>3. CASE MarkUploaded(t) \/ MarkUploadFailed(t)
    BY <2>3 DEF MarkUploaded, MarkUploadFailed, MarkOne
  <2>4. CASE StopUpload(t)
    BY <2>4 DEF StopUpload
  <2>5. QED
    BY <2>1, <2>2, <2>3, <2>4 DEF UploadSteps
<1>3. QED
  BY <1>1, <1>2

\* A step of no sheet tool leaves the sheet and its tools alone.
LEMMA SheetStays ==
  ASSUME SheetTypeOK, PlanTypeOK,
         \/ UNCHANGED sheetVars
         \/ \E b \in Place : CompletePlace(b)
         \/ AddSyncColumn \/ StartCrawler \/ SaveExtraction
         \/ \E u \in Uploader : UploadSteps(u)
  PROVE  /\ UNCHANGED <<sheet, staleAppend, appending, updating>>
         /\ \A s \in SheetTool : tool'[s] = tool[s] /\ batch'[s] = batch[s]
<1>1. CASE UNCHANGED sheetVars
  BY <1>1 DEF sheetVars, planVars
<1>2. CASE \E b \in Place : CompletePlace(b)
  BY <1>2 DEF CompletePlace, planVars
<1>3. CASE AddSyncColumn \/ StartCrawler \/ SaveExtraction
  BY <1>3 DEF AddSyncColumn, StartCrawler, SaveExtraction, planVars
<1>4. ASSUME NEW u \in Uploader, UploadSteps(u)
      PROVE  /\ UNCHANGED <<sheet, staleAppend, appending, updating>>
             /\ \A s \in SheetTool : tool'[s] = tool[s] /\ batch'[s] = batch[s]
  <2>1. UNCHANGED <<sheet, staleAppend, appending, updating>>
    BY <1>4 DEF UploadSteps, StartUpload, Upsert, UpsertFails, MarkUploaded, MarkUploadFailed,
                MarkOne, StopUpload, planVars
  <2>2. u \in Tool /\ \A s \in SheetTool : s \in Tool \ {u}
    BY <1>4, SheetAssumption DEF Tool
  <2>3. QED
    BY <1>4, <2>1, <2>2, OthersStay
<1>5. QED
  BY <1>1, <1>2, <1>3, <1>4

\* What the sheet tools write: a heading, new rows at the end, or what a row
\* has already.
LEMMA SheetMoves ==
  ASSUME SheetTypeOK, PlanTypeOK, UpdatesInPlace, NEW t \in SheetTool, SheetSteps(t)
  PROVE  \/ UNCHANGED sheet
         \/ AddHeader(t) /\ sheet' = Append(sheet, Header)
         \/ AppendRows(t) /\ sheet' = sheet \o appending[t]
<1>1. CASE UpdateRow(t)
  <2> DEFINE row == Head(updating[t])
  <2>1. updating[t] \in Seq(Nat \X PlaceKey) /\ updating[t] # <<>>
    BY <1>1 DEF UpdateRow, PlanTypeOK
  <2>2. row = updating[t][1] /\ 1 \in 1 .. Len(updating[t])
    <3>1. Len(updating[t]) \in Nat \ {0}
      BY <2>1, EmptySeq
    <3>2. QED
      BY <2>1, <3>1
  <2>3. row[1] \in 1 .. Len(sheet) /\ sheet[row[1]] = row[2]
    BY <2>2 DEF UpdatesInPlace
  <2>4. sheet' = [sheet EXCEPT ![row[1]] = row[2]]
    BY <1>1 DEF UpdateRow
  <2>5. sheet \in [1 .. Len(sheet) -> PlaceKey \cup {Header}]
    BY LenProperties DEF SheetTypeOK
  <2>6. sheet' = sheet
    <3> HIDE DEF row
    <3>1. QED
      BY <2>3, <2>4, <2>5
  <2>7. QED
    BY <2>6
<1>2. CASE ~UpdateRow(t)
  BY <1>2 DEF SheetSteps, OpenSheet, AddHeader, SelectPending, SelectRaises, PlanRows,
              AppendRows, CallRaises, MarkBatch
<1>3. QED
  BY <1>1, <1>2

\* Whatever a step does, the keys of places stay, the rows of the sheet stay,
\* and what has been crawled, uploaded or appended behind a cache remains.
LEMMA SheetGrows ==
  ASSUME SheetTypeOK, PlanTypeOK, UpdatesInPlace, [SheetNext]_sheetVars
  PROVE  /\ keyOf' = keyOf /\ upserted \subseteq upserted' /\ (staleAppend => staleAppend')
         /\ \A b \in Place : crawls[b] <= crawls'[b]
         /\ Len(sheet) \in Nat /\ Len(sheet') \in Nat
         /\ \A i \in 1 .. Len(sheet) : i \in 1 .. Len(sheet') /\ sheet'[i] = sheet[i]
<1>1. sheet \in Seq(PlaceKey \cup {Header}) /\ Len(sheet) \in Nat
  BY LenProperties DEF SheetTypeOK
<1>2. \A b \in Place : crawls[b] \in Nat
  <2>1. \A b \in Place : crawls[b] \in 0 .. MaxCrawls
    BY DEF SheetTypeOK
  <2>2. MaxCrawls \in Nat
    BY SheetAssumption
  <2>3. QED
    BY <2>1, <2>2
<1>3. CASE \E t \in SheetTool : SheetSteps(t)
  <2>1. PICK t \in SheetTool : SheetSteps(t)
    BY <1>3
  <2>2. UNCHANGED <<keyOf, upserted, crawls>> /\ (staleAppend => staleAppend')
    <3>1. UNCHANGED <<keyOf, upserted, crawls>>
      BY <2>1 DEF SheetSteps, OpenSheet, AddHeader, SelectPending, SelectRaises, PlanRows,
                  AppendRows, UpdateRow, CallRaises, MarkBatch, placeVars
    <3>2. CASE AppendRows(t)
      <4>1. staleAppend' = (staleAppend \/ \E u \in SheetTool \ {t} : tool[u] = "append")
        BY <3>2 DEF AppendRows
      <4>2. QED
        BY <3>1, <4>1
    <3>3. CASE ~AppendRows(t)
      <4>1. UNCHANGED staleAppend
        BY <2>1, <3>3 DEF SheetSteps, OpenSheet, AddHeader, SelectPending, SelectRaises, PlanRows,
                          UpdateRow, CallRaises, MarkBatch
      <4>2. QED
        BY <3>1, <4>1
    <3>4. QED
      BY <3>2, <3>3
  <2>3. \A b \in Place : crawls[b] <= crawls'[b]
    BY <1>2, <2>2
  <2>4. CASE UNCHANGED sheet
    BY <1>1, <2>2, <2>3, <2>4
  <2>5. CASE sheet' = Append(sheet, Header)
    <3>1. Len(sheet') = Len(sheet) + 1 /\ \A i \in 1 .. Len(sheet) : sheet'[i] = sheet[i]
      BY <1>1, <2>5, AppendProperties
    <3>2. QED
      BY <1>1, <2>2, <2>3, <3>1
  <2>6. CASE sheet' = sheet \o appending[t]
    <3>1. appending[t] \in Seq(PlaceKey \cup {Header}) /\ Len(appending[t]) \in Nat
      BY LenProperties DEF PlanTypeOK
    <3>2. Len(sheet') = Len(sheet) + Len(appending[t])
          /\ \A i \in 1 .. Len(sheet) + Len(appending[t]) :
                sheet'[i] = IF i <= Len(sheet) THEN sheet[i] ELSE appending[t][i - Len(sheet)]
      BY <1>1, <2>6, <3>1, ConcatProperties
    <3>3. \A i \in 1 .. Len(sheet) : i \in 1 .. Len(sheet') /\ sheet'[i] = sheet[i]
      BY <1>1, <3>1, <3>2
    <3>4. QED
      BY <1>1, <2>2, <2>3, <3>1, <3>2, <3>3
  <2>7. QED
    BY <2>1, <2>4, <2>5, <2>6, SheetMoves
<1>4. CASE ~ \E t \in SheetTool : SheetSteps(t)
  <2>1. /\ UNCHANGED <<sheet, staleAppend>>
    BY <1>4, SheetStays DEF SheetNext
  <2>2. CASE SaveExtraction
    <3>1. UNCHANGED <<keyOf, upserted>> /\ crawls' = [crawls EXCEPT ![Head(toCrawl)] = @ + 1]
      BY <2>2 DEF SaveExtraction
    <3>2. \A b \in Place : crawls'[b] = crawls[b] \/ crawls'[b] = crawls[b] + 1
      BY <3>1 DEF SheetTypeOK
    <3>3. QED
      BY <1>1, <1>2, <2>1, <3>1, <3>2
  <2>3. CASE ~SaveExtraction
    <3>1. UNCHANGED <<keyOf, crawls>> /\ upserted \subseteq upserted'
      <4>1. ASSUME NEW u \in Uploader, UploadSteps(u)
            PROVE  UNCHANGED <<keyOf, crawls>> /\ upserted \subseteq upserted'
        BY <4>1 DEF UploadSteps, StartUpload, Upsert, UpsertFails, MarkUploaded,
                    MarkUploadFailed, MarkOne, StopUpload, placeVars
      <4>2. QED
        BY <1>4, <2>3, <4>1 DEF SheetNext, CompletePlace, AddSyncColumn, StartCrawler, sheetVars,
                                placeVars
    <3>2. \A b \in Place : crawls[b] <= crawls'[b]
      BY <1>2, <3>1
    <3>3. QED
      BY <1>1, <2>1, <3>1, <3>2
  <2>4. QED
    BY <2>2, <2>3
<1>5. QED
  BY <1>3, <1>4

\* The write a tool goes on with.
LEMMA NextWrite ==
  ASSUME NEW append, NEW update
  PROVE  /\ FirstWrite(append, update) \in {"append", "update", "mark"}
         /\ FirstWrite(append, update) = "append" <=> append # <<>>
BY DEF FirstWrite

\* What a plan appends and updates: every row of the batch, once, the known
\* keys where they are and the others behind the sheet.
LEMMA PlannedRows ==
  ASSUME SheetTypeOK, PlanTypeOK, NEW t \in SheetTool, PlanRows(t)
  PROVE  /\ appending'[t] \in Seq(PlaceKey) /\ updating'[t] \in Seq(Nat \X PlaceKey)
         /\ tool'[t] \in {"append", "update", "mark"}
         /\ tool'[t] = "append" <=> appending'[t] # <<>>
         /\ \A i \in 1 .. Len(updating'[t]) :
               /\ updating'[t][i][1] \in 2 .. Len(sheet)
               /\ sheet[updating'[t][i][1]] = updating'[t][i][2]
         /\ \A i \in 1 .. Len(batch[t]) :
               \/ RowsOf(keyOf[batch[t][i]]) # {}
               \/ \E j \in 1 .. Len(appending'[t]) : appending'[t][j] = keyOf[batch[t][i]]
         /\ \A j \in 1 .. Len(appending'[t]) : RowsOf(appending'[t][j]) = {}
         /\ \A k : KeyOnce(k, batch[t]) => OnceIn(k, appending'[t])
<1> DEFINE key(i) == keyOf[batch[t][i]]
<1>1. PICK n : n = Len(batch[t])
  OBVIOUS
<1>2. n \in Nat /\ \A i \in 1 .. n : key(i) \in PlaceKey
  <2>1. batch[t] \in Seq(Place)
    BY DEF SheetTypeOK, Tool
  <2>2. n \in Nat /\ batch[t] \in [1 .. n -> Place]
    BY <1>1, <2>1, LenProperties
  <2>3. QED
    BY <2>2 DEF SheetTypeOK
<1>3. PICK known : known = {i \in 1 .. n : RowsOf(key(i)) # {}}
  OBVIOUS
<1>4. PICK append : append = InOrder(Unjoined(1 .. n \ known))
  OBVIOUS
<1>5. PICK update : update = InOrder(Unjoined(known))
  OBVIOUS
<1>6. /\ append \in Seq(1 .. n \ known)
      /\ \A b \in 1 .. n \ known : OnceIn(b, append)
      /\ \A b \in 1 .. n \ known : \E i \in 1 .. Len(append) : append[i] = b
  <2>1. 1 .. n \ known \in SUBSET (1 .. n)
    OBVIOUS
  <2>2. QED
    BY <1>2, <1>4, <2>1, Positions
<1>7. update \in Seq(known)
  <2>1. known \in SUBSET (1 .. n)
    BY <1>3
  <2>2. QED
    BY <1>2, <1>5, <2>1, Positions
<1>8. /\ Len(append) \in Nat /\ DOMAIN append = 1 .. Len(append)
      /\ \A i \in 1 .. Len(append) : append[i] \in 1 .. n \ known
      /\ append # <<>> <=> Len(append) # 0
  BY <1>6, LenProperties, EmptySeq
<1>9. /\ Len(update) \in Nat /\ DOMAIN update = 1 .. Len(update)
      /\ \A i \in 1 .. Len(update) : update[i] \in known
  BY <1>7, LenProperties
<1>10. /\ tool'[t] = FirstWrite(append, update)
       /\ appending'[t] = [i \in 1 .. Len(append) |-> key(append[i])]
       /\ updating'[t] = [i \in 1 .. Len(update) |-> <<RowOf(key(update[i])), key(update[i])>>]
  <2>1. /\ ToolGoes(t, "cache", FirstWrite(append, update))
        /\ appending' = [appending EXCEPT ![t] = [i \in DOMAIN append |-> key(append[i])]]
        /\ updating' = [updating EXCEPT ![t] =
               [i \in DOMAIN update |-> <<RowOf(key(update[i])), key(update[i])>>]]
    BY <1>1, <1>3, <1>4, <1>5 DEF PlanRows
  <2>2. t \in Tool
    BY DEF Tool
  <2>3. QED
    BY <1>8, <1>9, <2>1, <2>2 DEF ToolGoes, SheetTypeOK, PlanTypeOK
<1>11. PICK a : a = appending'[t]
  OBVIOUS
<1>12. PICK u : u = updating'[t]
  OBVIOUS
<1>13. /\ a \in Seq(PlaceKey) /\ Len(a) = Len(append)
       /\ \A i \in 1 .. Len(append) : a[i] = key(append[i])
  <2>1. a \in [1 .. Len(append) -> PlaceKey] /\ \A i \in 1 .. Len(append) : a[i] = key(append[i])
    BY <1>2, <1>8, <1>10, <1>11
  <2>2. QED
    BY <1>8, <2>1
<1>14. tool'[t] \in {"append", "update", "mark"} /\ (tool'[t] = "append" <=> a # <<>>)
  <2>1. a # <<>> <=> Len(a) # 0
    BY <1>13, EmptySeq
  <2>2. QED
    BY <1>8, <1>10, <1>13, <2>1, NextWrite
<1>15. \A i \in known : /\ RowOf(key(i)) \in 2 .. Len(sheet) /\ sheet[RowOf(key(i))] = key(i)
                        /\ key(i) \in PlaceKey
  <2>1. TAKE i \in known
  <2>2. PICK k : k = key(i)
    OBVIOUS
  <2>3. RowsOf(k) # {} /\ k \in PlaceKey
    BY <1>2, <1>3, <2>2
  <2>4. \E r \in RowsOf(k) : \A j \in RowsOf(k) : j <= r
    <3>1. Len(sheet) \in Nat
      BY LenProperties DEF SheetTypeOK
    <3>2. DEFINE Back == {Len(sheet) - r : r \in RowsOf(k)}
    <3>3. Back \subseteq Nat /\ Back # {}
      BY <2>3, <3>1 DEF RowsOf
    <3>4. PICK m \in Back : \A l \in Back : m <= l
      <4> HIDE DEF Back
      <4>1. QED
        BY <3>3, LeastNumber
    <3>5. PICK r \in RowsOf(k) : m = Len(sheet) - r
      BY <3>4
    <3>6. \A j \in RowsOf(k) : j \in Nat /\ Len(sheet) - j \in Back
      BY DEF RowsOf
    <3>7. ASSUME NEW j \in RowsOf(k) PROVE j <= r
      <4>1. Len(sheet) - r <= Len(sheet) - j
        BY <3>4, <3>5, <3>6
      <4>2. QED
        BY <3>1, <3>6, <4>1
    <3>8. QED
      BY <3>7
  <2>5. RowOf(k) \in RowsOf(k)
    BY <2>4 DEF RowOf
  <2>6. QED
    BY <2>2, <2>3, <2>5 DEF RowsOf
<1>16. /\ u \in Seq(Nat \X PlaceKey) /\ Len(u) = Len(update)
       /\ \A i \in 1 .. Len(update) : u[i] = <<RowOf(key(update[i])), key(update[i])>>
  <2>1. \A i \in 1 .. Len(update) : RowOf(key(update[i])) \in Nat /\ key(update[i]) \in PlaceKey
    BY <1>9, <1>15
  <2>2. \A i \in 1 .. Len(update) : <<RowOf(key(update[i])), key(update[i])>> \in Nat \X PlaceKey
    BY <2>1
  <2>3. u \in [1 .. Len(update) -> Nat \X PlaceKey]
        /\ \A i \in 1 .. Len(update) : u[i] = <<RowOf(key(update[i])), key(update[i])>>
    <3> HIDE DEF key
    <3>1. QED
      BY <1>10, <1>12, <2>2
  <2>4. QED
    BY <1>9, <2>3
<1>17. \A i \in 1 .. Len(u) : u[i][1] \in 2 .. Len(sheet) /\ sheet[u[i][1]] = u[i][2]
  <2>1. ASSUME NEW i \in 1 .. Len(u)
        PROVE  u[i][1] \in 2 .. Len(sheet) /\ sheet[u[i][1]] = u[i][2]
    <3>1. PICK b \in known : b = update[i] /\ u[i] = <<RowOf(key(b)), key(b)>>
      BY <1>9, <1>16
    <3>2. u[i][1] = RowOf(key(b)) /\ u[i][2] = key(b)
      BY <3>1
    <3>3. QED
      BY <1>15, <3>2
  <2>2. QED
    BY <2>1
<1>18. \A i \in 1 .. n : RowsOf(key(i)) # {} \/ \E j \in 1 .. Len(a) : a[j] = key(i)
  BY <1>3, <1>6, <1>13
<1>19. \A j \in 1 .. Len(a) : RowsOf(a[j]) = {}
  BY <1>3, <1>8, <1>13
<1>20. ASSUME NEW k, KeyOnce(k, batch[t]) PROVE OnceIn(k, a)
  <2>1. ASSUME NEW i \in 1 .. Len(append), NEW j \in 1 .. Len(append), a[i] = k, a[j] = k
        PROVE  i = j
    <3>1. append[i] = append[j] /\ append[i] \in 1 .. n \ known
      <4>1. append[i] \in 1 .. n \ known /\ append[j] \in 1 .. n \ known
        BY <1>8, <2>1
      <4>2. key(append[i]) = k /\ key(append[j]) = k
        BY <1>13, <2>1
      <4>3. \A x, y \in 1 .. n : key(x) = k /\ key(y) = k => x = y
        BY <1>1, <1>20 DEF KeyOnce
      <4>4. QED
        BY <4>1, <4>2, <4>3
    <3>2. OnceIn(append[i], append)
      BY <1>6, <3>1
    <3>3. QED
      BY <2>1, <3>1, <3>2 DEF OnceIn
  <2>2. QED
    BY <1>13, <2>1 DEF OnceIn
<1>21. QED
  BY <1>1, <1>11, <1>12, <1>13, <1>14, <1>16, <1>17, <1>18, <1>19, <1>20

\* A step of a sheet tool keeps the types.
LEMMA SheetStepTypes ==
  ASSUME SheetTypeOK, PlanTypeOK, UpdatesInPlace, NEW t \in SheetTool, SheetSteps(t)
  PROVE  SheetTypeOK' /\ PlanTypeOK'
<1>1. t \in Tool /\ <<>> \in Seq(PlaceKey) /\ <<>> \in Seq(Nat \X PlaceKey) /\ <<>> \in Seq(Place)
  BY EmptySeq DEF Tool
<1>2. UNCHANGED <<placeVars, upserted, sends>>
  BY DEF SheetSteps, OpenSheet, AddHeader, SelectPending, SelectRaises, PlanRows, AppendRows,
         UpdateRow, CallRaises, MarkBatch, planVars
<1>3. sheet' \in Seq(PlaceKey \cup {Header})
  <2>1. sheet \in Seq(PlaceKey \cup {Header}) /\ Header \in PlaceKey \cup {Header}
    BY DEF SheetTypeOK
  <2>2. appending[t] \in Seq(PlaceKey \cup {Header})
    BY DEF PlanTypeOK
  <2>3. Append(sheet, Header) \in Seq(PlaceKey \cup {Header})
    BY <2>1, AppendProperties
  <2>4. sheet \o appending[t] \in Seq(PlaceKey \cup {Header})
    BY <2>1, <2>2, ConcatProperties
  <2>5. QED
    BY <2>1, <2>3, <2>4, SheetMoves
<1>4. syncStatus' \in [Place -> {"pending", "synced", "failed"}]
  <2>1. CASE MarkBatch(t)
    BY <2>1 DEF MarkBatch, SheetTypeOK
  <2>2. CASE ~MarkBatch(t)
    BY <2>2 DEF SheetSteps, OpenSheet, AddHeader, SelectPending, SelectRaises, PlanRows,
                AppendRows, UpdateRow, CallRaises, SheetTypeOK
  <2>3. QED
    BY <2>1, <2>2
<1>5. batch' \in [Tool -> Seq(Place)]
  <2>1. CASE SelectPending(t) \/ CallRaises(t) \/ MarkBatch(t)
    <3>1. \E q \in Seq(Place) : batch' = [batch EXCEPT ![t] = q]
      BY <1>1, <2>1, PendingPlaces DEF SelectPending, CallRaises, MarkBatch
    <3>2. QED
      BY <1>1, <3>1 DEF SheetTypeOK
  <2>2. CASE ~(SelectPending(t) \/ CallRaises(t) \/ MarkBatch(t))
    BY <2>2 DEF SheetSteps, OpenSheet, AddHeader, SelectRaises, PlanRows, AppendRows, UpdateRow,
                planVars, SheetTypeOK
  <2>3. QED
    BY <2>1, <2>2
<1>6. appending' \in [SheetTool -> Seq(PlaceKey)]
  <2>1. CASE PlanRows(t)
    <3>1. \A s \in SheetTool \ {t} : appending'[s] = appending[s]
      BY <1>1, OthersStay
    <3>2. \E a : appending' = [appending EXCEPT ![t] = a]
      BY <2>1 DEF PlanRows
    <3>3. QED
      BY <2>1, <3>1, <3>2, PlannedRows DEF PlanTypeOK
  <2>2. CASE AppendRows(t) \/ CallRaises(t)
    BY <1>1, <2>2 DEF AppendRows, CallRaises, PlanTypeOK
  <2>3. CASE ~(PlanRows(t) \/ AppendRows(t) \/ CallRaises(t))
    BY <2>3 DEF SheetSteps, OpenSheet, AddHeader, SelectPending, SelectRaises, UpdateRow,
                MarkBatch, planVars, PlanTypeOK
  <2>4. QED
    BY <2>1, <2>2, <2>3
<1>7. updating' \in [SheetTool -> Seq(Nat \X PlaceKey)]
  <2>1. CASE PlanRows(t)
    <3>1. \A s \in SheetTool \ {t} : updating'[s] = updating[s]
      BY <1>1, OthersStay
    <3>2. \E u : updating' = [updating EXCEPT ![t] = u]
      BY <2>1 DEF PlanRows
    <3>3. QED
      BY <2>1, <3>1, <3>2, PlannedRows DEF PlanTypeOK
  <2>2. CASE CallRaises(t)
    BY <1>1, <2>2 DEF CallRaises, PlanTypeOK
  <2>3. CASE UpdateRow(t)
    <3>1. updating[t] \in Seq(Nat \X PlaceKey) /\ updating[t] # <<>>
      BY <2>3 DEF UpdateRow, PlanTypeOK
    <3>2. Tail(updating[t]) \in Seq(Nat \X PlaceKey)
      BY <3>1, HeadTailProperties
    <3>3. QED
      BY <2>3, <3>2 DEF UpdateRow, PlanTypeOK
  <2>4. CASE ~(PlanRows(t) \/ UpdateRow(t) \/ CallRaises(t))
    BY <2>4 DEF SheetSteps, OpenSheet, AddHeader, SelectPending, SelectRaises, AppendRows,
                MarkBatch, planVars, PlanTypeOK
  <2>5. QED
    BY <2>1, <2>2, <2>3, <2>4
<1>8. tool' \in [Tool -> {"idle", "header", "open", "cache", "append", "update", "mark",
                          "send", "sent", "given up"}]
  <2>1. \A s \in Tool \ {t} : tool'[s] = tool[s]
    BY <1>1, OthersStay
  <2>2. \E next \in {"idle", "header", "open", "cache", "append", "update", "mark"} :
           tool' = [tool EXCEPT ![t] = next]
    <3>1. CASE PlanRows(t)
      <4>1. \E a, u : tool' = [tool EXCEPT ![t] = FirstWrite(a, u)]
        BY <3>1 DEF PlanRows, ToolGoes
      <4>2. QED
        BY <4>1, NextWrite
    <3>2. CASE AppendRows(t)
      BY <3>2, NextWrite DEF AppendRows, ToolGoes
    <3>3. CASE UpdateRow(t)
      BY <3>3, NextWrite DEF UpdateRow, ToolGoes
    <3>4. CASE ~(PlanRows(t) \/ AppendRows(t) \/ UpdateRow(t))
      BY <3>4 DEF SheetSteps, OpenSheet, AddHeader, SelectPending, SelectRaises, CallRaises,
                  MarkBatch, ToolGoes
    <3>5. QED
      BY <3>1, <3>2, <3>3, <3>4
  <2>3. QED
    BY <2>2 DEF SheetTypeOK
<1>9. staleAppend' \in BOOLEAN
  BY DEF SheetSteps, OpenSheet, AddHeader, SelectPending, SelectRaises, PlanRows, AppendRows,
         UpdateRow, CallRaises, MarkBatch, SheetTypeOK
<1>10. mishaps' \in 0 .. MaxMishaps
  <2>1. CASE CallRaises(t)
    <3>1. mishaps < MaxMishaps /\ mishaps' = mishaps + 1
      BY <2>1 DEF CallRaises, Mishap
    <3>2. MaxMishaps \in Nat /\ mishaps \in 0 .. MaxMishaps
      BY SheetAssumption DEF SheetTypeOK
    <3>3. QED
      BY <3>1, <3>2
  <2>2. CASE ~CallRaises(t)
    BY <2>2 DEF SheetSteps, OpenSheet, AddHeader, SelectPending, SelectRaises, PlanRows,
                AppendRows, UpdateRow, MarkBatch, SheetTypeOK
  <2>3. QED
    BY <2>1, <2>2
<1>11. QED
  BY <1>2, <1>3, <1>4, <1>5, <1>6, <1>7, <1>8, <1>9, <1>10
     DEF SheetTypeOK, PlanTypeOK, placeVars

\* A row at hand is a place.
LEMMA HeadIsPlace ==
  ASSUME SheetTypeOK, NEW u \in Uploader, batch[u] # <<>>
  PROVE  Head(batch[u]) \in Place /\ Tail(batch[u]) \in Seq(Place)
<1>1. batch[u] \in Seq(Place)
  BY DEF SheetTypeOK, Tool
<1>2. QED
  BY <1>1, HeadTailProperties

\* What an uploader does with a row.
LEMMA NextAttention ==
  ASSUME NEW q
  PROVE  /\ Attend(q) \in {"idle", "send", "given up"}
         /\ Attend(q) # "idle" => q # <<>>
BY DEF Attend

\* A step of an uploader keeps the types, and what the tools hold.
LEMMA UploadStepTypes ==
  ASSUME SheetTypeOK, PlanTypeOK, UploadsAreSent, NEW u \in Uploader, UploadSteps(u)
  PROVE  SheetTypeOK' /\ PlanTypeOK'
<1>1. u \in Tool /\ <<>> \in Seq(Place) /\ 0 \in 0 .. Attempts
  <2>1. Attempts \in Nat
    BY SheetAssumption
  <2>2. QED
    BY <2>1, EmptySeq DEF Tool
<1>2. UNCHANGED <<placeVars, sheet, appending, updating, staleAppend>>
  BY DEF UploadSteps, StartUpload, Upsert, UpsertFails, MarkUploaded, MarkUploadFailed, MarkOne,
         StopUpload, planVars
<1>3. tool[u] \in {"send", "sent", "given up"} =>
         batch[u] # <<>> /\ Head(batch[u]) \in Place /\ Tail(batch[u]) \in Seq(Place)
  BY HeadIsPlace DEF UploadsAreSent
<1>4. upserted' \in SUBSET Place
  <2>1. CASE Upsert(u) \/ UpsertFails(u)
    <3>1. Head(batch[u]) \in Place
      BY <1>3, <2>1 DEF Upsert, UpsertFails, ToolGoes
    <3>2. \E taken \in SUBSET {Head(batch[u])} : upserted' = upserted \cup taken
      BY <2>1 DEF Upsert, UpsertFails
    <3>3. QED
      BY <3>1, <3>2 DEF SheetTypeOK
  <2>2. CASE ~(Upsert(u) \/ UpsertFails(u))
    BY <2>2 DEF UploadSteps, StartUpload, MarkUploaded, MarkUploadFailed, MarkOne, StopUpload,
                SheetTypeOK
  <2>3. QED
    BY <2>1, <2>2
<1>5. syncStatus' \in [Place -> {"pending", "synced", "failed"}]
  BY DEF UploadSteps, StartUpload, Upsert, UpsertFails, MarkUploaded, MarkUploadFailed, MarkOne,
         StopUpload, SheetTypeOK
<1>6. batch' \in [Tool -> Seq(Place)]
  <2>1. CASE StartUpload(u) \/ StopUpload(u)
    <3>1. \E q \in Seq(Place) : batch' = [batch EXCEPT ![u] = q]
      BY <1>1, <2>1, PendingPlaces DEF StartUpload, StopUpload
    <3>2. QED
      BY <3>1 DEF SheetTypeOK
  <2>2. CASE MarkUploaded(u) \/ MarkUploadFailed(u)
    <3>1. batch' = [batch EXCEPT ![u] = Tail(@)] /\ Tail(batch[u]) \in Seq(Place)
      BY <1>3, <2>2 DEF MarkUploaded, MarkUploadFailed, MarkOne, ToolGoes
    <3>2. QED
      BY <3>1 DEF SheetTypeOK
  <2>3. CASE Upsert(u) \/ UpsertFails(u)
    BY <2>3 DEF Upsert, UpsertFails, planVars, SheetTypeOK
  <2>4. QED
    BY <2>1, <2>2, <2>3 DEF UploadSteps
<1>7. sends' \in [Uploader -> 0 .. Attempts]
  <2>1. CASE UpsertFails(u)
    <3>1. sends' = [sends EXCEPT ![u] = @ + 1] /\ sends[u] < Attempts
      BY <2>1 DEF UpsertFails, UploadsAreSent, ToolGoes
    <3>2. sends[u] \in 0 .. Attempts
      BY DEF SheetTypeOK
    <3>3. sends[u] + 1 \in 0 .. Attempts
      BY <3>1, <3>2, SheetAssumption
    <3>4. QED
      BY <3>1, <3>3 DEF SheetTypeOK
  <2>2. CASE ~UpsertFails(u)
    BY <1>1, <2>2 DEF UploadSteps, StartUpload, Upsert, MarkUploaded, MarkUploadFailed, MarkOne,
                      StopUpload, planVars, SheetTypeOK
  <2>3. QED
    BY <2>1, <2>2
<1>8. tool' \in [Tool -> {"idle", "header", "open", "cache", "append", "update", "mark",
                          "send", "sent", "given up"}]
  <2>1. \E next \in {"idle", "send", "sent", "given up"} : tool' = [tool EXCEPT ![u] = next]
    <3>1. CASE StartUpload(u)
      BY <3>1, NextAttention DEF StartUpload, ToolGoes
    <3>2. CASE MarkUploaded(u) \/ MarkUploadFailed(u)
      BY <3>2, NextAttention DEF MarkUploaded, MarkUploadFailed, MarkOne, ToolGoes
    <3>3. CASE Upsert(u) \/ UpsertFails(u) \/ StopUpload(u)
      BY <3>3 DEF Upsert, UpsertFails, StopUpload, ToolGoes
    <3>4. QED
      BY <3>1, <3>2, <3>3 DEF UploadSteps
  <2>2. QED
    BY <2>1 DEF SheetTypeOK
<1>9. mishaps' \in 0 .. MaxMishaps
  <2>1. CASE Mishap
    <3>1. mishaps < MaxMishaps /\ mishaps' = mishaps + 1
      BY <2>1 DEF Mishap
    <3>2. MaxMishaps \in Nat /\ mishaps \in 0 .. MaxMishaps
      BY SheetAssumption DEF SheetTypeOK
    <3>3. QED
      BY <3>1, <3>2
  <2>2. CASE ~Mishap
    BY <2>2 DEF UploadSteps, StartUpload, Upsert, UpsertFails, MarkUploaded, MarkUploadFailed,
                MarkOne, StopUpload, SheetTypeOK
  <2>3. QED
    BY <2>1, <2>2
<1>10. QED
  BY <1>2, <1>4, <1>5, <1>6, <1>7, <1>8, <1>9 DEF SheetTypeOK, PlanTypeOK, placeVars

\* Every step keeps the types.
LEMMA StepSheetTypes ==
  ASSUME SheetTypeOK, PlanTypeOK, UpdatesInPlace, UploadsAreSent, [SheetNext]_sheetVars
  PROVE  SheetTypeOK' /\ PlanTypeOK'
<1>1. CASE \E t \in SheetTool : SheetSteps(t)
  BY <1>1, SheetStepTypes
<1>2. CASE \E u \in Uploader : UploadSteps(u)
  BY <1>2, UploadStepTypes
<1>3. CASE \E b \in Place : CompletePlace(b)
  BY <1>3 DEF CompletePlace, planVars, SheetTypeOK, PlanTypeOK
<1>4. CASE AddSyncColumn
  BY <1>4 DEF AddSyncColumn, planVars, SheetTypeOK, PlanTypeOK
<1>5. CASE StartCrawler
  BY <1>5 DEF StartCrawler, planVars, SheetTypeOK, PlanTypeOK
<1>6. CASE SaveExtraction
  <2>1. crawls' \in [Place -> 0 .. MaxCrawls]
    <3>1. crawls[Head(toCrawl)] < MaxCrawls /\ crawls' = [crawls EXCEPT ![Head(toCrawl)] = @ + 1]
      BY <1>6 DEF SaveExtraction
    <3>2. MaxCrawls \in Nat /\ crawls \in [Place -> 0 .. MaxCrawls]
      BY SheetAssumption DEF SheetTypeOK
    <3>3. ASSUME NEW b \in Place PROVE crawls'[b] \in 0 .. MaxCrawls
      <4>1. crawls[b] \in 0 .. MaxCrawls
        BY <3>2
      <4>2. crawls'[b] = crawls[b] \/ (crawls[b] < MaxCrawls /\ crawls'[b] = crawls[b] + 1)
        BY <3>1, <3>2
      <4>3. QED
        BY <3>2, <4>1, <4>2
    <3>4. QED
      BY <3>1, <3>2, <3>3
  <2>2. QED
    BY <1>6, <2>1 DEF SaveExtraction, planVars, SheetTypeOK, PlanTypeOK
<1>7. CASE UNCHANGED sheetVars
  BY <1>7 DEF sheetVars, placeVars, planVars, SheetTypeOK, PlanTypeOK
<1>8. QED
  BY <1>1, <1>2, <1>3, <1>4, <1>5, <1>6, <1>7 DEF SheetNext

-----------------------------------------------------------------------------
(* SheetSync: every step keeps the invariant.                              *)

\* A tool past its first look at the sheet goes on from there, or is idle.
LEMMA ToolAfter ==
  ASSUME SheetTypeOK, PlanTypeOK, NEW t \in SheetTool, SheetSteps(t)
  PROVE  /\ tool'[t] \in {"open", "cache", "append", "update", "mark"} =>
               \/ tool[t] \in {"open", "cache", "append", "update", "mark"}
               \/ AddHeader(t)
               \/ OpenSheet(t) /\ sheet # <<>>
         /\ tool'[t] = "cache" => SelectPending(t)
         /\ tool'[t] = "append" => PlanRows(t)
         /\ tool'[t] \in {"append", "update", "mark"} =>
               PlanRows(t) \/ AppendRows(t) \/ UpdateRow(t)
<1>1. t \in Tool
  BY DEF Tool
<1> USE <1>1 DEF ToolGoes, SheetTypeOK
<1>2. CASE PlanRows(t)
  <2>1. tool[t] = "cache" /\ \E a, u : tool'[t] = FirstWrite(a, u)
    BY <1>2 DEF PlanRows
  <2>2. QED
    BY <1>2, <2>1, NextWrite
<1>3. CASE AppendRows(t)
  <2>1. tool[t] = "append" /\ tool'[t] = FirstWrite(<<>>, updating[t])
    BY <1>3 DEF AppendRows
  <2>2. QED
    BY <1>3, <2>1, NextWrite
<1>4. CASE UpdateRow(t)
  <2>1. tool[t] = "update" /\ tool'[t] = FirstWrite(<<>>, Tail(updating[t]))
    BY <1>4 DEF UpdateRow
  <2>2. QED
    BY <1>4, <2>1, NextWrite
<1>5. CASE OpenSheet(t) \/ AddHeader(t) \/ SelectRaises(t) \/ CallRaises(t) \/ MarkBatch(t)
  BY <1>5 DEF OpenSheet, AddHeader, SelectRaises, CallRaises, MarkBatch
<1>6. CASE SelectPending(t)
  BY <1>6 DEF SelectPending
<1>7. QED
  BY <1>2, <1>3, <1>4, <1>5, <1>6 DEF SheetSteps

\* The headers are written first and stay.
LEMMA StepHeaderIsFirst ==
  ASSUME SheetTypeOK, PlanTypeOK, UpdatesInPlace, HeaderIsFirst, [SheetNext]_sheetVars
  PROVE  HeaderIsFirst'
<1>1. sheet \in Seq(PlaceKey \cup {Header}) /\ Header \in PlaceKey \cup {Header}
  BY DEF SheetTypeOK
<1>2. sheet # <<>> => 1 \in 1 .. Len(sheet)
  <2>1. sheet # <<>> => Len(sheet) \in Nat \ {0}
    BY <1>1, EmptySeq
  <2>2. QED
    BY <2>1
<1>3. sheet # <<>> => sheet' # <<>> /\ sheet'[1] = Header
  <2>1. ASSUME sheet # <<>> PROVE sheet' # <<>> /\ sheet'[1] = Header
    <3>1. 1 \in 1 .. Len(sheet') /\ sheet'[1] = sheet[1]
      BY <1>2, <2>1, SheetGrows
    <3>2. sheet' # <<>>
      BY <3>1, EmptySeq
    <3>3. QED
      BY <2>1, <3>1, <3>2 DEF HeaderIsFirst
  <2>2. QED
    BY <2>1
<1>4. CASE \E t \in SheetTool : SheetSteps(t)
  <2>1. PICK t \in SheetTool : SheetSteps(t)
    BY <1>4
  <2>2. t \in Tool /\ \A s \in SheetTool \ {t} : tool'[s] = tool[s]
    BY <2>1, OthersStay DEF Tool
  <2>3. AddHeader(t) => sheet' # <<>> /\ sheet'[1] = Header
    <3>1. ASSUME AddHeader(t), sheet = <<>> PROVE sheet' # <<>> /\ sheet'[1] = Header
      <4>1. sheet' = Append(sheet, Header) /\ Len(sheet) = 0
        BY <3>1, EmptySeq DEF AddHeader
      <4>2. QED
        BY <1>1, <4>1, AppendProperties
    <3>2. QED
      BY <1>3, <3>1
  <2>4. sheet' # <<>> => sheet'[1] = Header
    <3>1. CASE sheet # <<>>
      BY <1>3, <3>1
    <3>2. CASE sheet = <<>>
      <4>1. ~AppendRows(t)
        BY <2>1, <3>2 DEF AppendRows, ToolGoes, HeaderIsFirst
      <4>2. sheet' = <<>> \/ AddHeader(t)
        BY <2>1, <3>2, <4>1, SheetMoves
      <4>3. QED
        BY <2>3, <4>2
    <3>3. QED
      BY <3>1, <3>2
  <2>5. ASSUME NEW s \in SheetTool, tool'[s] \in {"open", "cache", "append", "update", "mark"}
        PROVE  sheet' # <<>>
    <3>1. CASE s = t
      <4>1. AddHeader(t) \/ sheet # <<>>
        BY <2>1, <2>5, <3>1, ToolAfter DEF HeaderIsFirst
      <4>2. QED
        BY <1>3, <2>3, <4>1
    <3>2. CASE s # t
      BY <1>3, <2>2, <2>5, <3>2 DEF HeaderIsFirst
    <3>3. QED
      BY <3>1, <3>2
  <2>6. QED
    BY <2>4, <2>5 DEF HeaderIsFirst
<1>5. CASE ~ \E t \in SheetTool : SheetSteps(t)
  <2>1. sheet' = sheet /\ \A s \in SheetTool : tool'[s] = tool[s]
    BY <1>5, SheetStays DEF SheetNext
  <2>2. QED
    BY <2>1 DEF HeaderIsFirst
<1>6. QED
  BY <1>4, <1>5

\* Rows to be updated are where the plan saw them, and hold the key.
LEMMA StepUpdatesInPlace ==
  ASSUME SheetTypeOK, PlanTypeOK, UpdatesInPlace, [SheetNext]_sheetVars
  PROVE  UpdatesInPlace'
<1> DEFINE InPlace(u) == \A i \in 1 .. Len(u) :
               u[i][1] \in 1 .. Len(sheet) /\ sheet[u[i][1]] = u[i][2]
           InPlaceAfter(u) == \A i \in 1 .. Len(u) :
               u[i][1] \in 1 .. Len(sheet') /\ sheet'[u[i][1]] = u[i][2]
<1>1. \A u : InPlace(u) => InPlaceAfter(u)
  BY SheetGrows
<1>2. \A s \in SheetTool : InPlace(updating[s])
  BY DEF UpdatesInPlace
<1>3. ASSUME NEW s \in SheetTool PROVE InPlace(updating'[s])
  <2>1. CASE updating'[s] = updating[s]
    BY <1>2, <2>1
  <2>2. CASE updating'[s] # updating[s]
    <3>1. PICK t \in SheetTool : SheetSteps(t)
      BY <2>2, SheetStays DEF SheetNext
    <3>2. s = t
      BY <2>2, <3>1, OthersStay DEF Tool
    <3>3. CASE PlanRows(t)
      <4>1. \A i \in 1 .. Len(updating'[t]) :
               /\ updating'[t][i][1] \in 2 .. Len(sheet)
               /\ sheet[updating'[t][i][1]] = updating'[t][i][2]
        BY <3>3, PlannedRows
      <4>2. \A r \in 2 .. Len(sheet) : r \in 1 .. Len(sheet)
        OBVIOUS
      <4>3. QED
        BY <3>2, <4>1, <4>2
    <3>4. CASE UpdateRow(t)
      <4>1. updating[t] \in Seq(Nat \X PlaceKey) /\ updating[t] # <<>>
            /\ updating'[t] = Tail(updating[t])
        BY <3>4 DEF UpdateRow, PlanTypeOK
      <4>2. /\ Len(updating[t]) \in Nat /\ Len(Tail(updating[t])) = Len(updating[t]) - 1
            /\ \A i \in 1 .. Len(Tail(updating[t])) : Tail(updating[t])[i] = updating[t][i + 1]
        BY <4>1, HeadTailProperties, LenProperties
      <4>3. \A i \in 1 .. Len(Tail(updating[t])) : i + 1 \in 1 .. Len(updating[t])
        BY <4>2
      <4>4. ASSUME NEW i \in 1 .. Len(updating'[s])
            PROVE  updating'[s][i][1] \in 1 .. Len(sheet)
                   /\ sheet[updating'[s][i][1]] = updating'[s][i][2]
        <5>1. PICK j : j \in 1 .. Len(updating[t]) /\ updating'[s][i] = updating[t][j]
          BY <3>2, <4>1, <4>2, <4>3, <4>4
        <5>2. InPlace(updating[t])
          BY <1>2
        <5>3. updating[t][j][1] \in 1 .. Len(sheet) /\ sheet[updating[t][j][1]] = updating[t][j][2]
          BY <5>1, <5>2
        <5>4. QED
          BY <5>1, <5>3
      <4>5. QED
        BY <4>4
    <3>5. CASE CallRaises(t)
      <4>1. updating'[t] = <<>>
        BY <3>5 DEF CallRaises, PlanTypeOK
      <4>2. QED
        BY <3>2, <4>1
    <3>6. QED
      BY <2>2, <3>1, <3>2, <3>3, <3>4, <3>5
         DEF SheetSteps, OpenSheet, AddHeader, SelectPending, SelectRaises, AppendRows, MarkBatch,
             planVars
  <2>3. QED
    BY <2>1, <2>2
<1>4. QED
  BY <1>1, <1>3 DEF UpdatesInPlace

\* What is on the sheet stays there.
LEMMA KeysStay ==
  ASSUME SheetTypeOK, PlanTypeOK, UpdatesInPlace, [SheetNext]_sheetVars, NEW k, OnSheet(k)
  PROVE  OnSheet(k)'
BY SheetGrows DEF OnSheet

\* Rows a tool has appended are on the sheet.
LEMMA Appended ==
  ASSUME SheetTypeOK, PlanTypeOK, NEW t \in SheetTool, sheet' = sheet \o appending[t]
  PROVE  /\ Len(sheet) \in Nat /\ Len(appending[t]) \in Nat
         /\ Len(sheet') = Len(sheet) + Len(appending[t])
         /\ \A i \in 1 .. Len(sheet) : sheet'[i] = sheet[i]
         /\ \A i \in 1 .. Len(sheet') : i \in 1 .. Len(sheet) \/
                (i - Len(sheet) \in 1 .. Len(appending[t]) /\ sheet'[i] = appending[t][i - Len(sheet)])
         /\ \A j \in 1 .. Len(appending[t]) :
                Len(sheet) + j \in 1 .. Len(sheet') /\ sheet'[Len(sheet) + j] = appending[t][j]
<1>1. sheet \in Seq(PlaceKey \cup {Header}) /\ appending[t] \in Seq(PlaceKey \cup {Header})
      /\ Len(sheet) \in Nat /\ Len(appending[t]) \in Nat
  <2>1. sheet \in Seq(PlaceKey \cup {Header}) /\ appending[t] \in Seq(PlaceKey)
    BY DEF SheetTypeOK, PlanTypeOK
  <2>2. appending[t] \in Seq(PlaceKey \cup {Header})
    BY <2>1
  <2>3. QED
    BY <2>1, <2>2, LenProperties
<1>2. Len(sheet') = Len(sheet) + Len(appending[t])
      /\ \A i \in 1 .. Len(sheet) + Len(appending[t]) :
            sheet'[i] = IF i <= Len(sheet) THEN sheet[i] ELSE appending[t][i - Len(sheet)]
  BY <1>1, ConcatProperties
<1>3. PICK m \in Nat, n \in Nat : m = Len(sheet) /\ n = Len(appending[t])
  BY <1>1
<1>4. \A i \in 1 .. m : i \in 1 .. m + n /\ i <= m
  OBVIOUS
<1>5. \A i \in 1 .. m + n : i \in 1 .. m \/ (i - m \in 1 .. n /\ ~(i <= m))
  OBVIOUS
<1>6. \A j \in 1 .. n : m + j \in 1 .. m + n /\ ~(m + j <= m) /\ (m + j) - m = j
  OBVIOUS
<1>7. QED
  BY <1>1, <1>2, <1>3, <1>4, <1>5, <1>6

\* A tool writes every row of its batch before it marks the batch.
LEMMA StepBatchReaches ==
  ASSUME SheetTypeOK, PlanTypeOK, UpdatesInPlace, BatchReaches, [SheetNext]_sheetVars
  PROVE  BatchReaches'
<1> DEFINE Reaches(s, k) ==
        OnSheet(k) \/ (tool[s] = "append" /\ \E j \in 1 .. Len(appending[s]) : appending[s][j] = k)
<1>1. keyOf' = keyOf
  BY SheetGrows
<1>2. \A s \in SheetTool : tool[s] \in {"append", "update", "mark"} =>
         \A i \in 1 .. Len(batch[s]) : Reaches(s, keyOf[batch[s][i]])
  BY DEF BatchReaches
<1>3. ASSUME NEW s \in SheetTool, tool'[s] \in {"append", "update", "mark"},
             NEW i \in 1 .. Len(batch'[s])
      PROVE  Reaches(s, keyOf[batch[s][i]])'
  <2> PICK k : k = keyOf[batch'[s][i]]
    OBVIOUS
  <2>1. ASSUME tool'[s] = tool[s], batch'[s] = batch[s], appending'[s] = appending[s]
        PROVE  Reaches(s, keyOf[batch[s][i]])'
    <3>1. Reaches(s, k)
      BY <1>2, <1>3, <2>1
    <3>2. QED
      BY <1>1, <2>1, <3>1, KeysStay
  <2>2. CASE SheetSteps(s)
    <3>1. CASE PlanRows(s)
      <4>1. batch'[s] = batch[s] /\ UNCHANGED sheet
        BY <3>1 DEF PlanRows
      <4>2. RowsOf(k) # {} \/ \E j \in 1 .. Len(appending'[s]) : appending'[s][j] = k
        <5>1. i \in 1 .. Len(batch[s]) /\ k = keyOf[batch[s][i]]
          BY <1>3, <4>1
        <5>2. \/ RowsOf(keyOf[batch[s][i]]) # {}
              \/ \E j \in 1 .. Len(appending'[s]) : appending'[s][j] = keyOf[batch[s][i]]
          <6>1. \A l \in 1 .. Len(batch[s]) :
                   \/ RowsOf(keyOf[batch[s][l]]) # {}
                   \/ \E j \in 1 .. Len(appending'[s]) : appending'[s][j] = keyOf[batch[s][l]]
            BY <3>1, PlannedRows
          <6>2. QED
            BY <5>1, <6>1
        <5>3. QED
          BY <5>1, <5>2
      <4>3. RowsOf(k) # {} => OnSheet(k)'
        <5>1. \A r \in 2 .. Len(sheet) : r \in 1 .. Len(sheet)
          OBVIOUS
        <5>2. QED
          BY <4>1, <5>1 DEF RowsOf, OnSheet
      <4>4. ASSUME NEW j \in 1 .. Len(appending'[s]) PROVE tool'[s] = "append"
        <5>1. appending'[s] # <<>>
          BY <4>4, EmptySeq
        <5>2. QED
          BY <3>1, <5>1, PlannedRows
      <4>5. QED
        BY <1>1, <4>2, <4>3, <4>4
    <3>2. CASE AppendRows(s)
      <4>1. /\ batch'[s] = batch[s] /\ sheet' = sheet \o appending[s] /\ tool[s] = "append"
        BY <3>2 DEF AppendRows, ToolGoes
      <4>2. Reaches(s, k)
        BY <1>2, <1>3, <4>1
      <4>3. OnSheet(k)'
        <5>1. ASSUME NEW j \in 1 .. Len(appending[s]), appending[s][j] = k PROVE OnSheet(k)'
          <6>1. Len(sheet) + j \in 1 .. Len(sheet') /\ sheet'[Len(sheet) + j] = k
            BY <4>1, <5>1, Appended
          <6>2. QED
            BY <6>1 DEF OnSheet
        <5>2. QED
          BY <4>2, <5>1, KeysStay
      <4>4. QED
        BY <1>1, <4>3
    <3>3. CASE UpdateRow(s)
      <4>1. batch'[s] = batch[s] /\ tool[s] = "update"
        BY <3>3 DEF UpdateRow, ToolGoes
      <4>2. OnSheet(k)
        BY <1>2, <1>3, <4>1
      <4>3. QED
        BY <1>1, <4>2, KeysStay
    <3>4. QED
      BY <1>3, <2>2, <3>1, <3>2, <3>3, ToolAfter
  <2>3. CASE ~SheetSteps(s)
    <3>1. CASE \E t \in SheetTool : SheetSteps(t)
      <4>1. PICK t \in SheetTool : SheetSteps(t)
        BY <3>1
      <4>2. s # t /\ t \in Tool /\ s \in Tool
        BY <2>3, <4>1 DEF Tool
      <4>3. tool'[s] = tool[s] /\ batch'[s] = batch[s] /\ appending'[s] = appending[s]
        BY <4>1, <4>2, OthersStay
      <4>4. QED
        BY <2>1, <4>3
    <3>2. CASE ~ \E t \in SheetTool : SheetSteps(t)
      BY <2>1, <3>2, SheetStays DEF SheetNext
    <3>3. QED
      BY <3>1, <3>2
  <2>4. QED
    BY <2>2, <2>3
<1>4. QED
  BY <1>3 DEF BatchReaches

\* Steps that are not an uploader's leave the uploaders where they are.
LEMMA UploadersStay ==
  ASSUME SheetTypeOK, PlanTypeOK, [SheetNext]_sheetVars, NEW u \in Uploader, ~UploadSteps(u)
  PROVE  tool'[u] = tool[u] /\ batch'[u] = batch[u] /\ sends'[u] = sends[u]
<1>1. u \in Tool /\ \A t \in SheetTool : t # u /\ t \in Tool
  BY SheetAssumption DEF Tool
<1>2. CASE \E t \in SheetTool : SheetSteps(t)
  BY <1>1, <1>2, OthersStay
<1>3. CASE \E v \in Uploader : UploadSteps(v)
  <2>1. PICK v \in Uploader : UploadSteps(v)
    BY <1>3
  <2>2. u # v /\ v \in Tool
    BY <2>1 DEF Tool
  <2>3. QED
    BY <1>1, <2>1, <2>2, OthersStay
<1>4. CASE ~ (\E t \in SheetTool : SheetSteps(t)) /\ ~ \E v \in Uploader : UploadSteps(v)
  BY <1>4 DEF SheetNext, CompletePlace, AddSyncColumn, StartCrawler, SaveExtraction, planVars, sheetVars
<1>5. QED
  BY <1>2, <1>3, <1>4

\* An uploader never loses sight of its row.
LEMMA StepUploadsAreSent ==
  ASSUME SheetTypeOK, PlanTypeOK, UpdatesInPlace, UploadsAreSent, [SheetNext]_sheetVars
  PROVE  UploadsAreSent'
<1> DEFINE Attended(u) ==
        /\ tool[u] \in {"idle", "send"} => sends[u] < Attempts
        /\ tool[u] \in {"send", "sent", "given up"} => batch[u] # <<>>
        /\ tool[u] = "sent" => Head(batch[u]) \in upserted
<1>1. upserted \subseteq upserted'
  BY SheetGrows
<1>2. \A u \in Uploader : Attended(u)
  BY DEF UploadsAreSent
<1>3. ASSUME NEW u \in Uploader PROVE Attended(u)'
  <2>1. u \in Tool /\ 0 < Attempts
    <3>1. 0 < Attempts
      BY SheetAssumption
    <3>2. QED
      BY <3>1 DEF Tool
  <2>2. CASE ~UploadSteps(u)
    BY <1>1, <1>2, <2>2, UploadersStay
  <2>3. CASE StartUpload(u)
    <3>1. /\ tool[u] = "idle" /\ tool'[u] = Attend(PendingRows) /\ batch'[u] = PendingRows
          /\ PendingRows # <<>> /\ sends'[u] = sends[u]
      BY <2>1, <2>3 DEF StartUpload, ToolGoes, SheetTypeOK
    <3>2. QED
      BY <1>2, <3>1, NextAttention
  <2>4. CASE Upsert(u)
    <3>1. /\ tool[u] = "send" /\ tool'[u] = "sent" /\ batch'[u] = batch[u]
          /\ upserted' = upserted \cup {Head(batch[u])}
      BY <2>1, <2>4 DEF Upsert, ToolGoes, planVars, SheetTypeOK
    <3>2. QED
      BY <1>2, <3>1
  <2>5. CASE UpsertFails(u)
    <3>1. /\ tool[u] = "send" /\ batch'[u] = batch[u]
          /\ tool'[u] = IF sends[u] + 1 = Attempts THEN "given up" ELSE "send"
          /\ sends'[u] = sends[u] + 1
      BY <2>1, <2>5 DEF UpsertFails, ToolGoes, SheetTypeOK
    <3>2. sends[u] < Attempts /\ sends[u] \in Nat /\ Attempts \in Nat
      <4>1. sends[u] < Attempts
        BY <1>2, <3>1
      <4>2. sends[u] \in 0 .. Attempts /\ Attempts \in Nat
        BY SheetAssumption DEF SheetTypeOK
      <4>3. QED
        BY <4>1, <4>2
    <3>3. sends[u] + 1 # Attempts => sends'[u] < Attempts
      BY <3>1, <3>2
    <3>4. QED
      BY <1>2, <3>1, <3>3
  <2>6. CASE MarkUploaded(u) \/ MarkUploadFailed(u)
    <3>1. tool'[u] = Attend(Tail(batch[u])) /\ batch'[u] = Tail(batch[u]) /\ sends'[u] = 0
      BY <2>1, <2>6 DEF MarkUploaded, MarkUploadFailed, MarkOne, ToolGoes, SheetTypeOK
    <3>2. QED
      BY <2>1, <3>1, NextAttention
  <2>7. CASE StopUpload(u)
    <3>1. tool'[u] = "idle" /\ sends'[u] = 0
      BY <2>1, <2>7 DEF StopUpload, SheetTypeOK
    <3>2. QED
      BY <2>1, <3>1
  <2>8. QED
    BY <2>2, <2>3, <2>4, <2>5, <2>6, <2>7 DEF UploadSteps
<1>4. QED
  BY <1>3 DEF UploadsAreSent

\* Being on the sheet, by its rows.
LEMMA SheetHolds ==
  ASSUME NEW q \in Seq(PlaceKey \cup {Header}), NEW k
  PROVE  k \in ToSet(q) <=> \E i \in 1 .. Len(q) : q[i] = k
BY LenProperties DEF ToSet

\* Marks follow the deliveries.
LEMMA StepSyncedIsDelivered ==
  ASSUME SheetTypeOK, PlanTypeOK, UpdatesInPlace, BatchReaches, UploadsAreSent,
         SyncedIsDelivered, [SheetNext]_sheetVars
  PROVE  SyncedIsDelivered'
<1>1. SheetTypeOK'
  BY StepSheetTypes
<1>2. \A k : OnSheet(k) => OnSheet(k)'
  BY KeysStay
<1>3. keyOf' = keyOf /\ upserted \subseteq upserted'
  BY SheetGrows
<1>4. \A k : (k \in ToSet(sheet) <=> OnSheet(k)) /\ (k \in ToSet(sheet') <=> OnSheet(k)')
  BY <1>1, SheetHolds DEF SheetTypeOK, OnSheet
<1>5. ASSUME NEW b \in Place, syncStatus'[b] = "synced"
      PROVE  keyOf[b] \in ToSet(sheet') \/ b \in upserted'
  <2>1. CASE syncStatus[b] = "synced"
    BY <1>2, <1>3, <1>4, <2>1 DEF SyncedIsDelivered
  <2>2. CASE \E t \in SheetTool : MarkBatch(t)
    <3>1. PICK t \in SheetTool : MarkBatch(t)
      BY <2>2
    <3>2. b \in ToSet(batch[t]) \/ syncStatus[b] = "synced"
      BY <1>5, <3>1 DEF MarkBatch
    <3>3. ASSUME b \in ToSet(batch[t]) PROVE OnSheet(keyOf[b])
      <4>1. batch[t] \in Seq(Place) /\ tool[t] = "mark"
        BY <3>1 DEF MarkBatch, ToolGoes, SheetTypeOK, Tool
      <4>2. PICK i \in 1 .. Len(batch[t]) : batch[t][i] = b
        BY <3>3, <4>1, LenProperties DEF ToSet
      <4>3. QED
        BY <4>1, <4>2 DEF BatchReaches
    <3>4. QED
      BY <1>2, <1>4, <2>1, <3>2, <3>3
  <2>3. CASE \E u \in Uploader : MarkUploaded(u) \/ MarkUploadFailed(u)
    <3>1. PICK u \in Uploader : MarkUploaded(u) \/ MarkUploadFailed(u)
      BY <2>3
    <3>2. CASE MarkUploaded(u)
      <4>1. tool[u] = "sent" /\ syncStatus' = [syncStatus EXCEPT ![Head(batch[u])] = "synced"]
        BY <3>2 DEF MarkUploaded, MarkOne, ToolGoes
      <4>2. b = Head(batch[u]) \/ syncStatus[b] = "synced"
        BY <1>5, <4>1 DEF SheetTypeOK
      <4>3. Head(batch[u]) \in upserted
        BY <4>1 DEF UploadsAreSent
      <4>4. QED
        BY <1>3, <2>1, <4>2, <4>3
    <3>3. CASE MarkUploadFailed(u)
      BY <1>5, <2>1, <3>3 DEF MarkUploadFailed, MarkOne, SheetTypeOK
    <3>4. QED
      BY <3>1, <3>2, <3>3
  <2>4. CASE /\ syncStatus[b] # "synced" /\ ~ \E t \in SheetTool : MarkBatch(t)
             /\ ~ \E u \in Uploader : MarkUploaded(u) \/ MarkUploadFailed(u)
    <3>1. CASE \E t \in SheetTool : SheetSteps(t)
      BY <2>4, <3>1, <1>5
         DEF SheetSteps, OpenSheet, AddHeader, SelectPending, SelectRaises, PlanRows, AppendRows,
             UpdateRow, CallRaises
    <3>2. CASE \E u \in Uploader : UploadSteps(u)
      BY <2>4, <3>2, <1>5 DEF UploadSteps, StartUpload, Upsert, UpsertFails, StopUpload
    <3>3. CASE ~ (\E t \in SheetTool : SheetSteps(t)) /\ ~ \E v \in Uploader : UploadSteps(v)
      BY <2>4, <3>3, <1>5
         DEF SheetNext, CompletePlace, AddSyncColumn, StartCrawler, SaveExtraction, sheetVars
    <3>4. QED
      BY <3>1, <3>2, <3>3
  <2>5. QED
    BY <2>1, <2>2, <2>3, <2>4
<1>6. QED
  BY <1>1, <1>3, <1>5 DEF SyncedIsDelivered

\* A key that is nowhere below the headers is not on the sheet.
LEMMA BelowHeaders ==
  ASSUME HeaderIsFirst, SheetTypeOK, NEW k \in PlaceKey, RowsOf(k) = {}
  PROVE  ~OnSheet(k)
<1>1. SUFFICES ASSUME NEW i \in 1 .. Len(sheet), sheet[i] = k PROVE FALSE
  BY DEF OnSheet
<1>2. sheet # <<>> /\ Len(sheet) \in Nat
  <2>1. sheet \in Seq(PlaceKey \cup {Header})
    BY DEF SheetTypeOK
  <2>2. Len(sheet) \in Nat
    BY <2>1, LenProperties
  <2>3. sheet # <<>>
    BY <1>1, EmptySeq
  <2>4. QED
    BY <2>2, <2>3
<1>3. i = 1
  <2>1. i \notin 2 .. Len(sheet)
    BY <1>1 DEF RowsOf
  <2>2. QED
    BY <1>2, <2>1
<1>4. sheet[1] = Header /\ k # Header
  BY <1>2, SheetAssumption DEF HeaderIsFirst
<1>5. QED
  BY <1>1, <1>3, <1>4

\* A key that only one place has, and one row, comes to the sheet once.
LEMMA StepSingleOnce ==
  ASSUME SheetTypeOK, PlanTypeOK, HeaderIsFirst, UpdatesInPlace, UploadsAreSent, SingleOnce,
         [SheetNext]_sheetVars
  PROVE  SingleOnce'
<1>1. SUFFICES ASSUME NEW k \in PlaceKey, Single(k)', ~staleAppend'
               PROVE  /\ OnceIn(k, sheet')
                      /\ \A s \in SheetTool :
                            /\ tool'[s] = "cache" => KeyOnce(k, batch[s])'
                            /\ tool'[s] = "append" =>
                                  /\ OnceIn(k, appending'[s])
                                  /\ \A i \in 1 .. Len(appending'[s]) :
                                        appending'[s][i] = k => ~OnSheet(k)'
  BY DEF SingleOnce
<1>2. keyOf' = keyOf
  BY SheetGrows
<1>3. Single(k) /\ ~staleAppend
  <2>1. /\ (staleAppend => staleAppend')
        /\ \A b \in Place : crawls[b] <= crawls'[b]
    BY SheetGrows
  <2>2. ASSUME NEW b \in Place, NEW c \in Place, keyOf[b] = k, keyOf[c] = k
        PROVE  b = c /\ crawls[b] <= 1
    <3>1. b = c /\ crawls'[b] <= 1 /\ crawls[b] <= crawls'[b]
      BY <1>1, <1>2, <2>1, <2>2 DEF Single
    <3>2. crawls[b] \in 0 .. MaxCrawls /\ crawls'[b] \in 0 .. MaxCrawls /\ MaxCrawls \in Nat
      BY StepSheetTypes, SheetAssumption DEF SheetTypeOK
    <3>3. QED
      BY <3>1, <3>2
  <2>3. QED
    BY <1>1, <2>1, <2>2 DEF Single
<1>4. /\ OnceIn(k, sheet)
      /\ \A s \in SheetTool :
            /\ tool[s] = "cache" => KeyOnce(k, batch[s])
            /\ tool[s] = "append" =>
                  /\ OnceIn(k, appending[s])
                  /\ \A i \in 1 .. Len(appending[s]) : appending[s][i] = k => ~OnSheet(k)
  BY <1>3 DEF SingleOnce
<1>5. \A q : KeyOnce(k, q) <=> KeyOnce(k, q)'
  BY <1>2 DEF KeyOnce
<1>6. CASE ~ \E t \in SheetTool : SheetSteps(t)
  <2>1. /\ UNCHANGED <<sheet, appending>>
        /\ \A s \in SheetTool : tool'[s] = tool[s] /\ batch'[s] = batch[s]
    BY <1>6, SheetStays DEF SheetNext
  <2>2. OnSheet(k)' <=> OnSheet(k)
    BY <2>1 DEF OnSheet
  <2>3. ASSUME NEW s \in SheetTool, tool'[s] = "cache" PROVE KeyOnce(k, batch[s])'
    BY <1>2, <1>4, <2>1, <2>3 DEF KeyOnce
  <2>4. QED
    BY <1>4, <2>1, <2>2, <2>3
<1>7. CASE \E t \in SheetTool : SheetSteps(t)
  <2>1. PICK t \in SheetTool : SheetSteps(t)
    BY <1>7
  <2>2. /\ t \in Tool
        /\ \A s \in SheetTool \ {t} :
              tool'[s] = tool[s] /\ batch'[s] = batch[s] /\ appending'[s] = appending[s]
    BY <2>1, OthersStay DEF Tool
  <2>3. OnceIn(k, sheet')
    <3>1. CASE UNCHANGED sheet
      BY <1>4, <3>1
    <3>2. CASE sheet' = Append(sheet, Header)
      <4>1. /\ Len(sheet) \in Nat /\ Len(sheet') = Len(sheet) + 1
            /\ \A i \in 1 .. Len(sheet) : sheet'[i] = sheet[i]
            /\ sheet'[Len(sheet) + 1] # k
        <5>1. sheet \in Seq(PlaceKey \cup {Header}) /\ Header \in PlaceKey \cup {Header} /\ k # Header
          BY SheetAssumption DEF SheetTypeOK
        <5>2. QED
          BY <3>2, <5>1, AppendProperties, LenProperties
      <4>2. \A i \in 1 .. Len(sheet') : sheet'[i] = k => i \in 1 .. Len(sheet)
        BY <4>1
      <4>3. QED
        BY <1>4, <4>1, <4>2 DEF OnceIn
    <3>3. CASE AppendRows(t) /\ sheet' = sheet \o appending[t]
      <4>1. tool[t] = "append"
        BY <3>3 DEF AppendRows, ToolGoes
      <4>2. OnceIn(k, appending[t])
            /\ \A j \in 1 .. Len(appending[t]) : appending[t][j] = k =>
                  \A i \in 1 .. Len(sheet) : sheet[i] # k
        BY <1>4, <4>1 DEF OnSheet
      <4>3. /\ Len(sheet) \in Nat
            /\ \A i \in 1 .. Len(sheet) : sheet'[i] = sheet[i]
            /\ \A i \in 1 .. Len(sheet') : i \in 1 .. Len(sheet) \/
                  (i - Len(sheet) \in 1 .. Len(appending[t]) /\
                   sheet'[i] = appending[t][i - Len(sheet)])
        BY <3>3, Appended
      <4>4. ASSUME NEW i \in 1 .. Len(sheet'), NEW j \in 1 .. Len(sheet'),
                   sheet'[i] = k, sheet'[j] = k
            PROVE  i = j
        <5>1. CASE i \in 1 .. Len(sheet) /\ j \in 1 .. Len(sheet)
          BY <1>4, <4>3, <4>4, <5>1 DEF OnceIn
        <5>2. CASE i \in 1 .. Len(sheet) /\ j \notin 1 .. Len(sheet)
          BY <4>2, <4>3, <4>4, <5>2
        <5>3. CASE i \notin 1 .. Len(sheet) /\ j \in 1 .. Len(sheet)
          BY <4>2, <4>3, <4>4, <5>3
        <5>4. CASE i \notin 1 .. Len(sheet) /\ j \notin 1 .. Len(sheet)
          <6>1. i - Len(sheet) = j - Len(sheet)
            BY <4>2, <4>3, <4>4, <5>4 DEF OnceIn
          <6>2. QED
            BY <4>3, <6>1
        <5>5. QED
          BY <5>1, <5>2, <5>3, <5>4
      <4>5. QED
        BY <4>4 DEF OnceIn
    <3>4. QED
      BY <2>1, <3>1, <3>2, <3>3, SheetMoves
  <2>4. ASSUME NEW s \in SheetTool, tool'[s] = "cache" PROVE KeyOnce(k, batch[s])'
    <3>1. KeyOnce(k, batch'[s])
      <4>1. CASE s = t
        <5>1. batch'[t] = PendingRows
          BY <2>1, <2>2, <2>4, <4>1, ToolAfter DEF SelectPending, SheetTypeOK
        <5>2. QED
          BY <1>3, <4>1, <5>1, PendingPlaces
      <4>2. CASE s # t
        BY <1>4, <2>2, <2>4, <4>2
      <4>3. QED
        BY <4>1, <4>2
    <3>2. QED
      BY <1>2, <3>1 DEF KeyOnce
  <2>5. ASSUME NEW s \in SheetTool, tool'[s] = "append"
        PROVE  /\ OnceIn(k, appending'[s])
               /\ \A i \in 1 .. Len(appending'[s]) : appending'[s][i] = k => ~OnSheet(k)'
    <3>1. CASE s = t
      <4>1. PlanRows(t)
        BY <2>1, <2>5, <3>1, ToolAfter
      <4>2. tool[t] = "cache" /\ UNCHANGED sheet
        BY <4>1 DEF PlanRows, ToolGoes
      <4>3. OnceIn(k, appending'[t])
        BY <1>4, <4>1, <4>2, PlannedRows
      <4>4. ASSUME NEW i \in 1 .. Len(appending'[t]), appending'[t][i] = k PROVE ~OnSheet(k)'
        <5>1. RowsOf(k) = {}
          BY <4>1, <4>4, PlannedRows
        <5>2. ~OnSheet(k)
          BY <5>1, BelowHeaders
        <5>3. QED
          BY <4>2, <5>2 DEF OnSheet
      <4>5. QED
        BY <3>1, <4>3, <4>4
    <3>2. CASE s # t
      <4>1. tool[s] = "append" /\ appending'[s] = appending[s]
        BY <2>2, <2>5, <3>2
      <4>2. ~AppendRows(t)
        <5>1. ASSUME AppendRows(t) PROVE FALSE
          <6>1. staleAppend' = (staleAppend \/ \E r \in SheetTool \ {t} : tool[r] = "append")
            BY <5>1 DEF AppendRows
          <6>2. QED
            BY <1>1, <3>2, <4>1, <6>1
        <5>2. QED
          BY <5>1
      <4>3. OnSheet(k)' => OnSheet(k)
        <5>1. CASE UNCHANGED sheet
          BY <5>1 DEF OnSheet
        <5>2. CASE sheet' = Append(sheet, Header)
          <6>1. sheet \in Seq(PlaceKey \cup {Header}) /\ Header \in PlaceKey \cup {Header}
                /\ k # Header
            BY SheetAssumption DEF SheetTypeOK
          <6>2. /\ Len(sheet) \in Nat /\ Len(sheet') = Len(sheet) + 1
                /\ \A i \in 1 .. Len(sheet) : sheet'[i] = sheet[i]
                /\ sheet'[Len(sheet) + 1] # k
            BY <5>2, <6>1, AppendProperties, LenProperties
          <6>3. \A i \in 1 .. Len(sheet') : sheet'[i] = k => i \in 1 .. Len(sheet)
            BY <6>2
          <6>4. QED
            BY <6>2, <6>3 DEF OnSheet
        <5>3. QED
          BY <2>1, <4>2, <5>1, <5>2, SheetMoves
      <4>4. QED
        BY <1>4, <4>1, <4>3
    <3>3. QED
      BY <3>1, <3>2
  <2>6. QED
    BY <2>3, <2>4, <2>5
<1>8. QED
  BY <1>6, <1>7

\* Every step keeps the invariant.
LEMMA StepSheetInv == SheetInv /\ [SheetNext]_sheetVars => SheetInv'
<1> SUFFICES ASSUME SheetInv, [SheetNext]_sheetVars PROVE SheetInv'
  OBVIOUS
<1>1. /\ SheetTypeOK /\ PlanTypeOK /\ HeaderIsFirst /\ UpdatesInPlace /\ BatchReaches
      /\ UploadsAreSent /\ SyncedIsDelivered /\ SingleOnce
  BY DEF SheetInv
<1>2. SheetTypeOK' /\ PlanTypeOK'
  BY <1>1, StepSheetTypes
<1>3. HeaderIsFirst' /\ UpdatesInPlace' /\ BatchReaches' /\ UploadsAreSent'
  BY <1>1, StepHeaderIsFirst, StepUpdatesInPlace, StepBatchReaches, StepUploadsAreSent
<1>4. SyncedIsDelivered' /\ SingleOnce'
  BY <1>1, StepSyncedIsDelivered, StepSingleOnce
<1>5. QED
  BY <1>2, <1>3, <1>4 DEF SheetInv

\* A finite set has no two members exactly if its cardinality is at most one.
LEMMA AtMostOne ==
  ASSUME NEW S, IsFiniteSet(S)
  PROVE  Cardinality(S) \in Nat /\ (Cardinality(S) <= 1 <=> \A x, y \in S : x = y)
<1>1. Cardinality(S) \in Nat
  BY FS_CardinalityType
<1>2. CASE S = {}
  <2>1. Cardinality(S) = 0
    BY <1>2, FS_EmptySet
  <2>2. QED
    BY <1>2, <2>1
<1>3. CASE S # {}
  <2>1. Cardinality(S) # 0
    BY <1>3, FS_EmptySet
  <2>2. Cardinality(S) <= 1 <=> Cardinality(S) = 1
    BY <1>1, <2>1
  <2>3. Cardinality(S) = 1 <=> \E x : S = {x}
    BY FS_Singleton
  <2>4. (\E x : S = {x}) <=> \A x, y \in S : x = y
    BY <1>3
  <2>5. QED
    BY <1>1, <2>2, <2>3, <2>4
<1>4. QED
  BY <1>2, <1>3

\* The sheet and AfraKala hold what the database says of them, whatever dies,
\* raises or overlaps (sync_pending and _mark_synced of the two sheet tools,
\* the loop of sync_to_afrakala.py); and a key is twice on the sheet only for
\* a reason that can be named.
THEOREM SheetSafety == SheetSpec => []SheetIsFaithful
<1>1. SheetInv => SheetIsFaithful
  <2> SUFFICES ASSUME SheetInv PROVE SheetIsFaithful
    OBVIOUS
  <2>1. SheetTypeOK /\ SingleOnce /\ SyncedIsDelivered
    BY DEF SheetInv
  <2>2. ASSUME NEW k \in PlaceKey, NEW holders, holders = {b \in Place : keyOf[b] = k},
               Cardinality({i \in 1 .. Len(sheet) : sheet[i] = k}) > 1,
               ~staleAppend, ~(Cardinality(holders) > 1), ~ \E b \in holders : crawls[b] > 1
        PROVE  FALSE
    <3>1. IsFiniteSet(holders)
      BY <2>2, SheetAssumption, FS_Subset
    <3>2. \A b, c \in holders : b = c
      <4>1. Cardinality(holders) \in Nat /\ ~(Cardinality(holders) > 1)
        BY <2>2, <3>1, AtMostOne
      <4>2. Cardinality(holders) <= 1
        BY <4>1
      <4>3. QED
        BY <3>1, <4>2, AtMostOne
    <3>3. \A b \in holders : crawls[b] <= 1
      <4>1. \A b \in Place : crawls[b] \in 0 .. MaxCrawls
        BY <2>1 DEF SheetTypeOK
      <4>2. MaxCrawls \in Nat
        BY SheetAssumption
      <4>3. QED
        BY <2>2, <4>1, <4>2
    <3>4. Single(k)
      BY <2>2, <3>2, <3>3 DEF Single
    <3>5. OnceIn(k, sheet)
      BY <2>1, <2>2, <3>4 DEF SingleOnce
    <3>6. PICK standing : standing = {i \in 1 .. Len(sheet) : sheet[i] = k}
      OBVIOUS
    <3>7. \A i, j \in standing : i = j
      BY <3>5, <3>6 DEF OnceIn
    <3>8. IsFiniteSet(standing)
      <4>1. 1 \in Int /\ Len(sheet) \in Int
        <5>1. sheet \in Seq(PlaceKey \cup {Header})
          BY <2>1 DEF SheetTypeOK
        <5>2. QED
          BY <5>1, LenProperties
      <4>2. IsFiniteSet(1 .. Len(sheet))
        BY <4>1, FS_Interval
      <4>3. QED
        BY <3>6, <4>2, FS_Subset
    <3>9. Cardinality(standing) \in Nat /\ Cardinality(standing) <= 1
      BY <3>7, <3>8, AtMostOne
    <3>10. QED
      BY <2>2, <3>6, <3>9
  <2>3. SecondRowIsExplained
    BY <2>2 DEF SecondRowIsExplained
  <2>4. QED
    BY <2>1, <2>3 DEF SheetIsFaithful
<1>2. QED
  BY <1>1, InitSheetInv, StepSheetInv, PTL DEF SheetSpec

-----------------------------------------------------------------------------
(* Orchestration: the inductive invariant.                                 *)

FleetTypeOK ==
    /\ nodes \in [Node -> Observation]
    /\ owners \in [Partition -> Node \cup {Unowned}]
    /\ depths \in [Partition -> Nat]
    /\ replicas \in Nat

\* What an adapter reads of a plan: a worker, or none, for every shard and for
\* every shard that moves, and a number of replicas.
BuiltTypeOK ==
    plan # NoPlan =>
        /\ plan.placements \in [Partition -> Node \cup {Unowned}]
        /\ \A s \in DOMAIN plan.moves : plan.moves[s] \in Node \cup {Unowned}
        /\ plan.desired \in Nat

FleetInv == FleetTypeOK /\ BuiltTypeOK /\ PlansAreSafe

-----------------------------------------------------------------------------
(* Orchestration: the line of workers.                                     *)

\* The elements of a finite set can be put in the order of any strict total
\* order on them: each has the place that the number of those before it gives.
LEMMA CanBeOrdered ==
  ASSUME NEW S, IsFiniteSet(S), NEW R,
         \A x \in S : <<x, x>> \notin R,
         \A x, y, z \in S : <<x, y>> \in R /\ <<y, z>> \in R => <<x, z>> \in R,
         \A x, y \in S : x # y => <<x, y>> \in R \/ <<y, x>> \in R
  PROVE  \E q \in SetToSeqs(S) : \A i, j \in DOMAIN q : i < j => <<q[i], q[j]>> \in R
<1> DEFINE Lower(x) == {y \in S : <<y, x>> \in R}
<1>1. PICK n \in Nat : n = Cardinality(S)
  BY FS_CardinalityType
<1>2. ASSUME NEW x \in S
      PROVE  IsFiniteSet(Lower(x)) /\ Cardinality(Lower(x)) \in Nat /\ Cardinality(Lower(x)) < n
  <2>1. IsFiniteSet(S \ {x}) /\ Cardinality(S \ {x}) = n - 1
    BY <1>1, FS_RemoveElement
  <2>2. Lower(x) \subseteq S \ {x}
    OBVIOUS
  <2>3. IsFiniteSet(Lower(x)) /\ Cardinality(Lower(x)) <= n - 1
    <3> HIDE DEF Lower
    <3>1. QED
      BY <2>1, <2>2, FS_Subset
  <2>4. Cardinality(Lower(x)) \in Nat
    BY <2>3, FS_CardinalityType
  <2>5. QED
    BY <2>3, <2>4
<1>3. ASSUME NEW x \in S, NEW y \in S, <<x, y>> \in R
      PROVE  Cardinality(Lower(x)) < Cardinality(Lower(y))
  <2>1. x \in Lower(y) /\ Lower(x) \subseteq Lower(y) \ {x}
    BY <1>3
  <2> HIDE DEF Lower
  <2>2. IsFiniteSet(Lower(y) \ {x}) /\ Cardinality(Lower(y) \ {x}) = Cardinality(Lower(y)) - 1
    BY <1>2, <2>1, FS_RemoveElement
  <2>3. Cardinality(Lower(x)) <= Cardinality(Lower(y) \ {x})
    BY <2>1, <2>2, FS_Subset
  <2>4. QED
    BY <1>2, <2>2, <2>3
<1> DEFINE rank == [x \in S |-> Cardinality(Lower(x)) + 1]
<1>4. /\ rank \in [S -> 1 .. n]
      /\ \A x, y \in S : <<x, y>> \in R => rank[x] < rank[y]
  <2>1. \A x \in S : Cardinality(Lower(x)) + 1 \in 1 .. n
    <3> HIDE DEF Lower
    <3>1. QED
      BY <1>2
  <2>2. \A x, y \in S : <<x, y>> \in R => Cardinality(Lower(x)) + 1 < Cardinality(Lower(y)) + 1
    <3> HIDE DEF Lower
    <3>1. QED
      BY <1>2, <1>3
  <2> HIDE DEF Lower
  <2>3. QED
    BY <2>1, <2>2
<1> HIDE DEF rank
<1>5. rank \in Injection(S, 1 .. n)
  <2>1. ASSUME NEW x \in S, NEW y \in S, rank[x] = rank[y] PROVE x = y
    <3>1. rank[x] \in Int /\ ~(rank[x] < rank[y]) /\ ~(rank[y] < rank[x])
      BY <1>4, <2>1
    <3>2. QED
      BY <1>4, <3>1
  <2>2. QED
    BY <1>4, <2>1 DEF Injection, IsInjective
<1>6. rank \in Surjection(S, 1 .. n)
  <2>1. IsFiniteSet(1 .. n) /\ Cardinality(1 .. n) = n
    <3>1. 1 \in Int /\ n \in Int
      OBVIOUS
    <3>2. QED
      BY <3>1, FS_Interval
  <2>2. QED
    BY <1>1, <1>5, <2>1, FS_Injection
<1> DEFINE q == [k \in 1 .. n |-> CHOOSE x \in S : rank[x] = k]
<1>7. q \in [1 .. n -> S] /\ \A k \in 1 .. n : rank[q[k]] = k
  <2>1. \A k \in 1 .. n : \E x \in S : rank[x] = k
    BY <1>6 DEF Surjection
  <2>2. QED
    BY <2>1
<1> HIDE DEF q
<1>8. ASSUME NEW i \in 1 .. n, NEW j \in 1 .. n, i < j PROVE <<q[i], q[j]>> \in R
  <2>1. q[i] \in S /\ q[j] \in S /\ rank[q[i]] = i /\ rank[q[j]] = j
    BY <1>7
  <2>2. q[i] # q[j] /\ ~(rank[q[j]] < rank[q[i]])
    BY <1>8, <2>1
  <2>3. QED
    BY <1>4, <2>1, <2>2
<1>9. q \in SetToSeqs(S)
  <2>1. \A i, j \in 1 .. n : i # j => q[i] # q[j]
    BY <1>7
  <2>2. QED
    BY <1>1, <1>7, <2>1 DEF SetToSeqs
<1>10. QED
  BY <1>7, <1>8, <1>9

\* A list of a finite set has each element of it in one place.
LEMMA ListOf ==
  ASSUME NEW S, IsFiniteSet(S), NEW q \in SetToSeqs(S)
  PROVE  /\ Cardinality(S) \in Nat
         /\ q \in [1 .. Cardinality(S) -> S] /\ DOMAIN q = 1 .. Cardinality(S)
         /\ \A i, j \in 1 .. Cardinality(S) : q[i] = q[j] => i = j
         /\ \A x \in S : \E i \in 1 .. Cardinality(S) : q[i] = x
         /\ Range(q) = S
         /\ q = <<>> <=> S = {}
         /\ S # {} => 1 \in 1 .. Cardinality(S) /\ Head(q) = q[1]
<1>1. PICK n \in Nat : n = Cardinality(S)
  BY FS_CardinalityType
<1>2. q \in [1 .. n -> S] /\ DOMAIN q = 1 .. n /\ \A i, j \in 1 .. n : q[i] = q[j] => i = j
  BY <1>1 DEF SetToSeqs
<1>3. q \in Surjection(1 .. n, S)
  <2>1. q \in Injection(1 .. n, S)
    BY <1>2 DEF Injection, IsInjective
  <2>2. IsFiniteSet(1 .. n) /\ Cardinality(1 .. n) = n
    <3>1. 1 \in Int /\ n \in Int
      OBVIOUS
    <3>2. QED
      BY <3>1, FS_Interval
  <2>3. QED
    BY <1>1, <2>1, <2>2, FS_Injection
<1>4. \A x \in S : \E i \in 1 .. n : q[i] = x
  BY <1>3 DEF Surjection
<1>5. Range(q) = S
  BY <1>2, <1>4 DEF Range
<1>6. S = {} <=> n = 0
  BY <1>1, FS_EmptySet
<1>7. q = <<>> <=> S = {}
  <2>1. q \in Seq(S) /\ Len(q) = n
    BY <1>2
  <2>2. QED
    BY <1>6, <2>1
<1>8. S # {} => 1 \in 1 .. n /\ Head(q) = q[1]
  BY <1>2, <1>6, <1>7
<1>9. QED
  BY <1>1, <1>2, <1>4, <1>5, <1>7, <1>8

\* The turn of an element of a list is the place it stands in.
LEMMA TurnOf ==
  ASSUME NEW S, IsFiniteSet(S), NEW q \in SetToSeqs(S), NEW x \in S
  PROVE  /\ (CHOOSE k \in DOMAIN q : q[k] = x) \in DOMAIN q
         /\ q[CHOOSE k \in DOMAIN q : q[k] = x] = x
<1>1. \E k \in DOMAIN q : q[k] = x
  BY ListOf
<1>2. QED
  BY <1>1

\* sorted() returns what it is given, in the order of the keys (runtime_orchestrator.py,
\* every call of it).
LEMMA SortedList ==
  ASSUME NEW S, IsFiniteSet(S), NEW list \in SetToSeqs(S),
         NEW key, \A x \in S : key[x] \in Int
  PROVE  /\ Sorted(list, key) \in SetToSeqs(S)
         /\ \A i, j \in 1 .. Cardinality(S) :
                i < j => key[Sorted(list, key)[i]] <= key[Sorted(list, key)[j]]
<1>1. PICK n \in Nat : n = Cardinality(S)
  BY ListOf
<1> DEFINE spot(x) == CHOOSE i \in DOMAIN list : list[i] = x
           R == {p \in S \X S : \/ key[p[1]] < key[p[2]]
                                \/ key[p[1]] = key[p[2]] /\ spot(p[1]) < spot(p[2])}
<1>2. \A x \in S : spot(x) \in 1 .. n /\ list[spot(x)] = x
  BY <1>1, ListOf
<1>3. \A x, y \in S : <<x, y>> \in R <=>
          \/ key[x] < key[y]
          \/ key[x] = key[y] /\ spot(x) < spot(y)
  OBVIOUS
<1>4. /\ \A x, y \in S : spot(x) = spot(y) => x = y
      /\ \A x \in S : spot(x) \in Int
  BY <1>2
<1>5. \E q \in SetToSeqs(S) : \A i, j \in DOMAIN q : i < j => <<q[i], q[j]>> \in R
  <2> HIDE DEF R, spot
  <2>1. \A x \in S : <<x, x>> \notin R
    BY <1>3, <1>4
  <2>2. \A x, y, z \in S : <<x, y>> \in R /\ <<y, z>> \in R => <<x, z>> \in R
    BY <1>3, <1>4
  <2>3. \A x, y \in S : x # y => <<x, y>> \in R \/ <<y, x>> \in R
    BY <1>3, <1>4
  <2>4. QED
    BY <2>1, <2>2, <2>3, CanBeOrdered
<1>6. \E q \in SetToSeqs(S) : \A i, j \in DOMAIN q :
          i < j => key[q[i]] < key[q[j]] \/ (key[q[i]] = key[q[j]] /\ spot(q[i]) < spot(q[j]))
  <2>1. PICK q \in SetToSeqs(S) : \A i, j \in DOMAIN q : i < j => <<q[i], q[j]>> \in R
    BY <1>5
  <2>2. \A i \in DOMAIN q : q[i] \in S
    BY ListOf
  <2> HIDE DEF R, spot
  <2>3. QED
    BY <1>3, <2>1, <2>2
<1>7. Range(list) = S
  BY ListOf
<1>8. PICK q : q = Sorted(list, key)
  OBVIOUS
<1>9. /\ q \in SetToSeqs(S)
      /\ \A i, j \in DOMAIN q : i < j =>
             key[q[i]] < key[q[j]] \/ (key[q[i]] = key[q[j]] /\ spot(q[i]) < spot(q[j]))
  <2> DEFINE Fits(p) == \A i, j \in DOMAIN p : i < j =>
          key[p[i]] < key[p[j]] \/ (key[p[i]] = key[p[j]] /\ spot(p[i]) < spot(p[j]))
  <2>1. q = CHOOSE p \in SetToSeqs(Range(list)) : Fits(p)
    BY <1>8 DEF Sorted
  <2>2. \E p \in SetToSeqs(Range(list)) : Fits(p)
    BY <1>6, <1>7
  <2>3. q \in SetToSeqs(Range(list)) /\ Fits(q)
    <3> HIDE DEF Fits
    <3>1. QED
      BY <2>1, <2>2
  <2>4. QED
    BY <1>7, <2>3
<1>10. DOMAIN q = 1 .. n /\ \A i \in 1 .. n : q[i] \in S
  BY <1>1, <1>9, ListOf
<1>11. \A i, j \in 1 .. n : i < j => key[q[i]] <= key[q[j]]
  <2> HIDE DEF spot
  <2>1. QED
    BY <1>9, <1>10
<1>12. QED
  BY <1>1, <1>8, <1>9, <1>11

\* What is observed of a worker gives the keys of the three sorts.
LEMMA LoadOfNode ==
  ASSUME FleetTypeOK, NEW n \in Node
  PROVE  Load(n) \in 0 .. 3 /\ nodes[n].jobs \in Nat
<1>1. nodes[n] \in Observation
  BY DEF FleetTypeOK
<1>2. NodeCapacity \in Nat
  BY OrchestrationAssumption
<1>3. nodes[n].memory \in 0 .. 1 /\ nodes[n].cpu \in 0 .. 1 /\ nodes[n].jobs \in 0 .. NodeCapacity
  BY <1>1, <1>2 DEF Observation, Absent
<1>4. QED
  BY <1>2, <1>3 DEF Load

\* The line after a placement has the same workers, and with two of them
\* another one is first.
LEMMA NextLine ==
  ASSUME FleetTypeOK, NEW H \in SUBSET Node, H # {}, NEW line \in SetToSeqs(H)
  PROVE  /\ NextInLine(line, Head(line)) \in SetToSeqs(H)
         /\ Cardinality(H) > 1 => Head(NextInLine(line, Head(line))) # Head(line)
<1>1. IsFiniteSet(H)
  BY OrchestrationAssumption, FS_Subset
<1>2. PICK c \in Nat : c = Cardinality(H)
  BY <1>1, FS_CardinalityType
<1>3. PICK key : key = [n \in Node |-> (IF n = Head(line) THEN 4 ELSE 0) + Load(n)]
  OBVIOUS
<1>4. PICK q : q = NextInLine(line, Head(line))
  OBVIOUS
<1>5. q = Sorted(line, key)
  BY <1>3, <1>4 DEF NextInLine
<1>6. /\ \A n \in Node : n # Head(line) => key[n] \in 0 .. 3
      /\ Head(line) \in Node => key[Head(line)] \in Int /\ key[Head(line)] >= 4
  <2>1. \A n \in Node : key[n] = (IF n = Head(line) THEN 4 ELSE 0) + Load(n)
    BY <1>3
  <2>2. \A n \in Node : Load(n) \in 0 .. 3
    BY LoadOfNode
  <2>3. QED
    BY <2>1, <2>2
<1>7. \A n \in H : key[n] \in Int
  BY <1>6
<1>8. /\ q \in SetToSeqs(H)
      /\ \A i, j \in 1 .. c : i < j => key[q[i]] <= key[q[j]]
  BY <1>1, <1>2, <1>5, <1>7, SortedList
<1>9. ASSUME c > 1, Head(q) = Head(line) PROVE FALSE
  <2>1. 1 \in 1 .. c /\ 2 \in 1 .. c
    BY <1>9
  <2>2. Head(q) = q[1] /\ q[1] \in H /\ q[2] \in H /\ q[1] # q[2]
    <3>1. /\ q \in [1 .. c -> H] /\ \A i, j \in 1 .. c : q[i] = q[j] => i = j
          /\ Head(q) = q[1]
      BY <1>1, <1>2, <1>8, ListOf
    <3>2. QED
      BY <2>1, <3>1
  <2>3. key[q[1]] <= key[q[2]]
    BY <1>8, <2>1
  <2>4. QED
    BY <1>6, <1>9, <2>2, <2>3
<1>10. QED
  BY <1>2, <1>4, <1>8, <1>9

Steps(g, first, next, m) ==
    g = [k \in 1 .. m |-> IF k = 1 THEN first ELSE next[g[k - 1]]]

\* A line that starts somewhere and goes on with `next` exists at any length.
LEMMA LineExists ==
  ASSUME NEW first, NEW next, NEW m \in Nat
  PROVE  \E g : Steps(g, first, next, m)
<1> DEFINE Missing == {k \in Nat : ~ \E g : Steps(g, first, next, k)}
<1>1. SUFFICES ASSUME Missing # {} PROVE FALSE
  OBVIOUS
<1>2. PICK k \in Missing : \A j \in Missing : k <= j
  <2>1. Missing \subseteq Nat
    OBVIOUS
  <2> HIDE DEF Missing
  <2>2. QED
    BY <1>1, <2>1, LeastNumber
<1>3. k \in Nat /\ ~ \E g : Steps(g, first, next, k)
  OBVIOUS
<1>4. CASE k = 0
  <2>1. Steps([i \in 1 .. 0 |-> first], first, next, k)
    BY <1>4 DEF Steps
  <2>2. QED
    BY <1>3, <2>1
<1>5. CASE k # 0
  <2>1. k - 1 \in Nat /\ k - 1 \notin Missing
    BY <1>2, <1>3, <1>5
  <2>2. PICK h : Steps(h, first, next, k - 1)
    BY <2>1
  <2>3. PICK g : g = [i \in 1 .. k |-> IF i = 1 THEN first ELSE next[h[i - 1]]]
    OBVIOUS
  <2>4. \A i \in 1 .. k : i # 1 => i - 1 \in 1 .. k /\ i - 1 \in 1 .. k - 1
    BY <1>3
  <2>5. \A i \in 1 .. k - 1 : g[i] = h[i]
    <3>1. \A i \in 1 .. k - 1 : i \in 1 .. k
      BY <1>3
    <3>2. \A i \in 1 .. k - 1 : h[i] = IF i = 1 THEN first ELSE next[h[i - 1]]
      BY <2>2 DEF Steps
    <3>3. QED
      BY <2>3, <3>1, <3>2
  <2>6. \A i \in 1 .. k :
            (IF i = 1 THEN first ELSE next[h[i - 1]]) = (IF i = 1 THEN first ELSE next[g[i - 1]])
    BY <2>4, <2>5
  <2>7. g = [i \in 1 .. k |-> IF i = 1 THEN first ELSE next[g[i - 1]]]
    BY <2>3, <2>6
  <2>8. QED
    BY <1>3, <2>7 DEF Steps
<1>6. QED
  BY <1>4, <1>5

\* What holds of its start and is kept by `next` holds all along a line.
LEMMA LineStays ==
  ASSUME NEW A, NEW first \in A, NEW next, \A x \in A : next[x] \in A,
         NEW m \in Nat, NEW g, Steps(g, first, next, m)
  PROVE  \A k \in 1 .. m : g[k] \in A
<1>1. \A k \in 1 .. m : g[k] = IF k = 1 THEN first ELSE next[g[k - 1]]
  BY DEF Steps
<1> DEFINE Stray == {k \in 1 .. m : g[k] \notin A}
<1>2. SUFFICES ASSUME Stray # {} PROVE FALSE
  OBVIOUS
<1>3. PICK k \in Stray : \A j \in Stray : k <= j
  <2>1. Stray \subseteq Nat
    OBVIOUS
  <2> HIDE DEF Stray
  <2>2. QED
    BY <1>2, <2>1, LeastNumber
<1>4. k \in 1 .. m /\ g[k] \notin A
  OBVIOUS
<1>5. k # 1 /\ k - 1 \in 1 .. m
  BY <1>1, <1>4
<1>6. g[k - 1] \in A
  <2>1. k - 1 \notin Stray
    BY <1>3, <1>4
  <2>2. QED
    BY <1>5, <2>1
<1>7. QED
  BY <1>1, <1>4, <1>5, <1>6

\* Of m turns no two of which that follow each other are a worker's, at most
\* half are his, and one more if m is odd.
LEMMA SpreadTurns ==
  ASSUME NEW m \in Nat, NEW K \in SUBSET (1 .. m),
         \A k \in K : k + 1 \notin K
  PROVE  IsFiniteSet(K) /\ Cardinality(K) \in Nat /\ 2 * Cardinality(K) <= m + 1
<1>1. IsFiniteSet(1 .. m) /\ Cardinality(1 .. m) = m
  <2>1. 1 \in Int /\ m \in Int
    OBVIOUS
  <2>2. QED
    BY <2>1, FS_Interval
<1>2. IsFiniteSet(K) /\ Cardinality(K) \in Nat
  BY <1>1, FS_Subset, FS_CardinalityType
<1>3. /\ IsFiniteSet((1 .. m) \ K)
      /\ Cardinality((1 .. m) \ K) = m - Cardinality(K)
  <2>1. K \cap (1 .. m) = K
    OBVIOUS
  <2>2. Cardinality((1 .. m) \ K) = Cardinality(1 .. m) - Cardinality((1 .. m) \cap K)
    BY <1>1, FS_Difference
  <2>3. (1 .. m) \cap K = K
    OBVIOUS
  <2>4. QED
    BY <1>1, <2>2, <2>3, FS_Subset
<1> DEFINE L == K \ {m}
           f == [k \in L |-> k + 1]
<1>4. f \in Injection(L, (1 .. m) \ K)
  <2>1. \A k \in L : k + 1 \in (1 .. m) \ K
    OBVIOUS
  <2>2. f \in [L -> (1 .. m) \ K]
    BY <2>1
  <2>3. \A j, k \in L : f[j] = f[k] => j = k
    OBVIOUS
  <2> HIDE DEF f, L
  <2>4. QED
    BY <2>2, <2>3 DEF Injection, IsInjective
<1>5. IsFiniteSet(L) /\ Cardinality(L) \in Nat /\ Cardinality(L) <= Cardinality((1 .. m) \ K)
  <2>1. IsFiniteSet(L)
    BY <1>2, FS_Subset
  <2> HIDE DEF f, L
  <2>2. QED
    BY <1>3, <1>4, <2>1, FS_Injection, FS_CardinalityType
<1>6. Cardinality(L) >= Cardinality(K) - 1
  <2>1. CASE m \in K
    BY <1>2, <2>1, FS_RemoveElement
  <2>2. CASE m \notin K
    <3>1. L = K
      BY <2>2
    <3> HIDE DEF L
    <3>2. QED
      BY <1>2, <3>1
  <2>3. QED
    BY <2>1, <2>2
<1>7. QED
  <2> HIDE DEF L
  <2>1. QED
    BY <1>2, <1>3, <1>5, <1>6

\* What the placements of a plan come to: the turns of the shards without an
\* owner, all of them healthy workers, and with two of them a change at each
\* turn (plan_placements).
LEMMA PlacedInTurn ==
  ASSUME FleetTypeOK, NEW H \in SUBSET Node, NEW U \in SUBSET Partition,
         \A s \in Partition : s \in U <=> owners[s] = Unowned,
         NEW list \in SetToSeqs(H), NEW shards \in SetToSeqs(U)
  PROVE  \E g :
           /\ Placements(list, shards) =
                  [s \in Partition |-> IF s \notin U \/ H = {} THEN owners[s]
                                       ELSE g[CHOOSE k \in DOMAIN shards : shards[k] = s]]
           /\ H # {} => \A k \in DOMAIN shards : g[k] \in H
           /\ Cardinality(H) > 1 =>
                  \A k \in DOMAIN shards : k + 1 \in DOMAIN shards => g[k + 1] # g[k]
<1>1. IsFiniteSet(H) /\ IsFiniteSet(U)
  BY OrchestrationAssumption, FS_Subset
<1>2. PICK m \in Nat : m = Cardinality(U) /\ DOMAIN shards = 1 .. m
  BY <1>1, ListOf
<1> DEFINE next == [line \in SetToSeqs(Range(list)) |-> NextInLine(line, Head(line))]
           key == [n \in Node |-> Load(n) * NodeCapacity + nodes[n].jobs]
           first == Sorted(list, key)
           line[k \in DOMAIN shards] == IF k = 1 THEN first ELSE next[line[k - 1]]
<1>3. Steps(line, first, next, m)
  <2> HIDE DEF next, first
  <2>1. \E g : g = [k \in DOMAIN shards |-> IF k = 1 THEN first ELSE next[g[k - 1]]]
    <3>1. PICK g : Steps(g, first, next, m)
      BY LineExists
    <3>2. g = [k \in DOMAIN shards |-> IF k = 1 THEN first ELSE next[g[k - 1]]]
      BY <1>2, <3>1 DEF Steps
    <3>3. QED
      BY <3>2
  <2>2. line = [k \in DOMAIN shards |-> IF k = 1 THEN first ELSE next[line[k - 1]]]
    BY <2>1
  <2>3. QED
    BY <1>2, <2>2 DEF Steps
<1> DEFINE turn(s) == CHOOSE k \in DOMAIN shards : shards[k] = s
<1>4. Placements(list, shards) =
          [s \in Partition |-> IF owners[s] # Unowned \/ list = <<>> THEN owners[s]
                               ELSE Head(line[turn(s)])]
  BY DEF Placements
<1>5. list = <<>> <=> H = {}
  BY <1>1, ListOf
<1>6. PICK g : g = [k \in 1 .. m |-> Head(line[k])]
  OBVIOUS
<1>7. Range(list) = H
  BY <1>1, ListOf
<1>8. ASSUME H # {} PROVE first \in SetToSeqs(H)
  <2>1. \A n \in H : key[n] \in Int
    <3>1. NodeCapacity \in Nat
      BY OrchestrationAssumption
    <3>2. \A n \in Node : key[n] = Load(n) * NodeCapacity + nodes[n].jobs
      OBVIOUS
    <3>3. \A n \in Node : Load(n) \in Nat /\ nodes[n].jobs \in Nat
      BY LoadOfNode
    <3> HIDE DEF key
    <3>4. QED
      BY <3>1, <3>2, <3>3
  <2> HIDE DEF key
  <2>2. QED
    BY <1>1, <2>1, SortedList
<1>9. ASSUME H # {}, NEW q \in SetToSeqs(H)
      PROVE  /\ next[q] \in SetToSeqs(H)
             /\ Cardinality(H) > 1 => Head(next[q]) # Head(q)
  <2>1. next[q] = NextInLine(q, Head(q))
    BY <1>7
  <2> HIDE DEF next
  <2>2. QED
    BY <1>9, <2>1, NextLine
<1>10. ASSUME H # {}, NEW q \in SetToSeqs(H) PROVE Head(q) \in H
  <2>1. q \in [1 .. Cardinality(H) -> H] /\ 1 \in 1 .. Cardinality(H) /\ Head(q) = q[1]
    BY <1>1, <1>10, ListOf
  <2>2. QED
    BY <2>1
<1> HIDE DEF next, first, line
<1>11. ASSUME H # {} PROVE \A k \in 1 .. m : line[k] \in SetToSeqs(H)
  <2>1. first \in SetToSeqs(H)
    BY <1>8, <1>11
  <2>2. \A q \in SetToSeqs(H) : next[q] \in SetToSeqs(H)
    BY <1>9, <1>11
  <2>3. QED
    BY <1>3, <2>1, <2>2, LineStays
<1>12. ASSUME H # {}, NEW k \in 1 .. m PROVE g[k] \in H
  <2>1. g[k] = Head(line[k])
    BY <1>6, <1>12
  <2>2. line[k] \in SetToSeqs(H)
    BY <1>11, <1>12
  <2>3. Head(line[k]) \in H
    BY <1>10, <1>12, <2>2
  <2>4. QED
    BY <2>1, <2>3
<1>13. ASSUME Cardinality(H) > 1, NEW k \in 1 .. m, k + 1 \in 1 .. m PROVE g[k + 1] # g[k]
  <2>1. H # {}
    BY <1>1, <1>13, FS_EmptySet
  <2>2. line[k + 1] = next[line[k]]
    <3>1. line[k + 1] = IF k + 1 = 1 THEN first ELSE next[line[(k + 1) - 1]]
      BY <1>3, <1>13 DEF Steps
    <3>2. (k + 1) - 1 = k /\ k + 1 # 1
      BY <1>13
    <3>3. QED
      BY <3>1, <3>2
  <2>3. g[k + 1] = Head(line[k + 1]) /\ g[k] = Head(line[k])
    BY <1>6, <1>13
  <2>4. line[k] \in SetToSeqs(H)
    BY <1>11, <1>13, <2>1
  <2>5. Head(next[line[k]]) # Head(line[k])
    BY <1>9, <1>13, <2>1, <2>4
  <2>6. QED
    BY <2>2, <2>3, <2>5
<1>14. Placements(list, shards) =
           [s \in Partition |-> IF s \notin U \/ H = {} THEN owners[s] ELSE g[turn(s)]]
  <2>1. \A s \in U : turn(s) \in 1 .. m
    <3>1. \A s \in U : turn(s) \in DOMAIN shards
      BY <1>1, TurnOf
    <3>2. QED
      BY <1>2, <3>1
  <2> HIDE DEF turn
  <2>2. \A s \in Partition :
            (IF owners[s] # Unowned \/ list = <<>> THEN owners[s] ELSE Head(line[turn(s)]))
            = (IF s \notin U \/ H = {} THEN owners[s] ELSE g[turn(s)])
    BY <1>5, <1>6, <2>1
  <2>3. QED
    BY <1>4, <2>2
<1>15. QED
  BY <1>2, <1>12, <1>13, <1>14

-----------------------------------------------------------------------------
(* Orchestration: the plans.                                               *)

\* The placements of a plan: owned shards stay, the others go to healthy workers
\* if there are any, and to no one of two or more by more than half.
LEMMA PlacementsAreSpread ==
  ASSUME FleetTypeOK, NEW H \in SUBSET Node, NEW U \in SUBSET Partition,
         \A s \in Partition : s \in U <=> owners[s] = Unowned,
         NEW list \in SetToSeqs(H), NEW shards \in SetToSeqs(U),
         NEW P, P = Placements(list, shards)
  PROVE  /\ P \in [Partition -> Node \cup {Unowned}]
         /\ \A s \in Partition : s \notin U \/ H = {} => P[s] = owners[s]
         /\ H # {} => \A s \in U : P[s] \in H
         /\ Cardinality(H) > 1 =>
                \A n \in Node : 2 * Cardinality({s \in U : P[s] = n}) <= Cardinality(U) + 1
<1>1. IsFiniteSet(H) /\ IsFiniteSet(U)
  BY OrchestrationAssumption, FS_Subset
<1>2. PICK m \in Nat : m = Cardinality(U) /\ DOMAIN shards = 1 .. m
  BY <1>1, ListOf
<1> DEFINE turn(s) == CHOOSE k \in DOMAIN shards : shards[k] = s
<1>3. PICK g :
        /\ P = [s \in Partition |-> IF s \notin U \/ H = {} THEN owners[s] ELSE g[turn(s)]]
        /\ H # {} => \A k \in DOMAIN shards : g[k] \in H
        /\ Cardinality(H) > 1 =>
               \A k \in DOMAIN shards : k + 1 \in DOMAIN shards => g[k + 1] # g[k]
  BY PlacedInTurn
<1>4. \A s \in U : turn(s) \in 1 .. m /\ shards[turn(s)] = s
  BY <1>1, <1>2, TurnOf
<1> HIDE DEF turn
<1>5. \A s \in Partition : s \notin U \/ H = {} => P[s] = owners[s]
  BY <1>3
<1>6. H # {} => \A s \in U : P[s] = g[turn(s)] /\ P[s] \in H
  BY <1>2, <1>3, <1>4
<1>7. P \in [Partition -> Node \cup {Unowned}]
  <2>1. DOMAIN P = Partition /\ P = [s \in Partition |-> P[s]]
    BY <1>3
  <2>2. \A s \in Partition : P[s] \in Node \cup {Unowned}
    BY <1>5, <1>6 DEF FleetTypeOK
  <2>3. QED
    BY <2>1, <2>2
<1>8. ASSUME Cardinality(H) > 1, NEW n \in Node
      PROVE  2 * Cardinality({s \in U : P[s] = n}) <= m + 1
  <2>1. H # {}
    BY <1>1, <1>8, FS_EmptySet
  <2>2. PICK K \in SUBSET (1 .. m) : \A k \in 1 .. m : k \in K <=> g[k] = n
    <3>1. {k \in 1 .. m : g[k] = n} \in SUBSET (1 .. m)
      OBVIOUS
    <3>2. QED
      BY <3>1
  <2>3. \A k \in K : k + 1 \notin K
    BY <1>2, <1>3, <1>8, <2>2
  <2>4. IsFiniteSet(K) /\ Cardinality(K) \in Nat /\ 2 * Cardinality(K) <= m + 1
    BY <2>3, SpreadTurns
  <2>5. PICK share : share = {s \in U : P[s] = n}
    OBVIOUS
  <2>6. \A k \in 1 .. m : shards[k] \in U /\ turn(shards[k]) = k
    <3>1. /\ \A k \in 1 .. m : shards[k] \in U
          /\ \A i, j \in 1 .. m : shards[i] = shards[j] => i = j
      BY <1>1, <1>2, ListOf
    <3>2. QED
      BY <1>4, <3>1
  <2>7. PICK f : f = [k \in K |-> shards[k]]
    OBVIOUS
  <2>8. f \in Surjection(K, share)
    <3>1. \A k \in K : shards[k] \in share
      BY <1>6, <2>1, <2>2, <2>5, <2>6
    <3>2. \A s \in share : turn(s) \in K /\ f[turn(s)] = s
      BY <1>4, <1>6, <2>1, <2>2, <2>5, <2>7
    <3>3. f \in [K -> share]
      BY <2>7, <3>1
    <3>4. QED
      BY <3>2, <3>3 DEF Surjection
  <2>9. Cardinality(share) \in Nat /\ Cardinality(share) <= Cardinality(K)
    BY <2>4, <2>8, FS_Surjection, FS_CardinalityType
  <2>10. QED
    BY <2>4, <2>5, <2>9
<1>9. QED
  BY <1>2, <1>5, <1>6, <1>7, <1>8

\* A shard that moves gets a healthy worker other than its owner, or none.
LEMMA MovesAreSafe ==
  ASSUME FleetTypeOK, NEW H \in SUBSET Node, NEW list \in SetToSeqs(H),
         NEW s \in DOMAIN Moves(list)
  PROVE  s \in Partition /\ Moves(list)[s] \in (H \ {owners[s]}) \cup {Unowned}
<1>1. IsFiniteSet(H)
  BY OrchestrationAssumption, FS_Subset
<1>2. PICK key : key = [n \in Node |-> nodes[n].jobs * 4 + Load(n)]
  OBVIOUS
<1>3. PICK targets : targets = Sorted(list, key)
  OBVIOUS
<1>4. PICK c \in Nat : c = Cardinality(H)
  BY <1>1, FS_CardinalityType
<1>5. targets \in [1 .. c -> H]
  <2>1. \A n \in Node : key[n] \in Int
    <3>1. \A n \in Node : key[n] = nodes[n].jobs * 4 + Load(n)
      BY <1>2
    <3>2. \A n \in Node : Load(n) \in Nat /\ nodes[n].jobs \in Nat
      BY LoadOfNode
    <3>3. QED
      BY <3>1, <3>2
  <2>2. \A n \in H : key[n] \in Int
    BY <2>1
  <2>3. targets \in SetToSeqs(H)
    BY <1>1, <1>3, <2>2, SortedList
  <2>4. QED
    BY <1>1, <1>4, <2>3, ListOf
<1>6. PICK others : others = {i \in DOMAIN targets : targets[i] # owners[s]}
  OBVIOUS
<1>7. /\ s \in Partition
      /\ Moves(list)[s] = IF others = {} THEN Unowned ELSE targets[Min(others)]
  BY <1>2, <1>3, <1>6 DEF Moves
<1>8. ASSUME others # {} PROVE Min(others) \in others
  <2>1. others \subseteq Nat
    BY <1>5, <1>6
  <2>2. \E i \in others : \A j \in others : i <= j
    BY <1>8, <2>1, LeastNumber
  <2>3. QED
    BY <2>2 DEF Min
<1>9. QED
  BY <1>5, <1>6, <1>7, <1>8

\* The replicas of a plan stay within the policy.
LEMMA ReplicasAreSafe ==
  ASSUME FleetTypeOK
  PROVE  DesiredReplicas \in MinReplicas .. MaxReplicas
<1>1. PICK T : T = {{s} \X (1 .. depths[s]) : s \in Partition}
  OBVIOUS
<1>2. IsFiniteSet(T)
  <2>1. PICK f : f = [s \in Partition |-> {s} \X (1 .. depths[s])]
    OBVIOUS
  <2>2. f \in Surjection(Partition, T)
    BY <1>1, <2>1 DEF Surjection
  <2>3. QED
    BY <2>2, OrchestrationAssumption, FS_Surjection
<1>3. \A jobs \in T : IsFiniteSet(jobs)
  <2>1. ASSUME NEW s \in Partition PROVE IsFiniteSet({s} \X (1 .. depths[s]))
    <3>1. 1 \in Int /\ depths[s] \in Int
      BY DEF FleetTypeOK
    <3>2. IsFiniteSet(1 .. depths[s])
      BY <3>1, FS_Interval
    <3>3. IsFiniteSet({s})
      BY FS_Singleton
    <3>4. QED
      BY <3>2, <3>3, FS_Product
  <2>2. QED
    BY <1>1, <2>1
<1>4. TotalQueue \in Nat
  <2>1. IsFiniteSet(UNION T)
    BY <1>2, <1>3, FS_UNION
  <2>2. TotalQueue = Cardinality(UNION T)
    BY <1>1 DEF TotalQueue
  <2>3. QED
    BY <2>1, <2>2, FS_CardinalityType
<1>5. PICK q \in Nat : q = TotalQueue
  BY <1>4
<1>6. q \div QueueTarget \in Int
  BY <1>5, OrchestrationAssumption
<1>7. PICK d \in Int : d = q \div QueueTarget
  BY <1>6
<1>8. PICK busy \in BOOLEAN : busy = \E n \in Node : Overloaded(n)
  OBVIOUS
<1>9. DesiredReplicas =
        LET floor == AtLeast(MinReplicas, replicas)
            queueBased == AtLeast(MinReplicas, d + 1)
            forQueue == IF q > 0 THEN AtLeast(floor, queueBased) ELSE floor
            forLoad == IF busy THEN AtLeast(forQueue, replicas + 1) ELSE forQueue
            idle == q = 0 /\ ~busy /\ replicas > MinReplicas
        IN  AtMost(IF idle THEN AtLeast(MinReplicas, replicas - 1) ELSE forLoad, MaxReplicas)
  BY <1>5, <1>7, <1>8 DEF DesiredReplicas
<1>10. MinReplicas \in Int /\ MaxReplicas \in Int /\ MinReplicas <= MaxReplicas /\ replicas \in Int
  BY OrchestrationAssumption DEF FleetTypeOK
<1>11. QED
  BY <1>5, <1>7, <1>8, <1>9, <1>10 DEF AtLeast, AtMost

-----------------------------------------------------------------------------
(* Orchestration: every step keeps the invariant.                          *)

LEMMA InitFleetInv == FleetInit => FleetInv
<1> SUFFICES ASSUME FleetInit PROVE FleetInv
  OBVIOUS
<1>1. nodes \in [Node -> Observation]
  <2>1. NodeCapacity \in Nat
    BY OrchestrationAssumption
  <2>2. [status |-> "active", memory |-> 0, cpu |-> 0, jobs |-> 0] \in Observation
    BY <2>1 DEF Observation
  <2>3. QED
    BY <2>2 DEF FleetInit
<1>2. FleetTypeOK
  BY <1>1, OrchestrationAssumption DEF FleetInit, FleetTypeOK
<1>3. plan = NoPlan
  BY DEF FleetInit
<1>4. QED
  BY <1>2, <1>3 DEF FleetInv, BuiltTypeOK, PlansAreSafe

\* A plan is safe for the workers and shards it was built from (build_plan).
LEMMA PlanIsSafe ==
  ASSUME FleetTypeOK, BuildPlan
  PROVE  (BuiltTypeOK /\ PlansAreSafe)'
<1>1. PICK H \in SUBSET Node : H = {n \in Node : IsHealthy(n)}
  OBVIOUS
<1>2. PICK U \in SUBSET Partition : U = {s \in Partition : owners[s] = Unowned}
  OBVIOUS
<1>3. PICK list \in SetToSeqs(H), shards \in SetToSeqs(U) :
        plan' = [built |-> TRUE, placements |-> Placements(list, shards),
                 desired |-> DesiredReplicas, moves |-> Moves(list),
                 unowned |-> U, from |-> owners, healthy |-> H]
  BY <1>1, <1>2 DEF BuildPlan
<1>4. PICK P : P = Placements(list, shards)
  OBVIOUS
<1>5. PICK M : M = Moves(list)
  OBVIOUS
<1>6. /\ plan'.placements = P /\ plan'.desired = DesiredReplicas /\ plan'.moves = M
      /\ plan'.unowned = U /\ plan'.from = owners /\ plan'.healthy = H
  BY <1>3, <1>4, <1>5
<1>7. \A s \in Partition : s \in U <=> owners[s] = Unowned
  BY <1>2
<1>8. /\ P \in [Partition -> Node \cup {Unowned}]
      /\ \A s \in Partition : s \notin U \/ H = {} => P[s] = owners[s]
      /\ H # {} => \A s \in U : P[s] \in H
      /\ Cardinality(H) > 1 =>
             \A n \in Node : 2 * Cardinality({s \in U : P[s] = n}) <= Cardinality(U) + 1
  BY <1>4, <1>7, PlacementsAreSpread
<1>9. \A s \in DOMAIN M : s \in Partition /\ M[s] \in (H \ {owners[s]}) \cup {Unowned}
  BY <1>5, MovesAreSafe
<1>10. DesiredReplicas \in MinReplicas .. MaxReplicas
  BY ReplicasAreSafe
<1>11. BuiltTypeOK'
  <2>1. DesiredReplicas \in Nat
    BY <1>10, OrchestrationAssumption
  <2>2. \A s \in DOMAIN M : M[s] \in Node \cup {Unowned}
    BY <1>9
  <2>3. QED
    BY <1>6, <1>8, <2>1, <2>2 DEF BuiltTypeOK
<1>12. PICK placed : placed = {s \in U : P[s] # Unowned}
  OBVIOUS
<1>13. Unowned \notin Node
  BY OrchestrationAssumption
<1>14. \A s \in placed : P[s] \in H
  BY <1>7, <1>8, <1>12
<1>15. H # {} => placed = U
  BY <1>8, <1>12, <1>13
<1>16. ASSUME Cardinality(H) > 1, NEW n \in Node
       PROVE  2 * Cardinality({s \in placed : P[s] = n}) <= Cardinality(placed) + 1
  <2>1. H # {}
    BY <1>16, FS_EmptySet
  <2>2. QED
    BY <1>8, <1>15, <1>16, <2>1
<1>17. PlansAreSafe'
  BY <1>6, <1>8, <1>9, <1>10, <1>12, <1>14, <1>15, <1>16 DEF PlansAreSafe
<1>18. QED
  BY <1>11, <1>17

LEMMA StepFleetInv == FleetInv /\ [FleetNext]_fleetVars => FleetInv'
<1> SUFFICES ASSUME FleetInv, [FleetNext]_fleetVars PROVE FleetInv'
  OBVIOUS
<1>1. FleetTypeOK /\ BuiltTypeOK /\ PlansAreSafe
  BY DEF FleetInv
<1>2. CASE BuildPlan
  <2>1. FleetTypeOK'
    BY <1>1, <1>2 DEF FleetTypeOK, BuildPlan
  <2>2. QED
    BY <1>1, <1>2, <2>1, PlanIsSafe DEF FleetInv
<1>3. CASE ApplyPlan
  <2>1. plan # NoPlan /\ plan' = NoPlan /\ UNCHANGED <<nodes, depths>> /\ replicas' = plan.desired
    BY <1>3 DEF ApplyPlan
  <2>2. /\ plan.placements \in [Partition -> Node \cup {Unowned}]
        /\ \A s \in DOMAIN plan.moves : plan.moves[s] \in Node \cup {Unowned}
        /\ plan.desired \in Nat
    BY <1>1, <2>1 DEF BuiltTypeOK
  <2>3. owners' \in [Partition -> Node \cup {Unowned}]
    BY <1>3, <2>2 DEF ApplyPlan
  <2>4. FleetTypeOK'
    BY <1>1, <2>1, <2>2, <2>3 DEF FleetTypeOK
  <2>5. QED
    BY <2>1, <2>4 DEF FleetInv, BuiltTypeOK, PlansAreSafe
<1>4. ASSUME NEW n \in Node, NodeChanges(n) PROVE FleetInv'
  <2>1. FleetTypeOK'
    BY <1>1, <1>4 DEF FleetTypeOK, NodeChanges
  <2>2. plan' = plan
    BY <1>4 DEF NodeChanges
  <2>3. QED
    BY <1>1, <2>1, <2>2 DEF FleetInv, BuiltTypeOK, PlansAreSafe
<1>5. ASSUME NEW s \in Partition, ShardChanges(s) PROVE FleetInv'
  <2>1. FleetTypeOK'
    BY <1>1, <1>5, OrchestrationAssumption DEF FleetTypeOK, ShardChanges
  <2>2. plan' = plan
    BY <1>5 DEF ShardChanges
  <2>3. QED
    BY <1>1, <2>1, <2>2 DEF FleetInv, BuiltTypeOK, PlansAreSafe
<1>6. CASE UNCHANGED fleetVars
  BY <1>1, <1>6 DEF FleetInv, FleetTypeOK, BuiltTypeOK, PlansAreSafe, fleetVars
<1>7. QED
  BY <1>2, <1>3, <1>4, <1>5, <1>6 DEF FleetNext

\* Whatever the fleet does while plans are made, every plan of build_plan places
\* shards with workers that could take them, spreads them, moves none to the
\* owner it leaves and keeps the replicas within the policy.
THEOREM PlacementSafety == FleetSpec => []PlansAreSafe
<1>1. FleetInv => PlansAreSafe
  BY DEF FleetInv
<1>2. QED
  BY <1>1, InitFleetInv, StepFleetInv, PTL DEF FleetSpec

=============================================================================
