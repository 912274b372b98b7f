------------------------- MODULE BrowserPool_proofs -------------------------
(***************************************************************************)
(* Proofs about BrowserPool for every finite set of threads, any number of *)
(* browsers and contexts, and any number of exceptions.                    *)
(***************************************************************************)
EXTENDS BrowserPool, Integers, FiniteSetTheorems, SequenceTheorems,
        WellFoundedInduction, TLAPS

-----------------------------------------------------------------------------
(* The inductive invariant.                                                *)

\* acquire between taking the lock and giving it back.
Inside == {"select", "launch", "startInside", "open"}

\* The thread that holds the lock is the one that is inside acquire.
LockIsHeld == \A c \in Client : pc[c] \in Inside <=> lock = c

\* A browser is launched only into a free place in the list.
LaunchHasRoom ==
    \A c \in Client : pc[c] \in {"launch", "startInside"} => Len(slots) < MaxBrowsers

\* A registered lease is the one in its thread's hands.
LeaseIsHeld ==
    \A c \in Client :
        leases[c] # 0 => held[c] = leases[c] /\ pc[c] \in {"leased", "release"}

IInv ==
    /\ ContextsAreCounted
    /\ LockIsHeld
    /\ LaunchHasRoom
    /\ LeaseIsHeld

-----------------------------------------------------------------------------
(* Counting.                                                               *)

\* A set of numbers that is not empty has a least one.
LEMMA LeastNatural ==
  ASSUME NEW T, T \subseteq Nat, T # {}
  PROVE  \E n \in T : \A m \in T : n <= m
<1> DEFINE R == {ss \in Nat \X Nat : ss[1] < ss[2]}
<1>1. IsWellFoundedOn(R, Nat)
  BY NatLessThanWellFounded DEF OpToRel
<1>2. \A m, n \in Nat : <<m, n>> \notin R => n <= m
  OBVIOUS
<1> HIDE DEF R
<1>3. \E n \in T : \A m \in T : <<m, n>> \notin R
  BY <1>1, WFMin
<1>4. QED
  BY <1>2, <1>3

\* The threads with a lease of one browser are finitely many.
LEMMA LeasedIsFinite ==
  ASSUME NEW s
  PROVE  IsFiniteSet(Leased(s)) /\ Cardinality(Leased(s)) \in Nat
BY PoolAssumption, FS_Subset, FS_CardinalityType DEF Leased

\* With k leases of each of the first n browsers there are n times k leases
\* of these browsers.
LEMMA LeasesAddUp ==
  ASSUME NEW f \in [Client -> Nat], NEW k \in Nat, NEW top \in Nat,
         \A s \in 1 .. top : Cardinality({c \in Client : f[c] = s}) = k
  PROVE  Cardinality({c \in Client : f[c] \in 1 .. top}) = top * k
<1> DEFINE Of(n) == {c \in Client : f[c] \in 1 .. n}
           Wrong == {n \in 0 .. top : Cardinality(Of(n)) # n * k}
<1>1. SUFFICES ASSUME Wrong # {} PROVE FALSE
  <2>1. top \notin Wrong => Cardinality(Of(top)) = top * k
    OBVIOUS
  <2>2. QED
    BY <2>1
<1>2. PICK n \in Wrong : \A m \in Wrong : n <= m
  <2>1. Wrong \subseteq Nat
    OBVIOUS
  <2> HIDE DEF Wrong
  <2>2. QED
    BY <1>1, <2>1, LeastNatural
<1>3. n # 0
  <2>1. Of(0) = {}
    OBVIOUS
  <2>2. Cardinality(Of(0)) = 0
    BY <2>1, FS_EmptySet
  <2>3. 0 * k = 0
    OBVIOUS
  <2>4. QED
    BY <2>2, <2>3
<1>4. n - 1 \in 0 .. top /\ n \in 1 .. top
  BY <1>3
<1>5. Cardinality(Of(n - 1)) = (n - 1) * k
  BY <1>2, <1>4
<1>6. Cardinality(Of(n)) = Cardinality(Of(n - 1)) + k
  <2> DEFINE Last == {c \in Client : f[c] = n}
  <2>1. Of(n) = Of(n - 1) \cup Last /\ Of(n - 1) \cap Last = {}
    BY <1>4
  <2>2. IsFiniteSet(Of(n - 1)) /\ IsFiniteSet(Last)
    BY PoolAssumption, FS_Subset
  <2>3. Cardinality(Last) = k
    BY <1>4
  <2>4. Cardinality(Of(n - 1)) \in Nat
    BY <2>2, FS_CardinalityType
  <2> HIDE DEF Of, Last
  <2>5. Cardinality(Of(n - 1) \cup Last)
            = Cardinality(Of(n - 1)) + Cardinality(Last) - Cardinality({})
    BY <2>1, <2>2, FS_Union
  <2>6. Cardinality({}) = 0
    BY FS_EmptySet
  <2>7. QED
    BY <2>1, <2>3, <2>4, <2>5, <2>6
<1>7. (n - 1) * k + k = n * k
  BY <1>4
<1>8. QED
  BY <1>2, <1>5, <1>6, <1>7

-----------------------------------------------------------------------------
(* The invariant.                                                          *)

\* Initially the invariant of the browser pool holds.
LEMMA InitIInv == Init => IInv
<1> SUFFICES ASSUME Init PROVE IInv
  OBVIOUS
<1> USE PoolAssumption DEF Init
<1>1. slots \in Seq(Nat) /\ contexts \in Seq(Nat) /\ Len(slots) = 0 /\ Len(contexts) = 0
  OBVIOUS
<1>2. TypeOK
  <2>1. started \in BOOLEAN /\ lock \in Client \cup {Nobody} /\ failures \in Nat
    OBVIOUS
  <2>2. Len(slots) <= MaxBrowsers /\ Len(contexts) = Len(slots)
    BY <1>1
  <2>3. leases \in [Client -> 0 .. Len(slots)] /\ held \in [Client -> Nat]
    BY <1>1
  <2>4. pc \in [Client -> ProgramPoint]
    BY DEF ProgramPoint
  <2>5. QED
    BY <1>1, <2>1, <2>2, <2>3, <2>4 DEF TypeOK
<1>3. SlotsCountLeases /\ SlotsBounded /\ OpenContextsAreLeased
  BY <1>1 DEF SlotsCountLeases, SlotsBounded, OpenContextsAreLeased
<1>4. LockIsHeld /\ LaunchHasRoom /\ LeaseIsHeld
  BY DEF LockIsHeld, LaunchHasRoom, LeaseIsHeld, Inside
<1>5. QED
  BY <1>2, <1>3, <1>4 DEF IInv, ContextsAreCounted

\* A step that leaves the list of slots and the leases alone keeps the books.
LEMMA BooksAreKept ==
  ASSUME SlotsCountLeases, SlotsBounded, UNCHANGED <<slots, leases>>
  PROVE  SlotsCountLeases' /\ SlotsBounded'
BY DEF SlotsCountLeases, SlotsBounded, Leased

\* The counts are natural numbers.
LEMMA CountsAreNatural ==
  ASSUME TypeOK
  PROVE  \A s \in 1 .. Len(slots) : slots[s] \in Nat /\ contexts[s] \in Nat
BY ElementOfSeq DEF TypeOK

\* A sequence of numbers with one of them replaced.
LEMMA OneReplaced ==
  ASSUME NEW q \in Seq(Nat), NEW s \in 1 .. Len(q), NEW v \in Nat, NEW qq,
         qq = [q EXCEPT ![s] = v]
  PROVE  /\ qq \in Seq(Nat) /\ Len(qq) = Len(q) /\ qq[s] = v
         /\ \A r \in 1 .. Len(q) : r # s => qq[r] = q[r]
BY ExceptSeq

\* The steps that only move a thread, with or without the lock.
Moves(c) ==
    \/ CallStart(c) \/ Start(c) \/ CallAcquire(c) \/ EnterAcquire(c) \/ SelectSlot(c)
    \/ Refuse(c) \/ GiveUp(c) \/ LaunchStarts(c) \/ LaunchFails(c)
    \/ CallRelease(c) \/ ReleaseStale(c) \/ CallShutdown(c)

\* A move of sessions between the pool's books, as the actions make it, keeps
\* the invariant.
LEMMA MoveKeepsIInv ==
  ASSUME IInv, NEW c \in Client, Moves(c)
  PROVE  IInv'
<1> USE PoolAssumption DEF IInv, ContextsAreCounted, TypeOK
<1>1. UNCHANGED <<slots, leases, contexts>>
  BY DEF Moves, CallStart, Start, CallAcquire, EnterAcquire, SelectSlot, Refuse, GiveUp,
         LaunchStarts, LaunchFails, CallRelease, ReleaseStale, CallShutdown
<1>2. failures' \in Nat /\ failures <= failures' /\ started' \in BOOLEAN
  <2>1. failures' \in {failures, failures + 1}
    BY DEF Moves, CallStart, Start, CallAcquire, EnterAcquire, SelectSlot, Refuse, GiveUp,
           LaunchStarts, LaunchFails, CallRelease, ReleaseStale, CallShutdown, Fails
  <2>2. started' = started \/ started' = TRUE
    BY DEF Moves, CallStart, Start, CallAcquire, EnterAcquire, SelectSlot, Refuse, GiveUp,
           LaunchStarts, LaunchFails, CallRelease, ReleaseStale, CallShutdown
  <2>3. started' \in BOOLEAN
    BY <2>2
  <2>4. QED
    BY <2>1, <2>3
<1>3. lock' \in Client \cup {Nobody} /\ held' \in [Client -> Nat]
  <2>1. lock' \in {lock, c, Nobody} /\ held' \in {held, [held EXCEPT ![c] = 0]}
    BY DEF Moves, CallStart, Start, CallAcquire, EnterAcquire, SelectSlot, Refuse, GiveUp,
           LaunchStarts, LaunchFails, CallRelease, ReleaseStale, CallShutdown, Locked
  <2>2. QED
    BY <2>1
<1>4. pc' \in [Client -> ProgramPoint]
  BY DEF Moves, CallStart, Start, CallAcquire, EnterAcquire, SelectSlot, Refuse, GiveUp,
         LaunchStarts, LaunchFails, CallRelease, ReleaseStale, CallShutdown, Goto,
         ProgramPoint
<1>5. TypeOK'
  BY <1>1, <1>2, <1>3, <1>4
<1>6. SlotsCountLeases' /\ SlotsBounded'
  BY <1>1, BooksAreKept
<1>7. OpenContextsAreLeased'
  BY <1>1, <1>2 DEF OpenContextsAreLeased
<1>8. LockIsHeld'
  BY DEF LockIsHeld, Inside, Moves, CallStart, Start, CallAcquire, EnterAcquire, SelectSlot,
         Refuse, GiveUp, LaunchStarts, LaunchFails, CallRelease, ReleaseStale, CallShutdown,
         Goto, Locked
<1>9. LaunchHasRoom'
  BY <1>1 DEF LaunchHasRoom, LockIsHeld, Inside, Moves, CallStart, Start, CallAcquire, EnterAcquire,
         SelectSlot, Refuse, GiveUp, LaunchStarts, LaunchFails, CallRelease, ReleaseStale,
         CallShutdown, Goto, Locked
<1>10. LeaseIsHeld'
  BY <1>1 DEF LeaseIsHeld, Moves, CallStart, Start, CallAcquire, EnterAcquire, SelectSlot,
         Refuse, GiveUp, LaunchStarts, LaunchFails, CallRelease, ReleaseStale, CallShutdown,
         Goto
<1>11. QED
  BY <1>5, <1>6, <1>7, <1>8, <1>9, <1>10

\* A new browser has no leases yet.
LEMMA LaunchKeepsIInv ==
  ASSUME IInv, NEW c \in Client, Launch(c)
  PROVE  IInv'
<1> USE PoolAssumption DEF IInv, ContextsAreCounted, TypeOK, Launch, Goto
<1> PICK n \in Nat : n = Len(slots)
  OBVIOUS
<1>1. n < MaxBrowsers
  BY DEF LaunchHasRoom
<1>2. /\ slots' \in Seq(Nat) /\ Len(slots') = n + 1 /\ slots'[n + 1] = 0
      /\ \A s \in 1 .. n : slots'[s] = slots[s]
  OBVIOUS
<1>3. /\ contexts' \in Seq(Nat) /\ Len(contexts') = n + 1 /\ contexts'[n + 1] = 0
      /\ \A s \in 1 .. n : contexts'[s] = contexts[s]
  OBVIOUS
<1>4. 1 .. n + 1 = (1 .. n) \cup {n + 1}
  BY <1>1
<1>5. TypeOK'
  <2>1. leases' \in [Client -> 0 .. Len(slots')]
    BY <1>1, <1>2
  <2>2. pc' \in [Client -> ProgramPoint]
    BY DEF ProgramPoint
  <2>3. QED
    BY <1>1, <1>2, <1>3, <2>1, <2>2
<1>6. SlotsCountLeases'
  <2>1. Leased(n + 1)' = {}
    BY <1>1 DEF Leased
  <2>2. Cardinality(Leased(n + 1)') = 0
    BY <2>1, FS_EmptySet
  <2>3. \A s \in 1 .. n : Leased(s)' = Leased(s)
    BY DEF Leased
  <2>4. \A s \in 1 .. n : slots'[s] = Cardinality(Leased(s)')
    BY <1>2, <2>3 DEF SlotsCountLeases
  <2>5. slots'[n + 1] = Cardinality(Leased(n + 1)')
    BY <1>2, <2>2
  <2>6. \A s \in 1 .. n + 1 : slots'[s] = Cardinality(Leased(s)')
    BY <1>4, <2>4, <2>5
  <2>7. QED
    BY <1>2, <2>6 DEF SlotsCountLeases
<1>7. SlotsBounded'
  BY <1>2, <1>4 DEF SlotsBounded
<1>8. OpenContextsAreLeased'
  BY <1>2, <1>3, <1>4 DEF OpenContextsAreLeased
<1>9. LockIsHeld' /\ LeaseIsHeld'
  BY DEF LockIsHeld, LeaseIsHeld, Inside
<1>10. LaunchHasRoom'
  BY DEF LaunchHasRoom, LockIsHeld, Inside
<1>11. QED
  BY <1>5, <1>6, <1>7, <1>8, <1>9, <1>10

\* What the invariant says of every slot.
LEMMA BooksOf ==
  ASSUME IInv
  PROVE  /\ slots \in Seq(Nat) /\ contexts \in Seq(Nat) /\ Len(contexts) = Len(slots)
         /\ failures \in Nat
         /\ \A s \in 1 .. Len(slots) :
                /\ slots[s] \in Nat /\ contexts[s] \in Nat
                /\ slots[s] = Cardinality(Leased(s))
                /\ slots[s] <= MaxContexts
                /\ contexts[s] >= slots[s]
                /\ contexts[s] <= slots[s] + failures
<1> USE DEF IInv, ContextsAreCounted
<1>1. \A s \in 1 .. Len(slots) : slots[s] \in Nat /\ contexts[s] \in Nat
  BY CountsAreNatural
<1>2. /\ slots \in Seq(Nat) /\ contexts \in Seq(Nat) /\ Len(contexts) = Len(slots)
      /\ failures \in Nat
  BY DEF TypeOK
<1>3. QED
  BY <1>1, <1>2 DEF SlotsCountLeases, SlotsBounded, OpenContextsAreLeased

\* The books of the next state, slot by slot.
LEMMA BooksAreClosed ==
  ASSUME slots' \in Seq(Nat), contexts' \in Seq(Nat), Len(contexts') = Len(slots'),
         \A s \in 1 .. Len(slots') :
            /\ slots'[s] = Cardinality(Leased(s)')
            /\ slots'[s] <= MaxContexts
            /\ contexts'[s] >= slots'[s]
            /\ contexts'[s] <= slots'[s] + failures'
  PROVE  SlotsCountLeases' /\ SlotsBounded' /\ OpenContextsAreLeased'
BY DEF SlotsCountLeases, SlotsBounded, OpenContextsAreLeased

\* A lease is one more in the count of its slot, and one more open context.
LEMMA OpenKeepsIInv ==
  ASSUME IInv, NEW c \in Client, NEW s \in 1 .. MaxBrowsers, Open(c, s)
  PROVE  IInv'
<1>1. s \in 1 .. Len(slots) /\ slots[s] < MaxContexts
  BY DEF Open, LeastLoaded, FreeSlots, Free
<1>2. /\ slots' = [slots EXCEPT ![s] = slots[s] + 1]
      /\ contexts' = [contexts EXCEPT ![s] = contexts[s] + 1]
      /\ leases' = [leases EXCEPT ![c] = s] /\ failures' = failures
  BY DEF Open
<1>3. leases \in [Client -> 0 .. Len(slots)] /\ leases[c] = 0
  BY DEF IInv, ContextsAreCounted, TypeOK, LeaseIsHeld, Open, Goto
<1>4. slots[s] + 1 \in Nat /\ contexts[s] + 1 \in Nat
  BY <1>1, BooksOf
<1>5. /\ slots' \in Seq(Nat) /\ Len(slots') = Len(slots) /\ slots'[s] = slots[s] + 1
      /\ \A r \in 1 .. Len(slots) : r # s => slots'[r] = slots[r]
  BY <1>1, <1>2, <1>4, BooksOf, OneReplaced
<1>6. /\ contexts' \in Seq(Nat) /\ Len(contexts') = Len(contexts)
      /\ contexts'[s] = contexts[s] + 1
      /\ \A r \in 1 .. Len(slots) : r # s => contexts'[r] = contexts[r]
  BY <1>1, <1>2, <1>4, BooksOf, OneReplaced
<1>7. TypeOK'
  <2> USE DEF IInv, ContextsAreCounted, TypeOK, Open, Goto
  <2>1. leases' \in [Client -> 0 .. Len(slots')] /\ held' \in [Client -> Nat]
    BY <1>1, <1>5
  <2>2. pc' \in [Client -> ProgramPoint]
    BY DEF ProgramPoint
  <2>3. QED
    BY <1>5, <1>6, <2>1, <2>2
<1>8. SlotsCountLeases' /\ SlotsBounded' /\ OpenContextsAreLeased'
  <2>1. Leased(s)' = Leased(s) \cup {c} /\ c \notin Leased(s)
    BY <1>1, <1>2, <1>3 DEF Leased
  <2>2. Cardinality(Leased(s)') = Cardinality(Leased(s)) + 1
    BY <2>1, LeasedIsFinite, FS_AddElement
  <2>3. \A r \in 1 .. Len(slots) : r # s => Leased(r)' = Leased(r)
    BY <1>2, <1>3 DEF Leased
  <2>4. \A r \in 1 .. Len(slots) :
            /\ slots'[r] = Cardinality(Leased(r)')
            /\ slots'[r] <= MaxContexts
            /\ contexts'[r] >= slots'[r]
            /\ contexts'[r] <= slots'[r] + failures'
    <3> TAKE r \in 1 .. Len(slots)
    <3>1. CASE r = s
      BY <1>1, <1>2, <1>5, <1>6, <2>2, <3>1, BooksOf, PoolAssumption
    <3>2. CASE r # s
      BY <1>2, <1>5, <1>6, <2>3, <3>2, BooksOf
    <3>3. QED
      BY <3>1, <3>2
  <2>5. QED
    BY <1>5, <1>6, <2>4, BooksOf, BooksAreClosed
<1>9. LockIsHeld' /\ LeaseIsHeld' /\ LaunchHasRoom'
  <2> USE DEF IInv, ContextsAreCounted, TypeOK, Open, Goto
  <2>1. LockIsHeld' /\ LeaseIsHeld'
    BY <1>1, PoolAssumption DEF LockIsHeld, LeaseIsHeld, Inside
  <2>2. LaunchHasRoom'
    BY <1>5 DEF LaunchHasRoom
  <2>3. QED
    BY <2>1, <2>2
<1>10. QED
  BY <1>7, <1>8, <1>9 DEF IInv, ContextsAreCounted

\* An exception leaves at most one open context that nobody has leased.
LEMMA OpenFailsKeepsIInv ==
  ASSUME IInv, NEW c \in Client, NEW s \in 1 .. MaxBrowsers, OpenFails(c, s)
  PROVE  IInv'
<1>1. s \in 1 .. Len(slots)
  BY DEF OpenFails, LeastLoaded, FreeSlots
<1>2. UNCHANGED <<slots, leases>> /\ failures' = failures + 1
  BY DEF OpenFails, Fails
<1>3. /\ contexts' \in Seq(Nat) /\ Len(contexts') = Len(contexts)
      /\ \A r \in 1 .. Len(slots) : contexts'[r] \in {contexts[r], contexts[r] + 1}
  <2>1. contexts[s] + 1 \in Nat
    BY <1>1, BooksOf
  <2>2. CASE UNCHANGED contexts
    BY <2>2, BooksOf
  <2>3. CASE contexts' = [contexts EXCEPT ![s] = contexts[s] + 1]
    BY <1>1, <2>1, <2>3, BooksOf, OneReplaced
  <2>4. QED
    BY <2>2, <2>3 DEF OpenFails
<1>4. TypeOK'
  <2> USE DEF IInv, ContextsAreCounted, TypeOK, OpenFails, Goto, Fails
  <2>1. pc' \in [Client -> ProgramPoint]
    BY DEF ProgramPoint
  <2>2. QED
    BY <1>3, <2>1
<1>5. SlotsCountLeases' /\ SlotsBounded' /\ OpenContextsAreLeased'
  <2>1. \A r \in 1 .. Len(slots) : Leased(r)' = Leased(r) /\ slots'[r] = slots[r]
    BY <1>2 DEF Leased
  <2>2. \A r \in 1 .. Len(slots) :
            /\ slots'[r] = Cardinality(Leased(r)')
            /\ slots'[r] <= MaxContexts
            /\ contexts'[r] >= slots'[r]
            /\ contexts'[r] <= slots'[r] + failures'
    <3> TAKE r \in 1 .. Len(slots)
    <3>1. /\ slots[r] \in Nat /\ contexts[r] \in Nat /\ failures \in Nat
          /\ slots[r] = Cardinality(Leased(r)) /\ slots[r] <= MaxContexts
          /\ contexts[r] >= slots[r] /\ contexts[r] <= slots[r] + failures
      BY BooksOf
    <3>2. contexts'[r] = contexts[r] \/ contexts'[r] = contexts[r] + 1
      BY <1>3
    <3>3. QED
      BY <1>2, <2>1, <3>1, <3>2, PoolAssumption
  <2>3. QED
    BY <1>2, <1>3, <2>2, BooksOf, BooksAreClosed
<1>6. LockIsHeld' /\ LeaseIsHeld' /\ LaunchHasRoom'
  BY PoolAssumption DEF IInv, ContextsAreCounted, TypeOK, OpenFails, Goto,
     LockIsHeld, LeaseIsHeld, LaunchHasRoom, Inside
<1>7. QED
  BY <1>4, <1>5, <1>6 DEF IInv, ContextsAreCounted

\* A lease given back is one less in the count of its slot.
LEMMA ReleaseKeepsIInv ==
  ASSUME IInv, NEW c \in Client, Release(c) \/ CloseFails(c)
  PROVE  IInv'
<1> PICK b \in Nat : b = held[c]
  BY DEF IInv, ContextsAreCounted, TypeOK
<1>1. /\ lock = Nobody /\ lock' = Nobody /\ leases[c] # 0 /\ pc[c] = "release"
      /\ pc' = [pc EXCEPT ![c] = "out"] /\ held' = [held EXCEPT ![c] = 0]
      /\ Unlease(c, b) /\ started' = started
  BY DEF Release, CloseFails, Locked, Goto
<1>2. leases \in [Client -> 0 .. Len(slots)] /\ b = leases[c] /\ b \in 1 .. Len(slots)
  BY <1>1 DEF LeaseIsHeld, IInv, ContextsAreCounted, TypeOK
<1>3. slots[b] \in Nat /\ slots[b] - 1 \in Nat /\ slots[b] > 0
  <2>1. c \in Leased(b)
    BY <1>2 DEF Leased
  <2>2. Cardinality(Leased(b)) # 0
    BY <2>1, LeasedIsFinite, FS_EmptySet
  <2>3. QED
    BY <1>2, <2>2, BooksOf
<1>4. /\ slots' \in Seq(Nat) /\ Len(slots') = Len(slots) /\ slots'[b] = slots[b] - 1
      /\ \A r \in 1 .. Len(slots) : r # b => slots'[r] = slots[r]
  BY <1>1, <1>2, <1>3, BooksOf DEF Unlease
<1>5. /\ failures' \in Nat /\ failures <= failures'
      /\ contexts' \in Seq(Nat) /\ Len(contexts') = Len(contexts)
      /\ \A r \in 1 .. Len(slots) : r # b => contexts'[r] = contexts[r]
      /\ \/ contexts'[b] = contexts[b] - 1
         \/ contexts'[b] = contexts[b] /\ failures' = failures + 1
  <2>1. contexts[b] \in Nat /\ contexts[b] - 1 \in Nat
    BY <1>2, <1>3, BooksOf
  <2>2. CASE Release(c)
    <3>1. contexts' = [contexts EXCEPT ![b] = contexts[b] - 1] /\ failures' = failures
      BY <2>2 DEF Release
    <3>2. QED
      BY <1>2, <2>1, <3>1, BooksOf, OneReplaced
  <2>3. CASE CloseFails(c)
    BY <1>2, <2>1, <2>3, BooksOf DEF CloseFails, Fails
  <2>4. QED
    BY <2>2, <2>3
<1>6. TypeOK'
  <2> USE DEF IInv, ContextsAreCounted, TypeOK, Unlease
  <2>1. leases' \in [Client -> 0 .. Len(slots')] /\ held' \in [Client -> Nat]
    BY <1>1, <1>4
  <2>2. pc' \in [Client -> ProgramPoint]
    BY <1>1 DEF ProgramPoint
  <2>3. QED
    BY <1>1, <1>4, <1>5, <2>1, <2>2
<1>7. SlotsCountLeases' /\ SlotsBounded' /\ OpenContextsAreLeased'
  <2>1. Leased(b)' = Leased(b) \ {c} /\ c \in Leased(b)
    BY <1>1, <1>2 DEF Leased, Unlease
  <2>2. Cardinality(Leased(b)') = Cardinality(Leased(b)) - 1
    BY <2>1, LeasedIsFinite, FS_RemoveElement
  <2>3. \A r \in 1 .. Len(slots) : r # b => Leased(r)' = Leased(r)
    BY <1>1, <1>2 DEF Leased, Unlease
  <2>4. \A r \in 1 .. Len(slots) :
            /\ slots'[r] = Cardinality(Leased(r)')
            /\ slots'[r] <= MaxContexts
            /\ contexts'[r] >= slots'[r]
            /\ contexts'[r] <= slots'[r] + failures'
    <3> TAKE r \in 1 .. Len(slots)
    <3>1. /\ slots[r] \in Nat /\ contexts[r] \in Nat /\ failures \in Nat
          /\ slots[r] = Cardinality(Leased(r)) /\ slots[r] <= MaxContexts
          /\ contexts[r] >= slots[r] /\ contexts[r] <= slots[r] + failures
      BY BooksOf
    <3>2. failures' \in Nat /\ failures <= failures' /\ MaxContexts \in Nat
      BY <1>5, PoolAssumption
    <3>3. CASE r = b
      <4>1. /\ slots'[r] = slots[r] - 1 /\ slots'[r] = Cardinality(Leased(r)')
            /\ \/ contexts'[r] = contexts[r] - 1
               \/ contexts'[r] = contexts[r] /\ failures' = failures + 1
        BY <1>4, <1>5, <2>2, <3>1, <3>3
      <4>2. QED
        BY <3>1, <3>2, <4>1
    <3>4. CASE r # b
      <4>1. /\ slots'[r] = slots[r] /\ contexts'[r] = contexts[r]
            /\ slots'[r] = Cardinality(Leased(r)')
        BY <1>4, <1>5, <2>3, <3>1, <3>4
      <4>2. QED
        BY <3>1, <3>2, <4>1
    <3>5. QED
      BY <3>3, <3>4
  <2>5. QED
    BY <1>4, <1>5, <2>4, BooksOf, BooksAreClosed
<1>8. LockIsHeld' /\ LeaseIsHeld' /\ LaunchHasRoom'
  <2> USE DEF IInv, ContextsAreCounted, TypeOK, Unlease
  <2>1. LockIsHeld' /\ LeaseIsHeld'
    BY <1>1, PoolAssumption DEF LockIsHeld, LeaseIsHeld, Inside
  <2>2. LaunchHasRoom'
    BY <1>1, <1>4 DEF LaunchHasRoom
  <2>3. QED
    BY <2>1, <2>2
<1>9. QED
  BY <1>6, <1>7, <1>8 DEF IInv, ContextsAreCounted

\* A shutdown clears the slots, the leases and the contexts together.
LEMMA ShutdownKeepsIInv ==
  ASSUME IInv, NEW c \in Client, Shutdown(c)
  PROVE  IInv'
<1> USE PoolAssumption DEF IInv, ContextsAreCounted, TypeOK, Shutdown, Goto, Locked
<1>1. slots' \in Seq(Nat) /\ contexts' \in Seq(Nat) /\ Len(slots') = 0 /\ Len(contexts') = 0
  OBVIOUS
<1>2. TypeOK'
  <2>1. leases' \in [Client -> 0 .. Len(slots')]
    BY <1>1
  <2>2. pc' \in [Client -> ProgramPoint]
    BY DEF ProgramPoint
  <2>3. started' \in BOOLEAN
    OBVIOUS
  <2>4. Len(slots') <= MaxBrowsers
    BY <1>1
  <2>5. QED
    BY <1>1, <2>1, <2>2, <2>3, <2>4
<1>3. SlotsCountLeases' /\ SlotsBounded' /\ OpenContextsAreLeased'
  BY <1>1 DEF SlotsCountLeases, SlotsBounded, OpenContextsAreLeased
<1>4. LockIsHeld' /\ LeaseIsHeld' /\ LaunchHasRoom'
  BY DEF LockIsHeld, LeaseIsHeld, LaunchHasRoom, Inside
<1>5. QED
  BY <1>2, <1>3, <1>4

\* Every step, a stuttering one too, keeps the invariant of the browser pool.
LEMMA StepIInv == IInv /\ [Next]_vars => IInv'
<1> SUFFICES ASSUME IInv, [Next]_vars PROVE IInv'
  OBVIOUS
<1>1. CASE UNCHANGED vars
  BY <1>1 DEF vars, IInv, ContextsAreCounted, TypeOK, SlotsCountLeases, SlotsBounded,
              OpenContextsAreLeased, Leased, LockIsHeld, LaunchHasRoom, LeaseIsHeld
<1>2. ASSUME NEW c \in Client, Moves(c) PROVE IInv'
  BY <1>2, MoveKeepsIInv
<1>3. ASSUME NEW c \in Client, Launch(c) PROVE IInv'
  BY <1>3, LaunchKeepsIInv
<1>4. ASSUME NEW c \in Client, NEW s \in 1 .. MaxBrowsers, Open(c, s) PROVE IInv'
  BY <1>4, OpenKeepsIInv
<1>5. ASSUME NEW c \in Client, NEW s \in 1 .. MaxBrowsers, OpenFails(c, s) PROVE IInv'
  BY <1>5, OpenFailsKeepsIInv
<1>6. ASSUME NEW c \in Client, Release(c) \/ CloseFails(c) PROVE IInv'
  BY <1>6, ReleaseKeepsIInv
<1>7. ASSUME NEW c \in Client, Shutdown(c) PROVE IInv'
  BY <1>7, ShutdownKeepsIInv
<1>8. QED
  BY <1>1, <1>2, <1>3, <1>4, <1>5, <1>6, <1>7 DEF Next, Method, Moves

-----------------------------------------------------------------------------
(* The theorems.                                                           *)

\* browser_pool.py: whatever is interleaved with a shutdown or an exception of
\* Playwright, active_contexts of a slot is the number of its registered
\* leases, at most max_contexts_per_browser; there are at most max_browsers
\* slots; and a context that is open without a lease cost an exception.
THEOREM BooksAreRight == Spec => []ContextsAreCounted
<1>1. IInv => ContextsAreCounted
  BY DEF IInv
<1>2. QED
  BY InitIInv, StepIInv, <1>1, PTL DEF Spec

\* The step of BrowserPoolUnavailable("browser pool capacity exhausted").
LEMMA RefusalIsJustified ==
  ASSUME IInv, NEW c \in Client, Refuse(c)
  PROVE  Cardinality({d \in Client : leases[d] # 0}) = MaxBrowsers * MaxContexts
<1> USE PoolAssumption DEF IInv, ContextsAreCounted, TypeOK
<1>1. Len(slots) = MaxBrowsers
  BY DEF Refuse
<1>2. \A s \in 1 .. MaxBrowsers : slots[s] = MaxContexts
  <2>1. FreeSlots = {}
    BY DEF Refuse
  <2>2. \A s \in 1 .. Len(slots) : slots[s] \in Nat /\ ~(slots[s] < MaxContexts)
    BY <2>1, CountsAreNatural DEF FreeSlots, Free
  <2>3. QED
    BY <1>1, <2>2 DEF SlotsBounded
<1>3. \A s \in 1 .. MaxBrowsers : Cardinality({d \in Client : leases[d] = s}) = MaxContexts
  BY <1>1, <1>2 DEF SlotsCountLeases, Leased
<1>4. leases \in [Client -> Nat] /\ MaxBrowsers \in Nat /\ MaxContexts \in Nat
  BY <1>1
<1>5. Cardinality({d \in Client : leases[d] \in 1 .. MaxBrowsers}) = MaxBrowsers * MaxContexts
  <2> HIDE DEF IInv, ContextsAreCounted, TypeOK
  <2>1. QED
    BY <1>3, <1>4, LeasesAddUp
<1>6. {d \in Client : leases[d] # 0} = {d \in Client : leases[d] \in 1 .. MaxBrowsers}
  BY <1>1
<1>7. QED
  BY <1>5, <1>6

\* browser_pool.py: acquire answers "browser pool capacity exhausted" only
\* when max_browsers times max_contexts_per_browser contexts are leased.
THEOREM RefusalsAreJust == Spec => RefusesOnlyWhenFull
<1> DEFINE Full == Cardinality({d \in Client : leases[d] # 0}) = MaxBrowsers * MaxContexts
           Just == \A c \in Client : pc[c] = "select" /\ pc'[c] = "refused" => Full
<1>1. IInv /\ [Next]_vars => [Just]_vars
  <2> SUFFICES ASSUME IInv, Next, NEW c \in Client,
                      pc[c] = "select", pc'[c] = "refused"
               PROVE  Full
    BY DEF vars
  <2> USE DEF IInv, ContextsAreCounted, TypeOK
  <2>1. PICK d \in Client : \/ CallStart(d) \/ CallAcquire(d) \/ CallRelease(d)
                           \/ CallShutdown(d) \/ Method(d)
    BY DEF Next
  <2>2. \/ Refuse(d)
        \/ \E to \in ProgramPoint \ {"refused"} : pc' = [pc EXCEPT ![d] = to]
    BY <2>1 DEF ProgramPoint, Method, CallStart, Start, CallAcquire, EnterAcquire, SelectSlot, GiveUp,
           LaunchStarts, Launch, LaunchFails, Open, OpenFails, CallRelease, ReleaseStale,
           Release, CloseFails, CallShutdown, Shutdown, Goto
  <2>3. Refuse(c)
    BY <2>2 DEF Refuse, Goto
  <2>4. QED
    BY <2>3, RefusalIsJustified
<1>2. QED
  BY InitIInv, StepIInv, <1>1, PTL DEF Spec, RefusesOnlyWhenFull

\* browser_pool.py: the bound on contexts holds, and nobody is refused while
\* there is room.
THEOREM PoolSafety == Spec => PoolIsBounded
BY BooksAreRight, RefusalsAreJust, PTL DEF PoolIsBounded

=============================================================================
