---------------------------- MODULE BrowserPool ----------------------------
(***************************************************************************)
(* The browser pool of divar_bot/infra/browser_pool.py: client threads     *)
(* share at most MaxBrowsers browsers, each with at most MaxContexts open  *)
(* contexts, and every method of the pool runs under one threading.Lock.   *)
(*                                                                         *)
(* A thread has one session at a time: acquire, use, release.  Everything  *)
(* a method does under the lock is one step, except in acquire, whose path *)
(* through _launch_browser calls start(), which takes the lock again; a    *)
(* threading.Lock is not reentrant.  The pool's list of slots only grows   *)
(* or is cleared, so a browser is its index in it.                         *)
(***************************************************************************)
EXTENDS Naturals, Sequences, FiniteSets

CONSTANTS
    Client,         \* threads that use the pool
    Nobody,         \* holder of the lock when it is free
    Stoppers,       \* the threads that may call shutdown
    StartFirst,     \* whether threads call start() before acquire()
    MaxBrowsers,    \* settings.max_browsers
    MaxContexts,    \* settings.max_contexts_per_browser
    MaxFailures     \* bound: exceptions raised by Playwright

ASSUME PoolAssumption ==
    /\ Nobody \notin Client
    /\ IsFiniteSet(Client)
    /\ Stoppers \subseteq Client
    /\ StartFirst \in BOOLEAN
    /\ MaxBrowsers \in Nat \ {0}
    /\ MaxContexts \in Nat \ {0}
    /\ MaxFailures \in Nat

VARIABLES
    started,    \* _started
    lock,       \* the holder of _lock
    slots,      \* active_contexts of each slot of _slots
    leases,     \* Client -> browser of its entry in _leases, 0 for none
    pc,         \* Client -> where the thread is
    held,       \* Client -> browser of the BrowserLease it holds, 0 for none
    contexts,   \* contexts really open in each browser of slots
    failures    \* exceptions raised so far (bounds the behaviour)

vars == <<started, lock, slots, leases, pc, held, contexts, failures>>

ProgramPoint == {"out", "start", "acquire", "select", "launch", "startInside",
                 "open", "leased", "release", "refused", "shutdown"}

TypeOK ==
    /\ started \in BOOLEAN
    /\ lock \in Client \cup {Nobody}
    /\ slots \in Seq(Nat)
    /\ Len(slots) <= MaxBrowsers
    /\ leases \in [Client -> 0 .. Len(slots)]
    /\ pc \in [Client -> ProgramPoint]
    /\ held \in [Client -> Nat]
    /\ contexts \in Seq(Nat)
    /\ Len(contexts) = Len(slots)
    /\ failures \in Nat

Init ==
    /\ started = FALSE
    /\ lock = Nobody
    /\ slots = <<>>
    /\ leases = [c \in Client |-> 0]
    /\ pc = [c \in Client |-> "out"]
    /\ held = [c \in Client |-> 0]
    /\ contexts = <<>>
    /\ failures = 0

-----------------------------------------------------------------------------

Goto(c, from, to) == pc[c] = from /\ pc' = [pc EXCEPT ![c] = to]

\* A whole method runs under the lock in one step.
Locked == lock = Nobody /\ UNCHANGED lock

Fails == failures < MaxFailures /\ failures' = failures + 1

Free(s) == slots[s] < MaxContexts
FreeSlots == {s \in 1 .. Len(slots) : Free(s)}

\* The slot the stable sort on active_contexts puts first.
LeastLoaded(s) ==
    /\ s \in FreeSlots
    /\ \A r \in FreeSlots :
        slots[s] < slots[r] \/ (slots[s] = slots[r] /\ s <= r)

\* The entry of _leases goes, and its slot's count with it, never below 0.
Unlease(c, b) ==
    /\ leases' = [leases EXCEPT ![c] = 0]
    /\ slots' = [s \in 1 .. Len(slots) |->
                    IF s = b /\ slots[s] > 0 THEN slots[s] - 1 ELSE slots[s]]

-----------------------------------------------------------------------------
(* Mutants: what a plausible slip in the code would make of an action.      *)

\* A failed launch that leaves the method without unlocking.
LaunchFailsLocked(c) ==
    /\ Goto(c, "launch", "out")
    /\ started
    /\ Fails
    /\ UNCHANGED <<started, lock, slots, leases, held, contexts>>

\* The pool's capacity tested against one slot too few.
RefuseEarly(c) ==
    /\ Goto(c, "select", "refused")
    /\ FreeSlots = {}
    /\ Len(slots) + 1 >= MaxBrowsers
    /\ lock' = Nobody
    /\ UNCHANGED <<started, slots, leases, held, contexts, failures>>

-----------------------------------------------------------------------------
(* start().                                                                *)

CallStart(c) ==
    /\ Goto(c, "out", "start")
    /\ UNCHANGED <<started, lock, slots, leases, held, contexts, failures>>

\* Called by a thread, or by _launch_browser under acquire's lock: that call
\* waits for the lock its own thread holds.
Start(c) ==
    /\ Locked
    /\ pc[c] \in {"start", "startInside"}
    /\ pc' = [pc EXCEPT ![c] = IF pc[c] = "start" THEN "out" ELSE "launch"]
    /\ \/ started' = TRUE /\ UNCHANGED failures
       \/ ~started /\ Fails /\ UNCHANGED started
    /\ UNCHANGED <<slots, leases, held, contexts>>

-----------------------------------------------------------------------------
(* acquire(), _select_slot() and _launch_browser().                        *)

CallAcquire(c) ==
    /\ StartFirst => started
    /\ Goto(c, "out", "acquire")
    /\ UNCHANGED <<started, lock, slots, leases, held, contexts, failures>>

EnterAcquire(c) ==
    /\ lock = Nobody
    /\ Goto(c, "acquire", "select")
    /\ lock' = c
    /\ UNCHANGED <<started, slots, leases, held, contexts, failures>>

SelectSlot(c) ==
    /\ Goto(c, "select", IF FreeSlots # {} THEN "open" ELSE "launch")
    /\ FreeSlots # {} \/ Len(slots) < MaxBrowsers
    /\ UNCHANGED <<started, lock, slots, leases, held, contexts, failures>>

\* BrowserPoolUnavailable("browser pool capacity exhausted").
Refuse(c) ==
    /\ Goto(c, "select", "refused")
    /\ FreeSlots = {}
    /\ Len(slots) = MaxBrowsers
    /\ lock' = Nobody
    /\ UNCHANGED <<started, slots, leases, held, contexts, failures>>

\* The caller catches the exception.
GiveUp(c) ==
    /\ Goto(c, "refused", "out")
    /\ UNCHANGED <<started, lock, slots, leases, held, contexts, failures>>

\* _launch_browser of a pool that is not started calls start().
LaunchStarts(c) ==
    /\ Goto(c, "launch", "startInside")
    /\ ~started
    /\ UNCHANGED <<started, lock, slots, leases, held, contexts, failures>>

Launch(c) ==
    /\ Goto(c, "launch", "open")
    /\ started
    /\ slots' = Append(slots, 0)
    /\ contexts' = Append(contexts, 0)
    /\ UNCHANGED <<started, lock, leases, held, failures>>

LaunchFails(c) ==
    /\ Goto(c, "launch", "out")
    /\ started
    /\ Fails
    /\ lock' = Nobody
    /\ UNCHANGED <<started, slots, leases, held, contexts>>

Open(c, s) ==
    /\ LeastLoaded(s)
    /\ Goto(c, "open", "leased")
    /\ lock' = Nobody
    /\ slots' = [slots EXCEPT ![s] = @ + 1]
    /\ contexts' = [contexts EXCEPT ![s] = @ + 1]
    /\ leases' = [leases EXCEPT ![c] = s]
    /\ held' = [held EXCEPT ![c] = s]
    /\ UNCHANGED <<started, failures>>

\* new_context raises, or new_page does and the context stays open.
OpenFails(c, s) ==
    /\ LeastLoaded(s)
    /\ Goto(c, "open", "out")
    /\ lock' = Nobody
    /\ Fails
    /\ \/ UNCHANGED contexts
       \/ contexts' = [contexts EXCEPT ![s] = @ + 1]
    /\ UNCHANGED <<started, slots, leases, held>>

-----------------------------------------------------------------------------
(* release() and shutdown().                                               *)

CallRelease(c) ==
    /\ Goto(c, "leased", "release")
    /\ UNCHANGED <<started, lock, slots, leases, held, contexts, failures>>

\* A lease that a shutdown has cleared is not in _leases any more.
ReleaseStale(c) ==
    /\ Locked
    /\ leases[c] = 0
    /\ Goto(c, "release", "out")
    /\ held' = [held EXCEPT ![c] = 0]
    /\ UNCHANGED <<started, slots, leases, contexts, failures>>

Release(c) ==
    /\ Locked
    /\ leases[c] # 0
    /\ Goto(c, "release", "out")
    /\ held' = [held EXCEPT ![c] = 0]
    /\ Unlease(c, held[c])
    /\ contexts' = [contexts EXCEPT ![held[c]] = @ - 1]
    /\ UNCHANGED <<started, failures>>

\* context.close() raises: the context stays open, the finally clause runs.
CloseFails(c) ==
    /\ Locked
    /\ leases[c] # 0
    /\ Goto(c, "release", "out")
    /\ Fails
    /\ held' = [held EXCEPT ![c] = 0]
    /\ Unlease(c, held[c])
    /\ UNCHANGED <<started, contexts>>

CallShutdown(c) ==
    /\ c \in Stoppers
    /\ Goto(c, "out", "shutdown")
    /\ UNCHANGED <<started, lock, slots, leases, held, contexts, failures>>

\* Every browser is closed, and stopping Playwright ends what is left.
Shutdown(c) ==
    /\ Locked
    /\ Goto(c, "shutdown", "out")
    /\ started' = FALSE
    /\ slots' = <<>>
    /\ contexts' = <<>>
    /\ leases' = [d \in Client |-> 0]
    /\ UNCHANGED <<held, failures>>

-----------------------------------------------------------------------------

\* What a thread inside a method does next.
Method(c) ==
    \/ Start(c) \/ EnterAcquire(c) \/ SelectSlot(c) \/ Refuse(c) \/ GiveUp(c)
    \/ LaunchStarts(c) \/ Launch(c) \/ LaunchFails(c)
    \/ \E s \in 1 .. MaxBrowsers : Open(c, s) \/ OpenFails(c, s)
    \/ ReleaseStale(c) \/ Release(c) \/ CloseFails(c) \/ Shutdown(c)

Next ==
    \E c \in Client :
        \/ CallStart(c) \/ CallAcquire(c) \/ CallRelease(c) \/ CallShutdown(c)
        \/ Method(c)

Spec == Init /\ [][Next]_vars

\* A thread that can go on in a method goes on; one that waits for the lock
\* gets it if the lock is free again and again; a lease is given back.
Fairness ==
    \A c \in Client : SF_vars(Method(c)) /\ WF_vars(CallRelease(c))

FairSpec == Spec /\ Fairness

-----------------------------------------------------------------------------
(* Properties.                                                             *)

Leased(s) == {c \in Client : leases[c] = s}

\* active_contexts of a slot is the number of registered leases of its
\* browser, in every interleaving of acquire, release, shutdown and failures.
SlotsCountLeases ==
    \A s \in 1 .. Len(slots) : slots[s] = Cardinality(Leased(s))

\* Bounded concurrency (module docstring, "bounded browser/context
\* concurrency"): a browser never has more registered contexts than allowed.
SlotsBounded == \A s \in 1 .. Len(slots) : slots[s] <= MaxContexts

\* A context is closed by its release; one that stays open without a lease
\* was left by an exception of Playwright, at most one per exception.
OpenContextsAreLeased ==
    \A s \in 1 .. Len(contexts) :
        /\ contexts[s] >= slots[s]
        /\ contexts[s] <= slots[s] + failures

\* The pool's books are right whatever is interleaved with a shutdown: the
\* counts, the leases and the contexts that Playwright holds agree.
ContextsAreCounted ==
    TypeOK /\ SlotsCountLeases /\ SlotsBounded /\ OpenContextsAreLeased

\* The pool refuses a thread only while every context it may open is leased.
RefusesOnlyWhenFull ==
    [][\A c \in Client :
        pc[c] = "select" /\ pc'[c] = "refused" =>
            Cardinality({d \in Client : leases[d] # 0})
                = MaxBrowsers * MaxContexts]_vars

\* Whatever Playwright raises and whoever shuts the pool down, acquire answers;
\* the one thing that can keep it is an acquire that calls start() under the
\* lock.
AcquireReturns ==
    \A c \in Client :
        pc[c] = "acquire" ~>
            \/ pc[c] \in {"leased", "refused", "out"}
            \/ \E d \in Client : pc[d] = "startInside"

\* "Close all contexts and browsers. Safe for Kubernetes preStop hooks."
\* (browser_pool.py line 226): a shutdown that is called returns.
ShutdownReturns == \A c \in Client : pc[c] = "shutdown" ~> pc[c] = "out"

\* The bound on contexts is kept by true books, and kept without refusing
\* anyone for whom there was room.
PoolIsBounded == []ContextsAreCounted /\ RefusesOnlyWhenFull
=============================================================================
