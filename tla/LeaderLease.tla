---------------------------- MODULE LeaderLease ----------------------------
(***************************************************************************)
(* Leader election over etcd (divar_bot/infra/etcd_client.py): a process   *)
(* that wants to schedule takes a lease and puts the leader key with it if *)
(* the key does not exist, stays in renew_lease_forever while it leads, and*)
(* releases by deleting the key and revoking the lease.                    *)
(*                                                                         *)
(* renew_lease_forever renews nothing: refresh_lease of python-etcd3 is a  *)
(* generator, line 115 drops it without taking an element, and so no       *)
(* keep-alive leaves the process.  The loop only sleeps and looks for its  *)
(* stop key.                                                               *)
(*                                                                         *)
(* etcd itself is modelled from how the client uses it: a lease expires    *)
(* LeaseTtl ticks after it was granted, and the key put with it goes.  The *)
(* caller of the client is not in the repository: here it elects, leads    *)
(* while renew_lease_forever runs, and releases when that returns.         *)
(***************************************************************************)
EXTENDS Naturals, FiniteSets

CONSTANTS
    Candidate,      \* the orchestrator instances
    Lease,          \* lease ids of etcd
    NoLease,        \* of a process without a lease, and of an absent key
    LeaseTtl,       \* ttl_seconds of a lease
    MaxDeaths       \* bound: processes that die

ASSUME LeaseAssumption ==
    /\ NoLease \notin Lease
    /\ LeaseTtl \in Nat \ {0}
    /\ MaxDeaths \in Nat

VARIABLES
    leaderKey,  \* the lease the leader key was put with
    remaining,  \* Lease -> ticks until it expires, 0 when it is not alive
    where,      \* Candidate -> where it is
    held,       \* Candidate -> the lease it holds
    asleep,     \* Candidate -> ticks until the loop of its renewals wakes
    displaced,  \* processes whose lease expired, or whose key another
                \* process deleted, since they took it (history)
    tardy,      \* time has passed while a process was awake (history)
    deaths      \* processes that died so far

leaseVars == <<leaderKey, remaining, where, held, asleep, displaced, tardy, deaths>>

\* time.sleep(max(1, lease.ttl_seconds // 3)) between two turns of the loop.
Period == IF LeaseTtl \div 3 > 1 THEN LeaseTtl \div 3 ELSE 1

LeaseTypeOK ==
    /\ leaderKey \in Lease \cup {NoLease}
    /\ remaining \in [Lease -> 0 .. LeaseTtl]
    /\ where \in [Candidate -> {"idle", "granted", "leader", "stopped", "revoking"}]
    /\ held \in [Candidate -> Lease \cup {NoLease}]
    /\ asleep \in [Candidate -> 0 .. Period]
    /\ displaced \subseteq Candidate
    /\ tardy \in BOOLEAN
    /\ deaths \in 0 .. MaxDeaths

LeaseInit ==
    /\ leaderKey = NoLease
    /\ remaining = [l \in Lease |-> 0]
    /\ where = [p \in Candidate |-> "idle"]
    /\ held = [p \in Candidate |-> NoLease]
    /\ asleep = [p \in Candidate |-> 0]
    /\ displaced = {}
    /\ tardy = FALSE
    /\ deaths = 0

-----------------------------------------------------------------------------

Alive(l) == l \in Lease /\ remaining[l] > 0

\* A lease id that etcd may grant: not alive and in nobody's hands.
Unused(l) == ~Alive(l) /\ \A p \in Candidate : held[p] # l

\* The process drops what it knows of its lease.
Forget(p) ==
    /\ where' = [where EXCEPT ![p] = "idle"]
    /\ held' = [held EXCEPT ![p] = NoLease]
    /\ asleep' = [asleep EXCEPT ![p] = 0]

\* revoke() of a lease without a key: etcd ends it, or knows it no more.
EndLease(l) == remaining' = [remaining EXCEPT ![l] = 0]

\* The process whose lease the key was put with loses the key.
Displace(p) ==
    displaced' = displaced \cup {q \in Candidate : q # p /\ held[q] = leaderKey
                                                        /\ leaderKey # NoLease}

-----------------------------------------------------------------------------
(* Mutants: what a plausible slip in the code would make of an action.      *)

\* put without the comparison of the key's version with 0.
PutUnconditionally(p) ==
    /\ where[p] = "granted"
    /\ Alive(held[p])
    /\ leaderKey' = held[p]
    /\ where' = [where EXCEPT ![p] = "leader"]
    /\ UNCHANGED <<remaining, held, asleep, displaced, tardy, deaths>>

\* The key put without its lease: etcd takes it although the lease is gone,
\* and it outlives the process.
PutWithoutLease(p) ==
    /\ where[p] = "granted"
    /\ leaderKey = NoLease
    /\ leaderKey' = held[p]
    /\ where' = [where EXCEPT ![p] = "leader"]
    /\ UNCHANGED <<remaining, held, asleep, displaced, tardy, deaths>>

-----------------------------------------------------------------------------
(* acquire_lease(), called by elect_leader().                              *)

Grant(p, l) ==
    /\ where[p] = "idle"
    /\ Unused(l)
    /\ where' = [where EXCEPT ![p] = "granted"]
    /\ held' = [held EXCEPT ![p] = l]
    /\ remaining' = [remaining EXCEPT ![l] = LeaseTtl]
    /\ displaced' = displaced \ {p}
    /\ UNCHANGED <<leaderKey, asleep, tardy, deaths>>

\* The transaction finds the key's version 0 and puts the key.
Win(p) ==
    /\ where[p] = "granted"
    /\ leaderKey = NoLease
    /\ Alive(held[p])
    /\ leaderKey' = held[p]
    /\ where' = [where EXCEPT ![p] = "leader"]
    /\ UNCHANGED <<remaining, held, asleep, displaced, tardy, deaths>>

\* The transaction fails and the lease is revoked, or the lease expired
\* before the transaction and etcd raises.
Lose(p) ==
    /\ where[p] = "granted"
    /\ leaderKey # NoLease \/ ~Alive(held[p])
    /\ EndLease(held[p])
    /\ Forget(p)
    /\ UNCHANGED <<leaderKey, displaced, tardy, deaths>>

-----------------------------------------------------------------------------
(* renew_lease_forever() and release().                                    *)

\* A turn of the loop without the stop key: the refresh is never sent, and
\* nobody looks whether the lease is alive; the loop sleeps again.
Renew(p) ==
    /\ where[p] = "leader"
    /\ asleep[p] = 0
    /\ asleep' = [asleep EXCEPT ![p] = Period]
    /\ UNCHANGED <<leaderKey, remaining, where, held, displaced, tardy, deaths>>

\* The loop wakes, finds the stop key and returns.
StopRenewing(p) ==
    /\ where[p] = "leader"
    /\ asleep[p] = 0
    /\ where' = [where EXCEPT ![p] = "stopped"]
    /\ UNCHANGED <<leaderKey, remaining, held, asleep, displaced, tardy, deaths>>

\* client.delete(lease.key), whoever put the key.
DeleteKey(p) ==
    /\ where[p] = "stopped"
    /\ leaderKey' = NoLease
    /\ Displace(p)
    /\ where' = [where EXCEPT ![p] = "revoking"]
    /\ UNCHANGED <<remaining, held, asleep, tardy, deaths>>

RevokeLease(p) ==
    /\ where[p] = "revoking"
    /\ EndLease(held[p])
    /\ Forget(p)
    /\ UNCHANGED <<leaderKey, displaced, tardy, deaths>>

-----------------------------------------------------------------------------
(* The environment: time, and processes that die.                          *)

Awake(p) == where[p] = "granted" \/ (where[p] = "leader" /\ asleep[p] = 0)

\* etcd deletes a key when the lease it was put with expires.
ExpireKey(expired) ==
    leaderKey' = IF leaderKey \in expired THEN NoLease ELSE leaderKey

\* A process that is in its election, or awake in its loop, while time passes
\* is late.
LeaseTick ==
    LET expired == {l \in Lease : remaining[l] = 1} IN
    /\ \E l \in Lease : Alive(l)
    /\ remaining' = [l \in Lease |->
                        IF remaining[l] > 0 THEN remaining[l] - 1 ELSE 0]
    /\ ExpireKey(expired)
    /\ displaced' = displaced \cup {p \in Candidate : held[p] \in expired}
    /\ asleep' = [p \in Candidate |-> IF asleep[p] > 0 THEN asleep[p] - 1 ELSE 0]
    /\ tardy' = (tardy \/ \E p \in Candidate : Awake(p))
    /\ UNCHANGED <<where, held, deaths>>

\* The lease of a dead process lives on until it expires.
Perish(p) ==
    /\ where[p] # "idle"
    /\ deaths < MaxDeaths
    /\ deaths' = deaths + 1
    /\ Forget(p)
    /\ UNCHANGED <<leaderKey, remaining, displaced, tardy>>

-----------------------------------------------------------------------------

Elect(p) == (\E l \in Lease : Grant(p, l)) \/ Win(p) \/ Lose(p)
Resign(p) == DeleteKey(p) \/ RevokeLease(p)

LeaseNext ==
    \/ LeaseTick
    \/ \E p \in Candidate :
        Elect(p) \/ Renew(p) \/ StopRenewing(p) \/ Resign(p) \/ Perish(p)

LeaseSpec == LeaseInit /\ [][LeaseNext]_leaseVars

\* Time passes, every process keeps running its client calls, and none of them
\* reaches its transaction after its lease expired for ever.
LeaseFairness ==
    /\ WF_leaseVars(LeaseTick)
    /\ \A p \in Candidate :
        WF_leaseVars(Elect(p)) /\ SF_leaseVars(Win(p)) /\ WF_leaseVars(Resign(p))

FairLeaseSpec == LeaseSpec /\ LeaseFairness

-----------------------------------------------------------------------------
(* Properties.                                                             *)

Leaders == {p \in Candidate : where[p] = "leader"}

\* "Keep a lease alive until process shutdown or optional stop key appears"
\* (etcd_client.py line 110), at the least while no process is ever late.
LeaseIsKeptAlive == ~tardy => \A p \in Leaders : Alive(held[p])

\* What the client does guarantee: of the processes that think they lead, at
\* most one still has a living lease and the key, whatever expires, dies or
\* is released by others.
OneCurrentLeader ==
    /\ \A p \in Leaders \ displaced : leaderKey = held[p] /\ Alive(held[p])
    /\ \A p, q \in Leaders \ displaced : p = q

\* The key is never left behind: the lease it was put with is alive.
KeyExpiresWithLease == leaderKey # NoLease => Alive(leaderKey)

\* The safety of leadership: the key goes with its lease, and of those who
\* think that they lead at most one was not displaced.
LeaseSafety == LeaseTypeOK /\ KeyExpiresWithLease /\ OneCurrentLeader

\* A free leader key is taken, unless every process thinks that it leads
\* already: a displaced leader never campaigns again.
LeadershipIsTaken ==
    (leaderKey = NoLease) ~> (leaderKey # NoLease \/ Leaders = Candidate)

\* A leader that died is replaced: its key does not stay.
DeadLeadersAreReplaced ==
    \A l \in Lease :
        (leaderKey = l /\ \A p \in Candidate : held[p] # l) ~> (leaderKey # l)

\* Leadership does not get stuck, with nobody or with a dead process.
LeadershipMoves == LeadershipIsTaken /\ DeadLeadersAreReplaced
=============================================================================
