------------------------- MODULE LeaderLease_proofs -------------------------
(***************************************************************************)
(* Proofs about LeaderLease for every set of processes and lease ids,      *)
(* every ttl, however late its holder is, and any number of deaths.        *)
(***************************************************************************)
EXTENDS LeaderLease, TLAPS

-----------------------------------------------------------------------------
(* The inductive invariant.                                                *)

\* etcd grants a lease id to one process at a time, and an idle process holds
\* none.
LeasesAreOwned ==
    /\ \A p \in Candidate : where[p] = "idle" <=> held[p] = NoLease
    /\ \A p, q \in Candidate : p # q /\ held[p] = held[q] => held[p] = NoLease

\* Before its transaction, and after it deleted the key, the key is not the
\* process's own: it may end its lease.
KeyIsElsewhere ==
    \A p \in Candidate : where[p] \in {"granted", "revoking"} => leaderKey # held[p]

\* A leader, or one that is about to release, has the key while its lease is
\* alive and nobody else deleted the key.
UndisplacedHoldsKey ==
    \A p \in Candidate :
        where[p] \in {"leader", "stopped"} /\ p \notin displaced =>
            leaderKey = held[p] /\ Alive(held[p])

IInv ==
    /\ LeaseTypeOK
    /\ KeyExpiresWithLease
    /\ LeasesAreOwned
    /\ KeyIsElsewhere
    /\ UndisplacedHoldsKey

-----------------------------------------------------------------------------

\* The renewal period of any ttl is a positive number of ticks.
LEMMA PeriodIsPositive == Period \in Nat /\ Period >= 1
BY LeaseAssumption DEF Period

\* No process, no key and no living lease: the invariant holds.
LEMMA InitIInv == LeaseInit => IInv
<1> SUFFICES ASSUME LeaseInit PROVE IInv
  OBVIOUS
<1>1. 0 \in 0 .. LeaseTtl /\ 0 \in 0 .. Period /\ 0 \in 0 .. MaxDeaths
  BY LeaseAssumption, PeriodIsPositive
<1>2. LeaseTypeOK
  BY <1>1 DEF LeaseInit, LeaseTypeOK
<1>3. QED
  BY <1>2 DEF LeaseInit, IInv, KeyExpiresWithLease, LeasesAreOwned, KeyIsElsewhere,
              UndisplacedHoldsKey

\* Every step keeps the types.
LEMMA StepTypeOK == LeaseTypeOK /\ [LeaseNext]_leaseVars => LeaseTypeOK'
<1> SUFFICES ASSUME LeaseTypeOK, [LeaseNext]_leaseVars PROVE LeaseTypeOK'
  OBVIOUS
<1> USE LeaseAssumption, PeriodIsPositive DEF LeaseTypeOK
<1>1. CASE LeaseTick
  <2>1. remaining' \in [Lease -> 0 .. LeaseTtl]
    BY <1>1 DEF LeaseTick
  <2>2. asleep' \in [Candidate -> 0 .. Period]
    BY <1>1 DEF LeaseTick
  <2>3. tardy' \in BOOLEAN
    BY <1>1 DEF LeaseTick
  <2>4. leaderKey' \in Lease \cup {NoLease} /\ displaced' \subseteq Candidate
    BY <1>1 DEF LeaseTick, ExpireKey
  <2>5. QED
    BY <1>1, <2>1, <2>2, <2>3, <2>4 DEF LeaseTick
<1>2. CASE \E p \in Candidate : \E l \in Lease : Grant(p, l)
  BY <1>2 DEF Grant
<1>3. CASE \E p \in Candidate : Win(p)
  BY <1>3 DEF Win, Alive
<1>4. CASE \E p \in Candidate : Lose(p)
  <2>1. PICK p \in Candidate : Lose(p)
    BY <1>4
  <2>2. remaining' \in [Lease -> 0 .. LeaseTtl]
    <3>1. 0 \in 0 .. LeaseTtl /\ remaining \in [Lease -> 0 .. LeaseTtl]
      OBVIOUS
    <3>2. remaining' = [remaining EXCEPT ![held[p]] = 0]
      BY <2>1 DEF Lose, EndLease
    <3>3. QED
      BY <3>1, <3>2
  <2>3. QED
    BY <2>1, <2>2 DEF Lose, Forget
<1>5. CASE \E p \in Candidate : Renew(p)
  BY <1>5 DEF Renew
<1>6. CASE \E p \in Candidate : StopRenewing(p)
  BY <1>6 DEF StopRenewing
<1>7. CASE \E p \in Candidate : DeleteKey(p)
  BY <1>7 DEF DeleteKey, Displace
<1>8. CASE \E p \in Candidate : RevokeLease(p)
  <2>1. PICK p \in Candidate : RevokeLease(p)
    BY <1>8
  <2>2. remaining' \in [Lease -> 0 .. LeaseTtl]
    <3>1. 0 \in 0 .. LeaseTtl /\ remaining \in [Lease -> 0 .. LeaseTtl]
      OBVIOUS
    <3>2. remaining' = [remaining EXCEPT ![held[p]] = 0]
      BY <2>1 DEF RevokeLease, EndLease
    <3>3. QED
      BY <3>1, <3>2
  <2>3. QED
    BY <2>1, <2>2 DEF RevokeLease, Forget
<1>9. CASE \E p \in Candidate : Perish(p)
  BY <1>9 DEF Perish, Forget
<1>10. CASE UNCHANGED leaseVars
  BY <1>10 DEF leaseVars
<1>11. QED
  BY <1>1, <1>2, <1>3, <1>4, <1>5, <1>6, <1>7, <1>8, <1>9, <1>10
  DEF LeaseNext, Elect, Resign

\* The invariant is inductive.
LEMMA StepIInv == IInv /\ [LeaseNext]_leaseVars => IInv'
<1> SUFFICES ASSUME IInv, [LeaseNext]_leaseVars PROVE IInv'
  OBVIOUS
<1>0. LeaseTypeOK /\ LeaseTypeOK'
  BY StepTypeOK DEF IInv
<1> USE LeaseAssumption DEF IInv, KeyExpiresWithLease, LeasesAreOwned,
    KeyIsElsewhere, UndisplacedHoldsKey, Alive
<1>1. CASE LeaseTick
  <2>1. /\ UNCHANGED <<where, held>>
        /\ \A l \in Lease : remaining[l] > 1 => remaining'[l] > 0
    BY <1>0, <1>1 DEF LeaseTick, LeaseTypeOK
  <2>2. leaderKey' # NoLease => leaderKey' = leaderKey /\ remaining[leaderKey] > 1
    BY <1>0, <1>1 DEF LeaseTick, ExpireKey, LeaseTypeOK
  <2>3. ASSUME NEW p \in Candidate, p \notin displaced', held[p] \in Lease,
               remaining[held[p]] > 0, leaderKey = held[p]
        PROVE  p \notin displaced /\ remaining[held[p]] > 1 /\ leaderKey' = leaderKey
    BY <1>0, <1>1, <2>3 DEF LeaseTick, ExpireKey, LeaseTypeOK
  <2>4. KeyExpiresWithLease'
    BY <1>0, <2>1, <2>2 DEF LeaseTypeOK
  <2>5. LeasesAreOwned' /\ KeyIsElsewhere'
    BY <1>0, <2>1, <2>2 DEF LeaseTypeOK
  <2>6. UndisplacedHoldsKey'
    <3> SUFFICES ASSUME NEW p \in Candidate, where'[p] \in {"leader", "stopped"},
                        p \notin displaced'
                 PROVE  leaderKey' = held'[p] /\ Alive(held[p])'
      OBVIOUS
    <3>1. p \notin displaced
      BY <1>1 DEF LeaseTick
    <3>2. QED
      BY <1>0, <2>1, <2>3, <3>1 DEF LeaseTypeOK
  <2>7. QED
    BY <1>0, <2>4, <2>5, <2>6
<1>2. CASE \E p \in Candidate : \E l \in Lease : Grant(p, l)
  BY <1>0, <1>2 DEF Grant, Unused, LeaseTypeOK
<1>3. CASE \E p \in Candidate : Win(p)
  BY <1>0, <1>3 DEF Win, LeaseTypeOK
<1>4. CASE \E p \in Candidate : Lose(p)
  BY <1>0, <1>4 DEF Lose, EndLease, Forget, LeaseTypeOK
<1>5. CASE \E p \in Candidate : Renew(p)
  BY <1>0, <1>5 DEF Renew, LeaseTypeOK
<1>6. CASE \E p \in Candidate : StopRenewing(p)
  BY <1>0, <1>6 DEF StopRenewing, LeaseTypeOK
<1>7. CASE \E p \in Candidate : DeleteKey(p)
  BY <1>0, <1>7 DEF DeleteKey, Displace, LeaseTypeOK
<1>8. CASE \E p \in Candidate : RevokeLease(p)
  BY <1>0, <1>8 DEF RevokeLease, EndLease, Forget, LeaseTypeOK
<1>9. CASE \E p \in Candidate : Perish(p)
  BY <1>0, <1>9 DEF Perish, Forget, LeaseTypeOK
<1>10. CASE UNCHANGED leaseVars
  BY <1>0, <1>10 DEF leaseVars, LeaseTypeOK
<1>11. QED
  BY <1>1, <1>2, <1>3, <1>4, <1>5, <1>6, <1>7, <1>8, <1>9, <1>10
  DEF LeaseNext, Elect, Resign

\* The invariant holds throughout every behaviour.
LEMMA Invariance == LeaseSpec => []IInv
BY InitIInv, StepIInv, PTL DEF LeaseSpec

-----------------------------------------------------------------------------

\* Type correctness, for every ttl: a lease never has more than its ttl left.
THEOREM TypeCorrect == LeaseSpec => []LeaseTypeOK
<1>1. IInv => LeaseTypeOK
  BY DEF IInv
<1>2. QED
  BY <1>1, Invariance, PTL

\* Of the processes that believe they lead, at most one was not deposed behind
\* its back, and it has the key and a living lease.
THEOREM LeaderSafety == LeaseSpec => []OneCurrentLeader
<1>1. IInv => OneCurrentLeader
  BY DEF IInv, OneCurrentLeader, Leaders, UndisplacedHoldsKey, LeasesAreOwned
<1>2. QED
  BY <1>1, Invariance, PTL

\* The leader key never outlives the lease it was put with, so the election
\* is open again when the lease ends.
THEOREM KeySafety == LeaseSpec => []KeyExpiresWithLease
<1>1. IInv => KeyExpiresWithLease
  BY DEF IInv
<1>2. QED
  BY <1>1, Invariance, PTL

\* The three together are the safety of leadership.
THEOREM LeadershipIsSafe == LeaseSpec => []LeaseSafety
BY TypeCorrect, KeySafety, LeaderSafety, PTL DEF LeaseSafety
=============================================================================
