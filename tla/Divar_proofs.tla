---------------------------- MODULE Divar_proofs ----------------------------
(***************************************************************************)
(* Proofs about what a Divar worker keeps in memory and in files, for      *)
(* every number of records, crashes, threads and profiles.                 *)
(***************************************************************************)
EXTENDS TokenBucket, SessionProfiles, AdPipeline, AdRuns, TrafficGuard, WalStore,
        Integers, FiniteSetTheorems, SequenceTheorems, WellFoundedInduction, TLAPS

-----------------------------------------------------------------------------
(* Least elements.                                                         *)

\* A set of numbers that is not empty has a least one.
LEMMA LeastOfNumbers ==
  ASSUME NEW T, T \subseteq Nat, T # {}
  PROVE  \E n \in T : \A m \in T : n <= m
<1> DEFINE R == {ss \in Nat \X Nat : ss[1] < ss[2]}
<1>1. IsWellFoundedOn(R, Nat)
  BY NatLessThanWellFounded DEF OpToRel
<1>2. \A m, n \in Nat : <<m, n>> \notin R => n <= m
  OBVIOUS
<1> HIDE DEF R
<1>3. \E n \in T : \A m \in T : <<m, n>> \notin R
  BY <1>1, WFMin
<1>4. QED
  BY <1>2, <1>3

-----------------------------------------------------------------------------
(* WalStore: the inductive invariant.                                      *)

\* The events whose complete line is in the file.
Complete == {wal[n].record.id : n \in {m \in 1 .. Len(wal) : wal[m].record \in Record /\ wal[m].ended}}

\* The acknowledged events that neither file holds for good.
Lost == acked \ (DOMAIN snapshot \cup Complete)

\* The last line waits for its newline.
CutShort == Len(wal) > 0 /\ ~wal[Len(wal)].ended

\* A loss costs a crash, and a line that is cut short is a loss to come.
LossesArePaid ==
    /\ IsFiniteSet(acked)
    /\ Cardinality(Lost) + (IF CutShort THEN 1 ELSE 0) <= crashes

\* What the compacting caller holds is what the files say.
ViewIsCurrent ==
    /\ view # NoState => view = Found /\ ~ReplayRaises
    /\ pc = "rotate" => view # NoState /\ snapshot = view

\* A file that cannot be read costs a crash.
RaisingIsPaid == ReplayRaises => crashes > 0

WalInv == WalTypeOK /\ LossesArePaid /\ ViewIsCurrent /\ RaisingIsPaid

-----------------------------------------------------------------------------
(* WalStore: what the helpers return.                                      *)

\* The first line of an event is one of its lines, and there is only one.
LEMMA FirstLineIsFirst ==
  ASSUME NEW i, LinesOf(i) # {}
  PROVE  /\ FirstLine(i) \in LinesOf(i)
         /\ \A m \in LinesOf(i) : FirstLine(i) <= m
<1>1. \E n \in LinesOf(i) : \A m \in LinesOf(i) : n <= m
  <2>1. LinesOf(i) \subseteq Nat
    BY DEF LinesOf
  <2>2. QED
    BY <2>1, LeastOfNumbers
<1>2. QED
  BY <1>1 DEF FirstLine

\* What the files hold is a state.
LEMMA FoundIsState ==
  ASSUME WalTypeOK
  PROVE  Found \in States
<1> DEFINE D == DOMAIN snapshot \cup {j \in Id : LinesOf(j) # {}}
<1>1. DOMAIN snapshot \subseteq Id /\ snapshot \in [DOMAIN snapshot -> Payload]
  BY DEF WalTypeOK, States
<1>2. D \in SUBSET Id
  BY <1>1
<1>3. \A j \in Id : LinesOf(j) # {} => wal[FirstLine(j)].record.payload \in Payload
  <2> TAKE j \in Id
  <2> HAVE LinesOf(j) # {}
  <2>1. wal[FirstLine(j)].record \in Record
    BY FirstLineIsFirst DEF LinesOf
  <2>2. QED
    BY <2>1 DEF Record
<1>4. Found \in [D -> Payload]
  BY <1>1, <1>3 DEF Found
<1>5. QED
  BY <1>2, <1>4 DEF States

\* A complete line of an event is found.
LEMMA WrittenIsFound ==
  ASSUME WalTypeOK
  PROVE  Complete \subseteq DOMAIN Found /\ DOMAIN snapshot \subseteq DOMAIN Found
<1>1. Complete \subseteq {j \in Id : LinesOf(j) # {}}
  BY DEF Complete, LinesOf, Record
<1>2. QED
  BY <1>1 DEF Found

\* A snapshot of what was found does not change what is found.
LEMMA SnapshotCoversWal ==
  ASSUME snapshot' = Found, wal' = wal \/ wal' = <<>>
  PROVE  Found' = Found
<1>1. {j \in Id : LinesOf(j)' # {}} \subseteq DOMAIN Found
  BY DEF LinesOf, Found
<1>2. QED
  BY <1>1 DEF Found

\* A file that got one more text.
LEMMA FileAfterIsFile ==
  ASSUME WalTypeOK, NEW rec \in Record \cup Damage, NEW ended \in BOOLEAN, NEW f,
         f = FileAfter(rec, ended)
  PROVE  /\ f \in Seq(Line)
         /\ Len(f) = IF CutShort THEN Len(wal) ELSE Len(wal) + 1
         /\ \A n \in 1 .. Len(f) - 1 : f[n] = wal[n] /\ wal[n].ended
         /\ f[Len(f)] = [record |-> IF ~CutShort THEN rec
                                    ELSE IF Undecodable \in {wal[Len(wal)].record, rec}
                                         THEN Undecodable ELSE Corrupt,
                         ended |-> ended]
<1> DEFINE n == Len(wal)
           glued == [record |-> IF Undecodable \in {wal[n].record, rec}
                                THEN Undecodable ELSE Corrupt,
                     ended |-> ended]
<1>1. /\ wal \in Seq(Line) /\ n \in Nat
      /\ \A m \in 1 .. n - 1 : wal[m].ended
  BY DEF WalTypeOK
<1>2. CASE CutShort
  <2>1. n \in 1 .. n /\ ~wal[n].ended
    BY <1>1, <1>2 DEF CutShort
  <2>2. wal[n].record \in Record \cup Damage
    <3>1. wal[n] \in Line
      BY <1>1, <2>1, ElementOfSeq
    <3>2. QED
      BY <3>1 DEF Line
  <2>3. glued \in Line
    BY <2>2 DEF Line, Damage
  <2>4. f = [wal EXCEPT ![n] = glued]
    BY <2>1 DEF FileAfter
  <2> HIDE DEF glued
  <2>5. f \in Seq(Line) /\ Len(f) = n /\ \A m \in 1 .. n : f[m] = IF m = n THEN glued ELSE wal[m]
    BY <1>1, <2>1, <2>3, <2>4, ExceptSeq
  <2> USE DEF glued
  <2>6. QED
    BY <1>1, <1>2, <2>1, <2>5
<1>3. CASE ~CutShort
  <2> DEFINE line == [record |-> rec, ended |-> ended]
  <2>1. n = 0 \/ wal[n].ended
    BY <1>1, <1>3 DEF CutShort
  <2>2. line \in Line
    BY DEF Line
  <2>3. f = Append(wal, line)
    BY <2>1 DEF FileAfter
  <2> HIDE DEF line
  <2>4. /\ f \in Seq(Line) /\ Len(f) = n + 1 /\ f[n + 1] = line
        /\ \A m \in 1 .. n : f[m] = wal[m]
    BY <1>1, <2>2, <2>3, AppendProperties
  <2>5. \A m \in 1 .. n : wal[m].ended
    BY <1>1, <2>1
  <2> USE DEF line
  <2>6. QED
    BY <1>1, <1>3, <2>4, <2>5
<1>4. QED
  BY <1>2, <1>3

\* A file that cannot be read stays so, whatever is written at its end, and
\* only a text cut inside a character makes it so.
LEMMA RaisingLasts ==
  ASSUME WalTypeOK, NEW rec \in Record \cup Damage, NEW ended \in BOOLEAN,
         wal' = FileAfter(rec, ended)
  PROVE  /\ ReplayRaises => ReplayRaises'
         /\ ReplayRaises' => ReplayRaises \/ rec = Undecodable
<1>1. PICK f : f = wal'
  OBVIOUS
<1>2. PICK n \in Nat : n = Len(wal)
  BY DEF WalTypeOK
<1>3. /\ Len(f) = IF CutShort THEN n ELSE n + 1
      /\ \A m \in 1 .. Len(f) - 1 : f[m] = wal[m]
      /\ f[Len(f)] = [record |-> IF ~CutShort THEN rec
                                 ELSE IF Undecodable \in {wal[n].record, rec}
                                      THEN Undecodable ELSE Corrupt,
                      ended |-> ended]
  BY <1>1, <1>2, FileAfterIsFile
<1>4. f[Len(f)].record = IF ~CutShort THEN rec
                         ELSE IF Undecodable \in {wal[n].record, rec} THEN Undecodable ELSE Corrupt
  BY <1>3
<1>5. Len(f) \in 1 .. Len(f) /\ Len(f) <= n + 1 /\ (CutShort => Len(f) = n)
  BY <1>2, <1>3 DEF CutShort
<1>6. ReplayRaises => ReplayRaises'
  <2> SUFFICES ASSUME NEW m \in 1 .. n, wal[m].record = Undecodable PROVE ReplayRaises'
    BY <1>2 DEF ReplayRaises
  <2>1. m \in 1 .. Len(f)
    BY <1>2, <1>3, <1>5
  <2>2. f[m].record = Undecodable
    <3>1. CASE m \in 1 .. Len(f) - 1
      BY <1>3, <3>1
    <3>2. CASE m \notin 1 .. Len(f) - 1
      <4>1. m = Len(f) /\ m = n /\ CutShort
        BY <1>2, <1>3, <1>5, <2>1, <3>2
      <4>2. QED
        BY <1>4, <4>1
    <3>3. QED
      BY <3>1, <3>2
  <2>3. QED
    BY <1>1, <2>1, <2>2 DEF ReplayRaises
<1>7. ReplayRaises' => ReplayRaises \/ rec = Undecodable
  <2> SUFFICES ASSUME NEW m \in 1 .. Len(f), f[m].record = Undecodable, rec # Undecodable
               PROVE  ReplayRaises
    BY <1>1 DEF ReplayRaises
  <2>1. CASE m \in 1 .. Len(f) - 1
    <3>1. m \in 1 .. n /\ wal[m].record = Undecodable
      BY <1>2, <1>3, <1>5, <2>1
    <3>2. QED
      BY <1>2, <3>1 DEF ReplayRaises
  <2>2. CASE m \notin 1 .. Len(f) - 1
    <3>1. m = Len(f)
      BY <1>2, <1>5, <2>2
    <3>2. CutShort /\ wal[n].record = Undecodable /\ n \in 1 .. n
      BY <1>2, <1>4, <1>5, <3>1, WalAssumption
    <3>3. QED
      BY <1>2, <3>2 DEF ReplayRaises
  <2>3. QED
    BY <2>1, <2>2
<1>8. QED
  BY <1>6, <1>7

\* A text written at the end of the file takes no complete line away, and a
\* record that starts a line of its own and ends it is in the file.
LEMMA WrittenGrows ==
  ASSUME WalTypeOK, NEW rec \in Record \cup Damage, NEW ended \in BOOLEAN,
         wal' = FileAfter(rec, ended)
  PROVE  /\ wal' \in Seq(Line)
         /\ Len(wal') = IF CutShort THEN Len(wal) ELSE Len(wal) + 1
         /\ \A n \in 1 .. Len(wal') - 1 : wal'[n] = wal[n] /\ wal[n].ended
         /\ Complete \subseteq Complete'
         /\ ended /\ rec \in Record /\ ~CutShort => rec.id \in Complete'
         /\ CutShort' = ~ended
<1>1. /\ wal' \in Seq(Line)
      /\ Len(wal') = IF CutShort THEN Len(wal) ELSE Len(wal) + 1
      /\ \A n \in 1 .. Len(wal') - 1 : wal'[n] = wal[n] /\ wal[n].ended
      /\ wal'[Len(wal')].ended = ended
      /\ ~CutShort => wal'[Len(wal')].record = rec
  <2>1. PICK f : f = wal'
    OBVIOUS
  <2>2. /\ f \in Seq(Line) /\ Len(f) = IF CutShort THEN Len(wal) ELSE Len(wal) + 1
        /\ \A n \in 1 .. Len(f) - 1 : f[n] = wal[n] /\ wal[n].ended
        /\ f[Len(f)] = [record |-> IF ~CutShort THEN rec
                                   ELSE IF Undecodable \in {wal[Len(wal)].record, rec}
                                        THEN Undecodable ELSE Corrupt,
                        ended |-> ended]
    BY <2>1, FileAfterIsFile
  <2>3. f[Len(f)].ended = ended /\ (~CutShort => f[Len(f)].record = rec)
    BY <2>2
  <2>4. QED
    BY <2>1, <2>2, <2>3
<1>2. Len(wal) \in Nat /\ (CutShort => Len(wal) > 0 /\ ~wal[Len(wal)].ended)
  BY DEF WalTypeOK, CutShort
<1>3. Len(wal') \in 1 .. Len(wal')
  BY <1>1, <1>2
<1>4. \A m \in 1 .. Len(wal) : wal[m].ended => m \in 1 .. Len(wal') /\ wal'[m] = wal[m]
  <2> TAKE m \in 1 .. Len(wal)
  <2> HAVE wal[m].ended
  <2>1. m \in 1 .. Len(wal') - 1
    BY <1>1, <1>2
  <2>2. QED
    BY <1>1, <1>3, <2>1
<1>5. Complete \subseteq Complete'
  BY <1>4 DEF Complete
<1>6. ended /\ rec \in Record /\ ~CutShort => rec.id \in Complete'
  BY <1>1, <1>3 DEF Complete
<1>7. CutShort' = ~ended
  BY <1>1, <1>3 DEF CutShort
<1>8. QED
  BY <1>1, <1>5, <1>6, <1>7

-----------------------------------------------------------------------------
(* WalStore: the invariant is inductive.                                   *)

\* Initially the invariant of the write-ahead log holds.
LEMMA InitWalInv == WalInit => WalInv
<1> SUFFICES ASSUME WalInit PROVE WalInv
  OBVIOUS
<1>1. wal \in Seq(Line) /\ Len(wal) = 0
  BY DEF WalInit
<1>2. snapshot \in States
  BY DEF WalInit, States
<1>3. WalTypeOK
  BY <1>1, <1>2, WalAssumption DEF WalInit, WalTypeOK
<1>4. IsFiniteSet(acked) /\ Cardinality(Lost) = 0
  <2>1. acked = {} /\ Lost = {}
    BY DEF WalInit, Lost
  <2>2. QED
    BY <2>1, FS_EmptySet
<1>5. RaisingIsPaid
  BY <1>1 DEF RaisingIsPaid, ReplayRaises
<1>6. QED
  BY <1>1, <1>3, <1>4, <1>5 DEF WalInv, LossesArePaid, ViewIsCurrent, CutShort, WalInit

\* A text that append leaves in the file costs what was lost with it.
LEMMA WriteKeepsWalInv ==
  ASSUME WalInv, NEW r \in Record, AppendRecord(r) \/ CrashInAppend(r)
  PROVE  WalInv'
<1>1. PICK rec \in Record \cup Damage, ended \in BOOLEAN :
        /\ wal' = FileAfter(rec, ended)
        /\ \/ /\ rec = r /\ ended /\ acked' = acked \cup {r.id}
              /\ crashes' = crashes /\ pc' = pc /\ view' = view
           \/ /\ acked' = acked /\ crashes' = crashes + 1 /\ crashes < MaxCrashes
              /\ pc' = "open" /\ view' = NoState
  <2>1. CASE AppendRecord(r)
    BY <2>1 DEF AppendRecord
  <2>2. CASE CrashInAppend(r)
    BY <2>2 DEF CrashInAppend
  <2>3. QED
    BY <2>1, <2>2
<1>2. view = NoState /\ snapshot' = snapshot /\ pc = "open"
  BY DEF AppendRecord, CrashInAppend, MayAppend, WalInv, ViewIsCurrent, WalTypeOK
<1>3. /\ Complete \subseteq Complete'
      /\ ended /\ rec \in Record /\ ~CutShort => rec.id \in Complete'
      /\ CutShort' = ~ended
  BY <1>1, WrittenGrows DEF WalInv
<1>4. WalTypeOK'
  <2>1. /\ wal' \in Seq(Line)
        /\ \A n \in 1 .. Len(wal') - 1 : wal'[n] = wal[n] /\ wal[n].ended
    BY <1>1, WrittenGrows DEF WalInv
  <2>2. acked' \subseteq Id
    BY <1>1 DEF WalInv, WalTypeOK, Record
  <2>3. QED
    BY <1>1, <1>2, <2>1, <2>2, WalAssumption DEF WalInv, WalTypeOK
<1>5. LossesArePaid'
  <2>1. IsFiniteSet(acked) /\ IsFiniteSet(Lost) /\ Cardinality(Lost) \in Nat
    BY FS_Subset, FS_CardinalityType DEF WalInv, LossesArePaid, Lost
  <2>2. crashes \in Nat /\ Cardinality(Lost) + (IF CutShort THEN 1 ELSE 0) <= crashes
    BY DEF WalInv, LossesArePaid, WalTypeOK
  <2>3. IsFiniteSet(acked')
    BY <1>1, <2>1, FS_AddElement
  <2>4. CASE acked' = acked /\ crashes' = crashes + 1
    <3>1. Lost' \subseteq Lost
      BY <1>2, <1>3, <2>4 DEF Lost
    <3>2. Cardinality(Lost') \in Nat /\ Cardinality(Lost') <= Cardinality(Lost)
      BY <2>1, <3>1, FS_Subset, FS_CardinalityType
    <3>3. QED
      BY <2>1, <2>2, <2>3, <2>4, <3>2 DEF LossesArePaid
  <2>5. CASE rec = r /\ ended /\ acked' = acked \cup {r.id} /\ crashes' = crashes
    <3>1. CASE CutShort
      <4>1. Lost' \subseteq Lost \cup {r.id}
        BY <1>2, <1>3, <2>5 DEF Lost
      <4>2. /\ IsFiniteSet(Lost \cup {r.id})
            /\ Cardinality(Lost \cup {r.id}) <= Cardinality(Lost) + 1
        <5> PICK i : i = r.id
          OBVIOUS
        <5>1. /\ IsFiniteSet(Lost \cup {i})
              /\ \/ Cardinality(Lost \cup {i}) = Cardinality(Lost)
                 \/ Cardinality(Lost \cup {i}) = Cardinality(Lost) + 1
          BY <2>1, FS_AddElement
        <5>2. QED
          BY <2>1, <5>1
      <4>3. /\ Cardinality(Lost') \in Nat /\ Cardinality(Lost \cup {r.id}) \in Nat
            /\ Cardinality(Lost') <= Cardinality(Lost \cup {r.id})
        BY <4>1, <4>2, FS_Subset, FS_CardinalityType
      <4>4. ~CutShort'
        BY <1>3, <2>5
      <4>5. QED
        BY <2>1, <2>2, <2>3, <2>5, <3>1, <4>2, <4>3, <4>4 DEF LossesArePaid
    <3>2. CASE ~CutShort
      <4>1. Lost' \subseteq Lost
        BY <1>2, <1>3, <2>5, <3>2 DEF Lost
      <4>2. Cardinality(Lost') \in Nat /\ Cardinality(Lost') <= Cardinality(Lost)
        BY <2>1, <4>1, FS_Subset, FS_CardinalityType
      <4>3. ~CutShort'
        BY <1>3, <2>5
      <4>4. QED
        BY <2>1, <2>2, <2>3, <2>5, <3>2, <4>2, <4>3 DEF LossesArePaid
    <3>3. QED
      BY <3>1, <3>2
  <2>6. QED
    BY <1>1, <2>4, <2>5
<1>6. ViewIsCurrent'
  BY <1>1, <1>2 DEF ViewIsCurrent
<1>7. RaisingIsPaid'
  <2>1. ReplayRaises' => ReplayRaises \/ rec = Undecodable
    BY <1>1, RaisingLasts DEF WalInv
  <2>2. crashes \in Nat /\ crashes' \in Nat /\ crashes' >= crashes
    BY <1>1 DEF WalInv, WalTypeOK
  <2>3. rec = Undecodable => crashes' = crashes + 1
    BY <1>1, WalAssumption
  <2>4. QED
    BY <2>1, <2>2, <2>3 DEF WalInv, RaisingIsPaid
<1>8. QED
  BY <1>4, <1>5, <1>6, <1>7 DEF WalInv

\* The other steps lose nothing: what leaves the log is in the snapshot.
LEMMA CompactKeepsWalInv ==
  ASSUME WalInv, RecoverState \/ CreateSnapshot \/ RotateWal \/ CrashInCompact
  PROVE  WalInv'
<1>1. /\ WalTypeOK /\ Found \in States
      /\ Complete \subseteq DOMAIN Found /\ DOMAIN snapshot \subseteq DOMAIN Found
  BY FoundIsState, WrittenIsFound DEF WalInv
<1>2. Found # NoState
  BY <1>1, WalAssumption DEF States
<1>3. WalTypeOK'
  <2>1. wal' = wal \/ wal' = <<>>
    BY DEF RecoverState, CreateSnapshot, RotateWal, CrashInCompact
  <2>2. wal' \in Seq(Line) /\ \A n \in 1 .. Len(wal') - 1 : wal'[n].ended
    <3>1. CASE wal' = wal
      BY <1>1, <3>1 DEF WalTypeOK
    <3>2. CASE wal' = <<>>
      BY <3>2, EmptySeq
    <3>3. QED
      BY <2>1, <3>1, <3>2
  <2>3. view \in States \/ view = NoState
    BY <1>1 DEF WalTypeOK
  <2>4. RecoverState => view' = Found
    BY DEF RecoverState, Recovered
  <2>5. QED
    BY <1>1, <2>2, <2>3, <2>4, WalAssumption
       DEF RecoverState, CreateSnapshot, RotateWal, CrashInCompact, WalTypeOK
<1>4. acked' = acked /\ crashes' \in {crashes, crashes + 1}
  BY DEF RecoverState, CreateSnapshot, RotateWal, CrashInCompact
<1>5. Lost' \subseteq Lost /\ (CutShort' => CutShort)
  <2>1. CASE RecoverState \/ CrashInCompact
    BY <2>1 DEF RecoverState, CrashInCompact, Lost, Complete, CutShort
  <2>2. CASE CreateSnapshot
    <3>1. snapshot' = Found /\ wal' = wal
      BY <2>2 DEF CreateSnapshot, WalInv, ViewIsCurrent
    <3>2. QED
      BY <1>1, <1>4, <3>1 DEF Lost, Complete, CutShort
  <2>3. CASE RotateWal
    <3>1. snapshot = Found /\ wal' = <<>> /\ snapshot' = snapshot
      BY <2>3 DEF RotateWal, WalInv, ViewIsCurrent
    <3>2. QED
      BY <1>1, <1>4, <3>1 DEF Lost, CutShort
  <2>4. QED
    BY <2>1, <2>2, <2>3
<1>6. LossesArePaid'
  <2>1. IsFiniteSet(Lost) /\ Cardinality(Lost) \in Nat
    BY FS_Subset, FS_CardinalityType DEF WalInv, LossesArePaid, Lost
  <2>2. crashes \in Nat
    BY <1>1 DEF WalTypeOK
  <2>3. Cardinality(Lost') \in Nat /\ Cardinality(Lost') <= Cardinality(Lost)
    BY <1>5, <2>1, FS_Subset, FS_CardinalityType
  <2>4. QED
    BY <1>4, <1>5, <2>1, <2>2, <2>3 DEF WalInv, LossesArePaid
<1>7. ViewIsCurrent'
  <2>1. CASE RecoverState
    <3>1. Found' = Found
      BY <2>1 DEF RecoverState, Found, LinesOf, FirstLine
    <3>2. view' = Found /\ ~ReplayRaises' /\ pc' = pc /\ view = NoState
      BY <2>1 DEF RecoverState, Recovered, ReplayRaises
    <3>3. QED
      BY <3>1, <3>2 DEF ViewIsCurrent, WalInv
  <2>2. CASE CreateSnapshot
    <3>1. /\ snapshot' = Found /\ wal' = wal /\ view' = Found
          /\ ~ReplayRaises
      BY <2>2 DEF CreateSnapshot, WalInv, ViewIsCurrent
    <3>2. Found' = Found /\ ~ReplayRaises'
      BY <3>1, SnapshotCoversWal DEF ReplayRaises
    <3>3. QED
      BY <2>2, <3>1, <3>2 DEF CreateSnapshot, ViewIsCurrent
  <2>3. CASE RotateWal \/ CrashInCompact
    BY <2>3 DEF RotateWal, CrashInCompact, ViewIsCurrent
  <2>4. QED
    BY <2>1, <2>2, <2>3
<1>8. RaisingIsPaid'
  <2>1. wal' = wal \/ wal' = <<>>
    BY DEF RecoverState, CreateSnapshot, RotateWal, CrashInCompact
  <2>2. ReplayRaises' => ReplayRaises
    BY <2>1 DEF ReplayRaises
  <2>3. crashes \in Nat
    BY <1>1 DEF WalTypeOK
  <2>4. QED
    BY <1>4, <2>2, <2>3 DEF WalInv, RaisingIsPaid
<1>9. QED
  BY <1>3, <1>6, <1>7, <1>8 DEF WalInv

\* Every step, a stuttering one too, keeps the invariant of the write-ahead log.
LEMMA StepWalInv == WalInv /\ [WalNext]_walVars => WalInv'
<1> SUFFICES ASSUME WalInv, [WalNext]_walVars PROVE WalInv'
  OBVIOUS
<1>1. CASE UNCHANGED walVars
  <2> USE <1>1 DEF walVars
  <2>1. WalTypeOK'
    BY DEF WalInv, WalTypeOK
  <2>2. LossesArePaid'
    BY DEF WalInv, LossesArePaid, Lost, Complete, CutShort
  <2>3. ViewIsCurrent'
    <3>1. Found' = Found /\ ReplayRaises' = ReplayRaises
      BY DEF Found, ReplayRaises, LinesOf, FirstLine
    <3>2. QED
      BY <3>1 DEF WalInv, ViewIsCurrent
  <2>4. RaisingIsPaid'
    BY DEF WalInv, RaisingIsPaid, ReplayRaises
  <2>5. QED
    BY <2>1, <2>2, <2>3, <2>4 DEF WalInv
<1>2. QED
  BY <1>1, WriteKeepsWalInv, CompactKeepsWalInv DEF WalNext

-----------------------------------------------------------------------------
(* WalStore: the theorems.                                                 *)

\* wal_recovery.py: every event append acknowledged is found by the next
\* recover_state, but for at most one event per crash, unless a crash has cut a
\* line inside a character, when recover_state raises and finds nothing.
THEOREM WalLosesLittle == WalSpec => []LossCostsCrash
<1>1. WalInv => LossCostsCrash
  <2> SUFFICES ASSUME WalInv PROVE LossCostsCrash
    OBVIOUS
  <2>1. CASE ReplayRaises
    BY <2>1 DEF LossCostsCrash, WalInv, RaisingIsPaid
  <2>2. CASE ~ReplayRaises
    <3>1. acked \ DOMAIN Recovered \subseteq Lost
      BY <2>2, WrittenIsFound DEF WalInv, Lost, Recovered
    <3>2. IsFiniteSet(Lost) /\ Cardinality(Lost) \in Nat
      BY FS_Subset, FS_CardinalityType DEF WalInv, LossesArePaid, Lost
    <3>3. /\ Cardinality(acked \ DOMAIN Recovered) \in Nat
          /\ Cardinality(acked \ DOMAIN Recovered) <= Cardinality(Lost)
      BY <3>1, <3>2, FS_Subset, FS_CardinalityType
    <3>4. crashes \in Nat /\ Cardinality(Lost) <= crashes
      BY <3>2 DEF WalInv, WalTypeOK, LossesArePaid
    <3>5. QED
      BY <2>2, <3>2, <3>3, <3>4 DEF LossCostsCrash, WalInv
  <2>3. QED
    BY <2>1, <2>2
<1>2. QED
  BY InitWalInv, StepWalInv, <1>1, PTL DEF WalSpec

\* What is found of an event whose complete line was there
\* survives every text that is written at the end of the file.
LEMMA WriteKeepsSettled ==
  ASSUME WalInv, NEW rec \in Record \cup Damage, NEW ended \in BOOLEAN,
         wal' = FileAfter(rec, ended), snapshot' = snapshot,
         NEW i \in Id, Settled(i)
  PROVE  i \in DOMAIN Found' /\ Found'[i] = Found[i]
<1>1. CASE i \in DOMAIN snapshot
  BY <1>1 DEF Found
<1>2. CASE i \notin DOMAIN snapshot
  <2> DEFINE first == FirstLine(i)
  <2>1. /\ LinesOf(i) # {} /\ wal[first].ended /\ first \in LinesOf(i)
        /\ \A m \in LinesOf(i) : first <= m
    BY <1>2, FirstLineIsFirst DEF Settled
  <2> PICK n : n = first
    OBVIOUS
  <2>2. PICK f : f = wal'
    OBVIOUS
  <2>3. /\ f \in Seq(Line) /\ Len(f) = IF CutShort THEN Len(wal) ELSE Len(wal) + 1
        /\ \A m \in 1 .. Len(f) - 1 : f[m] = wal[m] /\ wal[m].ended
    BY <2>2, WrittenGrows DEF WalInv
  <2>4. /\ Len(wal) \in Nat /\ (CutShort => ~wal[Len(wal)].ended)
        /\ n \in 1 .. Len(wal) /\ wal[n].ended
        /\ wal[n].record \in Record /\ wal[n].record.id = i
    BY <2>1 DEF WalInv, WalTypeOK, CutShort, LinesOf
  <2>5. n \in 1 .. Len(f) - 1 /\ 1 .. Len(f) - 1 \subseteq 1 .. Len(wal)
    BY <2>3, <2>4
  <2>6. n \in LinesOf(i)' /\ f[n] = wal[n]
    BY <2>2, <2>3, <2>4, <2>5 DEF LinesOf
  <2>7. \A m \in LinesOf(i)' : m \in Nat /\ n <= m
    <3> TAKE m \in LinesOf(i)'
    <3>1. m \in 1 .. Len(f) /\ f[m].record \in Record /\ f[m].record.id = i
      BY <2>2 DEF LinesOf
    <3>2. CASE m = Len(f)
      BY <2>5, <3>1, <3>2
    <3>3. CASE m # Len(f)
      <4>1. m \in 1 .. Len(f) - 1
        BY <2>3, <3>1, <3>3
      <4>2. m \in LinesOf(i)
        BY <2>3, <2>5, <3>1, <4>1 DEF LinesOf
      <4>3. QED
        BY <2>1, <3>1, <4>2
    <3>4. QED
      BY <3>2, <3>3
  <2>8. FirstLine(i)' = n
    <3>1. \A k \in LinesOf(i)' : (\A m \in LinesOf(i)' : k <= m) => k = n
      BY <2>4, <2>6, <2>7
    <3>2. QED
      BY <2>6, <2>7, <3>1 DEF FirstLine
  <2>9. i \in DOMAIN Found' /\ Found'[i] = wal'[FirstLine(i)'].record.payload
    BY <1>2, <2>6 DEF Found
  <2>10. Found[i] = wal[n].record.payload
    BY <1>2, <2>1 DEF Found
  <2>11. QED
    BY <2>2, <2>6, <2>8, <2>9, <2>10
<1>3. QED
  BY <1>1, <1>2

\* wal_recovery.py: neither half of compact, nor a crash between them, changes
\* what recover_state returns; an event whose complete line it has seen keeps
\* its payload as long as the file can be read, which only a crash that cuts a
\* line inside a character ends, for good.
THEOREM RecoveryIsStable == WalSpec => RecoveryIsFaithful
<1> DEFINE Faithful ==
             /\ snapshot' # snapshot \/ wal' = <<>> => Recovered' = Recovered
             /\ ReplayRaises => ReplayRaises'
             /\ ReplayRaises' => ReplayRaises \/ crashes' > crashes
             /\ ~ReplayRaises' => \A i \in Id : Settled(i) =>
                    i \in DOMAIN Recovered' /\ Recovered'[i] = Recovered[i]
<1>1. WalInv /\ WalNext => Faithful
  <2> SUFFICES ASSUME WalInv, WalNext PROVE Faithful
    OBVIOUS
  <2>1. \A i \in Id : Settled(i) => i \in DOMAIN Found
    BY DEF Settled, Found
  <2>2. ASSUME Found' = Found, ReplayRaises' <=> ReplayRaises PROVE Faithful
    <3>1. Recovered' = Recovered
      BY <2>2 DEF Recovered
    <3>2. ~ReplayRaises => Recovered = Found
      BY DEF Recovered
    <3>3. QED
      BY <2>1, <2>2, <3>1, <3>2
  <2>3. ASSUME NEW r \in Record, AppendRecord(r) \/ CrashInAppend(r)
        PROVE  Faithful
    <3>1. PICK rec \in Record \cup Damage, ended \in BOOLEAN :
            wal' = FileAfter(rec, ended) /\ (rec \in Record \/ crashes' = crashes + 1)
      BY <2>3 DEF AppendRecord, CrashInAppend
    <3>2. snapshot' = snapshot /\ crashes \in Nat
      <4>1. snapshot' = snapshot
        BY <2>3 DEF AppendRecord, CrashInAppend
      <4>2. QED
        BY <4>1 DEF WalInv, WalTypeOK
    <3>3. wal' # <<>>
      <4>1. PICK f : f = wal'
        OBVIOUS
      <4>2. f \in Seq(Line) /\ Len(f) = IF CutShort THEN Len(wal) ELSE Len(wal) + 1
        BY <3>1, <4>1, FileAfterIsFile DEF WalInv
      <4>3. Len(f) > 0
        BY <4>2 DEF CutShort, WalInv, WalTypeOK
      <4>4. QED
        BY <4>1, <4>3
    <3>4. /\ ReplayRaises => ReplayRaises'
          /\ ReplayRaises' => ReplayRaises \/ rec = Undecodable
      BY <3>1, RaisingLasts DEF WalInv
    <3>5. ReplayRaises' => ReplayRaises \/ crashes' > crashes
      BY <3>1, <3>2, <3>4, WalAssumption
    <3>6. ASSUME ~ReplayRaises', NEW i \in Id, Settled(i)
          PROVE  i \in DOMAIN Recovered' /\ Recovered'[i] = Recovered[i]
      <4>1. Recovered = Found /\ Recovered' = Found'
        BY <3>4, <3>6 DEF Recovered
      <4>2. i \in DOMAIN Found' /\ Found'[i] = Found[i]
        BY <3>1, <3>2, <3>6, WriteKeepsSettled
      <4>3. QED
        BY <4>1, <4>2
    <3>7. QED
      BY <3>2, <3>3, <3>4, <3>5, <3>6
  <2>4. CASE RecoverState \/ CrashInCompact
    <3>1. UNCHANGED <<wal, snapshot>>
      BY <2>4 DEF RecoverState, CrashInCompact
    <3>2. Found' = Found /\ (ReplayRaises' <=> ReplayRaises)
      BY <3>1 DEF Found, ReplayRaises, LinesOf, FirstLine
    <3>3. QED
      BY <2>2, <3>2
  <2>5. CASE CreateSnapshot \/ RotateWal
    <3>1. /\ snapshot' = Found /\ (wal' = wal \/ wal' = <<>>)
          /\ ~ReplayRaises
      BY <2>5 DEF CreateSnapshot, RotateWal, WalInv, ViewIsCurrent
    <3>2. Found' = Found
      BY <3>1, SnapshotCoversWal
    <3>3. ~ReplayRaises'
      BY <3>1 DEF ReplayRaises
    <3>4. QED
      BY <2>2, <3>1, <3>2, <3>3
  <2>6. QED
    BY <2>3, <2>4, <2>5 DEF WalNext
<1>2. QED
  BY InitWalInv, StepWalInv, <1>1, PTL DEF WalSpec, RecoveryIsFaithful

-----------------------------------------------------------------------------
(* TokenBucket: the inductive invariant.                                   *)

\* What Rate refills in a time.
Refill(t) == Rate * t

\* The capacity, once for the first bucket and once for each restart.
Allowance(n) == Capacity * (1 + n)

\* With a full bucket at time t, bucket b would not have handed out too much.
FullAt(b, t) ==
    issued[b] + Capacity <= Allowance(restarts[b]) + Refill(t + rewound[b])

\* A bucket that exists has been filled up to the time of its count only.
CountIsFair ==
    \A b \in Bucket : bucket[b] # NoBucket =>
        issued[b] + bucket[b].tokens
            <= Allowance(restarts[b]) + Refill(bucket[b].at + rewound[b])

\* Redis drops its bucket only when it would be full for whoever is under way.
RedisForgetsLate ==
    /\ \A t \in Nat :
            bucket[Redis] = NoBucket /\ t + MaxDelay >= time => FullAt(Redis, t)
    /\ bucket[Redis] # NoBucket =>
            /\ bucket[Redis].at <= time + MaxSkew
            /\ bucket[Redis].at + Ttl <= expires + MaxSkew

\* A process without a bucket may start a full one for each of its callers.
ProcessStartsFull ==
    \A p \in Process :
        /\ bucket[p] # NoBucket => bucket[p].at <= time
        /\ bucket[p] = NoBucket =>
            /\ FullAt(p, time)
            /\ \A c \in Caller :
                   Home[c] = p /\ call[c].at = "lock" => FullAt(p, call[c].now)

\* The times that requests carry.
RequestsAreTimely ==
    \A c \in Caller :
        /\ call[c].at = "redis" => /\ call[c].now <= time + MaxSkew
                                  /\ call[c].now + MaxDelay >= time
        /\ call[c].at = "lock" => call[c].now <= time

BucketInv ==
    /\ BucketTypeOK
    /\ CountIsFair
    /\ RedisForgetsLate
    /\ ProcessStartsFull
    /\ RequestsAreTimely
-----------------------------------------------------------------------------
(* TokenBucket: arithmetic.                                                *)

\* Refilling is additive and monotone.
LEMMA RefillAdds ==
  ASSUME NEW t \in Int, NEW u \in Int
  PROVE  /\ Refill(t) \in Int /\ Refill(u) \in Int
         /\ Refill(t + u) = Refill(t) + Refill(u)
         /\ t <= u => Refill(t) <= Refill(u)
<1>1. Rate \in Nat
  BY BucketAssumption
<1>2. Refill(t) \in Int /\ Refill(u) \in Int /\ Refill(t + u) = Refill(t) + Refill(u)
  BY <1>1 DEF Refill
<1>3. ASSUME t <= u PROVE Refill(t) <= Refill(u)
  <2>1. PICK d \in Nat : u = t + d
    BY <1>3
  <2>2. Rate * d \in Nat
    BY <1>1
  <2>3. Rate * u = Rate * t + Rate * d
    BY <1>1, <2>1
  <2>4. QED
    BY <1>2, <2>2, <2>3 DEF Refill
<1>4. QED
  BY <1>2, <1>3

\* In a time that passes, no tokens are taken away.
LEMMA RefillIsNatural ==
  ASSUME NEW t \in Nat
  PROVE  Refill(t) \in Nat
<1>1. Rate \in Nat
  BY BucketAssumption
<1>2. QED
  BY <1>1 DEF Refill

\* Another restart is another capacity.
LEMMA AllowanceAdds ==
  ASSUME NEW n \in Nat
  PROVE  Allowance(n) \in Nat /\ Allowance(n + 1) = Allowance(n) + Capacity
                             /\ Capacity <= Allowance(n)
<1>1. Capacity \in Nat
  BY BucketAssumption
<1>2. Capacity * (1 + n) = Capacity + Capacity * n /\ Capacity * n \in Nat
  BY <1>1
<1>3. Capacity * (1 + (n + 1)) = Capacity * (1 + n) + Capacity
  BY <1>1
<1>4. QED
  BY <1>1, <1>2, <1>3 DEF Allowance

\* The numbers of a bucket.
LEMMA BucketNumbers ==
  ASSUME BucketTypeOK, NEW b \in Bucket
  PROVE  /\ issued[b] \in Nat /\ rewound[b] \in Nat /\ restarts[b] \in Nat
         /\ Capacity \in Nat /\ time \in Nat /\ MaxSkew \in Nat /\ MaxDelay \in Nat
         /\ bucket[b] # NoBucket =>
                bucket[b] \in [tokens : 0 .. Capacity, at : Nat]
         /\ bucket[b] # NoBucket =>
                bucket[b].tokens \in 0 .. Capacity /\ bucket[b].at \in Nat
<1>1. bucket[b] # NoBucket => bucket[b] \in [tokens : 0 .. Capacity, at : Nat]
  BY DEF BucketTypeOK
<1>2. QED
  BY <1>1, BucketAssumption DEF BucketTypeOK

\* A bucket that was full at a time is full at a later one.
LEMMA FullLater ==
  ASSUME BucketTypeOK, NEW b \in Bucket, NEW t \in Nat, NEW u \in Nat, t <= u, FullAt(b, t)
  PROVE  FullAt(b, u)
<1>1. t + rewound[b] <= u + rewound[b] /\ t + rewound[b] \in Int /\ u + rewound[b] \in Int
  BY BucketNumbers
<1>2. Refill(t + rewound[b]) <= Refill(u + rewound[b])
  BY <1>1, RefillAdds
<1>3. /\ Refill(t + rewound[b]) \in Int /\ Refill(u + rewound[b]) \in Int
      /\ Allowance(restarts[b]) \in Nat
  BY <1>1, RefillAdds, AllowanceAdds, BucketNumbers
<1>4. QED
  BY <1>2, <1>3, BucketNumbers DEF FullAt

\* The level of a bucket is between nothing and its capacity.
LEMMA LevelIsBounded ==
  ASSUME BucketTypeOK, NEW b \in Bucket, NEW t \in Nat
  PROVE  Level(b, t) \in 0 .. Capacity
<1>1. CASE bucket[b] = NoBucket
  BY <1>1, BucketNumbers DEF Level
<1>2. CASE bucket[b] # NoBucket /\ t <= bucket[b].at
  BY <1>2, BucketNumbers DEF Level
<1>3. CASE bucket[b] # NoBucket /\ ~(t <= bucket[b].at)
  <2>1. /\ bucket[b].tokens \in 0 .. Capacity /\ bucket[b].at \in Nat /\ Capacity \in Nat
        /\ t - bucket[b].at \in Nat
    BY <1>3, BucketNumbers
  <2>2. Refill(t - bucket[b].at) \in Nat
    BY <2>1, BucketAssumption DEF Refill
  <2>3. Level(b, t) = Smaller(Capacity, bucket[b].tokens + Refill(t - bucket[b].at))
    BY <1>3 DEF Level, Refill
  <2>4. QED
    BY <2>1, <2>2, <2>3 DEF Smaller
<1>4. QED
  BY <1>1, <1>2, <1>3

\* Serving a request neither makes tokens nor loses any but those it hands
\* out, whatever time the request names.
LEMMA ServeIsFair ==
  ASSUME BucketTypeOK, NEW c \in Caller, NEW b \in Bucket, Serve(c, b),
         call[c].now \in Nat, call[c].tokens \in Requests,
         bucket[b] = NoBucket => FullAt(b, call[c].now),
         bucket[b] # NoBucket =>
             issued[b] + bucket[b].tokens
                 <= Allowance(restarts[b]) + Refill(bucket[b].at + rewound[b])
  PROVE  /\ bucket'[b] \in [tokens : 0 .. Capacity, at : Nat]
         /\ bucket' = [bucket EXCEPT ![b] = bucket'[b]]
         /\ issued'[b] \in Nat /\ issued' = [issued EXCEPT ![b] = issued'[b]]
         /\ rewound'[b] \in Nat /\ rewound' = [rewound EXCEPT ![b] = rewound'[b]]
         /\ bucket'[b].at = call[c].now
         /\ issued'[b] + bucket'[b].tokens
                <= Allowance(restarts[b]) + Refill(call[c].now + rewound'[b])
<1> DEFINE asked == call[c].now
           tokens == call[c].tokens
           level == Level(b, asked)
<1>1. /\ level \in 0 .. Capacity /\ Capacity \in Nat /\ tokens \in Nat
      /\ issued[b] \in Nat /\ rewound[b] \in Nat /\ restarts[b] \in Nat /\ asked \in Nat
      /\ Allowance(restarts[b]) \in Nat
  <2>1. tokens \in Nat /\ asked \in Nat
    <3>1. Requests \subseteq 1 .. Capacity /\ Capacity \in Nat
      BY BucketAssumption
    <3>2. tokens \in Requests /\ asked \in Nat
      OBVIOUS
    <3> HIDE DEF tokens, asked
    <3>3. tokens \in 1 .. Capacity
      BY <3>1, <3>2
    <3>4. QED
      BY <3>1, <3>2, <3>3
  <2>2. level \in 0 .. Capacity
    BY <2>1, LevelIsBounded
  <2>3. issued[b] \in Nat /\ rewound[b] \in Nat /\ restarts[b] \in Nat /\ Capacity \in Nat
    BY BucketNumbers
  <2>4. QED
    BY <2>1, <2>2, <2>3, AllowanceAdds
<1>2. SetBack(b, asked) \in Nat
  BY <1>1, BucketNumbers DEF SetBack
<1>3. /\ bucket'[b] = [tokens |-> Remaining(level, tokens), at |-> asked]
      /\ bucket' = [bucket EXCEPT ![b] = bucket'[b]]
      /\ issued'[b] = issued[b] + (IF tokens <= level THEN tokens ELSE 0)
      /\ issued' = [issued EXCEPT ![b] = issued'[b]]
      /\ rewound'[b] = rewound[b] + SetBack(b, asked)
      /\ rewound' = [rewound EXCEPT ![b] = rewound'[b]]
  BY DEF Serve, CountedAt, BucketTypeOK
<1>4. /\ Remaining(level, tokens) \in 0 .. Capacity /\ issued'[b] \in Nat
      /\ issued'[b] + Remaining(level, tokens) = issued[b] + level
  BY <1>1, <1>3 DEF Remaining
<1>5. bucket'[b] \in [tokens : 0 .. Capacity, at : Nat]
  BY <1>1, <1>3, <1>4
<1>6. issued[b] + level <= Allowance(restarts[b]) + Refill(asked + rewound'[b])
  <2>1. CASE bucket[b] = NoBucket
    <3>1. level = Capacity /\ SetBack(b, asked) = 0
      BY <2>1 DEF Level, SetBack
    <3>2. rewound'[b] = rewound[b]
      BY <1>1, <1>3, <3>1
    <3>3. QED
      BY <2>1, <3>1, <3>2 DEF FullAt
  <2>2. CASE bucket[b] # NoBucket /\ asked < bucket[b].at
    <3>1. bucket[b].at \in Nat /\ bucket[b].tokens \in Nat
      BY <2>2, BucketNumbers
    <3>2. level = bucket[b].tokens /\ SetBack(b, asked) = bucket[b].at - asked
      BY <1>1, <2>2, <3>1 DEF Level, SetBack
    <3>3. asked + rewound'[b] = bucket[b].at + rewound[b]
      BY <1>1, <1>3, <3>1, <3>2
    <3>4. QED
      BY <2>2, <3>2, <3>3
  <2>3. CASE bucket[b] # NoBucket /\ ~(asked < bucket[b].at)
    <3>1. /\ bucket[b].at \in Nat /\ bucket[b].tokens \in 0 .. Capacity
          /\ asked - bucket[b].at \in Nat
      BY <1>1, <2>3, BucketNumbers
    <3>2. rewound'[b] = rewound[b]
      BY <1>1, <1>3, <2>3 DEF SetBack
    <3>3. Refill(asked - bucket[b].at) \in Nat /\ Refill(0) = 0
      BY <3>1, BucketAssumption DEF Refill
    <3>4. level <= bucket[b].tokens + Refill(asked - bucket[b].at)
      <4>1. CASE asked = bucket[b].at
        BY <2>3, <3>1, <3>3, <4>1 DEF Level
      <4>2. CASE asked # bucket[b].at
        <5>1. level = Smaller(Capacity, bucket[b].tokens + Refill(asked - bucket[b].at))
          BY <1>1, <2>3, <3>1, <4>2 DEF Level, Refill
        <5>2. QED
          BY <1>1, <3>1, <3>3, <5>1 DEF Smaller
      <4>3. QED
        BY <4>1, <4>2
    <3>5. /\ Refill(asked + rewound[b])
                = Refill(bucket[b].at + rewound[b]) + Refill(asked - bucket[b].at)
          /\ Refill(bucket[b].at + rewound[b]) \in Int
      <4>1. asked + rewound[b] = (bucket[b].at + rewound[b]) + (asked - bucket[b].at)
        BY <1>1, <3>1
      <4>2. bucket[b].at + rewound[b] \in Int /\ asked - bucket[b].at \in Int
        BY <1>1, <3>1
      <4>3. QED
        BY <4>1, <4>2, RefillAdds
    <3>6. QED
      BY <1>1, <2>3, <3>1, <3>2, <3>3, <3>4, <3>5
  <2>4. QED
    BY <2>1, <2>2, <2>3
<1>7. rewound'[b] \in Nat
  BY <1>1, <1>2, <1>3
<1>8. QED
  BY <1>3, <1>4, <1>5, <1>6, <1>7
-----------------------------------------------------------------------------
(* TokenBucket: the invariant is inductive.                                *)

\* The requests that have no answer yet.
Pending == [at : {"redis", "fallback", "lock"}, tokens : Requests, now : Nat]

\* What a caller in a request holds.
LEMMA CallNumbers ==
  ASSUME BucketTypeOK, NEW c \in Caller
  PROVE  /\ call[c].at \in {"redis", "fallback", "lock"} =>
                call[c].now \in Nat /\ call[c].tokens \in Requests
         /\ call[c].at \in {"redis", "fallback", "lock"} => call[c] \in Pending
BY DEF BucketTypeOK, NoCall, Pending

\* The request of a caller that goes on to another point of it.
LEMMA RequestGoesOn ==
  ASSUME NEW r \in Pending, NEW point \in {"redis", "fallback", "lock"}
  PROVE  /\ [r EXCEPT !.at = point] \in Pending
         /\ [r EXCEPT !.at = point].at = point
BY DEF Pending

\* One caller's request is replaced by another.
LEMMA RequestReplaced ==
  ASSUME BucketTypeOK, NEW c \in Caller, NEW r \in Pending \cup {NoCall},
         call' = [call EXCEPT ![c] = r]
  PROVE  /\ call' \in [Caller -> Pending \cup {NoCall}] /\ call'[c] = r
         /\ \A d \in Caller : d # c => call'[d] = call[d]
<1>1. call \in [Caller -> Pending \cup {NoCall}]
  BY DEF BucketTypeOK, Pending
<1>2. QED
  BY <1>1

\* The buckets have names of their own, and each caller a process.
LEMMA BucketNames ==
  /\ Redis \in Bucket
  /\ \A p \in Process : p \in Bucket /\ p # Redis
  /\ \A c \in Caller : Home[c] \in Process
BY BucketAssumption DEF Bucket

\* Initially the invariant of the rate limiter holds.
LEMMA InitBucketInv == BucketInit => BucketInv
<1> SUFFICES ASSUME BucketInit PROVE BucketInv
  OBVIOUS
<1>1. BucketTypeOK
  BY BucketAssumption DEF BucketInit, BucketTypeOK
<1>2. \A b \in Bucket : bucket[b] = NoBucket /\ issued[b] = 0 /\ rewound[b] = 0 /\ restarts[b] = 0
  BY DEF BucketInit
<1>3. \A b \in Bucket, t \in Nat : FullAt(b, t)
  <2> TAKE b \in Bucket, t \in Nat
  <2>1. Refill(t + rewound[b]) \in Nat /\ Capacity \in Nat /\ Capacity <= Allowance(restarts[b])
        /\ Allowance(restarts[b]) \in Nat
    BY <1>2, BucketAssumption, AllowanceAdds DEF Refill
  <2>2. QED
    BY <1>2, <2>1 DEF FullAt
<1>4. \A c \in Caller : call[c].at = "idle"
  BY DEF BucketInit, NoCall
<1>5. time \in Nat
  BY DEF BucketInit
<1>6. CountIsFair /\ RedisForgetsLate
  BY <1>2, <1>3, BucketNames DEF CountIsFair, RedisForgetsLate
<1>7. ProcessStartsFull /\ RequestsAreTimely
  BY <1>2, <1>3, <1>4, <1>5, BucketNames DEF ProcessStartsFull, RequestsAreTimely
<1>8. QED
  BY <1>1, <1>6, <1>7 DEF BucketInv

\* The steps of a caller that touch no bucket.
LEMMA CallerKeepsBucketInv ==
  ASSUME BucketInv, NEW c \in Caller, Call(c) \/ RedisFails(c) \/ Raise(c) \/ ReadClock(c)
  PROVE  BucketInv'
<1>1. UNCHANGED <<withFallback, time, bucket, expires, issued, rewound, restarts>>
  BY DEF Call, RedisFails, Raise, ReadClock
<1>2. BucketTypeOK /\ time \in Nat
  BY DEF BucketInv, BucketTypeOK
<1>3. /\ call' \in [Caller -> Pending \cup {NoCall}]
      /\ \A d \in Caller : d # c => call'[d] = call[d]
      /\ call'[c].at = "redis" => call'[c].now <= time + MaxSkew /\ call'[c].now + MaxDelay >= time
      /\ call'[c].at = "lock" => call'[c].now = time
  <2>1. CASE Call(c)
    <3>1. PICK n \in Requests, skew \in 0 .. MaxSkew :
            call' = [call EXCEPT ![c] = [at |-> "redis", tokens |-> n, now |-> time + skew]]
      BY <2>1 DEF Call
    <3>2. time + skew \in Nat /\ time + skew <= time + MaxSkew /\ (time + skew) + MaxDelay >= time
      BY <1>2, BucketAssumption
    <3>3. [at |-> "redis", tokens |-> n, now |-> time + skew] \in Pending
      BY <3>2 DEF Pending
    <3>4. /\ call' \in [Caller -> Pending \cup {NoCall}]
          /\ call'[c] = [at |-> "redis", tokens |-> n, now |-> time + skew]
          /\ \A d \in Caller : d # c => call'[d] = call[d]
      BY <1>2, <3>1, <3>3, RequestReplaced
    <3>5. QED
      BY <3>2, <3>4
  <2>2. CASE RedisFails(c)
    <3>1. PICK r \in Pending : r = call[c]
      BY <1>2, <2>2, CallNumbers DEF RedisFails
    <3>2. [r EXCEPT !.at = "fallback"] \in Pending /\ [r EXCEPT !.at = "fallback"].at = "fallback"
      BY RequestGoesOn
    <3>3. call' = [call EXCEPT ![c] = [r EXCEPT !.at = "fallback"]]
      BY <2>2, <3>1 DEF RedisFails, Waits
    <3>4. /\ call' \in [Caller -> Pending \cup {NoCall}]
          /\ call'[c] = [r EXCEPT !.at = "fallback"]
          /\ \A d \in Caller : d # c => call'[d] = call[d]
      BY <1>2, <3>2, <3>3, RequestReplaced
    <3>5. call'[c].at = "fallback"
      BY <3>2, <3>4
    <3>6. QED
      BY <3>4, <3>5
  <2>3. CASE Raise(c)
    <3>1. /\ call' \in [Caller -> Pending \cup {NoCall}] /\ call'[c] = NoCall
          /\ \A d \in Caller : d # c => call'[d] = call[d]
      BY <1>2, <2>3, RequestReplaced DEF Raise, Answered
    <3>2. QED
      BY <3>1 DEF NoCall
  <2>4. CASE ReadClock(c)
    <3>1. PICK r \in Pending : r = call[c]
      BY <1>2, <2>4, CallNumbers DEF ReadClock
    <3>2. /\ [r EXCEPT !.at = "lock", !.now = time] \in Pending
          /\ [r EXCEPT !.at = "lock", !.now = time].at = "lock"
          /\ [r EXCEPT !.at = "lock", !.now = time].now = time
      BY <1>2 DEF Pending
    <3>3. call' = [call EXCEPT ![c] = [r EXCEPT !.at = "lock", !.now = time]]
      BY <2>4, <3>1 DEF ReadClock
    <3>4. /\ call' \in [Caller -> Pending \cup {NoCall}]
          /\ call'[c] = [r EXCEPT !.at = "lock", !.now = time]
          /\ \A d \in Caller : d # c => call'[d] = call[d]
      BY <1>2, <3>2, <3>3, RequestReplaced
    <3>5. call'[c].at = "lock" /\ call'[c].now = time
      BY <3>2, <3>4
    <3>6. QED
      BY <3>4, <3>5
  <2>5. QED
    BY <2>1, <2>2, <2>3, <2>4
<1>4. BucketTypeOK'
  BY <1>1, <1>2, <1>3 DEF BucketTypeOK, Pending
<1>5. CountIsFair' /\ RedisForgetsLate'
  BY <1>1 DEF BucketInv, CountIsFair, RedisForgetsLate, FullAt
<1>6. ProcessStartsFull'
  <2>1. \A p \in Process, t \in Nat : FullAt(p, t)' <=> FullAt(p, t)
    BY <1>1 DEF FullAt
  <2> SUFFICES ASSUME NEW p \in Process, bucket[p] = NoBucket, NEW d \in Caller,
                      Home[d] = p, call'[d].at = "lock"
               PROVE  FullAt(p, call[d].now)'
    BY <1>1, <1>2, <2>1 DEF BucketInv, ProcessStartsFull
  <2>2. CASE d = c
    <3>1. call'[d].now = time
      BY <1>3, <2>2
    <3>2. FullAt(p, time)
      BY DEF BucketInv, ProcessStartsFull
    <3>3. QED
      BY <1>1, <3>1, <3>2 DEF FullAt
  <2>3. CASE d # c
    <3>1. call'[d] = call[d]
      BY <1>3, <2>3
    <3>2. FullAt(p, call[d].now)
      BY <3>1 DEF BucketInv, ProcessStartsFull
    <3>3. QED
      BY <1>1, <3>1, <3>2 DEF FullAt
  <2>4. QED
    BY <2>2, <2>3
<1>7. RequestsAreTimely'
  BY <1>1, <1>2, <1>3 DEF BucketInv, RequestsAreTimely
<1>8. QED
  BY <1>4, <1>5, <1>6, <1>7 DEF BucketInv

\* A request that Redis serves.
LEMMA EvalKeepsBucketInv ==
  ASSUME BucketInv, NEW c \in Caller, EvalScript(c)
  PROVE  BucketInv'
<1>1. /\ call[c].at = "redis" /\ Serve(c, Redis) /\ expires' = time + Ttl
      /\ UNCHANGED <<withFallback, time, restarts>>
  BY DEF EvalScript
<1>2. /\ BucketTypeOK /\ Redis \in Bucket /\ time \in Nat
      /\ call[c].now \in Nat /\ call[c].tokens \in Requests
  BY <1>1, BucketNames, CallNumbers DEF BucketInv, BucketTypeOK
<1>3. call[c].now <= time + MaxSkew /\ call[c].now + MaxDelay >= time
  BY <1>1 DEF BucketInv, RequestsAreTimely
<1>4. /\ bucket'[Redis] \in [tokens : 0 .. Capacity, at : Nat]
      /\ bucket' = [bucket EXCEPT ![Redis] = bucket'[Redis]]
      /\ issued'[Redis] \in Nat /\ issued' = [issued EXCEPT ![Redis] = issued'[Redis]]
      /\ rewound'[Redis] \in Nat /\ rewound' = [rewound EXCEPT ![Redis] = rewound'[Redis]]
      /\ bucket'[Redis].at = call[c].now
      /\ issued'[Redis] + bucket'[Redis].tokens
                <= Allowance(restarts[Redis]) + Refill(call[c].now + rewound'[Redis])
  BY <1>1, <1>2, <1>3, ServeIsFair DEF BucketInv, RedisForgetsLate, CountIsFair
<1>5. /\ \A d \in Caller : call'[d].at = "redis" => call'[d] = call[d]
      /\ \A d \in Caller : call'[d].at = "lock" => call'[d] = call[d]
      /\ call' \in [Caller -> Pending \cup {NoCall}]
  <2>1. CASE Answered(c)
    <3>1. /\ call' \in [Caller -> Pending \cup {NoCall}] /\ call'[c] = NoCall
          /\ \A d \in Caller : d # c => call'[d] = call[d]
      BY <1>2, <2>1, RequestReplaced DEF Answered
    <3>2. QED
      BY <3>1 DEF NoCall
  <2>2. CASE Waits(c, "fallback")
    <3>1. PICK r \in Pending : r = call[c]
      BY <1>1, <1>2, CallNumbers
    <3>2. [r EXCEPT !.at = "fallback"] \in Pending /\ [r EXCEPT !.at = "fallback"].at = "fallback"
      BY RequestGoesOn
    <3>3. call' = [call EXCEPT ![c] = [r EXCEPT !.at = "fallback"]]
      BY <2>2, <3>1 DEF Waits
    <3>4. /\ call' \in [Caller -> Pending \cup {NoCall}]
          /\ call'[c] = [r EXCEPT !.at = "fallback"]
          /\ \A d \in Caller : d # c => call'[d] = call[d]
      BY <1>2, <3>2, <3>3, RequestReplaced
    <3>5. call'[c].at = "fallback"
      BY <3>2, <3>4
    <3>6. QED
      BY <3>4, <3>5
  <2>3. QED
    BY <2>1, <2>2 DEF EvalScript
<1>6. \A b \in Bucket : b # Redis =>
        bucket'[b] = bucket[b] /\ issued'[b] = issued[b] /\ rewound'[b] = rewound[b]
  BY <1>2, <1>4 DEF BucketTypeOK
<1>7. BucketTypeOK'
  BY <1>1, <1>2, <1>4, <1>5, BucketAssumption DEF BucketTypeOK, Pending
<1>8. CountIsFair'
  <2> SUFFICES ASSUME NEW b \in Bucket, bucket'[b] # NoBucket
               PROVE  issued'[b] + bucket'[b].tokens
                          <= Allowance(restarts[b]) + Refill(bucket'[b].at + rewound'[b])
    BY <1>1 DEF CountIsFair
  <2>1. CASE b = Redis
    BY <1>4, <2>1
  <2>2. CASE b # Redis
    BY <1>6, <2>2 DEF BucketInv, CountIsFair
  <2>3. QED
    BY <2>1, <2>2
<1>9. RedisForgetsLate'
  <2>1. bucket'[Redis] # NoBucket
    BY <1>4 DEF NoBucket
  <2>2. bucket'[Redis].at <= time + MaxSkew
    BY <1>3, <1>4
  <2>3. bucket'[Redis].at + Ttl <= expires' + MaxSkew
    BY <1>1, <1>2, <1>4, <2>2, BucketAssumption
  <2>4. QED
    BY <1>1, <2>1, <2>2, <2>3 DEF RedisForgetsLate
<1>10. ProcessStartsFull'
  <2> SUFFICES ASSUME NEW p \in Process
               PROVE  /\ bucket'[p] # NoBucket => bucket'[p].at <= time'
                      /\ bucket'[p] = NoBucket =>
                          /\ FullAt(p, time)'
                          /\ \A d \in Caller :
                                Home[d] = p /\ call'[d].at = "lock" => FullAt(p, call[d].now)'
    BY DEF ProcessStartsFull
  <2>1. bucket'[p] = bucket[p] /\ issued'[p] = issued[p] /\ rewound'[p] = rewound[p]
    BY <1>6, BucketNames
  <2>2. QED
    BY <1>1, <1>5, <2>1 DEF BucketInv, ProcessStartsFull, FullAt
<1>11. RequestsAreTimely'
  BY <1>1, <1>5 DEF BucketInv, RequestsAreTimely
<1>12. QED
  BY <1>7, <1>8, <1>9, <1>10, <1>11 DEF BucketInv

\* A request that a process serves itself.
LEMMA LocalKeepsBucketInv ==
  ASSUME BucketInv, NEW c \in Caller, LocalAcquire(c)
  PROVE  BucketInv'
<1>1. PICK h \in Process : h = Home[c]
  BY BucketNames
<1>2. /\ call[c].at = "lock" /\ Serve(c, h) /\ call' = [call EXCEPT ![c] = NoCall]
      /\ UNCHANGED <<withFallback, time, expires, restarts>>
  BY <1>1 DEF LocalAcquire, Answered
<1>3. /\ BucketTypeOK /\ h \in Bucket /\ h # Redis /\ time \in Nat
      /\ call[c].now \in Nat /\ call[c].tokens \in Requests
  BY <1>2, BucketNames, CallNumbers DEF BucketInv, BucketTypeOK
<1>4. call[c].now <= time
  BY <1>2 DEF BucketInv, RequestsAreTimely
<1>5. /\ bucket'[h] \in [tokens : 0 .. Capacity, at : Nat]
      /\ bucket' = [bucket EXCEPT ![h] = bucket'[h]]
      /\ issued'[h] \in Nat /\ issued' = [issued EXCEPT ![h] = issued'[h]]
      /\ rewound'[h] \in Nat /\ rewound' = [rewound EXCEPT ![h] = rewound'[h]]
      /\ bucket'[h].at = call[c].now
      /\ issued'[h] + bucket'[h].tokens
                <= Allowance(restarts[h]) + Refill(call[c].now + rewound'[h])
  BY <1>1, <1>2, <1>3, ServeIsFair DEF BucketInv, ProcessStartsFull, CountIsFair
<1>6. \A b \in Bucket : b # h =>
        bucket'[b] = bucket[b] /\ issued'[b] = issued[b] /\ rewound'[b] = rewound[b]
  BY <1>3, <1>5 DEF BucketTypeOK
<1>7. \A d \in Caller : call'[d] = IF d = c THEN NoCall ELSE call[d]
  BY <1>2, <1>3 DEF BucketTypeOK
<1>8. BucketTypeOK'
  BY <1>2, <1>3, <1>5, BucketAssumption DEF BucketTypeOK
<1>9. CountIsFair'
  <2> SUFFICES ASSUME NEW b \in Bucket, bucket'[b] # NoBucket
               PROVE  issued'[b] + bucket'[b].tokens
                          <= Allowance(restarts[b]) + Refill(bucket'[b].at + rewound'[b])
    BY <1>2 DEF CountIsFair
  <2>1. CASE b = h
    BY <1>5, <2>1
  <2>2. CASE b # h
    BY <1>6, <2>2 DEF BucketInv, CountIsFair
  <2>3. QED
    BY <2>1, <2>2
<1>10. RedisForgetsLate'
  <2>1. /\ bucket'[Redis] = bucket[Redis] /\ issued'[Redis] = issued[Redis]
        /\ rewound'[Redis] = rewound[Redis]
    BY <1>3, <1>6, BucketNames
  <2>2. QED
    BY <1>2, <2>1 DEF BucketInv, RedisForgetsLate, FullAt
<1>11. ProcessStartsFull'
  <2> SUFFICES ASSUME NEW p \in Process
               PROVE  /\ bucket'[p] # NoBucket => bucket'[p].at <= time'
                      /\ bucket'[p] = NoBucket =>
                          /\ FullAt(p, time)'
                          /\ \A d \in Caller :
                                Home[d] = p /\ call'[d].at = "lock" => FullAt(p, call[d].now)'
    BY <1>7 DEF ProcessStartsFull, NoCall
  <2>1. CASE p = h
    BY <1>2, <1>4, <1>5, <2>1 DEF NoBucket
  <2>2. CASE p # h
    <3>1. bucket'[p] = bucket[p] /\ issued'[p] = issued[p] /\ rewound'[p] = rewound[p]
      BY <1>6, <2>2, BucketNames
    <3>2. QED
      BY <1>2, <1>7, <3>1 DEF BucketInv, ProcessStartsFull, FullAt, NoCall
  <2>3. QED
    BY <2>1, <2>2
<1>12. RequestsAreTimely'
  BY <1>2, <1>7 DEF BucketInv, RequestsAreTimely, NoCall
<1>13. QED
  BY <1>8, <1>9, <1>10, <1>11, <1>12 DEF BucketInv

\* A process that starts anew has a full bucket, and one capacity more.
LEMMA RestartKeepsBucketInv ==
  ASSUME BucketInv, NEW h \in Process, Restart(h)
  PROVE  BucketInv'
<1>1. /\ bucket[h] # NoBucket /\ bucket' = [bucket EXCEPT ![h] = NoBucket]
      /\ call' = [c \in Caller |-> IF Home[c] = h THEN NoCall ELSE call[c]]
      /\ restarts' = [restarts EXCEPT ![h] = restarts[h] + 1]
      /\ UNCHANGED <<withFallback, time, expires, issued, rewound>>
  BY DEF Restart
<1>2. BucketTypeOK /\ h \in Bucket /\ h # Redis /\ time \in Nat
  BY BucketNames DEF BucketInv, BucketTypeOK
<1>3. /\ issued[h] \in Nat /\ rewound[h] \in Nat /\ restarts[h] \in Nat /\ Capacity \in Nat
      /\ bucket[h].tokens \in 0 .. Capacity /\ bucket[h].at \in Nat
  BY <1>1, <1>2, BucketNumbers
<1>4. /\ bucket'[h] = NoBucket /\ restarts'[h] = restarts[h] + 1
      /\ \A b \in Bucket : b # h => bucket'[b] = bucket[b] /\ restarts'[b] = restarts[b]
  BY <1>1, <1>2 DEF BucketTypeOK
<1>5. BucketTypeOK'
  BY <1>1, <1>2, <1>3 DEF BucketTypeOK
<1>6. CountIsFair'
  <2> SUFFICES ASSUME NEW b \in Bucket, bucket'[b] # NoBucket
               PROVE  issued'[b] + bucket'[b].tokens
                          <= Allowance(restarts'[b]) + Refill(bucket'[b].at + rewound'[b])
    BY DEF CountIsFair
  <2>1. b # h
    BY <1>4
  <2>2. QED
    BY <1>1, <1>4, <2>1 DEF BucketInv, CountIsFair
<1>7. RedisForgetsLate'
  <2>1. bucket'[Redis] = bucket[Redis] /\ restarts'[Redis] = restarts[Redis]
    BY <1>2, <1>4, BucketNames
  <2>2. QED
    BY <1>1, <2>1 DEF BucketInv, RedisForgetsLate, FullAt
<1>8. FullAt(h, time)'
  <2>1. issued[h] + bucket[h].tokens <= Allowance(restarts[h]) + Refill(bucket[h].at + rewound[h])
    BY <1>1, <1>2 DEF BucketInv, CountIsFair
  <2>2. bucket[h].at <= time
    BY <1>1 DEF BucketInv, ProcessStartsFull
  <2>3. bucket[h].at + rewound[h] \in Int /\ time + rewound[h] \in Int
        /\ bucket[h].at + rewound[h] <= time + rewound[h]
    BY <1>2, <1>3, <2>2
  <2>4. /\ Refill(bucket[h].at + rewound[h]) <= Refill(time + rewound[h])
        /\ Refill(bucket[h].at + rewound[h]) \in Int /\ Refill(time + rewound[h]) \in Int
    BY <2>3, RefillAdds
  <2>5. /\ Allowance(restarts[h]) \in Nat
        /\ Allowance(restarts[h] + 1) = Allowance(restarts[h]) + Capacity
    BY <1>3, AllowanceAdds
  <2>6. issued[h] + Capacity <= Allowance(restarts[h] + 1) + Refill(time + rewound[h])
    BY <1>3, <2>1, <2>4, <2>5
  <2>7. QED
    BY <1>1, <1>4, <2>6 DEF FullAt
<1>9. ProcessStartsFull'
  <2> SUFFICES ASSUME NEW p \in Process
               PROVE  /\ bucket'[p] # NoBucket => bucket'[p].at <= time'
                      /\ bucket'[p] = NoBucket =>
                          /\ FullAt(p, time)'
                          /\ \A d \in Caller :
                                Home[d] = p /\ call'[d].at = "lock" => FullAt(p, call[d].now)'
    BY DEF ProcessStartsFull
  <2>1. CASE p = h
    <3>1. \A d \in Caller : Home[d] = h => call'[d] = NoCall
      BY <1>1
    <3>2. QED
      BY <1>4, <1>8, <2>1, <3>1 DEF NoCall
  <2>2. CASE p # h
    <3>1. bucket'[p] = bucket[p] /\ restarts'[p] = restarts[p]
      BY <1>4, <2>2, BucketNames
    <3>2. \A d \in Caller : Home[d] = p => call'[d] = call[d]
      BY <1>1, <2>2
    <3>3. QED
      BY <1>1, <3>1, <3>2 DEF BucketInv, ProcessStartsFull, FullAt
  <2>3. QED
    BY <2>1, <2>2
<1>10. RequestsAreTimely'
  BY <1>1 DEF BucketInv, RequestsAreTimely, NoCall
<1>11. QED
  BY <1>5, <1>6, <1>7, <1>9, <1>10 DEF BucketInv

\* Redis drops its key when the bucket would be full for every request.
LEMMA TickKeepsBucketInv ==
  ASSUME BucketInv, Tick
  PROVE  BucketInv'
<1>1. /\ time < MaxTime /\ time' = time + 1
      /\ \A c \in Caller : call[c].at = "redis" => time < call[c].now + MaxDelay
      /\ UNCHANGED <<withFallback, expires, call, issued, rewound, restarts>>
      /\ \/ bucket' = bucket
         \/ time + 1 >= expires /\ bucket' = [bucket EXCEPT ![Redis] = NoBucket]
  BY DEF Tick
<1>2. BucketTypeOK /\ Redis \in Bucket /\ time \in Nat /\ expires \in Nat
  BY BucketNames DEF BucketInv, BucketTypeOK
<1>3. \A b \in Bucket : bucket'[b] # NoBucket => bucket'[b] = bucket[b]
  BY <1>1, <1>2 DEF BucketTypeOK
<1>4. BucketTypeOK'
  BY <1>1, <1>2, BucketAssumption DEF BucketTypeOK
<1>5. CountIsFair'
  BY <1>1, <1>3 DEF BucketInv, CountIsFair
<1>6. RedisForgetsLate'
  <2>1. CASE bucket'[Redis] # NoBucket
    <3>1. bucket'[Redis] = bucket[Redis] /\ bucket[Redis].at \in Nat /\ MaxSkew \in Nat
      BY <1>2, <1>3, <2>1, BucketNumbers
    <3>2. QED
      BY <1>1, <1>2, <2>1, <3>1 DEF BucketInv, RedisForgetsLate
  <2>2. CASE bucket'[Redis] = NoBucket
    <3> SUFFICES ASSUME NEW t \in Nat, t + MaxDelay >= time + 1
                 PROVE  FullAt(Redis, t)
      BY <1>1, <2>2 DEF RedisForgetsLate, FullAt
    <3>1. CASE bucket[Redis] = NoBucket
      <4>1. t + MaxDelay >= time
        BY <1>2, BucketAssumption
      <4>2. QED
        BY <3>1, <4>1 DEF BucketInv, RedisForgetsLate
    <3>2. CASE bucket[Redis] # NoBucket
      <4> DEFINE at0 == bucket[Redis].at
                 r == rewound[Redis]
      <4>1. time + 1 >= expires
        BY <1>1, <2>2, <3>2
      <4>2. at0 + Ttl <= expires + MaxSkew
        BY <3>2 DEF BucketInv, RedisForgetsLate
      <4>3. /\ at0 \in Nat /\ r \in Nat /\ issued[Redis] \in Nat /\ restarts[Redis] \in Nat
            /\ bucket[Redis].tokens \in Nat /\ Allowance(restarts[Redis]) \in Nat
            /\ Ttl \in Nat /\ MaxSkew \in Nat /\ MaxDelay \in Nat /\ Capacity \in Nat
        BY <1>2, <3>2, BucketNumbers, BucketAssumption, AllowanceAdds
      <4>4. at0 + r + (Ttl - MaxSkew - MaxDelay) <= t + r
        BY <1>2, <4>1, <4>2, <4>3
      <4>5. Capacity <= Refill(Ttl - MaxSkew - MaxDelay)
        <5>1. Rate \in Nat /\ (Ttl - MaxSkew - MaxDelay) * Rate >= Capacity
          BY BucketAssumption
        <5>2. (Ttl - MaxSkew - MaxDelay) * Rate = Rate * (Ttl - MaxSkew - MaxDelay)
          BY <4>3, <5>1
        <5>3. QED
          BY <4>3, <5>1, <5>2 DEF Refill
      <4>6. issued[Redis] + bucket[Redis].tokens
                <= Allowance(restarts[Redis]) + Refill(at0 + r)
        BY <1>2, <3>2 DEF BucketInv, CountIsFair
      <4>7. PICK x \in Int : x = at0 + r
        BY <4>3
      <4>8. PICK y \in Int : y = Ttl - MaxSkew - MaxDelay
        BY <4>3
      <4>9. PICK z \in Int : z = t + r
        BY <4>3
      <4>10. Refill(x) + Refill(y) <= Refill(z) /\ Refill(x) \in Int /\ Refill(y) \in Int
             /\ Refill(z) \in Int
        <5>1. x + y <= z /\ x + y \in Int
          BY <4>4, <4>7, <4>8, <4>9
        <5>2. /\ Refill(x + y) = Refill(x) + Refill(y) /\ Refill(x) \in Int /\ Refill(y) \in Int
          BY RefillAdds
        <5>3. Refill(x + y) <= Refill(z) /\ Refill(z) \in Int
          BY <5>1, RefillAdds
        <5>4. QED
          BY <5>2, <5>3
      <4>11. QED
        BY <4>3, <4>5, <4>6, <4>7, <4>8, <4>9, <4>10 DEF FullAt
    <3>3. QED
      BY <3>1, <3>2
  <2>3. QED
    BY <2>1, <2>2
<1>7. ProcessStartsFull'
  <2> SUFFICES ASSUME NEW p \in Process
               PROVE  /\ bucket'[p] # NoBucket => bucket'[p].at <= time'
                      /\ bucket'[p] = NoBucket =>
                          /\ FullAt(p, time)'
                          /\ \A d \in Caller :
                                Home[d] = p /\ call'[d].at = "lock" => FullAt(p, call[d].now)'
    BY DEF ProcessStartsFull
  <2>1. bucket'[p] = bucket[p] /\ p \in Bucket
    BY <1>1, <1>2, BucketNames DEF BucketTypeOK
  <2>2. CASE bucket[p] # NoBucket
    <3>1. bucket[p].at \in Nat /\ bucket[p].at <= time
      BY <1>2, <2>1, <2>2, BucketNumbers DEF BucketInv, ProcessStartsFull
    <3>2. QED
      BY <1>1, <1>2, <2>1, <2>2, <3>1
  <2>3. CASE bucket[p] = NoBucket
    <3>1. FullAt(p, time)
      BY <2>3 DEF BucketInv, ProcessStartsFull
    <3>2. FullAt(p, time + 1)
      BY <1>2, <2>1, <3>1, FullLater
    <3>3. FullAt(p, time)'
      BY <1>1, <3>2 DEF FullAt
    <3>4. \A d \in Caller : Home[d] = p /\ call'[d].at = "lock" => FullAt(p, call[d].now)'
      BY <1>1, <2>3 DEF BucketInv, ProcessStartsFull, FullAt
    <3>5. QED
      BY <2>1, <2>3, <3>3, <3>4
  <2>4. QED
    BY <2>2, <2>3
<1>8. RequestsAreTimely'
  <2> SUFFICES ASSUME NEW c \in Caller
               PROVE  /\ call[c].at = "redis" => /\ call[c].now <= (time + 1) + MaxSkew
                                                /\ call[c].now + MaxDelay >= time + 1
                      /\ call[c].at = "lock" => call[c].now <= time + 1
    BY <1>1 DEF RequestsAreTimely
  <2>1. CASE call[c].at \in {"redis", "lock"}
    <3>1. call[c].now \in Nat /\ MaxSkew \in Nat /\ MaxDelay \in Nat
      BY <1>2, <2>1, CallNumbers, BucketAssumption
    <3>2. QED
      BY <1>1, <1>2, <3>1 DEF BucketInv, RequestsAreTimely
  <2>2. QED
    BY <2>1
<1>9. QED
  BY <1>4, <1>5, <1>6, <1>7, <1>8 DEF BucketInv

\* Every step, a stuttering one too, keeps the invariant of the rate limiter.
LEMMA StepBucketInv == BucketInv /\ [BucketNext]_bucketVars => BucketInv'
<1> SUFFICES ASSUME BucketInv, [BucketNext]_bucketVars PROVE BucketInv'
  OBVIOUS
<1>1. CASE UNCHANGED bucketVars
  <2> USE <1>1 DEF bucketVars, BucketInv
  <2>1. BucketTypeOK'
    BY DEF BucketTypeOK
  <2>2. CountIsFair' /\ RedisForgetsLate'
    BY DEF CountIsFair, RedisForgetsLate, FullAt
  <2>3. ProcessStartsFull' /\ RequestsAreTimely'
    BY DEF ProcessStartsFull, RequestsAreTimely, FullAt
  <2>4. QED
    BY <2>1, <2>2, <2>3
<1>2. QED
  BY <1>1, CallerKeepsBucketInv, EvalKeepsBucketInv, LocalKeepsBucketInv,
     RestartKeepsBucketInv, TickKeepsBucketInv DEF BucketNext

-----------------------------------------------------------------------------
(* TokenBucket: the theorems.                                              *)

\* distributed_rate_limiter.py: no bucket, Redis's or a process's, hands out
\* more than its capacity, once more for each restart, and what the time
\* refills.
THEOREM RateIsLimited == BucketSpec => []LimitsHold
<1>1. BucketInv => LimitsHold
  <2> SUFFICES ASSUME BucketInv, NEW b \in Bucket
               PROVE  issued[b] <= Capacity * (1 + restarts[b])
                                       + Rate * (time + MaxSkew + rewound[b])
    BY DEF LimitsHold, BucketInv
  <2> DEFINE last == time + MaxSkew + rewound[b]
  <2>1. /\ BucketTypeOK /\ issued[b] \in Nat /\ rewound[b] \in Nat /\ restarts[b] \in Nat
        /\ time \in Nat /\ MaxSkew \in Nat /\ Capacity \in Nat
        /\ Allowance(restarts[b]) \in Nat /\ MaxDelay \in Nat
    BY BucketNumbers, AllowanceAdds DEF BucketInv
  <2>2. ASSUME NEW t \in Nat, t <= time + MaxSkew
        PROVE  /\ Refill(t + rewound[b]) <= Refill(last)
               /\ Refill(t + rewound[b]) \in Int /\ Refill(last) \in Int
    <3>1. t + rewound[b] \in Int /\ last \in Int /\ t + rewound[b] <= last
      BY <2>1, <2>2
    <3>2. QED
      BY <3>1, RefillAdds
  <2>3. CASE bucket[b] = NoBucket
    <3>1. FullAt(b, time)
      BY <2>1, <2>3, BucketAssumption
         DEF BucketInv, RedisForgetsLate, ProcessStartsFull, Bucket
    <3>2. time <= time + MaxSkew
      BY <2>1
    <3>3. QED
      BY <2>1, <2>2, <3>1, <3>2 DEF FullAt, Refill, Allowance
  <2>4. CASE bucket[b] # NoBucket
    <3>1. bucket[b].at \in Nat /\ bucket[b].tokens \in Nat /\ bucket[b].at <= time + MaxSkew
      BY <2>1, <2>4, BucketNumbers DEF BucketInv, RedisForgetsLate, ProcessStartsFull, Bucket
    <3>2. issued[b] + bucket[b].tokens
                <= Allowance(restarts[b]) + Refill(bucket[b].at + rewound[b])
      BY <2>4 DEF BucketInv, CountIsFair
    <3>3. issued[b] <= Allowance(restarts[b]) + Refill(last)
      BY <2>1, <2>2, <3>1, <3>2
    <3>4. QED
      BY <3>3 DEF Refill, Allowance
  <2>5. QED
    BY <2>3, <2>4
<1>2. QED
  BY InitBucketInv, StepBucketInv, <1>1, PTL DEF BucketSpec

\* A bucket that refuses a request counts what it has, and nothing is less
\* for that at any later time.
LEMMA RefusalDelaysNobody ==
  ASSUME BucketTypeOK, NEW b \in Bucket, NEW n \in Nat, NEW t \in Nat,
         bucket[b] # NoBucket, n >= bucket[b].at,
         bucket'[b] = [tokens |-> Level(b, n), at |-> n]
  PROVE  Level(b, t)' >= Level(b, t)
<1> DEFINE x == bucket[b].tokens
           a == bucket[b].at
           k == Level(b, n)
<1>1. x \in 0 .. Capacity /\ a \in Nat /\ Capacity \in Nat /\ k \in 0 .. Capacity
  BY BucketNumbers, LevelIsBounded
<1>2. \A u \in Nat : Level(b, u) = IF u <= a THEN x ELSE Smaller(Capacity, x + Refill(u - a))
  BY DEF Level, Refill
<1>3. Level(b, t)' = IF t <= n THEN k ELSE Smaller(Capacity, k + Refill(t - n))
  <2>1. bucket'[b] # NoBucket
    BY DEF NoBucket
  <2>2. bucket'[b].tokens = k /\ bucket'[b].at = n
    OBVIOUS
  <2>3. QED
    BY <2>1, <2>2 DEF Level, Refill
<1> HIDE DEF x, a, k
<1>4. k = IF n <= a THEN x ELSE Smaller(Capacity, x + Refill(n - a))
  BY <1>2 DEF k
<1>5. n >= a
  BY DEF a
<1>6. CASE t <= a
  BY <1>1, <1>2, <1>3, <1>4, <1>5, <1>6, RefillIsNatural DEF Smaller
<1>7. CASE a < t /\ t <= n
  <2>1. /\ Refill(t - a) <= Refill(n - a) /\ Refill(t - a) \in Nat /\ Refill(n - a) \in Nat
    <3>1. t - a \in Nat /\ n - a \in Nat /\ t - a <= n - a
      BY <1>1, <1>7
    <3>2. QED
      BY <3>1, RefillAdds, RefillIsNatural
  <2>2. QED
    BY <1>1, <1>2, <1>3, <1>4, <1>7, <2>1 DEF Smaller
<1>8. CASE n < t
  <2>1. Refill(t - n) \in Nat /\ Refill(n - a) \in Nat /\ Refill(t - a) \in Nat
    BY <1>1, <1>5, <1>8, RefillIsNatural
  <2>2. Refill(t - a) = Refill(t - n) + Refill(n - a)
    <3>1. t - a = (t - n) + (n - a) /\ t - n \in Int /\ n - a \in Int
      BY <1>1
    <3>2. QED
      BY <3>1, RefillAdds
  <2>3. n = a => Refill(n - a) = 0
    BY <1>1, BucketAssumption DEF Refill
  <2>4. Level(b, t) = Smaller(Capacity, x + Refill(t - a))
    BY <1>1, <1>2, <1>5, <1>8
  <2>5. Level(b, t)' = Smaller(Capacity, k + Refill(t - n))
    BY <1>3, <1>8
  <2>6. (k = x /\ n = a) \/ k = Smaller(Capacity, x + Refill(n - a))
    BY <1>1, <1>4, <1>5
  <2>7. QED
    BY <1>1, <2>1, <2>2, <2>3, <2>4, <2>5, <2>6 DEF Smaller
<1>9. QED
  BY <1>1, <1>6, <1>7, <1>8

\* distributed_rate_limiter.py: whoever was told to wait is put off by an
\* admission or by a clock that is set back, never by the calls that are
\* refused meanwhile, an expired key or a restart.
THEOREM WaitsAreKept == BucketSpec => OnlyAdmissionsDelay
<1> DEFINE Kept == \A b \in Bucket :
                      issued'[b] = issued[b] /\ rewound'[b] = rewound[b]
                          => \A t \in time' .. MaxTime + MaxSkew : Level(b, t)' >= Level(b, t)
<1>1. BucketInv /\ BucketNext => Kept
  <2> SUFFICES ASSUME BucketInv, BucketNext, NEW b \in Bucket,
                      issued'[b] = issued[b], rewound'[b] = rewound[b],
                      NEW t \in time' .. MaxTime + MaxSkew
               PROVE  Level(b, t)' >= Level(b, t)
    OBVIOUS
  <2>1. BucketTypeOK /\ BucketTypeOK'
    BY StepBucketInv DEF BucketInv
  <2>2. t \in Nat
    BY <2>1, BucketAssumption DEF BucketTypeOK
  <2>3. Level(b, t) \in 0 .. Capacity /\ Capacity \in Nat
    BY <2>1, <2>2, LevelIsBounded, BucketNumbers
  <2>4. CASE bucket'[b] = bucket[b]
    BY <2>3, <2>4 DEF Level
  <2>5. CASE bucket'[b] = NoBucket
    BY <2>3, <2>5 DEF Level
  <2>6. ASSUME NEW c \in Caller, Serve(c, b), call[c].at \in {"redis", "lock"}
        PROVE  Level(b, t)' >= Level(b, t)
    <3> DEFINE asked == call[c].now
               tokens == call[c].tokens
    <3>1. asked \in Nat /\ tokens \in Requests
      BY <2>1, <2>6, CallNumbers
    <3>2. tokens \in 1 .. Capacity
      BY <3>1, BucketAssumption
    <3>3. /\ bucket'[b] = [tokens |-> Remaining(Level(b, asked), tokens), at |-> asked]
          /\ issued'[b] = issued[b] + (IF tokens <= Level(b, asked) THEN tokens ELSE 0)
          /\ rewound'[b] = rewound[b] + SetBack(b, asked)
      BY <2>1, <2>6 DEF Serve, CountedAt, BucketTypeOK
    <3>4. issued[b] \in Nat /\ rewound[b] \in Nat /\ Level(b, asked) \in 0 .. Capacity
      BY <2>1, <3>1, BucketNumbers, LevelIsBounded
    <3> HIDE DEF asked, tokens
    <3>5. ~(tokens <= Level(b, asked))
      BY <2>3, <3>2, <3>3, <3>4
    <3>6. bucket[b] # NoBucket
      BY <2>3, <3>2, <3>5 DEF Level
    <3>7. asked >= bucket[b].at
      <4>1. bucket[b].at \in Nat
        BY <2>1, <3>6, BucketNumbers
      <4>2. SetBack(b, asked) = IF asked < bucket[b].at THEN bucket[b].at - asked ELSE 0
        BY <3>6 DEF SetBack
      <4>3. QED
        BY <3>1, <3>3, <3>4, <4>1, <4>2
    <3>8. bucket'[b] = [tokens |-> Level(b, asked), at |-> asked]
      BY <3>3, <3>5 DEF Remaining
    <3>9. QED
      BY <2>1, <2>2, <3>1, <3>6, <3>7, <3>8, RefusalDelaysNobody
  <2>7. CASE \E c \in Caller : EvalScript(c) \/ LocalAcquire(c)
    <3>1. PICK c \in Caller, h \in Bucket :
            /\ Serve(c, h) /\ call[c].at \in {"redis", "lock"}
      BY <2>7, BucketNames DEF EvalScript, LocalAcquire
    <3>2. CASE h = b
      BY <2>6, <3>1, <3>2
    <3>3. CASE h # b
      BY <2>1, <2>4, <3>1, <3>3 DEF Serve, BucketTypeOK
    <3>4. QED
      BY <3>2, <3>3
  <2>8. CASE Tick
    BY <2>1, <2>4, <2>5, <2>8, BucketNames DEF Tick, BucketTypeOK
  <2>9. CASE \E p \in Process : Restart(p)
    BY <2>1, <2>4, <2>5, <2>9, BucketNames DEF Restart, BucketTypeOK
  <2>10. CASE \E c \in Caller : Call(c) \/ RedisFails(c) \/ Raise(c) \/ ReadClock(c)
    BY <2>4, <2>10 DEF Call, RedisFails, Raise, ReadClock
  <2>11. QED
    BY <2>7, <2>8, <2>9, <2>10 DEF BucketNext
<1>2. QED
  BY InitBucketInv, StepBucketInv, <1>1, PTL DEF BucketSpec, OnlyAdmissionsDelay

\* distributed_rate_limiter.py: the limiter is fair, whichever store answers.
THEOREM LimiterSafety == BucketSpec => LimiterIsFair
BY RateIsLimited, WaitsAreKept, PTL DEF LimiterIsFair

-----------------------------------------------------------------------------
(* SessionProfiles: the inductive invariant.                               *)

\* Only a running manager is in the middle of a save.
SaversRun == \A m \in Manager : saving[m] # {} => m \in managers

\* A profile no crash and no second manager meddled with is what the reports
\* made of it, in the memory of whoever runs, and in its file unless that is
\* being written.
CopiesAgree ==
    \A p \in Profile \ blurred :
        /\ file[p] \in {record[p], Torn}
        /\ \A m \in managers : copy[m][p] = record[p]

ProfileInv == ProfileTypeOK /\ SaversRun /\ CopiesAgree

-----------------------------------------------------------------------------
(* SessionProfiles: the invariant is inductive.                            *)

\* A report leaves a reputation within its bounds.
LEMMA ReputationsChange ==
  ASSUME ProfileTypeOK, NEW r \in Reputation
  PROVE  Rewarded(r) \in Reputation /\ Punished(r) \in Reputation /\ New \in Reputation
<1>1. /\ Best \in Nat /\ Gain \in Nat /\ Loss \in Nat /\ Cooldown \in Nat /\ MaxNow \in Nat
      /\ now \in 0 .. MaxNow
  BY ProfileAssumption DEF ProfileTypeOK
<1>2. r.score \in 0 .. Best /\ r.until \in 0 .. MaxNow + Cooldown
  BY DEF Reputation
<1>3. Rewarded(r) \in Reputation
  <2>1. (IF r.score + Gain < Best THEN r.score + Gain ELSE Best) \in 0 .. Best
    BY <1>1, <1>2
  <2>2. QED
    BY <1>2, <2>1 DEF Rewarded, Reputation
<1>4. Punished(r) \in Reputation
  <2>1. (IF r.score > Loss THEN r.score - Loss ELSE 0) \in 0 .. Best
    BY <1>1, <1>2
  <2>2. now + Cooldown \in 0 .. MaxNow + Cooldown
    BY <1>1
  <2>3. QED
    BY <2>1, <2>2 DEF Punished, Reputation
<1>5. New \in Reputation
  BY <1>1 DEF New, Reputation
<1>6. QED
  BY <1>3, <1>4, <1>5

\* Initially the invariant of the session profiles holds.
LEMMA InitProfileInv == ProfileInit => ProfileInv
<1> SUFFICES ASSUME ProfileInit PROVE ProfileInv
  OBVIOUS
<1>1. New \in Reputation
  BY ProfileAssumption DEF New, Reputation
<1>2. ProfileTypeOK
  BY <1>1, ProfileAssumption DEF ProfileInit, ProfileTypeOK
<1>3. SaversRun /\ CopiesAgree
  BY DEF ProfileInit, SaversRun, CopiesAgree
<1>4. QED
  BY <1>2, <1>3 DEF ProfileInv

\* A save of a profile, with what its copy and its record were changed to.
LEMMA SaveKeepsProfileInv ==
  ASSUME ProfileInv, NEW m \in Manager, NEW p \in Profile, Idle(m), Save(m, p),
         NEW r \in Reputation, copy' = [copy EXCEPT ![m][p] = r],
         NEW q \in Reputation, record' = [record EXCEPT ![p] = q],
         copy[m][p] = record[p] => r = q,
         UNCHANGED <<now, managers>>, reports' \in 0 .. MaxReports
  PROVE  ProfileInv'
<1>1. /\ ProfileTypeOK /\ m \in managers
      /\ saving' = [saving EXCEPT ![m] = {p}] /\ file' = [file EXCEPT ![p] = Torn]
      /\ blurred' = blurred \cup (IF managers # {m} THEN {p} ELSE {})
  BY DEF Save, Idle, ProfileInv
<1>2. /\ copy'[m][p] = r /\ \A n \in Manager, o \in Profile :
            <<n, o>> # <<m, p>> => copy'[n][o] = copy[n][o]
      /\ record'[p] = q /\ \A o \in Profile : o # p => record'[o] = record[o]
      /\ file'[p] = Torn /\ \A o \in Profile : o # p => file'[o] = file[o]
  BY <1>1 DEF ProfileTypeOK
<1>3. ProfileTypeOK'
  <2>1. copy' \in [Manager -> [Profile -> Reputation]] /\ record' \in [Profile -> Reputation]
    BY <1>1 DEF ProfileTypeOK
  <2>2. file' \in [Profile -> Reputation \cup {Torn}] /\ saving' \in [Manager -> SUBSET Profile]
    BY <1>1 DEF ProfileTypeOK
  <2>3. QED
    BY <1>1, <2>1, <2>2 DEF ProfileTypeOK
<1>4. SaversRun'
  BY <1>1 DEF ProfileInv, SaversRun, ProfileTypeOK
<1>5. CopiesAgree'
  <2> SUFFICES ASSUME NEW o \in Profile, o \notin blurred'
               PROVE  /\ file'[o] \in {record'[o], Torn}
                      /\ \A n \in managers : copy'[n][o] = record'[o]
    BY DEF CopiesAgree
  <2>1. /\ o \notin blurred /\ file[o] \in {record[o], Torn}
        /\ \A n \in managers : copy[n][o] = record[o]
    BY <1>1 DEF ProfileInv, CopiesAgree
  <2>2. managers \subseteq Manager
    BY <1>1 DEF ProfileTypeOK
  <2>3. CASE o = p
    <3>1. managers = {m}
      BY <1>1, <2>3
    <3>2. QED
      BY <1>1, <1>2, <2>1, <2>3, <3>1
  <2>4. CASE o # p
    BY <1>2, <2>1, <2>2, <2>4
  <2>5. QED
    BY <2>3, <2>4
<1>6. QED
  BY <1>3, <1>4, <1>5 DEF ProfileInv

\* Every step, a stuttering one too, keeps the invariant of the session profiles.
LEMMA StepProfileInv == ProfileInv /\ [ProfileNext]_profileVars => ProfileInv'
<1> SUFFICES ASSUME ProfileInv, [ProfileNext]_profileVars PROVE ProfileInv'
  OBVIOUS
<1> USE DEF ProfileInv
<1>1. CASE UNCHANGED profileVars
  BY <1>1 DEF profileVars, ProfileTypeOK, SaversRun, CopiesAgree
<1>2. CASE PassTime
  BY <1>2, ProfileAssumption DEF PassTime, ProfileTypeOK, SaversRun, CopiesAgree
<1>3. ASSUME NEW m \in Manager, StartManager(m) PROVE ProfileInv'
  <2>1. \A p \in Profile : Loaded(p) \in Reputation
    <3>1. New \in Reputation
      BY ProfileAssumption DEF New, Reputation
    <3>2. QED
      BY <3>1 DEF Loaded, ProfileTypeOK
  <2>2. /\ managers' = managers \cup {m} /\ file' = [p \in Profile |-> Loaded(p)]
        /\ copy' = [copy EXCEPT ![m] = [p \in Profile |-> Loaded(p)]]
        /\ blurred' = blurred \cup {p \in Profile : file[p] = Torn}
        /\ UNCHANGED <<now, saving, record, reports>>
    BY <1>3 DEF StartManager
  <2>3. ProfileTypeOK'
    BY <2>1, <2>2 DEF ProfileTypeOK
  <2>4. SaversRun'
    BY <2>2 DEF SaversRun
  <2>5. CopiesAgree'
    <3> SUFFICES ASSUME NEW p \in Profile, p \notin blurred'
                 PROVE  /\ file'[p] \in {record'[p], Torn}
                        /\ \A n \in managers' : copy'[n][p] = record'[p]
      BY DEF CopiesAgree
    <3>1. p \notin blurred /\ file[p] # Torn
      BY <2>2
    <3>2. file[p] = record[p] /\ Loaded(p) = record[p] /\ \A n \in managers : copy[n][p] = record[p]
      BY <3>1 DEF CopiesAgree, Loaded
    <3>3. \A n \in Manager : copy'[n][p] = IF n = m THEN Loaded(p) ELSE copy[n][p]
      BY <2>2 DEF ProfileTypeOK
    <3>4. managers' \subseteq Manager
      BY <2>2 DEF ProfileTypeOK
    <3>5. QED
      BY <2>2, <3>2, <3>3, <3>4
  <2>6. QED
    BY <2>3, <2>4, <2>5
<1>4. ASSUME NEW m \in Manager, Allocate(m) PROVE ProfileInv'
  <2>1. PICK p \in Profile : Save(m, p)
    BY <1>4 DEF Allocate, Choice
  <2>2. Idle(m) /\ UNCHANGED <<now, managers, copy, record, reports>>
    BY <1>4 DEF Allocate
  <2>3. PICK r \in Reputation, q \in Reputation : r = copy[m][p] /\ q = record[p]
    BY DEF ProfileTypeOK
  <2>4. copy' = [copy EXCEPT ![m][p] = r] /\ record' = [record EXCEPT ![p] = q]
    BY <2>2, <2>3 DEF ProfileTypeOK
  <2>5. reports' \in 0 .. MaxReports /\ UNCHANGED <<now, managers>>
    BY <2>2 DEF ProfileTypeOK
  <2>6. Idle(m) /\ (copy[m][p] = record[p] => r = q)
    BY <2>2, <2>3
  <2>7. QED
    BY <2>1, <2>4, <2>5, <2>6, SaveKeepsProfileInv
<1>5. ASSUME NEW m \in Manager, NEW p \in Profile, ReportSuccess(m, p) PROVE ProfileInv'
  <2>1. /\ Idle(m) /\ Save(m, p) /\ UNCHANGED <<now, managers>>
        /\ reports < MaxReports /\ reports' = reports + 1
        /\ copy' = [copy EXCEPT ![m][p] = Rewarded(copy[m][p])]
        /\ record' = [record EXCEPT ![p] = Rewarded(record[p])]
    BY <1>5 DEF ReportSuccess, Report
  <2>2. Rewarded(copy[m][p]) \in Reputation /\ Rewarded(record[p]) \in Reputation
    <3>1. copy[m][p] \in Reputation /\ record[p] \in Reputation
      BY DEF ProfileTypeOK
    <3>2. QED
      BY <3>1, ReputationsChange
  <2>3. reports' \in 0 .. MaxReports
    BY <2>1, ProfileAssumption DEF ProfileTypeOK
  <2>4. QED
    BY <2>1, <2>2, <2>3, SaveKeepsProfileInv
<1>6. ASSUME NEW m \in Manager, NEW p \in Profile, ReportFailure(m, p) PROVE ProfileInv'
  <2>1. /\ Idle(m) /\ Save(m, p) /\ UNCHANGED <<now, managers>>
        /\ reports < MaxReports /\ reports' = reports + 1
        /\ copy' = [copy EXCEPT ![m][p] = Punished(copy[m][p])]
        /\ record' = [record EXCEPT ![p] = Punished(record[p])]
    BY <1>6 DEF ReportFailure, Report
  <2>2. Punished(copy[m][p]) \in Reputation /\ Punished(record[p]) \in Reputation
    <3>1. copy[m][p] \in Reputation /\ record[p] \in Reputation
      BY DEF ProfileTypeOK
    <3>2. QED
      BY <3>1, ReputationsChange
  <2>3. reports' \in 0 .. MaxReports
    BY <2>1, ProfileAssumption DEF ProfileTypeOK
  <2>4. QED
    BY <2>1, <2>2, <2>3, SaveKeepsProfileInv
<1>7. ASSUME NEW m \in Manager, Written(m) PROVE ProfileInv'
  <2>1. /\ saving[m] # {} /\ m \in managers
        /\ file' = [p \in Profile |-> IF p \in saving[m] THEN copy[m][p] ELSE file[p]]
        /\ saving' = [saving EXCEPT ![m] = {}]
        /\ UNCHANGED <<now, managers, copy, record, blurred, reports>>
    BY <1>7 DEF Written, SaversRun
  <2>2. ProfileTypeOK'
    BY <2>1 DEF ProfileTypeOK
  <2>3. SaversRun'
    BY <2>1 DEF SaversRun, ProfileTypeOK
  <2>4. CopiesAgree'
    BY <2>1 DEF CopiesAgree
  <2>5. QED
    BY <2>2, <2>3, <2>4
<1>8. ASSUME NEW m \in Manager, EndManager(m) PROVE ProfileInv'
  <2>1. ProfileTypeOK' /\ CopiesAgree'
    BY <1>8 DEF EndManager, ProfileTypeOK, CopiesAgree
  <2>2. SaversRun'
    BY <1>8 DEF EndManager, ProfileTypeOK, SaversRun
  <2>3. QED
    BY <2>1, <2>2
<1>9. QED
  BY <1>1, <1>2, <1>3, <1>4, <1>5, <1>6, <1>7, <1>8 DEF ProfileNext

-----------------------------------------------------------------------------
(* SessionProfiles: the theorem.                                           *)

\* session_persistence.py: through any number of restarts a manager hands out
\* no profile that the reports of all sessions retired or sent to rest, and
\* prefers the one they speak best of, unless a crash or a second manager
\* meddled with its file.
THEOREM ProfilesAreFit == ProfileSpec => []HandedOutIsFit
<1>1. ProfileInv => HandedOutIsFit
  <2> SUFFICES ASSUME ProfileInv, NEW m \in managers, NEW p \in Choice(m), p \notin blurred
               PROVE  /\ Fit(record[p])
                      /\ \A q \in Profile \ blurred :
                             Fit(record[q]) => record[q].score <= record[p].score
    BY DEF HandedOutIsFit, ProfileInv
  <2>1. \A q \in Profile \ blurred : copy[m][q] = record[q]
    BY DEF ProfileInv, CopiesAgree
  <2>2. QED
    BY <2>1 DEF Choice
<1>2. QED
  BY InitProfileInv, StepProfileInv, <1>1, PTL DEF ProfileSpec

-----------------------------------------------------------------------------
(* AdRuns: the inductive invariant.                                        *)

\* What a worker has in hand was given to it by the run that owns it.
HandsAreOwned ==
    \A w \in Worker : \A u \in ads[w] : at[w] \in Run /\ owner[u] = at[w]

\* Two workers with ads of one run resumed it at the same time.
SharingIsNoticed ==
    \A v, w \in Worker :
        v # w /\ ads[v] # {} /\ ads[w] # {} /\ at[v] = at[w] => at[v] \in shared

\* An ad is pending until its run says it is done, and nobody has an ad in
\* hand that is done.
SettledOnce ==
    \A u \in Url :
        /\ owner[u] = NoRun => u \notin settled
        /\ owner[u] # NoRun /\ u \notin settled => adStatus[u] \in {"pending", "failed"}
        /\ u \in settled /\ owner[u] \notin shared =>
               adStatus[u] = "done" /\ \A w \in Worker : u \notin ads[w]

RunInv ==
    /\ RunTypeOK
    /\ HandsAreOwned
    /\ SharingIsNoticed
    /\ SettledOnce
    /\ settled \subseteq rawDetails

-----------------------------------------------------------------------------
(* AdRuns: the invariant is inductive.                                     *)

\* Initially the invariant of the pipeline's runs holds.
LEMMA InitRunInv == RunInit => RunInv
<1> SUFFICES ASSUME RunInit PROVE RunInv
  OBVIOUS
<1>1. RunTypeOK
  BY RunAssumption DEF RunInit, RunTypeOK
<1>2. HandsAreOwned /\ SharingIsNoticed /\ SettledOnce /\ settled \subseteq rawDetails
  BY DEF RunInit, HandsAreOwned, SharingIsNoticed, SettledOnce
<1>3. QED
  BY <1>1, <1>2 DEF RunInv

\* An ad discovered again stays with its first run.
LEMMA DiscoverKeepsRunInv ==
  ASSUME RunInv, NEW r \in Run, Discover(r)
  PROVE  RunInv'
<1> USE DEF RunInv
<1>1. PICK fresh \in SUBSET Url :
        /\ \A u \in fresh : owner[u] = NoRun
        /\ owner' = [u \in Url |-> IF u \in fresh THEN r ELSE owner[u]]
        /\ adStatus' = [u \in Url |-> IF u \in fresh THEN "pending" ELSE adStatus[u]]
        /\ UNCHANGED <<runStatus, rawDetails, failures, at, ads, shared, settled>>
  BY DEF Discover
<1>2. \A u \in fresh : u \notin settled /\ \A w \in Worker : u \notin ads[w]
  BY <1>1, RunAssumption DEF HandsAreOwned, SettledOnce
<1>3. RunTypeOK'
  BY <1>1, RunAssumption DEF RunTypeOK
<1>4. HandsAreOwned' /\ SharingIsNoticed'
  BY <1>1, <1>2 DEF HandsAreOwned, SharingIsNoticed, RunTypeOK
<1>5. SettledOnce'
  BY <1>1, <1>2 DEF SettledOnce, RunTypeOK
<1>6. QED
  BY <1>1, <1>3, <1>4, <1>5

\* A worker takes the pending ads of a run.
LEMMA ResumeKeepsRunInv ==
  ASSUME RunInv, NEW w \in Worker, NEW r \in Run, Resume(w, r)
  PROVE  RunInv'
<1> USE DEF RunInv
<1>1. /\ ads[w] = {} /\ at' = [at EXCEPT ![w] = r]
      /\ ads' = [ads EXCEPT ![w] = PendingAds(r)]
      /\ shared' = shared \cup
            (IF \E v \in Worker \ {w} : at[v] = r /\ ads[v] # {} THEN {r} ELSE {})
      /\ UNCHANGED <<tables, settled>>
  BY DEF Resume
<1>2. RunTypeOK'
  BY <1>1 DEF RunTypeOK, tables, PendingAds
<1>3. HandsAreOwned'
  BY <1>1 DEF HandsAreOwned, RunTypeOK, tables, PendingAds
<1>4. SharingIsNoticed'
  BY <1>1 DEF SharingIsNoticed, RunTypeOK
<1>5. SettledOnce'
  BY <1>1 DEF SettledOnce, RunTypeOK, tables, PendingAds
<1>6. QED
  BY <1>1, <1>2, <1>3, <1>4, <1>5 DEF tables

\* What becomes of an ad in a worker's hands.
LEMMA MarkKeepsRunInv ==
  ASSUME RunInv, NEW w \in Worker, NEW u \in Url, MarkDone(w, u) \/ MarkFailed(w, u)
  PROVE  RunInv'
<1> USE DEF RunInv
<1>1. PICK status \in {"done", "failed"} :
        /\ u \in ads[w] /\ adStatus' = Marked(at[w], u, status)
        /\ ads' = [ads EXCEPT ![w] = ads[w] \ {u}]
        /\ UNCHANGED <<runStatus, owner, rawDetails, at, shared>>
        /\ \/ /\ status = "done" /\ settled' = settled \cup {u} /\ u \in rawDetails
              /\ failures' = failures
           \/ /\ status = "failed" /\ settled' = settled
              /\ failures < MaxFailures /\ failures' = failures + 1
  BY DEF MarkDone, MarkFailed
<1>2. owner[u] = at[w] /\ at[w] \in Run
  BY <1>1 DEF HandsAreOwned
<1>3. adStatus' = [adStatus EXCEPT ![u] = status]
  BY <1>1, <1>2 DEF Marked
<1>4. adStatus[u] # "absent"
  BY <1>2, RunAssumption DEF RunTypeOK
<1>5. RunTypeOK'
  <2>1. failures' \in 0 .. MaxFailures
    BY <1>1, RunAssumption DEF RunTypeOK
  <2>2. adStatus' \in [Url -> {"absent", "pending", "done", "failed"}]
    BY <1>1, <1>3 DEF RunTypeOK
  <2>3. \A v \in Url : adStatus'[v] = "absent" <=> owner'[v] = NoRun
    BY <1>1, <1>3, <1>4 DEF RunTypeOK
  <2>4. QED
    BY <1>1, <2>1, <2>2, <2>3 DEF RunTypeOK
<1>6. \A v \in Worker : ads'[v] \subseteq ads[v]
  BY <1>1 DEF RunTypeOK
<1>7. HandsAreOwned' /\ SharingIsNoticed'
  BY <1>1, <1>6 DEF HandsAreOwned, SharingIsNoticed
<1>8. SettledOnce'
  <2> SUFFICES ASSUME NEW v \in Url
               PROVE  /\ owner[v] = NoRun => v \notin settled'
                      /\ owner[v] # NoRun /\ v \notin settled' => adStatus'[v] \in {"pending", "failed"}
                      /\ v \in settled' /\ owner[v] \notin shared =>
                            adStatus'[v] = "done" /\ \A x \in Worker : v \notin ads'[x]
    BY <1>1 DEF SettledOnce
  <2>1. CASE v # u
    BY <1>1, <1>3, <1>6, <2>1 DEF SettledOnce, RunTypeOK
  <2>2. CASE v = u
    <3>1. adStatus'[u] = status
      BY <1>3 DEF RunTypeOK
    <3>2. owner[u] \notin shared => u \notin settled
      BY <1>1, <1>2, <2>2 DEF SettledOnce
    <3>3. owner[u] \notin shared => \A x \in Worker : u \notin ads'[x]
      BY <1>1, <1>2 DEF HandsAreOwned, SharingIsNoticed, RunTypeOK
    <3>4. QED
      BY <1>1, <1>2, <2>2, <3>1, <3>2, <3>3, RunAssumption
  <2>3. QED
    BY <2>1, <2>2
<1>9. settled' \subseteq rawDetails'
  BY <1>1
<1>10. QED
  BY <1>5, <1>7, <1>8, <1>9

\* Every step, a stuttering one too, keeps the invariant of the pipeline's runs.
LEMMA StepRunInv == RunInv /\ [RunNext]_runVars => RunInv'
<1> SUFFICES ASSUME RunInv, [RunNext]_runVars PROVE RunInv'
  OBVIOUS
<1>1. CASE UNCHANGED runVars
  BY <1>1 DEF runVars, RunInv, RunTypeOK, HandsAreOwned, SharingIsNoticed, SettledOnce
<1>2. ASSUME NEW r \in Run, StartRun(r) \/ FinishRun(r) PROVE RunInv'
  BY <1>2 DEF StartRun, FinishRun, RunInv, RunTypeOK, HandsAreOwned, SharingIsNoticed, SettledOnce
<1>3. ASSUME NEW w \in Worker, DieWorking(w) PROVE RunInv'
  BY <1>3 DEF DieWorking, tables, RunInv, RunTypeOK, HandsAreOwned, SharingIsNoticed, SettledOnce
<1>4. ASSUME NEW w \in Worker, NEW u \in Url, SaveDetail(w, u) PROVE RunInv'
  BY <1>4 DEF SaveDetail, RunInv, RunTypeOK, HandsAreOwned, SharingIsNoticed, SettledOnce
<1>5. QED
  BY <1>1, <1>2, <1>3, <1>4, DiscoverKeepsRunInv, ResumeKeepsRunInv, MarkKeepsRunInv
     DEF RunNext

-----------------------------------------------------------------------------
(* AdRuns: the theorem.                                                    *)

\* storage.py and resume_state.py: however often an ad is discovered again and
\* whoever died, it is pending in exactly one run until that run says it is
\* done, and then in none, unless two workers resumed that run at once.
THEOREM AdsAreResumable == RunsSpec => []DiscoveredIsResumable
<1>1. RunInv => DiscoveredIsResumable
  BY DEF RunInv, SettledOnce, DiscoveredIsResumable, PendingAds
<1>2. QED
  BY InitRunInv, StepRunInv, <1>1, PTL DEF RunsSpec

-----------------------------------------------------------------------------
(* TrafficGuard: the inductive invariant.                                  *)

\* Five failures in a row use the health of a proxy up.
HealthTellsStrikes ==
    \A p \in Proxy : strikes[p] \in 0 .. 5 /\ health[p] <= 20 - 4 * strikes[p]

GuardInv ==
    /\ GuardTypeOK
    /\ clock \in 0 .. MaxClock
    /\ strikes \in [Proxy -> 0 .. 5]
    /\ rested \in [Fetcher -> BOOLEAN]
    /\ HealthTellsStrikes
    /\ \A f \in Fetcher : holds[f] # NoProxy => rested[f]

-----------------------------------------------------------------------------
(* TrafficGuard: the proofs about proxies.                                 *)

\* Initially the invariant of the traffic guard holds.
LEMMA InitGuardInv == GuardInit => GuardInv
<1> SUFFICES ASSUME GuardInit PROVE GuardInv
  OBVIOUS
<1>1. GuardTypeOK
  BY GuardAssumption DEF GuardInit, GuardTypeOK
<1>2. HealthTellsStrikes
  BY DEF GuardInit, HealthTellsStrikes
<1>3. strikes \in [Proxy -> 0 .. 5]
  BY DEF GuardInit
<1>4. QED
  BY <1>1, <1>2, <1>3, GuardAssumption DEF GuardInit, GuardInv

\* A proxy that is drawn has failed less than five times in a row.
LEMMA TakeKeepsGuardInv ==
  ASSUME GuardInv, NEW f \in Fetcher, TakeProxy(f), UNCHANGED signals
  PROVE  GuardInv'
<1>1. PICK p \in Proxy :
        /\ IsUsable(p)
        /\ holds' = [holds EXCEPT ![f] = p]
        /\ rested' = [rested EXCEPT ![f] = strikes[p] < 5 /\ clock >= until[p]]
  BY DEF TakeProxy
<1>2. UNCHANGED <<clock, health, until, strikes, signals>>
  BY DEF TakeProxy
<1>3. health[p] \in 0 .. 20 /\ strikes[p] \in 0 .. 5 /\ health[p] <= 20 - 4 * strikes[p]
  BY DEF GuardInv, GuardTypeOK, HealthTellsStrikes
<1>4. strikes[p] < 5 /\ clock >= until[p]
  BY <1>1, <1>3 DEF IsUsable
<1>5. rested' = [rested EXCEPT ![f] = TRUE]
  BY <1>1, <1>4
<1>6. rested' \in [Fetcher -> BOOLEAN]
  BY <1>5 DEF GuardInv
<1>7. GuardTypeOK' /\ HealthTellsStrikes'
  BY <1>1, <1>2 DEF GuardInv, GuardTypeOK, HealthTellsStrikes
<1>8. \A g \in Fetcher : holds'[g] # NoProxy => rested'[g]
  BY <1>1, <1>5 DEF GuardInv, GuardTypeOK
<1>9. QED
  BY <1>2, <1>6, <1>7, <1>8 DEF GuardInv

\* A report is counted once, and the proxy given back.
LEMMA ReportKeepsGuardInv ==
  ASSUME GuardInv, NEW f \in Fetcher, ProxySucceeds(f) \/ ProxyFails(f), UNCHANGED signals
  PROVE  GuardInv'
<1>1. PICK p \in Proxy : p = holds[f]
  BY DEF GuardInv, GuardTypeOK, ProxySucceeds, ProxyFails
<1>2. /\ health \in [Proxy -> 0 .. 20] /\ health[p] \in 0 .. 20 /\ strikes[p] \in 0 .. 5
      /\ health[p] <= 20 - 4 * strikes[p]
      /\ clock \in 0 .. MaxClock /\ MaxClock \in Nat /\ CooldownLength \in Nat
  BY GuardAssumption DEF GuardInv, GuardTypeOK, HealthTellsStrikes
<1>3. /\ holds' = [holds EXCEPT ![f] = NoProxy] /\ UNCHANGED <<clock, rested, signals>>
      /\ \E h \in 0 .. 20, n \in 0 .. 5 :
            /\ health' = [health EXCEPT ![p] = h]
            /\ strikes' = [strikes EXCEPT ![p] = n]
            /\ h <= 20 - 4 * n
  <2>1. CASE ProxySucceeds(f)
    <3>1. Least(20, health[p] + 1) \in 0 .. 20 /\ Least(20, health[p] + 1) <= 20 - 4 * 0
      BY <1>2 DEF Least
    <3>2. /\ health' = [health EXCEPT ![p] = Least(20, health[p] + 1)]
          /\ strikes' = [strikes EXCEPT ![p] = 0]
      BY <1>1, <2>1 DEF ProxySucceeds
    <3>3. /\ holds' = [holds EXCEPT ![f] = NoProxy]
          /\ UNCHANGED <<clock, rested, signals>>
      BY <2>1 DEF ProxySucceeds
    <3>4. \E h \in 0 .. 20, n \in 0 .. 5 :
            /\ health' = [health EXCEPT ![p] = h]
            /\ strikes' = [strikes EXCEPT ![p] = n]
            /\ h <= 20 - 4 * n
      <4>1. PICK h \in 0 .. 20 : h = Least(20, health[p] + 1)
        BY <3>1
      <4>2. h <= 20 - 4 * 0 /\ 0 \in 0 .. 5
        BY <3>1, <4>1
      <4>3. QED
        BY <3>2, <4>1, <4>2
    <3>5. QED
      BY <3>3, <3>4
  <2>2. CASE ProxyFails(f)
    <3>1. /\ Most(0, health[p] - 4) \in 0 .. 20 /\ Least(5, strikes[p] + 1) \in 0 .. 5
          /\ Most(0, health[p] - 4) <= 20 - 4 * Least(5, strikes[p] + 1)
      BY <1>2 DEF Least, Most
    <3>2. QED
      BY <1>1, <2>2, <3>1 DEF ProxyFails
  <2>3. QED
    BY <2>1, <2>2
<1>4. until' \in [Proxy -> 0 .. MaxClock + CooldownLength]
  <2>1. clock + CooldownLength \in 0 .. MaxClock + CooldownLength
    BY <1>2
  <2>2. QED
    BY <2>1 DEF ProxySucceeds, ProxyFails, GuardInv, GuardTypeOK
<1>5. GuardTypeOK' /\ strikes' \in [Proxy -> 0 .. 5]
  BY <1>2, <1>3, <1>4 DEF GuardInv, GuardTypeOK
<1>6. HealthTellsStrikes'
  <2>1. PICK h \in 0 .. 20, n \in 0 .. 5 :
          /\ health' = [health EXCEPT ![p] = h]
          /\ strikes' = [strikes EXCEPT ![p] = n]
          /\ h <= 20 - 4 * n
    BY <1>3
  <2>2. strikes \in [Proxy -> 0 .. 5]
    BY DEF GuardInv
  <2>3. ASSUME NEW q \in Proxy
        PROVE  strikes'[q] \in 0 .. 5 /\ health'[q] <= 20 - 4 * strikes'[q]
    <3>1. CASE q = p
      BY <1>2, <2>1, <2>2, <3>1
    <3>2. CASE q # p
      <4>1. strikes'[q] = strikes[q] /\ health'[q] = health[q]
        BY <1>2, <2>1, <2>2, <3>2
      <4>2. QED
        BY <4>1 DEF GuardInv, HealthTellsStrikes
    <3>3. QED
      BY <3>1, <3>2
  <2>4. QED
    BY <2>3 DEF HealthTellsStrikes
<1>7. \A g \in Fetcher : holds'[g] # NoProxy => rested'[g]
  BY <1>3 DEF GuardInv, GuardTypeOK
<1>8. QED
  BY <1>3, <1>5, <1>6, <1>7 DEF GuardInv

\* Every step, a stuttering one too, keeps the invariant of the traffic guard.
LEMMA StepGuardInv == GuardInv /\ [GuardNext]_guardVars => GuardInv'
<1> SUFFICES ASSUME GuardInv, [GuardNext]_guardVars PROVE GuardInv'
  OBVIOUS
<1>1. CASE UNCHANGED guardVars
  BY <1>1 DEF guardVars, proxyVars, GuardInv, GuardTypeOK, HealthTellsStrikes
<1>2. CASE Pass /\ UNCHANGED signals
  BY <1>2, GuardAssumption DEF Pass, GuardInv, GuardTypeOK, HealthTellsStrikes
<1>3. ASSUME NEW s \in Signal, RecordSignal(s), UNCHANGED proxyVars PROVE GuardInv'
  <2>1. signals' \in [Signal -> 0 .. MaxSignals]
    BY <1>3, GuardAssumption DEF RecordSignal, GuardInv, GuardTypeOK
  <2>2. QED
    BY <1>3, <2>1 DEF proxyVars, GuardInv, GuardTypeOK, HealthTellsStrikes
<1>4. QED
  BY <1>1, <1>2, <1>3, TakeKeepsGuardInv, ReportKeepsGuardInv
     DEF GuardNext, ProxyNext, ThrottleNext

-----------------------------------------------------------------------------
(* TrafficGuard: the proofs about the throttler.                           *)

\* The numbers a decision is made from.
LEMMA RiskNumbers ==
  ASSUME NEW s \in [Signal -> Nat]
  PROVE  /\ Lasting(s) \in Nat /\ Attempts(s) \in Nat /\ Attempts(s) >= 1
         /\ s["failure"] \in Nat /\ s["success"] \in Nat /\ RiskOf(s) \in Nat
<1>1. \A k \in Signal : s[k] \in Nat
  OBVIOUS
<1>2. /\ s["captcha"] \in Nat /\ s["restriction"] \in Nat /\ s["failure"] \in Nat
      /\ s["success"] \in Nat /\ s["proxy"] \in Nat /\ s["session"] \in Nat
  BY <1>1 DEF Signal
<1>3. Lasting(s) \in Nat
  BY <1>2 DEF Lasting, Capped, Least
<1>4. Attempts(s) \in Nat /\ Attempts(s) >= 1
  BY <1>2 DEF Attempts, Most
<1>5. RiskOf(s) \in Nat
  BY <1>2, <1>4 DEF RiskOf, Least
<1>6. QED
  BY <1>2, <1>3, <1>4, <1>5

\* What captchas, restriction pages, proxies and sessions weigh only grows.
LEMMA LastingGrows ==
  ASSUME NEW s \in [Signal -> Nat], NEW k \in Signal, NEW t, t = [s EXCEPT ![k] = s[k] + 1]
  PROVE  t \in [Signal -> Nat] /\ Lasting(t) >= Lasting(s)
<1>1. \A i \in Signal : s[i] \in Nat /\ t[i] \in Nat /\ t[i] >= s[i]
  OBVIOUS
<1>2. \A a, b, w, c \in Nat : a <= b => Least(c, a * w) <= Least(c, b * w)
                                     /\ Least(c, a * w) \in Nat /\ Least(c, b * w) \in Nat
  <2> TAKE a, b, w, c \in Nat
  <2> HAVE a <= b
  <2>1. a * w <= b * w /\ a * w \in Nat /\ b * w \in Nat
    OBVIOUS
  <2>2. QED
    BY <2>1 DEF Least
<1>3. \A i \in Signal, w, c \in Nat :
        /\ Capped(s[i], w, c) <= Capped(t[i], w, c)
        /\ Capped(s[i], w, c) \in Nat /\ Capped(t[i], w, c) \in Nat
  BY <1>1, <1>2 DEF Capped
<1>4. \A i \in {"captcha", "restriction", "proxy", "session"} : i \in Signal
  BY DEF Signal
<1>5. /\ Capped(s["captcha"], 15, 40) <= Capped(t["captcha"], 15, 40)
      /\ Capped(s["captcha"], 15, 40) \in Nat /\ Capped(t["captcha"], 15, 40) \in Nat
  BY <1>3, <1>4
<1>6. /\ Capped(s["restriction"], 12, 30) <= Capped(t["restriction"], 12, 30)
      /\ Capped(s["restriction"], 12, 30) \in Nat /\ Capped(t["restriction"], 12, 30) \in Nat
  BY <1>3, <1>4
<1>7. \A i \in {"proxy", "session"} :
        /\ Capped(s[i], 5, 20) <= Capped(t[i], 5, 20)
        /\ Capped(s[i], 5, 20) \in Nat /\ Capped(t[i], 5, 20) \in Nat
  BY <1>3, <1>4
<1>8. Lasting(t) >= Lasting(s)
  BY <1>5, <1>6, <1>7 DEF Lasting
<1>9. QED
  BY <1>8

\* Whatever is recorded, but for a success, a risk that was reached stays so.
LEMMA RiskStays ==
  ASSUME NEW s \in [Signal -> Nat], NEW k \in Signal, NEW t, t = [s EXCEPT ![k] = s[k] + 1],
         k # "success", NEW level \in Nat, level <= 85, RiskAtLeast(s, level)
  PROVE  RiskAtLeast(t, level)
<1> DEFINE a == Attempts(s)
           b == Attempts(t)
           l == Lasting(s)
           m == Lasting(t)
           f == s["failure"]
           g == t["failure"]
<1>1. t \in [Signal -> Nat] /\ m >= l
  BY LastingGrows
<1>10. m >= l
  BY <1>1
<1>2. /\ a \in Nat /\ a >= 1 /\ b \in Nat /\ b >= 1 /\ l \in Nat /\ m \in Nat
      /\ f \in Nat /\ g \in Nat
  BY <1>1, RiskNumbers
<1>3. "success" \in Signal /\ "failure" \in Signal
  BY DEF Signal
<1>4. l * a + Least(30 * a, 50 * f) >= level * a
  BY DEF RiskAtLeast, RiskOf
<1>5. SUFFICES m * b + Least(30 * b, 50 * g) >= level * b
  BY DEF RiskAtLeast, RiskOf
<1>6. CASE k # "failure"
  <2>1. g = f /\ b = a
    BY <1>3, <1>6 DEF Attempts
  <2>2. m * a >= l * a
    <3>1. m \in Nat /\ l \in Nat /\ m >= l
      BY <1>1, <1>2
    <3> HIDE DEF m, l, a
    <3>2. PICK d \in Nat : m = l + d
      <4>1. m - l \in Nat /\ m = l + (m - l)
        BY <3>1
      <4>2. QED
        BY <4>1
    <3>3. m * a = l * a + d * a /\ d * a \in Nat /\ l * a \in Nat
      BY <1>2, <3>2
    <3>4. QED
      BY <3>3
  <2> HIDE DEF a, b, l, m, f, g
  <2>3. m * a \in Nat /\ l * a \in Nat /\ level * a \in Nat /\ Least(30 * a, 50 * f) \in Nat
    BY <1>2 DEF Least
  <2>4. QED
    BY <1>4, <2>1, <2>2, <2>3
<1>7. CASE k = "failure"
  <2>1. g = f + 1 /\ (b = a \/ b = a + 1)
    BY <1>2, <1>3, <1>7 DEF Attempts, Most
  <2> HIDE DEF a, b, l, m, f, g
  <2>2. PICK d \in Int : d = level - l
    BY <1>2
  <2>3. d * a <= Least(30 * a, 50 * f)
    <3>1. d * a = level * a - l * a /\ level * a \in Nat /\ l * a \in Nat
      BY <1>2, <2>2
    <3>2. Least(30 * a, 50 * f) \in Nat
      BY <1>2 DEF Least
    <3>3. QED
      BY <1>4, <3>1, <3>2
  <2>4. d * a <= 30 * a /\ d * a <= 50 * f /\ d * a \in Int
    BY <1>2, <2>3 DEF Least
  <2>5. d <= 30
    <3>1. SUFFICES ASSUME d >= 31 PROVE FALSE
      OBVIOUS
    <3>2. PICK e \in Nat : d = 31 + e
      BY <3>1
    <3>3. d * a = 31 * a + e * a /\ e * a \in Nat
      BY <1>2, <3>2
    <3>4. QED
      BY <1>2, <2>4, <3>3
  <2>6. d * b <= 30 * b
    <3>1. PICK e \in Nat : 30 = d + e
      BY <2>5
    <3>2. 30 * b = d * b + e * b /\ e * b \in Nat /\ d * b \in Int
      BY <1>2, <3>1
    <3>3. QED
      BY <3>2
  <2>7. d * b <= 50 * g
    <3>1. d * b = d * a \/ d * b = d * a + d
      BY <1>2, <2>1
    <3>2. QED
      BY <1>2, <2>1, <2>4, <2>5, <3>1
  <2>8. d * b <= Least(30 * b, 50 * g)
    BY <2>6, <2>7 DEF Least
  <2>9. level * b - m * b <= d * b
    <3>1. PICK e \in Nat : m = l + e
      <4>1. m - l \in Nat /\ m = l + (m - l)
        BY <1>2, <1>10
      <4>2. QED
        BY <4>1
    <3>2. m * b = l * b + e * b /\ e * b \in Nat /\ l * b \in Nat
      BY <1>2, <3>1
    <3>3. d * b = level * b - l * b /\ level * b \in Nat
      BY <1>2, <2>2
    <3>4. QED
      BY <3>2, <3>3
  <2>10. level * b \in Nat /\ m * b \in Nat /\ d * b \in Int /\ Least(30 * b, 50 * g) \in Nat
    BY <1>2 DEF Least
  <2>11. QED
    BY <2>8, <2>9, <2>10
<1>8. QED
  BY <1>6, <1>7

\* A decision is no milder than another if it reaches what the other does.
LEMMA SeverityFollowsRisk ==
  ASSUME NEW s, NEW t,
         RiskAtLeast(s, 85) => RiskAtLeast(t, 85),
         RiskAtLeast(s, 60) => RiskAtLeast(t, 60),
         RiskAtLeast(s, 35) => RiskAtLeast(t, 35)
  PROVE  ~(Severity[Decision(t)] < Severity[Decision(s)])
<1>1. /\ Severity["continue"] = 0 /\ Severity["reduce_parallelism"] = 1
      /\ Severity["slow_down"] = 2 /\ Severity["pause_runtime"] = 3
  BY DEF Severity
<1>2. ASSUME NEW x
      PROVE  /\ RiskAtLeast(x, 85) => Decision(x) = "pause_runtime"
             /\ ~RiskAtLeast(x, 85) /\ RiskAtLeast(x, 60) => Decision(x) = "slow_down"
             /\ ~RiskAtLeast(x, 85) /\ ~RiskAtLeast(x, 60) /\ RiskAtLeast(x, 35) =>
                    Decision(x) = "reduce_parallelism"
             /\ ~RiskAtLeast(x, 85) /\ ~RiskAtLeast(x, 60) /\ ~RiskAtLeast(x, 35) =>
                    Decision(x) = "continue"
  BY DEF Decision
<1>3. CASE RiskAtLeast(t, 85)
  BY <1>1, <1>2, <1>3
<1>4. CASE ~RiskAtLeast(t, 85) /\ RiskAtLeast(t, 60)
  BY <1>1, <1>2, <1>4
<1>5. CASE ~RiskAtLeast(t, 85) /\ ~RiskAtLeast(t, 60) /\ RiskAtLeast(t, 35)
  BY <1>1, <1>2, <1>5
<1>6. CASE ~RiskAtLeast(t, 85) /\ ~RiskAtLeast(t, 60) /\ ~RiskAtLeast(t, 35)
  BY <1>1, <1>2, <1>6
<1>7. QED
  BY <1>3, <1>4, <1>5, <1>6

-----------------------------------------------------------------------------
(* TrafficGuard: the theorem.                                              *)

\* proxy_rotation.py and anti_ban_throttling.py: nobody is given a proxy that
\* failed five times in a row or is cooling down, the throttler becomes milder
\* only by a success, and what captchas, restriction pages and lost proxies and
\* sessions have paused stays paused.
THEOREM GuardSafety == GuardSpec => TrafficIsGuarded
<1> DEFINE Rests == GuardTypeOK /\ \A f \in Fetcher : holds[f] # NoProxy => rested[f]
           Milder == /\ Severity[Decision(signals)'] < Severity[Decision(signals)] =>
                            signals'["success"] > signals["success"]
                     /\ Lasting(signals) >= 85 => Decision(signals)' = "pause_runtime"
<1>1. GuardInv => Rests
  BY DEF GuardInv
<1>2. GuardInv /\ GuardNext => [Milder]_guardVars
  <2> SUFFICES ASSUME GuardInv, GuardNext, ~UNCHANGED guardVars PROVE Milder
    OBVIOUS
  <2>1. signals \in [Signal -> Nat]
    BY GuardAssumption DEF GuardInv, GuardTypeOK
  <2>2. signals' = signals \/ \E k \in Signal : signals' = [signals EXCEPT ![k] = signals[k] + 1]
    BY DEF GuardNext, ThrottleNext, RecordSignal
  <2>3. signals' \in [Signal -> Nat] /\ Lasting(signals') >= Lasting(signals)
    BY <2>1, <2>2, LastingGrows, RiskNumbers
  <2>4. Lasting(signals) >= 85 => Decision(signals)' = "pause_runtime"
    <3>0. RiskAtLeast(signals', 85) => Decision(signals)' = "pause_runtime"
      BY DEF Decision
    <3> SUFFICES ASSUME Lasting(signals) >= 85 PROVE RiskAtLeast(signals', 85)
      BY <3>0
    <3> DEFINE l == Lasting(signals')
               a == Attempts(signals')
               r == RiskOf(signals')
    <3>1. l \in Nat /\ l >= 85 /\ a \in Nat /\ r \in Nat
      BY <2>1, <2>3, RiskNumbers
    <3> SUFFICES l * a + r >= 85 * a
      BY DEF RiskAtLeast
    <3> HIDE DEF l, a, r
    <3>2. PICK d \in Nat : l = 85 + d
      BY <3>1
    <3>3. l * a = 85 * a + d * a /\ d * a \in Nat
      BY <3>1, <3>2
    <3>4. QED
      BY <3>1, <3>3
  <2>5. CASE signals' = signals
    <3>1. ~(Severity[Decision(signals')] < Severity[Decision(signals)])
      BY <2>5, SeverityFollowsRisk
    <3>2. QED
      BY <2>4, <3>1
  <2>6. ASSUME NEW k \in Signal, signals' = [signals EXCEPT ![k] = signals[k] + 1]
        PROVE  Milder
    <3>1. CASE k = "success"
      BY <2>1, <2>4, <2>6, <3>1
    <3>2. CASE k # "success"
      <4>1. /\ RiskAtLeast(signals, 85) => RiskAtLeast(signals', 85)
            /\ RiskAtLeast(signals, 60) => RiskAtLeast(signals', 60)
            /\ RiskAtLeast(signals, 35) => RiskAtLeast(signals', 35)
        <5> DEFINE next == signals'
        <5>1. next = [signals EXCEPT ![k] = signals[k] + 1]
          BY <2>6
        <5> HIDE DEF next
        <5>2. \A level \in Nat :
                level <= 85 /\ RiskAtLeast(signals, level) => RiskAtLeast(next, level)
          BY <2>1, <3>2, <5>1, RiskStays
        <5>3. \A level \in {85, 60, 35} : level \in Nat /\ level <= 85
          OBVIOUS
        <5>4. \A level \in {85, 60, 35} :
                RiskAtLeast(signals, level) => RiskAtLeast(next, level)
          BY <5>2, <5>3
        <5>5. QED
          BY <5>4 DEF next
      <4>2. ~(Severity[Decision(signals')] < Severity[Decision(signals)])
        BY <4>1, SeverityFollowsRisk
      <4>3. QED
        BY <2>4, <4>2
    <3>3. QED
      BY <3>1, <3>2
  <2>7. QED
    BY <2>2, <2>5, <2>6
<1>3. QED
  BY InitGuardInv, StepGuardInv, <1>1, <1>2, PTL DEF GuardSpec, TrafficIsGuarded

-----------------------------------------------------------------------------
(* AdPipeline: the inductive invariant.                                    *)

Exporting == {"csv", "jsonl"}

\* What leads say of the ads they were made from.
LeadsTell(leads, extracted) ==
    /\ UNION {l.ads : l \in leads} = extracted
    /\ \A l, k \in leads : l # k => l.ads \cap k.ads = {}
    /\ \A l \in leads :
           Cardinality(l.ads) > 1 => l.ads \subseteq sameOffer \/ l.status = "partial"

\* An ad is extracted once, and a page that did not open shows no city.
FitDetails(ds) ==
    /\ ds \subseteq Detail
    /\ \A d, e \in ds : d.ad = e.ad => d = e
    /\ \A d \in ds : d.status = "navigation_failed" => ~d.city

\* Every ad of a listing is still to do, extracted, or a failed ad.
Accounted(p) ==
    /\ FitDetails(details[p])
    /\ todo[p] \cap raised[p] = {}
    /\ \A a \in Ad : (\E d \in details[p] : d.ad = a) <=>
           a \in listed[p] /\ a \notin todo[p] /\ a \notin raised[p]
    /\ stage[p] \in Exporting => todo[p] = {}

PipelineShapes ==
    /\ todo \in [Pipeline -> SUBSET Ad]
    /\ raised \in [Pipeline -> SUBSET Ad]
    /\ details \in [Pipeline -> SUBSET Detail]

\* An export that nobody disturbs is alone with the two files.
FilesTell ==
    ~disturbed =>
        /\ \A p, q \in Pipeline : stage[p] \in Exporting /\ stage[q] \in Exporting => p = q
        /\ \A p \in Pipeline : stage[p] = "jsonl" => csv = UniqueLeads(details[p])
        /\ (\A p \in Pipeline : stage[p] \notin Exporting) =>
               csv = jsonl /\ LeadsTell(csv, exported.listed \ exported.raised)

PipelineInv ==
    /\ PipelineTypeOK
    /\ PipelineShapes
    /\ \A p \in Pipeline : Accounted(p)
    /\ FilesTell

-----------------------------------------------------------------------------
(* AdPipeline: the proofs about deduplication.                             *)

\* Merging keeps the ads, and the longest status there is.
LEMMA MergedIsLead ==
  ASSUME NEW ds \in SUBSET Detail, ds # {}
  PROVE  /\ Merged(ds) \in Lead
         /\ Merged(ds).ads = {d.ad : d \in ds}
         /\ Merged(ds).status \in {d.status : d \in ds}
<1> DEFINE S == {d.status : d \in ds}
           Longest(x) == \A d \in ds : Length(d.status) <= Length(x)
<1>1. \A d \in ds : d.status \in Status /\ d.ad \in Ad
  BY DEF Detail
<1>2. S \subseteq Status /\ S # {}
  BY <1>1
<1>3. /\ Length("ok") = 2 /\ Length("partial") = 7
      /\ Length("ok_with_warnings") = 16 /\ Length("navigation_failed") = 17
  BY DEF Length
<1>4. \E x \in S : \A y \in S : Length(y) <= Length(x)
  <2> HIDE DEF S
  <2>1. CASE "navigation_failed" \in S
    BY <1>2, <1>3, <2>1 DEF Status
  <2>2. CASE "navigation_failed" \notin S /\ "ok_with_warnings" \in S
    BY <1>2, <1>3, <2>2 DEF Status
  <2>3. CASE "navigation_failed" \notin S /\ "ok_with_warnings" \notin S /\ "partial" \in S
    BY <1>2, <1>3, <2>3 DEF Status
  <2>4. CASE S = {"ok"}
    BY <1>3, <2>4
  <2>5. QED
    BY <1>2, <2>1, <2>2, <2>3, <2>4 DEF Status
<1>5. PICK x \in S : Longest(x)
  BY <1>4
<1>6. (CHOOSE y \in S : Longest(y)) \in S
  <2> HIDE DEF S, Longest
  <2>1. QED
    BY <1>5
<1>7. /\ Merged(ds).ads = {d.ad : d \in ds}
      /\ Merged(ds).status = CHOOSE y \in S : Longest(y)
  BY DEF Merged
<1>8. Merged(ds) \in Lead
  BY <1>1, <1>2, <1>6 DEF Merged, Lead
<1>9. QED
  BY <1>6, <1>7, <1>8

\* Ads are one lead only if they show the same offer, or neither phone nor title.
LEMMA SameKeySameOffer ==
  ASSUME NEW d \in Detail, NEW e \in Detail, IdentityKey(e) = IdentityKey(d),
         d.status = "navigation_failed" => ~d.city,
         e.status = "navigation_failed" => ~e.city
  PROVE  \/ e.ad = d.ad
         \/ d.status # "partial" /\ e.ad \in sameOffer /\ d.ad \in sameOffer
         \/ e.status = "partial" /\ d.status = "partial"
<1>1. d.status \in Status /\ e.status \in Status /\ d.city \in BOOLEAN /\ e.city \in BOOLEAN
  BY DEF Detail
<1>2. CASE d.status \in {"ok", "ok_with_warnings"}
  <2>1. e.status \in {"ok", "ok_with_warnings"}
    BY <1>2 DEF IdentityKey
  <2>2. (IF d.ad \in sameOffer THEN sameOffer ELSE {d.ad})
            = (IF e.ad \in sameOffer THEN sameOffer ELSE {e.ad})
    BY <1>2, <2>1 DEF IdentityKey
  <2>3. d.status # "partial" /\ (e.ad = d.ad \/ (e.ad \in sameOffer /\ d.ad \in sameOffer))
    BY <1>2, <2>2
  <2>4. QED
    BY <2>3
<1>3. CASE d.status \notin {"ok", "ok_with_warnings"}
  <2>1. e.status \notin {"ok", "ok_with_warnings"}
    BY <1>3 DEF IdentityKey
  <2>2. CASE d.city
    <3>1. e.city
      BY <1>3, <2>1, <2>2 DEF IdentityKey
    <3>2. QED
      BY <1>1, <1>3, <2>1, <2>2, <3>1 DEF Status
  <2>3. CASE ~d.city
    BY <1>3, <2>1, <2>3 DEF IdentityKey
  <2>4. QED
    BY <1>1, <2>2, <2>3
<1>4. QED
  BY <1>2, <1>3

\* Deduplicated, every ad is in exactly one lead.
LEMMA UniqueLeadsTell ==
  ASSUME NEW ds, FitDetails(ds)
  PROVE  /\ UniqueLeads(ds) \subseteq Lead
         /\ LeadsTell(UniqueLeads(ds), {d.ad : d \in ds})
<1> DEFINE Twins(d) == {e \in ds : IdentityKey(e) = IdentityKey(d)}
<1>1. /\ ds \in SUBSET Detail
      /\ \A d, e \in ds : d.ad = e.ad => d = e
      /\ \A d \in ds : d.status = "navigation_failed" => ~d.city
  BY DEF FitDetails
<1>2. ASSUME NEW d \in ds
      PROVE  /\ Merged(Twins(d)) \in Lead
             /\ Merged(Twins(d)).ads = {e.ad : e \in Twins(d)}
             /\ Merged(Twins(d)).status \in {e.status : e \in Twins(d)}
  <2>1. Twins(d) \in SUBSET Detail /\ Twins(d) # {}
    BY <1>1
  <2>2. QED
    BY <2>1, MergedIsLead
<1>3. UniqueLeads(ds) = {Merged(Twins(d)) : d \in ds}
  BY DEF UniqueLeads
<1> HIDE DEF Twins
<1>4. UniqueLeads(ds) \subseteq Lead
  BY <1>2, <1>3
<1>5. UNION {l.ads : l \in UniqueLeads(ds)} = {d.ad : d \in ds}
  <2>1. \A d \in ds : d \in Twins(d) /\ Twins(d) \subseteq ds
    BY DEF Twins
  <2>2. ASSUME NEW a, a \in UNION {l.ads : l \in UniqueLeads(ds)}
        PROVE  a \in {d.ad : d \in ds}
    <3>1. PICK d \in ds : a \in Merged(Twins(d)).ads
      BY <1>3, <2>2
    <3>2. QED
      BY <1>2, <2>1, <3>1
  <2>3. ASSUME NEW d \in ds
        PROVE  d.ad \in UNION {l.ads : l \in UniqueLeads(ds)}
    <3>1. d.ad \in Merged(Twins(d)).ads
      BY <1>2, <2>1
    <3>2. QED
      BY <1>3, <3>1
  <2>4. QED
    BY <2>2, <2>3
<1>6. ASSUME NEW l \in UniqueLeads(ds), NEW k \in UniqueLeads(ds), l.ads \cap k.ads # {}
      PROVE  l = k
  <2>1. PICK d \in ds, e \in ds : l = Merged(Twins(d)) /\ k = Merged(Twins(e))
    BY <1>3
  <2>2. PICK x \in Twins(d), y \in Twins(e) : x.ad = y.ad
    BY <1>2, <1>6, <2>1
  <2>3. x \in ds /\ y \in ds
    BY DEF Twins
  <2>4. x = y
    BY <1>1, <2>2, <2>3
  <2>5. IdentityKey(d) = IdentityKey(e)
    BY <2>4 DEF Twins
  <2>6. QED
    BY <2>1, <2>5 DEF Twins
<1>7. ASSUME NEW l \in UniqueLeads(ds), Cardinality(l.ads) > 1
      PROVE  l.ads \subseteq sameOffer \/ l.status = "partial"
  <2>1. PICK d \in ds : l = Merged(Twins(d))
    BY <1>3
  <2>2. \A e \in Twins(d) : \/ e.ad = d.ad
                            \/ /\ d.status # "partial"
                               /\ e.ad \in sameOffer /\ d.ad \in sameOffer
                            \/ e.status = "partial" /\ d.status = "partial"
    BY <1>1, SameKeySameOffer DEF Twins
  <2>3. PICK f \in Twins(d) : f.ad # d.ad
    <3>1. SUFFICES ASSUME \A e \in Twins(d) : e.ad = d.ad PROVE FALSE
      OBVIOUS
    <3>2. d \in Twins(d)
      BY DEF Twins
    <3>3. l.ads = {d.ad}
      BY <1>2, <2>1, <3>1, <3>2
    <3>4. Cardinality({d.ad}) = 1
      BY FS_Singleton
    <3>5. QED
      BY <1>7, <3>3, <3>4
  <2>4. CASE d.status = "partial"
    <3>1. \A e \in Twins(d) : e.status = "partial"
      BY <1>1, <2>2, <2>4 DEF Twins
    <3>2. QED
      BY <1>2, <2>1, <3>1
  <2>5. CASE d.status # "partial"
    <3>1. d.ad \in sameOffer
      BY <2>2, <2>3, <2>5
    <3>2. \A e \in Twins(d) : e.ad \in sameOffer
      BY <2>2, <2>5, <3>1
    <3>3. QED
      BY <1>2, <2>1, <3>2
  <2>6. QED
    BY <2>4, <2>5
<1>8. QED
  BY <1>4, <1>5, <1>6, <1>7 DEF LeadsTell

-----------------------------------------------------------------------------
(* AdPipeline: the proofs of the steps.                                    *)

\* Initially the invariant of the ad pipeline holds.
LEMMA InitPipelineInv == PipelineInit => PipelineInv
<1> SUFFICES ASSUME PipelineInit PROVE PipelineInv
  OBVIOUS
<1>1. PipelineShapes
  BY DEF PipelineInit, PipelineShapes
<1>6. PipelineTypeOK
  <2>1. runs \in 0 .. MaxRuns /\ sameOffer \subseteq Ad
    BY AdAssumption DEF PipelineInit
  <2>5. disturbed \in BOOLEAN
    BY DEF PipelineInit
  <2>2. csv \subseteq Lead /\ jsonl \subseteq Lead
    BY DEF PipelineInit
  <2>3. /\ stage \in [Pipeline -> {"idle", "details", "csv", "jsonl"}]
        /\ listed \in [Pipeline -> SUBSET Ad]
        /\ \A p \in Pipeline : todo[p] \subseteq listed[p] /\ raised[p] \subseteq listed[p]
        /\ \A p \in Pipeline : details[p] \subseteq Detail
    BY DEF PipelineInit
  <2>4. QED
    BY <2>1, <2>2, <2>3, <2>5 DEF PipelineTypeOK
<1>2. \A p \in Pipeline : Accounted(p)
  BY DEF PipelineInit, Accounted, FitDetails, Exporting
<1>3. LeadsTell({}, {})
  BY DEF LeadsTell
<1>4. FilesTell
  BY <1>3 DEF PipelineInit, FilesTell, Exporting
<1>5. QED
  BY <1>1, <1>2, <1>4, <1>6 DEF PipelineInv

\* A step of one pipeline leaves the account of another as it was.
LEMMA OthersStayAccounted ==
  ASSUME PipelineInv, NEW p \in Pipeline, NEW q \in Pipeline, q # p,
         details'[q] = details[q], todo'[q] = todo[q], raised'[q] = raised[q],
         listed'[q] = listed[q], stage'[q] = stage[q]
  PROVE  Accounted(q)'
BY DEF PipelineInv, Accounted, FitDetails

\* Which leads an extraction makes does not change.
LEMMA LeadsStay ==
  ASSUME NEW x, sameOffer' = sameOffer
  PROVE  UniqueLeads(x)' = UniqueLeads(x)
<1> DEFINE Before(d) == {e \in x : IdentityKey(e) = IdentityKey(d)}
           After(d) == {e \in x : IdentityKey(e)' = IdentityKey(d)'}
<1>1. \A d \in x : IdentityKey(d)' = IdentityKey(d)
  BY DEF IdentityKey
<1>2. ASSUME NEW d \in x PROVE After(d) = Before(d)
  BY <1>1
<1>3. UniqueLeads(x) = {Merged(Before(d)) : d \in x}
  BY DEF UniqueLeads
<1>4. UniqueLeads(x)' = {Merged(After(d)) : d \in x}
  BY DEF UniqueLeads
<1> HIDE DEF Before, After
<1>5. QED
  BY <1>2, <1>3, <1>4

\* A step that is no export leaves what is known of the two files.
LEMMA FilesStay ==
  ASSUME PipelineInv, UNCHANGED <<sameOffer, csv, jsonl, exported, disturbed>>,
         \A q \in Pipeline : /\ stage'[q] \in Exporting <=> stage[q] \in Exporting
                             /\ stage'[q] = "jsonl" <=> stage[q] = "jsonl"
                             /\ stage'[q] = "jsonl" => details'[q] = details[q]
  PROVE  FilesTell'
<1> SUFFICES ASSUME ~disturbed' PROVE
        /\ \A p, q \in Pipeline : stage'[p] \in Exporting /\ stage'[q] \in Exporting => p = q
        /\ \A p \in Pipeline : stage'[p] = "jsonl" => csv' = UniqueLeads(details[p])'
        /\ (\A p \in Pipeline : stage'[p] \notin Exporting) =>
               csv' = jsonl' /\ LeadsTell(csv, exported.listed \ exported.raised)'
  BY DEF FilesTell, Exporting
<1>1. ~disturbed
  OBVIOUS
<1>2. \A p, q \in Pipeline : stage'[p] \in Exporting /\ stage'[q] \in Exporting => p = q
  BY <1>1 DEF PipelineInv, FilesTell
<1>3. ASSUME NEW p \in Pipeline, stage'[p] = "jsonl" PROVE csv' = UniqueLeads(details[p])'
  <2>1. PICK x : x = details[p]
    OBVIOUS
  <2>2. details'[p] = x
    BY <1>3, <2>1
  <2>3. csv = UniqueLeads(x)
    BY <1>1, <1>3, <2>1 DEF PipelineInv, FilesTell
  <2>4. UniqueLeads(x)' = UniqueLeads(x)
    BY LeadsStay
  <2>5. UniqueLeads(details[p])' = UniqueLeads(x)'
    BY <2>2
  <2>6. QED
    BY <2>3, <2>4, <2>5
<1>4. ASSUME \A p \in Pipeline : stage'[p] \notin Exporting
      PROVE  csv' = jsonl' /\ LeadsTell(csv, exported.listed \ exported.raised)'
  <2>1. csv = jsonl /\ LeadsTell(csv, exported.listed \ exported.raised)
    BY <1>1, <1>4 DEF PipelineInv, FilesTell
  <2>2. QED
    BY <2>1 DEF LeadsTell
<1>5. QED
  BY <1>2, <1>3, <1>4

\* What the details of a pipeline say when nothing is left to do.
LEMMA ExtractedTell ==
  ASSUME PipelineInv, NEW p \in Pipeline, todo[p] = {}
  PROVE  /\ UniqueLeads(details[p]) \subseteq Lead
         /\ LeadsTell(UniqueLeads(details[p]), listed[p] \ raised[p])
<1>1. FitDetails(details[p]) /\ listed[p] \subseteq Ad
  BY DEF PipelineInv, Accounted, PipelineTypeOK
<1>2. {d.ad : d \in details[p]} = listed[p] \ raised[p]
  <2>1. \A d \in details[p] : d.ad \in Ad
    BY <1>1 DEF FitDetails, Detail
  <2>2. \A a \in Ad : (\E d \in details[p] : d.ad = a) <=> a \in listed[p] /\ a \notin raised[p]
    BY DEF PipelineInv, Accounted
  <2>3. QED
    BY <1>1, <2>1, <2>2
<1>3. QED
  BY <1>1, <1>2, UniqueLeadsTell

\* A crawl begins a new account.
LEMMA CrawlKeepsInv ==
  ASSUME PipelineInv, NEW p \in Pipeline, Crawl(p) \/ CrawlFails(p)
  PROVE  PipelineInv'
<1>1. CASE Crawl(p)
  <2>1. PICK found \in SUBSET Ad :
          listed' = [listed EXCEPT ![p] = found] /\ todo' = [todo EXCEPT ![p] = found]
    BY <1>1 DEF Crawl
  <2>2. /\ details' = [details EXCEPT ![p] = {}] /\ raised' = [raised EXCEPT ![p] = {}]
        /\ stage' = [stage EXCEPT ![p] = "details"] /\ stage[p] = "idle"
        /\ UNCHANGED <<sameOffer, csv, jsonl, exported, disturbed>>
        /\ runs' = runs + 1 /\ runs < MaxRuns
    BY <1>1 DEF Crawl, Enter
  <2>3. PipelineTypeOK' /\ PipelineShapes'
    BY <2>1, <2>2, AdAssumption DEF PipelineInv, PipelineTypeOK, PipelineShapes
  <2>4. ASSUME NEW q \in Pipeline PROVE Accounted(q)'
    <3>1. CASE q = p
      BY <2>1, <2>2, <3>1 DEF PipelineInv, PipelineTypeOK, PipelineShapes, Accounted,
         FitDetails, Exporting
    <3>2. CASE q # p
      <4>1. /\ details'[q] = details[q] /\ todo'[q] = todo[q] /\ raised'[q] = raised[q]
            /\ listed'[q] = listed[q] /\ stage'[q] = stage[q]
        BY <2>1, <2>2, <3>2 DEF PipelineInv, PipelineTypeOK, PipelineShapes
      <4>2. QED
        BY <3>2, <4>1, OthersStayAccounted
    <3>3. QED
      BY <3>1, <3>2
  <2>5. FilesTell'
    <3>1. \A q \in Pipeline : /\ stage'[q] \in Exporting <=> stage[q] \in Exporting
                              /\ stage'[q] = "jsonl" <=> stage[q] = "jsonl"
                              /\ stage'[q] = "jsonl" => details'[q] = details[q]
      BY <2>2 DEF PipelineInv, PipelineTypeOK, PipelineShapes, Exporting
    <3>2. UNCHANGED <<sameOffer, csv, jsonl, exported, disturbed>>
      BY <2>2
    <3>3. QED
      BY <3>1, <3>2, FilesStay
  <2>6. QED
    BY <2>3, <2>4, <2>5 DEF PipelineInv
<1>2. CASE CrawlFails(p)
  <2>1. /\ UNCHANGED <<sameOffer, stage, listed, todo, details, raised, csv, jsonl,
                       exported, disturbed>>
        /\ runs' \in 0 .. MaxRuns
    BY <1>2, AdAssumption DEF CrawlFails, PipelineInv, PipelineTypeOK
  <2>2. FilesTell'
    BY <2>1, FilesStay
  <2>3. QED
    BY <2>1, <2>2 DEF PipelineInv, PipelineTypeOK, PipelineShapes, Accounted, FitDetails
<1>3. QED
  BY <1>1, <1>2

\* An ad that was to do becomes an extracted or a failed one.
LEMMA ExtractKeepsInv ==
  ASSUME PipelineInv, NEW p \in Pipeline, Extract(p) \/ ExtractRaises(p)
  PROVE  PipelineInv'
<1> USE DEF PipelineShapes
<1>1. /\ stage[p] = "details"
      /\ UNCHANGED <<sameOffer, stage, listed, csv, jsonl, exported, disturbed, runs>>
  BY DEF Extract, ExtractRaises
<1>2. PICK a \in todo[p] : todo' = [todo EXCEPT ![p] = todo[p] \ {a}]
                           /\ \/ /\ raised' = raised
                                 /\ \E d \in Detail :
                                       /\ d.ad = a
                                       /\ d.status = "navigation_failed" => ~d.city
                                       /\ details' = [details EXCEPT ![p] = details[p] \cup {d}]
                              \/ /\ details' = details
                                 /\ raised' = [raised EXCEPT ![p] = raised[p] \cup {a}]
  <2>1. CASE Extract(p)
    <3>1. PICK a \in todo[p], status \in Status, city \in BOOLEAN :
            /\ status = "navigation_failed" => ~city
            /\ todo' = [todo EXCEPT ![p] = todo[p] \ {a}]
            /\ details' = [details EXCEPT
                   ![p] = details[p] \cup {[ad |-> a, status |-> status, city |-> city]}]
      BY <2>1 DEF Extract
    <3>2. raised' = raised
      BY <2>1 DEF Extract
    <3>3. a \in Ad
      BY DEF PipelineInv, PipelineTypeOK
    <3>4. PICK d \in Detail : d = [ad |-> a, status |-> status, city |-> city]
      BY <3>3 DEF Detail
    <3>5. d.ad = a /\ (d.status = "navigation_failed" => ~d.city)
      BY <3>1, <3>4
    <3>6. details' = [details EXCEPT ![p] = details[p] \cup {d}]
      BY <3>1, <3>4
    <3>7. QED
      BY <3>1, <3>2, <3>5, <3>6
  <2>2. CASE ExtractRaises(p)
    BY <2>2 DEF ExtractRaises
  <2>3. QED
    BY <2>1, <2>2
<1>3. a \in Ad /\ a \in listed[p] /\ a \notin raised[p]
  BY DEF PipelineInv, PipelineTypeOK, Accounted
<1>4. PipelineTypeOK' /\ PipelineShapes'
  <2>1. /\ todo' \in [Pipeline -> SUBSET Ad] /\ raised' \in [Pipeline -> SUBSET Ad]
        /\ details' \in [Pipeline -> SUBSET Detail]
    BY <1>2, <1>3 DEF PipelineInv
  <2>2. \A q \in Pipeline : todo'[q] \subseteq listed'[q] /\ raised'[q] \subseteq listed'[q]
    BY <1>1, <1>2, <1>3 DEF PipelineInv, PipelineTypeOK
  <2>3. QED
    BY <1>1, <2>1, <2>2 DEF PipelineInv, PipelineTypeOK
<1>5. ASSUME NEW q \in Pipeline PROVE Accounted(q)'
  <2>1. CASE q # p
    <3>1. /\ details'[q] = details[q] /\ todo'[q] = todo[q] /\ raised'[q] = raised[q]
          /\ listed'[q] = listed[q] /\ stage'[q] = stage[q]
      BY <1>1, <1>2, <2>1 DEF PipelineInv, PipelineTypeOK
    <3>2. QED
      BY <2>1, <3>1, OthersStayAccounted
  <2>2. CASE q = p
    <3>1. todo'[p] = todo[p] \ {a} /\ stage'[p] \notin Exporting /\ listed'[p] = listed[p]
      BY <1>1, <1>2 DEF PipelineInv, Exporting
    <3>2. CASE /\ raised' = raised
               /\ \E d \in Detail :
                     /\ d.ad = a
                     /\ d.status = "navigation_failed" => ~d.city
                     /\ details' = [details EXCEPT ![p] = details[p] \cup {d}]
      <4>1. PICK d \in Detail : /\ d.ad = a
                                /\ d.status = "navigation_failed" => ~d.city
                                /\ details' = [details EXCEPT ![p] = details[p] \cup {d}]
        BY <3>2
      <4>2. details'[p] = details[p] \cup {d} /\ raised'[p] = raised[p]
        BY <3>2, <4>1 DEF PipelineInv
      <4>3. \A e \in details[p] : e.ad # a
        BY <1>3 DEF PipelineInv, Accounted
      <4>4. FitDetails(details[p])
        BY DEF PipelineInv, Accounted
      <4>5. FitDetails(details[p] \cup {d})
        BY <4>1, <4>3, <4>4 DEF FitDetails
      <4>6. FitDetails(details[p])'
        BY <4>2, <4>5 DEF FitDetails
      <4>7. \A b \in Ad : (\E e \in details'[p] : e.ad = b) <=>
                b \in listed'[p] /\ b \notin todo'[p] /\ b \notin raised'[p]
        <5>1. \A b \in Ad : (\E e \in details[p] : e.ad = b) <=>
                b \in listed[p] /\ b \notin todo[p] /\ b \notin raised[p]
          BY DEF PipelineInv, Accounted
        <5>2. \A b \in Ad : (\E e \in details'[p] : e.ad = b) <=>
                (\E e \in details[p] : e.ad = b) \/ b = a
          BY <4>1, <4>2
        <5>3. QED
          BY <1>3, <3>1, <4>2, <5>1, <5>2
      <4>8. todo'[p] \cap raised'[p] = {}
        BY <3>1, <4>2 DEF PipelineInv, Accounted
      <4>9. QED
        BY <2>2, <3>1, <4>6, <4>7, <4>8 DEF Accounted
    <3>3. CASE /\ details' = details
               /\ raised' = [raised EXCEPT ![p] = raised[p] \cup {a}]
      <4>1. details'[p] = details[p] /\ raised'[p] = raised[p] \cup {a}
        BY <3>3 DEF PipelineInv
      <4>2. FitDetails(details[p])'
        BY <4>1 DEF PipelineInv, Accounted, FitDetails
      <4>3. todo'[p] \cap raised'[p] = {}
        BY <3>1, <4>1 DEF PipelineInv, Accounted
      <4>4. \A b \in Ad : (\E e \in details'[p] : e.ad = b) <=>
                b \in listed'[p] /\ b \notin todo'[p] /\ b \notin raised'[p]
        BY <1>3, <3>1, <4>1 DEF PipelineInv, Accounted
      <4>5. QED
        BY <2>2, <3>1, <4>2, <4>3, <4>4 DEF Accounted
    <3>4. QED
      BY <1>2, <3>2, <3>3
  <2>3. QED
    BY <2>1, <2>2
<1>6. FilesTell'
  <2>1. \A q \in Pipeline : /\ stage'[q] \in Exporting <=> stage[q] \in Exporting
                            /\ stage'[q] = "jsonl" <=> stage[q] = "jsonl"
                            /\ stage'[q] = "jsonl" => details'[q] = details[q]
    BY <1>1, <1>2 DEF PipelineInv
  <2>2. QED
    BY <1>1, <2>1, FilesStay
<1>7. QED
  BY <1>4, <1>5, <1>6 DEF PipelineInv

\* Every run and no other writes what it extracted, a death but a part of it.
LEMMA ExportKeepsInv ==
  ASSUME PipelineInv, NEW p \in Pipeline,
         OpenCsv(p) \/ WriteCsv(p) \/ WriteJsonl(p) \/ ReturnUnexported(p) \/ DiePipeline(p)
  PROVE  PipelineInv'
<1>1. /\ UNCHANGED <<sameOffer, listed, todo, details, raised, runs>>
      /\ \E to \in {"idle", "csv", "jsonl"} :
            /\ stage' = [stage EXCEPT ![p] = to]
            /\ to = "csv" => todo[p] = {}
            /\ to = "jsonl" => stage[p] = "csv"
  BY DEF OpenCsv, WriteCsv, WriteJsonl, ReturnUnexported, DiePipeline, Enter
<1>2. PICK to \in {"idle", "csv", "jsonl"} :
            /\ stage' = [stage EXCEPT ![p] = to]
            /\ to = "csv" => todo[p] = {}
            /\ to = "jsonl" => stage[p] = "csv"
  BY <1>1
<1>3. stage \in [Pipeline -> {"idle", "details", "csv", "jsonl"}] /\ disturbed \in BOOLEAN
  BY DEF PipelineInv, PipelineTypeOK
<1>4. \A q \in Pipeline : stage'[q] \in Exporting => todo'[q] = {}
  BY <1>1, <1>2, <1>3 DEF PipelineInv, Accounted, Exporting
<1>5. \A q \in Pipeline : Accounted(q)'
  BY <1>1, <1>4 DEF PipelineInv, Accounted, FitDetails
<1>6. stage[p] \in Exporting =>
        /\ UniqueLeads(details[p]) \subseteq Lead
        /\ LeadsTell(UniqueLeads(details[p]), listed[p] \ raised[p])
  BY ExtractedTell DEF PipelineInv, Accounted
<1>7. \A x \in {csv', jsonl'} : x = Unreadable \/ x \subseteq Lead
  <2>1. \A x \in {csv, jsonl} : x = Unreadable \/ x \subseteq Lead
    BY DEF PipelineInv, PipelineTypeOK
  <2>2. \/ csv' \in {csv, Unreadable}
        \/ stage[p] \in Exporting /\ csv' = UniqueLeads(details[p])
    BY DEF OpenCsv, WriteCsv, WriteJsonl, ReturnUnexported, DiePipeline, Enter, Exporting
  <2>3. \/ jsonl' \in {jsonl, Unreadable}
        \/ stage[p] \in Exporting /\ jsonl' = UniqueLeads(details[p])
    BY DEF OpenCsv, WriteCsv, WriteJsonl, ReturnUnexported, DiePipeline, Enter, Exporting
  <2>4. QED
    BY <1>6, <2>1, <2>2, <2>3
<1>8. disturbed' \in BOOLEAN
  BY <1>3 DEF OpenCsv, WriteCsv, WriteJsonl, ReturnUnexported, DiePipeline
<1>9. PipelineTypeOK' /\ PipelineShapes'
  <2>1. stage' \in [Pipeline -> {"idle", "details", "csv", "jsonl"}]
    BY <1>2, <1>3
  <2>2. QED
    BY <1>1, <1>7, <1>8, <2>1 DEF PipelineInv, PipelineTypeOK, PipelineShapes, Unreadable
<1>10. CASE stage[p] \notin Exporting /\ stage'[p] \notin Exporting
  <2>1. UNCHANGED <<csv, jsonl, exported, disturbed>>
    BY <1>3, <1>10 DEF OpenCsv, WriteCsv, WriteJsonl, ReturnUnexported, DiePipeline, Enter,
       Exporting, PipelineInv, PipelineTypeOK
  <2>2. \A q \in Pipeline : /\ stage'[q] \in Exporting <=> stage[q] \in Exporting
                            /\ stage'[q] = "jsonl" <=> stage[q] = "jsonl"
                            /\ stage'[q] = "jsonl" => details'[q] = details[q]
    BY <1>1, <1>2, <1>3, <1>10 DEF Exporting
  <2>3. FilesTell'
    BY <1>1, <2>1, <2>2, FilesStay
  <2>4. QED
    BY <1>5, <1>9, <2>3 DEF PipelineInv
<1>11. CASE disturbed'
  BY <1>5, <1>9, <1>11 DEF PipelineInv, FilesTell
<1>12. CASE OpenCsv(p) /\ ~disturbed'
  <2>1. ~Others(p, {"csv", "jsonl"}) /\ stage' = [stage EXCEPT ![p] = "csv"]
    BY <1>12 DEF OpenCsv, Enter
  <2>2. \A q \in Pipeline : stage'[q] \in Exporting <=> q = p
    BY <1>3, <2>1 DEF Others, Exporting
  <2>3. \A q \in Pipeline : stage'[q] # "jsonl"
    BY <1>3, <2>1 DEF Others
  <2>4. FilesTell'
    BY <2>2, <2>3 DEF FilesTell, Exporting
  <2>5. QED
    BY <1>5, <1>9, <2>4 DEF PipelineInv
<1>13. CASE WriteCsv(p) /\ ~disturbed'
  <2>1. /\ stage[p] = "csv" /\ stage' = [stage EXCEPT ![p] = "jsonl"] /\ ~disturbed
        /\ csv' = IF Others(p, {"csv"}) THEN Unreadable ELSE UniqueLeads(details[p])
    BY <1>13 DEF WriteCsv, Enter
  <2>2. \A q \in Pipeline : stage[q] \in Exporting => q = p
    BY <2>1 DEF PipelineInv, FilesTell, Exporting
  <2>3. csv' = UniqueLeads(details[p])
    BY <2>1, <2>2 DEF Others, Exporting
  <2>4. \A q \in Pipeline : stage'[q] \in Exporting => q = p
    BY <1>3, <2>1, <2>2
  <2>5. csv' = UniqueLeads(details[p])'
    <3>1. PICK x : x = details[p]
      OBVIOUS
    <3>2. UniqueLeads(x)' = UniqueLeads(x)
      BY <1>1, LeadsStay
    <3>3. details'[p] = x
      BY <1>1, <3>1
    <3>4. UniqueLeads(details[p])' = UniqueLeads(x)'
      BY <3>3
    <3>5. QED
      BY <2>3, <3>1, <3>2, <3>4
  <2>6. \E q \in Pipeline : stage'[q] \in Exporting
    BY <1>3, <2>1 DEF Exporting
  <2>7. FilesTell'
    <3>1. \A q, r \in Pipeline : stage'[q] \in Exporting /\ stage'[r] \in Exporting => q = r
      BY <2>4
    <3>2. ASSUME NEW q \in Pipeline, stage'[q] = "jsonl" PROVE csv' = UniqueLeads(details[q])'
      <4>1. q = p
        BY <2>4, <3>2 DEF Exporting
      <4>2. QED
        BY <2>5, <4>1
    <3>3. QED
      BY <2>6, <3>1, <3>2 DEF FilesTell, Exporting
  <2>8. QED
    BY <1>5, <1>9, <2>7 DEF PipelineInv
<1>14. CASE WriteJsonl(p) /\ ~disturbed'
  <2>1. /\ stage[p] = "jsonl" /\ stage' = [stage EXCEPT ![p] = "idle"] /\ ~disturbed
        /\ jsonl' = IF Others(p, {"jsonl"}) THEN Unreadable ELSE UniqueLeads(details[p])
        /\ exported' = [listed |-> listed[p], raised |-> raised[p]]
        /\ csv' = csv
    BY <1>14 DEF WriteJsonl, Enter
  <2>2. \A q \in Pipeline : stage[q] \in Exporting => q = p
    BY <2>1 DEF PipelineInv, FilesTell, Exporting
  <2>3. jsonl' = UniqueLeads(details[p])
    BY <2>1, <2>2 DEF Others, Exporting
  <2>4. csv = UniqueLeads(details[p])
    BY <2>1 DEF PipelineInv, FilesTell
  <2>5. LeadsTell(csv, exported.listed \ exported.raised)'
    <3>1. LeadsTell(csv, listed[p] \ raised[p])
      BY <1>6, <2>1, <2>4 DEF Exporting
    <3>2. exported'.listed \ exported'.raised = listed[p] \ raised[p]
      BY <2>1
    <3>3. QED
      BY <1>1, <2>1, <3>1, <3>2 DEF LeadsTell
  <2>6. \A q \in Pipeline : stage'[q] \notin Exporting
    BY <1>3, <2>1, <2>2 DEF Exporting
  <2>7. FilesTell'
    BY <2>1, <2>3, <2>4, <2>5, <2>6 DEF FilesTell, Exporting
  <2>8. QED
    BY <1>5, <1>9, <2>7 DEF PipelineInv
<1>15. CASE (ReturnUnexported(p) \/ DiePipeline(p)) /\ ~disturbed'
  <2>1. stage[p] \notin Exporting /\ stage'[p] \notin Exporting
    BY <1>3, <1>15 DEF ReturnUnexported, DiePipeline, Enter, Exporting
  <2>2. QED
    BY <1>10, <2>1
<1>16. QED
  BY <1>11, <1>12, <1>13, <1>14, <1>15

\* Every step, a stuttering one too, keeps the invariant of the ad pipeline.
LEMMA StepPipelineInv == PipelineInv /\ [PipelineNext]_adVars => PipelineInv'
<1> SUFFICES ASSUME PipelineInv, [PipelineNext]_adVars PROVE PipelineInv'
  OBVIOUS
<1>1. CASE UNCHANGED adVars
  <2>1. UNCHANGED <<sameOffer, stage, listed, todo, details, raised, csv, jsonl, exported,
                    disturbed, runs>>
    BY <1>1 DEF adVars
  <2>2. FilesTell'
    BY <2>1, FilesStay
  <2>3. QED
    BY <2>1, <2>2 DEF PipelineInv, PipelineTypeOK, PipelineShapes, Accounted, FitDetails
<1>2. QED
  BY <1>1, CrawlKeepsInv, ExtractKeepsInv, ExportKeepsInv DEF PipelineNext

-----------------------------------------------------------------------------
(* AdPipeline: the theorem.                                                *)

\* pipeline.py and deduplication.py: whatever two pipelines and their deaths
\* interleave, an export nobody disturbed left both files with the same leads,
\* in which each ad that was listed and did not raise is exactly once, merged
\* only with ads of the same offer or, with it, with neither phone nor title.
THEOREM ExportsAreTold == PipelineSpec => []ExportTellsRun
<1>1. PipelineInv => ExportTellsRun
  BY DEF PipelineInv, FilesTell, LeadsTell, ExportTellsRun, Exporting
<1>2. QED
  BY InitPipelineInv, StepPipelineInv, <1>1, PTL DEF PipelineSpec
=============================================================================
