----------------------------- MODULE Desk_proofs -----------------------------
(***************************************************************************)
(* Proofs about what an operator starts from the panel, a dashboard or a   *)
(* shell, and reads there: the runner of the panel, the market collector,  *)
(* the editors of its configuration, the calendar of its observations, the *)
(* price history, the settings of a harvest and the views of the leads.    *)
(***************************************************************************)
EXTENDS PanelRunner, MarketSnapshot, MarketReading, MarketHistory, SettingsFlow,
        LeadViews, FiniteSetTheorems, SequenceTheorems, WellFoundedInduction, TLAPS

-----------------------------------------------------------------------------
(* PanelRunner: the inductive invariant.                                   *)

\* A runner that comes now is let in, and none is about to start on that.
Ticket == IF state = "ready_to_run" /\ About = {} THEN 1 ELSE 0

PanelInv ==
    /\ PanelTypeOK
    /\ IsFiniteSet(Active)
    /\ Cardinality(Active) + orphans + Ticket <= 1 + slips

-----------------------------------------------------------------------------
(* PanelRunner: the proofs.                                                *)

\* Initially the panel's invariant holds.
LEMMA InitPanelInv == PanelInit => PanelInv
<1> SUFFICES ASSUME PanelInit PROVE PanelInv
  OBVIOUS
<1>1. 0 \in 0 .. MaxRequests /\ 0 \in 0 .. MaxSlips
  BY PanelAssumption
<1>2. PanelTypeOK
  BY <1>1 DEF PanelInit, PanelTypeOK
<1>3. Active = {} /\ Ticket = 0
  BY DEF PanelInit, Active, Ticket
<1>4. IsFiniteSet(Active) /\ Cardinality(Active) = 0
  BY <1>3, FS_EmptySet
<1>5. QED
  BY <1>2, <1>3, <1>4, PanelAssumption DEF PanelInit, PanelInv

\* The requests and the preparers.
LEMMA PrepareKeepsInv ==
  ASSUME PanelInv,
         RequestRun \/ \E p \in Preparer : PrepareFirstJob(p) \/ WriteReady(p) \/ DiePreparing(p)
  PROVE  PanelInv'
<1>1. UNCHANGED <<runner, verdict, orphans>> /\ Active' = Active /\ About' = About
  BY DEF RequestRun, PrepareFirstJob, WriteReady, DiePreparing, Active, About
<1>2. PICK n \in Nat : n = Cardinality(Active)
  BY FS_CardinalityType DEF PanelInv
<1>3. /\ n + orphans + Ticket <= 1 + slips
      /\ orphans \in Nat /\ slips \in Nat /\ slips \in 0 .. MaxSlips
  BY <1>2, PanelAssumption DEF PanelInv, PanelTypeOK
<1>4. queue' \in 0 .. MaxRequests /\ preparing' \subseteq Preparer
  BY PanelAssumption
  DEF RequestRun, PrepareFirstJob, WriteReady, DiePreparing, PanelInv, PanelTypeOK
<1>5. CASE RequestRun \/ \E p \in Preparer : DiePreparing(p)
  <2>1. UNCHANGED <<state, slips>>
    BY <1>5 DEF RequestRun, DiePreparing
  <2>2. PanelTypeOK'
    BY <1>1, <1>4, <2>1 DEF PanelInv, PanelTypeOK
  <2>3. Ticket' = Ticket
    BY <1>1, <2>1 DEF Ticket
  <2>4. QED
    BY <1>1, <2>1, <2>2, <2>3 DEF PanelInv
<1>6. ASSUME NEW p \in Preparer, PrepareFirstJob(p) PROVE PanelInv'
  <2>1. state' = "torn" /\ slips' = slips
    BY <1>6 DEF PrepareFirstJob
  <2>2. PanelTypeOK'
    BY <1>1, <1>4, <2>1 DEF PanelInv, PanelTypeOK
  <2>3. Ticket' = 0 /\ Ticket \in {0, 1}
    BY <2>1 DEF Ticket
  <2>4. n + orphans + Ticket' <= 1 + slips'
    BY <1>3, <2>1, <2>3
  <2>5. QED
    BY <1>1, <1>2, <2>2, <2>4 DEF PanelInv
<1>7. ASSUME NEW p \in Preparer, WriteReady(p) PROVE PanelInv'
  <2>1. state' = "ready_to_run" /\ SlipsIf(Active # {} \/ orphans > 0)
    BY <1>7 DEF WriteReady
  <2>2. slips' \in 0 .. MaxSlips
    BY <1>3, <2>1, PanelAssumption DEF SlipsIf
  <2>3. PanelTypeOK'
    BY <1>1, <1>4, <2>1, <2>2 DEF PanelInv, PanelTypeOK
  <2>4. Ticket' \in {0, 1} /\ Ticket \in {0, 1}
    BY DEF Ticket
  <2>5. n + orphans + Ticket' <= 1 + slips'
    <3>1. CASE Active # {} \/ orphans > 0
      <4>1. slips' = slips + 1
        BY <2>1, <3>1 DEF SlipsIf
      <4>2. QED
        BY <1>2, <1>3, <2>4, <4>1
    <3>2. CASE ~(Active # {} \/ orphans > 0)
      <4>1. n = 0
        BY <1>2, <3>2, FS_EmptySet
      <4>2. orphans = 0 /\ slips' = slips /\ slips \in Nat
        BY <1>3, <2>1, <3>2 DEF SlipsIf
      <4>3. CASE Ticket' = 0
        BY <4>1, <4>2, <4>3
      <4>4. CASE Ticket' = 1
        BY <4>1, <4>2, <4>4
      <4>5. QED
        BY <2>4, <4>3, <4>4
    <3>3. QED
      BY <3>1, <3>2
  <2>6. QED
    BY <1>1, <1>2, <2>3, <2>5 DEF PanelInv
<1>8. QED
  BY <1>5, <1>6, <1>7

\* A runner that finds the state ready takes the ticket of the one before it,
\* or reads beside one that has not yet given it back.
LEMMA ReadStateKeepsInv ==
  ASSUME PanelInv, NEW r \in Runner, ReadState(r)
  PROVE  PanelInv'
<1>1. /\ runner[r] = "idle" /\ runner' = [runner EXCEPT ![r] = "ready"]
      /\ state = "ready_to_run" /\ SlipsIf(About # {})
      /\ UNCHANGED <<queue, state, verdict, preparing, orphans>>
  BY DEF ReadState, Goes, ReadyToRun
<1>2. PICK n \in Nat : n = Cardinality(Active)
  BY FS_CardinalityType DEF PanelInv
<1>3. /\ n + orphans + Ticket <= 1 + slips
      /\ orphans \in Nat /\ slips \in Nat /\ slips \in 0 .. MaxSlips
  BY <1>2, PanelAssumption DEF PanelInv, PanelTypeOK
<1>4. slips' \in 0 .. MaxSlips
  BY <1>1, <1>3, PanelAssumption DEF SlipsIf
<1>5. PanelTypeOK'
  BY <1>1, <1>4 DEF PanelInv, PanelTypeOK
<1>6. r \notin Active /\ Active' = Active \cup {r} /\ r \in About'
  BY <1>1 DEF Active, About, PanelInv, PanelTypeOK
<1>7. IsFiniteSet(Active') /\ Cardinality(Active') = n + 1
  BY <1>2, <1>6, FS_AddElement DEF PanelInv
<1>8. Ticket' = 0
  BY <1>6 DEF Ticket
<1>9. n + 1 + orphans <= 1 + slips'
  <2>1. CASE About = {}
    <3>1. Ticket = 1 /\ slips' = slips
      BY <1>1, <2>1 DEF Ticket, SlipsIf
    <3>2. QED
      BY <1>3, <3>1
  <2>2. CASE About # {}
    <3>1. Ticket = 0 /\ slips' = slips + 1
      BY <1>1, <2>2 DEF Ticket, SlipsIf
    <3>2. QED
      BY <1>3, <3>1
  <2>3. QED
    BY <2>1, <2>2
<1>10. QED
  BY <1>1, <1>3, <1>5, <1>7, <1>8, <1>9 DEF PanelInv

\* A runner at work goes on: whoever was about to start has rewritten the
\* state by then.
LEMMA RunKeepsInv ==
  ASSUME PanelInv, NEW r \in Runner,
         MissingRunner(r) \/ OpenState(r) \/ StartHarvest(r) \/ HarvestOver(r) \/ OpenResult(r)
  PROVE  PanelInv'
<1>1. /\ r \in Active /\ UNCHANGED <<queue, preparing, orphans, slips>>
      /\ \E to \in {"starting", "harvest", "over", "ending"} :
            /\ runner' = [runner EXCEPT ![r] = to]
            /\ state' \in {"torn", "running"} \/ (state' = state /\ runner[r] = "harvest")
  BY DEF MissingRunner, OpenState, StartHarvest, HarvestOver, OpenResult, Goes, Active
<1>2. PICK to \in {"starting", "harvest", "over", "ending"} :
            /\ runner' = [runner EXCEPT ![r] = to]
            /\ state' \in {"torn", "running"} \/ (state' = state /\ runner[r] = "harvest")
  BY <1>1
<1>3. verdict' \in [Runner -> {"completed", "failed"}]
  BY DEF MissingRunner, OpenState, StartHarvest, HarvestOver, OpenResult, PanelInv, PanelTypeOK
<1>4. PanelTypeOK'
  BY <1>1, <1>2, <1>3 DEF PanelInv, PanelTypeOK
<1>5. Active' = Active
  BY <1>1, <1>2 DEF Active, PanelInv, PanelTypeOK
<1>6. Ticket \in {0, 1} /\ (Ticket' = 0 \/ Ticket' = Ticket)
  <2>1. CASE state' \in {"torn", "running"}
    BY <2>1 DEF Ticket
  <2>2. CASE state' = state /\ runner[r] = "harvest"
    <3>1. About' = About
      BY <1>2, <2>2 DEF About, PanelInv, PanelTypeOK
    <3>2. QED
      BY <2>2, <3>1 DEF Ticket
  <2>3. QED
    BY <1>2, <2>1, <2>2
<1>7. PICK n \in Nat : n = Cardinality(Active)
  BY FS_CardinalityType DEF PanelInv
<1>8. n + orphans + Ticket <= 1 + slips /\ orphans \in Nat /\ slips \in Nat
  BY <1>7, PanelAssumption DEF PanelInv, PanelTypeOK
<1>9. n + orphans + Ticket' <= 1 + slips
  BY <1>6, <1>8
<1>10. QED
  BY <1>1, <1>4, <1>5, <1>7, <1>9 DEF PanelInv

\* A script that ends or is killed gives back what it held, or leaves its
\* harvest in its place.
LEMMA LeaveKeepsInv ==
  ASSUME PanelInv, NEW r \in Runner, WriteResult(r) \/ DieRunning(r) \/ Orphan(r)
  PROVE  PanelInv'
<1>1. /\ r \in Active /\ UNCHANGED <<queue, verdict, preparing, slips>>
      /\ runner' = [runner EXCEPT ![r] = "idle"]
  BY DEF WriteResult, DieRunning, Orphan, Goes, Active
<1>2. PICK n \in Nat : n = Cardinality(Active)
  BY FS_CardinalityType DEF PanelInv
<1>3. n + orphans + Ticket <= 1 + slips /\ orphans \in Nat /\ slips \in Nat
  BY <1>2, PanelAssumption DEF PanelInv, PanelTypeOK
<1>4. Active' = Active \ {r}
  BY <1>1 DEF Active, PanelInv, PanelTypeOK
<1>5. IsFiniteSet(Active') /\ Cardinality(Active') = n - 1
  BY <1>1, <1>2, <1>4, FS_RemoveElement DEF PanelInv
<1>6. Ticket \in {0, 1} /\ Ticket' \in {0, 1}
  BY DEF Ticket
<1>7. CASE WriteResult(r) \/ DieRunning(r)
  <2>1. /\ orphans' = orphans
        /\ state' \in {"missing", "torn", "ready_to_run", "running", "completed", "failed"}
    BY <1>7 DEF WriteResult, DieRunning, PanelInv, PanelTypeOK
  <2>2. PanelTypeOK'
    BY <1>1, <2>1 DEF PanelInv, PanelTypeOK
  <2>3. n - 1 + orphans' + Ticket' <= 1 + slips'
    <3>1. orphans' = orphans /\ slips' = slips
      BY <1>1, <2>1
    <3>2. QED
      BY <1>2, <1>3, <1>6, <3>1
  <2>4. QED
    BY <1>5, <2>2, <2>3 DEF PanelInv
<1>8. CASE Orphan(r)
  <2>1. orphans' = orphans + 1 /\ state' = state /\ runner[r] = "harvest"
    BY <1>8 DEF Orphan, Goes
  <2>2. PanelTypeOK'
    BY <1>1, <2>1 DEF PanelInv, PanelTypeOK
  <2>3. About' = About
    BY <1>1, <2>1 DEF About, PanelInv, PanelTypeOK
  <2>4. Ticket' = Ticket
    BY <2>1, <2>3 DEF Ticket
  <2>5. n - 1 + orphans' + Ticket' <= 1 + slips'
    BY <1>1, <1>3, <1>6, <2>1, <2>4
  <2>6. QED
    BY <1>5, <2>2, <2>5 DEF PanelInv
<1>9. QED
  BY <1>7, <1>8

\* An orphan ends.
LEMMA OrphanOverKeepsInv == PanelInv /\ OrphanOver => PanelInv'
<1> SUFFICES ASSUME PanelInv, OrphanOver PROVE PanelInv'
  OBVIOUS
<1>1. /\ orphans > 0 /\ orphans' = orphans - 1
      /\ UNCHANGED <<queue, state, runner, verdict, preparing, slips>>
  BY DEF OrphanOver
<1>2. PICK n \in Nat : n = Cardinality(Active)
  BY FS_CardinalityType DEF PanelInv
<1>3. n + orphans + Ticket <= 1 + slips /\ orphans \in Nat /\ slips \in Nat
  BY <1>2, PanelAssumption DEF PanelInv, PanelTypeOK
<1>4. Active' = Active /\ Ticket' = Ticket /\ Ticket \in {0, 1}
  BY <1>1 DEF Active, About, Ticket
<1>5. orphans' \in Nat /\ n + orphans' + Ticket' <= 1 + slips'
  BY <1>1, <1>3, <1>4
<1>6. PanelTypeOK'
  BY <1>1, <1>5 DEF PanelInv, PanelTypeOK
<1>7. QED
  BY <1>2, <1>4, <1>5, <1>6 DEF PanelInv

\* Every step, a stuttering one too, keeps the panel's invariant.
LEMMA StepPanelInv == PanelInv /\ [PanelNext]_panelVars => PanelInv'
<1> SUFFICES ASSUME PanelInv, [PanelNext]_panelVars PROVE PanelInv'
  OBVIOUS
<1>1. CASE UNCHANGED panelVars
  BY <1>1 DEF panelVars, PanelInv, PanelTypeOK, Active, About, Ticket
<1>2. QED
  BY <1>1, PrepareKeepsInv, ReadStateKeepsInv, RunKeepsInv, LeaveKeepsInv, OrphanOverKeepsInv
  DEF PanelNext

-----------------------------------------------------------------------------
(* PanelRunner: the theorem.                                               *)

\* panel_worker.py and run_panel_job.py: every harvest beyond the first,
\* orphans included, was let in by a runner that read the state beside
\* another, or by a request prepared while one was at work.
THEOREM HarvestsAreBounded == PanelSpec => []HarvestsAreExplained
<1>1. PanelInv => HarvestsAreExplained
  <2> SUFFICES ASSUME PanelInv PROVE HarvestsAreExplained
    OBVIOUS
  <2>1. PICK n \in Nat : n = Cardinality(Active)
    BY FS_CardinalityType DEF PanelInv
  <2>2. n + orphans + Ticket <= 1 + slips /\ orphans \in Nat /\ slips \in Nat
    BY <2>1, PanelAssumption DEF PanelInv, PanelTypeOK
  <2>3. Ticket \in {0, 1}
    BY DEF Ticket
  <2>4. n + orphans <= 1 + slips
    BY <2>2, <2>3
  <2>5. QED
    BY <2>1, <2>4 DEF PanelInv, HarvestsAreExplained
<1>2. QED
  BY <1>1, InitPanelInv, StepPanelInv, PTL DEF PanelSpec

-----------------------------------------------------------------------------
(* MarketSnapshot: the inductive invariant.                                *)

\* Nothing is read, saved or shown before the market shows it.
PricesStory ==
    /\ \A s \in Source : stored[s] <= price[s]
    /\ \A c \in Collector, s \in Source : readings[c][s] <= price[s]
    /\ \A c \in Collector : phase[c] = "idle" => readings[c] = NothingRead

\* What a run reads is no older than what is saved, as long as no other saves
\* during it.
AgesStory ==
    \A c \in Collector : phase[c] = "read" /\ c \notin outrun =>
        \A s \in Source : readings[c][s] # NoValue => stored[s] <= readings[c][s]

\* The newest snapshot is made of the observations beside it; the run that
\* saved it holds the same ones, and the payload follows.
PayloadStory ==
    /\ latest = BuildSnapshot(stored)
    /\ \A c \in Collector : phase[c] \in {"saved", "payload"} /\ c \notin outrun =>
           readings[c] = stored
    /\ ~cut /\ ~astray /\ (\A c \in Collector : phase[c] \notin {"saved", "payload"}) =>
           payload = latest

\* Editors one after the other write only what has answered.
EditStory ==
    /\ \A e \in Editor : edit[e] # "write" => draft[e] = {}
    /\ \A e \in Checker : edit[e] # "checked" => passed[e] = {}
    /\ ~clashed =>
        /\ \A e, f \in Editor : edit[e] # "idle" /\ edit[f] # "idle" => e = f
        /\ enabled # Torn => enabled \subseteq proven
        /\ \A e \in Editor : draft[e] \subseteq proven
        /\ \A e \in Checker : passed[e] \subseteq proven

MarketInv ==
    /\ MarketTypeOK
    /\ astray \in BOOLEAN /\ cut \in BOOLEAN /\ clashed \in BOOLEAN
    /\ PricesStory
    /\ AgesStory
    /\ PayloadStory
    /\ EditStory

-----------------------------------------------------------------------------
(* MarketSnapshot: the median.                                             *)

\* A set of numbers that is not empty has a least one.
LEMMA LeastOfNumbers ==
  ASSUME NEW T, T \subseteq Nat, T # {}
  PROVE  \E n \in T : \A m \in T : n <= m
<1> DEFINE R == {ss \in Nat \X Nat : ss[1] < ss[2]}
<1>1. IsWellFoundedOn(R, Nat)
  BY NatLessThanWellFounded DEF OpToRel
<1>2. \A m, n \in Nat : <<m, n>> \notin R => n <= m
  OBVIOUS
<1> HIDE DEF R
<1>3. \E n \in T : \A m \in T : <<m, n>> \notin R
  BY <1>1, WFMin
<1>4. QED
  BY <1>2, <1>3

\* The readings that count, and those below a value, are finitely many.
LEMMA CountsAreNumbers ==
  ASSUME NEW rs
  PROVE  /\ IsFiniteSet(Good(rs)) /\ Cardinality(Good(rs)) \in Nat
         /\ Cardinality(Good(rs)) <= Cardinality(Source) /\ Cardinality(Source) \in Nat
         /\ \A v : /\ IsFiniteSet(Below(rs, v)) /\ Cardinality(Below(rs, v)) \in Nat
                   /\ IsFiniteSet(Upto(rs, v)) /\ Cardinality(Upto(rs, v)) \in Nat
<1>1. IsFiniteSet(Source)
  BY MarketAssumption
<1>2. Good(rs) \subseteq Source
  BY DEF Good
<1>3. \A v : Below(rs, v) \subseteq Source /\ Upto(rs, v) \subseteq Source
  BY DEF Below, Upto, Good
<1>4. \A T \in SUBSET Source : /\ IsFiniteSet(T) /\ Cardinality(T) \in Nat
                              /\ Cardinality(T) <= Cardinality(Source)
  BY <1>1, FS_Subset, FS_CardinalityType
<1>5. QED
  BY <1>1, <1>2, <1>3, <1>4, FS_CardinalityType

\* Whatever rank is asked for, there is a value of that rank, and Ranked is one.
LEMMA RankedIsValue ==
  ASSUME NEW rs \in [Source -> Amount], NEW n \in Nat, n < Cardinality(Good(rs))
  PROVE  /\ Ranked(rs, n) \in 0 .. MaxPrice
         /\ Cardinality(Below(rs, Ranked(rs, n))) <= n
         /\ n < Cardinality(Upto(rs, Ranked(rs, n)))
<1> DEFINE S == {v \in Nat : n < Cardinality(Upto(rs, v))}
           V == {rs[s] : s \in Good(rs)}
           Fit(v) == Cardinality(Below(rs, v)) <= n /\ n < Cardinality(Upto(rs, v))
<1>1. MaxPrice \in Nat /\ V \subseteq 0 .. MaxPrice
  BY MarketAssumption DEF Good, Amount, NoValue
<1>0. \A s \in Good(rs) : rs[s] \in Nat /\ rs[s] <= MaxPrice
  BY <1>1 DEF Good, Amount, NoValue
<1>2. Upto(rs, MaxPrice) = Good(rs)
  BY <1>0 DEF Upto
<1>3. MaxPrice \in S
  BY <1>1, <1>2
<1>4. PICK v \in S : \A w \in S : v <= w
  <2>1. S \subseteq Nat /\ S # {}
    BY <1>3
  <2> HIDE DEF S
  <2>2. QED
    BY <2>1, LeastOfNumbers
<1>5. v \in Nat /\ n < Cardinality(Upto(rs, v))
  BY <1>4
<1>6. Cardinality(Below(rs, v)) <= n
  <2>1. CASE v = 0
    <3>1. \A s \in Good(rs) : ~(rs[s] < v)
      BY <1>0, <2>1
    <3>2. QED
      BY <3>1, FS_EmptySet DEF Below
  <2>2. CASE v # 0
    <3>1. v - 1 \in Nat /\ v - 1 \notin S
      BY <1>4, <1>5, <2>2
    <3>2. ~(n < Cardinality(Upto(rs, v - 1)))
      BY <3>1
    <3>3. Below(rs, v) = Upto(rs, v - 1)
      <4>1. \A s \in Good(rs) : rs[s] < v <=> rs[s] <= v - 1
        BY <1>0, <1>5
      <4>2. QED
        BY <4>1 DEF Below, Upto
    <3>4. Cardinality(Upto(rs, v - 1)) \in Nat
      BY CountsAreNumbers
    <3>5. QED
      BY <3>2, <3>3, <3>4
  <2>3. QED
    BY <2>1, <2>2
<1>7. v \in V
  <2>1. SUFFICES ASSUME v \notin V PROVE FALSE
    OBVIOUS
  <2>2. \A s \in Good(rs) : rs[s] # v
    BY <2>1
  <2>3. \A s \in Good(rs) : rs[s] <= v <=> rs[s] < v
    BY <1>0, <1>5, <2>2
  <2>4. Upto(rs, v) = Below(rs, v)
    BY <2>3 DEF Upto, Below
  <2>5. Cardinality(Upto(rs, v)) \in Nat
    BY CountsAreNumbers
  <2>6. QED
    BY <1>5, <1>6, <2>4, <2>5
<1>8. Fit(v)
  BY <1>5, <1>6
<1>9. Ranked(rs, n) \in V /\ Fit(Ranked(rs, n))
  BY <1>7, <1>8 DEF Ranked
<1>10. Ranked(rs, n) \in 0 .. MaxPrice
  <2> HIDE DEF V, Fit
  <2>1. QED
    BY <1>1, <1>9
<1>11. QED
  BY <1>9, <1>10

\* If no reading falls, neither does the value of any rank.
LEMMA RankedGrows ==
  ASSUME NEW rs \in [Source -> Amount], NEW qs \in [Source -> Amount],
         Good(rs) = Good(qs), \A s \in Good(rs) : rs[s] <= qs[s],
         NEW n \in Nat, n < Cardinality(Good(rs))
  PROVE  Ranked(rs, n) <= Ranked(qs, n)
<1>1. PICK v \in 0 .. MaxPrice : v = Ranked(rs, n) /\ Cardinality(Below(rs, v)) <= n
  BY RankedIsValue
<1>2. PICK w \in 0 .. MaxPrice : w = Ranked(qs, n) /\ n < Cardinality(Upto(qs, w))
  BY RankedIsValue
<1>3. MaxPrice \in Nat
  BY MarketAssumption
<1>4. SUFFICES ASSUME w < v PROVE FALSE
  BY <1>1, <1>2, <1>3
<1>5. \A s \in Good(rs) : rs[s] \in Int /\ qs[s] \in Int
  BY <1>3 DEF Good, Amount, NoValue
<1>6. \A s \in Good(rs) : qs[s] <= w => rs[s] < v
  BY <1>1, <1>2, <1>3, <1>4, <1>5
<1>7. Upto(qs, w) \subseteq Below(rs, v)
  BY <1>6 DEF Upto, Below
<1>8. Cardinality(Upto(qs, w)) <= Cardinality(Below(rs, v))
  BY <1>7, CountsAreNumbers, FS_Subset
<1>9. Cardinality(Upto(qs, w)) \in Nat /\ Cardinality(Below(rs, v)) \in Nat
  BY CountsAreNumbers
<1>10. QED
  BY <1>1, <1>2, <1>8, <1>9

\* Half of the sum of two values lies between them.
LEMMA HalfLies ==
  ASSUME NEW a \in Nat, NEW b \in Nat, NEW low \in Nat, NEW high \in Nat,
         low <= a, low <= b, a <= high, b <= high
  PROVE  HalfEven(a + b) \in Nat /\ low <= HalfEven(a + b) /\ HalfEven(a + b) <= high
<1> DEFINE h == (a + b) \div 2
<1>1. h \in Nat /\ (a + b = 2 * h \/ a + b = 2 * h + 1) /\ (a + b = 2 * h => (a + b) % 2 = 0)
  OBVIOUS
<1>2. HalfEven(a + b) = h \/ (a + b = 2 * h + 1 /\ HalfEven(a + b) = h + 1)
  BY <1>1 DEF HalfEven
<1> HIDE DEF h
<1>3. QED
  BY <1>1, <1>2

\* Half of a sum that does not fall does not fall, rounded either way.
LEMMA HalfGrows ==
  ASSUME NEW a \in Nat, NEW b \in Nat, a <= b
  PROVE  HalfEven(a) <= HalfEven(b)
<1>1. PICK h \in Nat : h = a \div 2 /\ (a = 2 * h \/ a = 2 * h + 1) /\ (a % 2 = 0 <=> a = 2 * h)
  OBVIOUS
<1>2. PICK k \in Nat : k = b \div 2 /\ (b = 2 * k \/ b = 2 * k + 1) /\ (b % 2 = 0 <=> b = 2 * k)
  OBVIOUS
<1>3. HalfEven(a) = IF a = 2 * h \/ h % 2 = 0 THEN h ELSE h + 1
  BY <1>1 DEF HalfEven
<1>4. HalfEven(b) = IF b = 2 * k \/ k % 2 = 0 THEN k ELSE k + 1
  BY <1>2 DEF HalfEven
<1>5. CASE h = k
  BY <1>1, <1>2, <1>3, <1>4, <1>5
<1>6. CASE h # k
  <2>1. h + 1 <= k
    BY <1>1, <1>2, <1>6
  <2>2. QED
    BY <1>1, <1>2, <1>3, <1>4, <2>1
<1>7. QED
  BY <1>5, <1>6

\* The ranks the median is made of.
LEMMA MiddleRanks ==
  ASSUME NEW n \in Nat, n # 0
  PROVE  /\ (n - 1) \div 2 \in Nat /\ (n - 1) \div 2 < n
         /\ n \div 2 \in Nat /\ n \div 2 < n
OBVIOUS

\* A snapshot is one, whatever was read.
LEMMA MedianIsTyped ==
  ASSUME NEW rs \in [Source -> Amount]
  PROVE  BuildSnapshot(rs) \in Snapshot
<1>1. PICK n \in Nat : n = Cardinality(Good(rs)) /\ n <= Cardinality(Source)
  BY CountsAreNumbers
<1>2. MaxPrice \in Nat /\ Cardinality(Source) \in Nat
  BY MarketAssumption, CountsAreNumbers
<1>3. Median(rs) \in Amount
  <2>1. CASE n = 0
    BY <1>1, <1>2, <2>1 DEF Median, Amount, NoValue
  <2>2. CASE n # 0
    <3>1. PICK i \in Nat, j \in Nat : /\ i = (n - 1) \div 2 /\ i < n
                                    /\ j = n \div 2 /\ j < n
      BY <2>2, MiddleRanks
    <3>2. Median(rs) = HalfEven(Ranked(rs, i) + Ranked(rs, j))
      BY <1>1, <2>2, <3>1 DEF Median
    <3>3. PICK x \in 0 .. MaxPrice, y \in 0 .. MaxPrice :
              x = Ranked(rs, i) /\ y = Ranked(rs, j)
      BY <1>1, <3>1, RankedIsValue
    <3>4. HalfEven(x + y) \in Nat /\ HalfEven(x + y) <= MaxPrice
      <4>1. x \in Nat /\ y \in Nat /\ 0 <= x /\ 0 <= y /\ x <= MaxPrice /\ y <= MaxPrice
        BY <1>2
      <4>2. QED
        BY <1>2, <4>1, HalfLies
    <3>5. QED
      BY <1>2, <3>2, <3>3, <3>4 DEF Amount, NoValue
  <2>3. QED
    BY <2>1, <2>2
<1>4. QED
  BY <1>1, <1>2, <1>3 DEF BuildSnapshot, Snapshot

\* If the same sources answer and none shows less, the median does not fall.
LEMMA MedianGrows ==
  ASSUME NEW rs \in [Source -> Amount], NEW qs \in [Source -> Amount],
         Good(rs) = Good(qs), \A s \in Good(rs) : rs[s] <= qs[s]
  PROVE  BuildSnapshot(rs).value <= BuildSnapshot(qs).value
<1>1. PICK n \in Nat : n = Cardinality(Good(rs)) /\ n = Cardinality(Good(qs))
  BY CountsAreNumbers
<1>2. SUFFICES Median(rs) <= Median(qs)
  BY DEF BuildSnapshot
<1>3. CASE n = 0
  BY <1>1, <1>3 DEF Median, NoValue
<1>4. CASE n # 0
  <2>1. PICK i \in Nat, j \in Nat : /\ i = (n - 1) \div 2 /\ i < n
                                  /\ j = n \div 2 /\ j < n
    BY <1>4, MiddleRanks
  <2>2. /\ Median(rs) = HalfEven(Ranked(rs, i) + Ranked(rs, j))
        /\ Median(qs) = HalfEven(Ranked(qs, i) + Ranked(qs, j))
    BY <1>1, <1>4, <2>1 DEF Median
  <2>3. PICK x \in 0 .. MaxPrice, y \in 0 .. MaxPrice :
            x = Ranked(rs, i) /\ y = Ranked(rs, j)
    BY <1>1, <2>1, RankedIsValue
  <2>4. PICK u \in 0 .. MaxPrice, v \in 0 .. MaxPrice :
            u = Ranked(qs, i) /\ v = Ranked(qs, j)
    BY <1>1, <2>1, RankedIsValue
  <2>5. x <= u /\ y <= v
    BY <1>1, <2>1, <2>3, <2>4, RankedGrows
  <2>6. x + y \in Nat /\ u + v \in Nat /\ x + y <= u + v
    BY <2>3, <2>4, <2>5, MarketAssumption
  <2>7. HalfEven(x + y) <= HalfEven(u + v)
    BY <2>6, HalfGrows
  <2>8. QED
    BY <2>2, <2>3, <2>4, <2>7
<1>5. QED
  BY <1>3, <1>4

-----------------------------------------------------------------------------
(* MarketSnapshot: the proofs of the steps.                                *)

\* The bounds of the prices, for arithmetic.
LEMMA MarketNumbers ==
  /\ MaxPrice \in Nat /\ Cardinality(Source) \in Nat
  /\ \A v \in Amount : v \in Int /\ NoValue <= v /\ v <= MaxPrice
  /\ NoValue \in Amount /\ NoValue \in Int
  /\ \A p \in 0 .. MaxPrice : p \in Amount /\ p \in Nat /\ NoValue <= p /\ p # NoValue
  /\ EmptyPayload \in Snapshot /\ MixedPayload \in Snapshot /\ NothingRead \in [Source -> Amount]
<1>1. MaxPrice \in Nat /\ Cardinality(Source) \in Nat
  BY MarketAssumption, FS_CardinalityType
<1>2. /\ \A v \in Amount : v \in Int /\ NoValue <= v /\ v <= MaxPrice
      /\ NoValue \in Amount /\ NoValue \in Int
      /\ \A p \in 0 .. MaxPrice : p \in Amount /\ p \in Nat /\ NoValue <= p /\ p # NoValue
  BY <1>1 DEF Amount, NoValue
<1>3. EmptyPayload \in Snapshot /\ MixedPayload \in Snapshot
  BY <1>1, <1>2 DEF EmptyPayload, MixedPayload, Snapshot
<1>4. NothingRead \in [Source -> Amount]
  BY <1>2 DEF NothingRead
<1>5. QED
  BY <1>1, <1>2, <1>3, <1>4

\* Nothing that was not read counts: the snapshot of no readings is NoSnapshot.
LEMMA NothingIsNoSnapshot == BuildSnapshot(NothingRead) = NoSnapshot
<1>1. Good(NothingRead) = {}
  BY DEF Good, NothingRead
<1>2. Cardinality(Good(NothingRead)) = 0
  BY <1>1, FS_EmptySet
<1>3. QED
  BY <1>2 DEF BuildSnapshot, Median, NoSnapshot

\* Initially the invariant of the snapshots holds.
LEMMA InitMarketInv == MarketInit => MarketInv
<1> SUFFICES ASSUME MarketInit PROVE MarketInv
  OBVIOUS
<1>1. 0 \in 0 .. MaxPrice /\ NoSnapshot \in Snapshot
  <2>1. 0 \in 0 .. MaxPrice
    BY MarketNumbers
  <2>2. 0 \in -2 .. Cardinality(Source)
    BY MarketNumbers
  <2>3. QED
    BY <2>1, <2>2, MarketNumbers DEF NoSnapshot, Snapshot
<1>2. MarketTypeOK
  BY <1>1, MarketNumbers DEF MarketInit, MarketTypeOK
<1>3. astray \in BOOLEAN /\ cut \in BOOLEAN /\ clashed \in BOOLEAN
  BY DEF MarketInit
<1>4. PricesStory
  BY MarketNumbers, <1>1 DEF MarketInit, PricesStory, NothingRead
<1>5. AgesStory
  BY DEF MarketInit, AgesStory
<1>6. PayloadStory
  BY NothingIsNoSnapshot DEF MarketInit, PayloadStory
<1>7. EditStory
  BY DEF MarketInit, EditStory, Editor
<1>8. QED
  BY <1>2, <1>3, <1>4, <1>5, <1>6, <1>7 DEF MarketInv

\* The story of the editors, when they do nothing.
LEMMA EditStays ==
  ASSUME MarketInv, UNCHANGED <<enabled, editVars>>
  PROVE  EditStory' /\ clashed' \in BOOLEAN
BY DEF MarketInv, EditStory, editVars

\* The market moves, and what was read or saved is no newer than it.
LEMMA PriceKeepsInv ==
  ASSUME MarketInv, NEW s \in Source, PriceMoves(s)
  PROVE  MarketInv'
<1>1. /\ UNCHANGED <<enabled, collectVars, editVars>>
      /\ price[s] < MaxPrice /\ price' = [price EXCEPT ![s] = price[s] + 1]
  BY DEF PriceMoves
<1>2. price \in [Source -> 0 .. MaxPrice] /\ stored \in [Source -> Amount]
      /\ readings \in [Collector -> [Source -> Amount]]
  BY DEF MarketInv, MarketTypeOK
<1>3. price[s] + 1 \in 0 .. MaxPrice
  BY <1>1, <1>2, MarketNumbers
<1>4. MarketTypeOK'
  BY <1>1, <1>2, <1>3 DEF MarketInv, MarketTypeOK, collectVars, database, editVars
<1>5. PricesStory'
  <2>1. \A t \in Source : price[t] \in Int /\ price'[t] \in Int /\ price[t] <= price'[t]
    BY <1>1, <1>2, MarketNumbers
  <2>2. \A t \in Source : stored[t] \in Int /\ stored[t] <= price[t]
    BY <1>2, MarketNumbers DEF MarketInv, PricesStory
  <2>3. \A c \in Collector, t \in Source : readings[c][t] \in Int /\ readings[c][t] <= price[t]
    BY <1>2, MarketNumbers DEF MarketInv, PricesStory
  <2>4. \A t \in Source : stored[t] <= price'[t]
    BY <2>1, <2>2
  <2>5. \A c \in Collector, t \in Source : readings[c][t] <= price'[t]
    BY <2>1, <2>3
  <2>6. QED
    BY <1>1, <2>4, <2>5 DEF MarketInv, PricesStory, collectVars, database
<1>6. AgesStory' /\ PayloadStory'
  BY <1>1 DEF MarketInv, AgesStory, PayloadStory, collectVars, database
<1>7. EditStory' /\ clashed' \in BOOLEAN
  BY <1>1, EditStays
<1>8. QED
  BY <1>1, <1>4, <1>5, <1>6, <1>7 DEF MarketInv, collectVars

\* A run begins with nothing read.
LEMMA LoadKeepsInv ==
  ASSUME MarketInv, NEW c \in Collector, LoadConfig(c)
  PROVE  MarketInv'
<1>1. /\ phase[c] = "idle" /\ phase' = [phase EXCEPT ![c] = "read"] /\ enabled # Torn
      /\ unread' = [unread EXCEPT ![c] = enabled]
      /\ UNCHANGED <<price, enabled, readings, database, payload, outrun, astray, cut, editVars>>
  BY DEF LoadConfig, Step
<1>2. /\ phase \in [Collector -> {"idle", "read", "saved", "payload"}]
      /\ readings \in [Collector -> [Source -> Amount]]
  BY DEF MarketInv, MarketTypeOK
<1>3. MarketTypeOK'
  BY <1>1 DEF MarketInv, MarketTypeOK, database, editVars
<1>4. readings[c] = NothingRead
  BY <1>1 DEF MarketInv, PricesStory
<1>5. PricesStory'
  BY <1>1, <1>2 DEF MarketInv, PricesStory, database
<1>6. AgesStory'
  BY <1>1, <1>2, <1>4 DEF MarketInv, AgesStory, NothingRead, database
<1>7. PayloadStory'
  BY <1>1, <1>2 DEF MarketInv, PayloadStory, database
<1>8. EditStory' /\ clashed' \in BOOLEAN
  BY <1>1, EditStays
<1>9. QED
  BY <1>1, <1>3, <1>5, <1>6, <1>7, <1>8 DEF MarketInv

\* A reading is what its source shows now, and no older than what is saved.
LEMMA ReadKeepsInv ==
  ASSUME MarketInv, NEW c \in Collector, ReadSource(c)
  PROVE  MarketInv'
<1>0. PICK s \in unread[c] : \E v \in {price[s], NoValue} :
        /\ unread' = [unread EXCEPT ![c] = unread[c] \ {s}]
        /\ readings' = [readings EXCEPT ![c] = [readings[c] EXCEPT ![s] = v]]
  BY DEF ReadSource
<1>1. PICK v \in {price[s], NoValue} :
        /\ unread' = [unread EXCEPT ![c] = unread[c] \ {s}]
        /\ readings' = [readings EXCEPT ![c] = [readings[c] EXCEPT ![s] = v]]
  BY <1>0
<1>2. /\ phase[c] = "read"
      /\ UNCHANGED <<price, enabled, phase, database, payload, outrun, astray, cut, editVars>>
  BY DEF ReadSource
<1>3. /\ s \in Source /\ price \in [Source -> 0 .. MaxPrice] /\ stored \in [Source -> Amount]
      /\ readings \in [Collector -> [Source -> Amount]]
  BY DEF MarketInv, MarketTypeOK
<1>4. /\ price[s] \in Int /\ v \in Amount /\ v \in Int /\ v <= price[s]
      /\ v # NoValue => v = price[s]
  BY <1>3, MarketNumbers
<1>5. PICK rs \in [Source -> Amount] : rs = [readings[c] EXCEPT ![s] = v]
  BY <1>3, <1>4
<1>6. /\ readings' = [readings EXCEPT ![c] = rs]
      /\ readings' \in [Collector -> [Source -> Amount]]
      /\ rs[s] = v /\ \A t \in Source : t # s => rs[t] = readings[c][t]
  BY <1>1, <1>3, <1>5
<1>7. readings'[c] = rs /\ \A d \in Collector : d # c => readings'[d] = readings[d]
  BY <1>3, <1>6
<1>8. MarketTypeOK'
  BY <1>1, <1>2, <1>6 DEF MarketInv, MarketTypeOK, database, editVars
<1>9. PricesStory'
  <2>1. \A t \in Source : rs[t] <= price[t]
    BY <1>4, <1>6 DEF MarketInv, PricesStory
  <2>2. \A d \in Collector, t \in Source : readings'[d][t] <= price[t]
    BY <1>7, <2>1 DEF MarketInv, PricesStory
  <2>3. \A d \in Collector : phase[d] = "idle" => readings'[d] = NothingRead
    BY <1>2, <1>7 DEF MarketInv, PricesStory
  <2>4. QED
    BY <1>2, <2>2, <2>3 DEF MarketInv, PricesStory, database
<1>10. AgesStory'
  <2>1. c \notin outrun => \A t \in Source : rs[t] # NoValue => stored[t] <= rs[t]
    BY <1>2, <1>4, <1>6 DEF MarketInv, AgesStory, PricesStory
  <2>2. \A d \in Collector : phase[d] = "read" /\ d \notin outrun =>
            \A t \in Source : readings'[d][t] # NoValue => stored[t] <= readings'[d][t]
    BY <1>7, <2>1 DEF MarketInv, AgesStory
  <2>3. QED
    BY <1>2, <2>2 DEF AgesStory, database
<1>11. PayloadStory'
  BY <1>2, <1>7 DEF MarketInv, PayloadStory, database
<1>12. EditStory' /\ clashed' \in BOOLEAN
  BY <1>2, EditStays
<1>13. QED
  BY <1>2, <1>8, <1>9, <1>10, <1>11, <1>12 DEF MarketInv

\* The snapshot of the results of the next state.
LEMMA SnapshotOfTheNext == BuildSnapshot(stored)' = BuildSnapshot(stored')
  BY DEF BuildSnapshot, Median, HalfEven, Ranked, Below, Upto, Good

\* What is saved is the median of readings, none of them older than the last
\* ones saved.
LEMMA SaveKeepsInv ==
  ASSUME MarketInv, NEW c \in Collector, SaveResults(c)
  PROVE  /\ MarketInv'
         /\ c \notin outrun /\ Good(readings[c]) = Good(stored) => latest'.value >= latest.value
<1>1. /\ phase[c] = "read" /\ phase' = [phase EXCEPT ![c] = "saved"]
      /\ stored' = readings[c] /\ latest' = BuildSnapshot(readings[c])
      /\ outrun' = {d \in Collector \ {c} : phase[d] # "idle"}
      /\ UNCHANGED <<price, enabled, unread, readings, payload, astray, cut, editVars>>
  BY DEF SaveResults, Step
<1>2. /\ phase \in [Collector -> {"idle", "read", "saved", "payload"}]
      /\ readings[c] \in [Source -> Amount] /\ stored \in [Source -> Amount]
      /\ latest = BuildSnapshot(stored)
  BY DEF MarketInv, MarketTypeOK, PayloadStory
<1>3. latest' \in Snapshot
  BY <1>1, <1>2, MedianIsTyped
<1>4. c \notin outrun /\ Good(readings[c]) = Good(stored) => latest'.value >= latest.value
  <2> SUFFICES ASSUME c \notin outrun, Good(readings[c]) = Good(stored)
               PROVE  latest'.value >= latest.value
    OBVIOUS
  <2>1. \A s \in Good(stored) : stored[s] <= readings[c][s]
    BY <1>1 DEF MarketInv, AgesStory, Good
  <2>2. BuildSnapshot(stored).value <= BuildSnapshot(readings[c]).value
    BY <1>2, <2>1, MedianGrows
  <2>3. latest.value \in Amount /\ latest'.value \in Amount
    BY <1>3 DEF MarketInv, MarketTypeOK, Snapshot
  <2>4. QED
    BY <1>1, <1>2, <2>2, <2>3, MarketNumbers
<1>5. MarketTypeOK'
  BY <1>1, <1>2, <1>3 DEF MarketInv, MarketTypeOK, editVars
<1>6. phase'[c] = "saved" /\ \A d \in Collector : d # c => phase'[d] = phase[d]
  BY <1>1, <1>2
<1>7. \A d \in Collector : phase'[d] # "idle" /\ d # c => d \in outrun'
  BY <1>1, <1>6
<1>8. PricesStory'
  BY <1>1, <1>6 DEF MarketInv, PricesStory
<1>9. AgesStory'
  BY <1>6, <1>7 DEF AgesStory
<1>10. PayloadStory'
  <2>1. latest' = BuildSnapshot(stored)'
    BY <1>1, SnapshotOfTheNext
  <2>2. QED
    BY <1>1, <1>6, <1>7, <2>1 DEF PayloadStory
<1>11. EditStory' /\ clashed' \in BOOLEAN
  BY <1>1, EditStays
<1>12. QED
  BY <1>1, <1>4, <1>5, <1>8, <1>9, <1>10, <1>11 DEF MarketInv

\* The payload is opened.
LEMMA OpenKeepsInv ==
  ASSUME MarketInv, NEW c \in Collector, OpenPayload(c)
  PROVE  MarketInv'
<1>1. /\ phase[c] = "saved" /\ phase' = [phase EXCEPT ![c] = "payload"]
      /\ payload' = EmptyPayload
      /\ UNCHANGED <<price, enabled, unread, readings, database, outrun, astray, cut, editVars>>
  BY DEF OpenPayload, Step
<1>2. phase \in [Collector -> {"idle", "read", "saved", "payload"}]
  BY DEF MarketInv, MarketTypeOK
<1>3. phase'[c] = "payload" /\ \A d \in Collector : d # c => phase'[d] = phase[d]
  BY <1>1, <1>2
<1>4. MarketTypeOK'
  BY <1>1, MarketNumbers DEF MarketInv, MarketTypeOK, database, editVars
<1>5. PricesStory' /\ AgesStory'
  BY <1>1, <1>3 DEF MarketInv, PricesStory, AgesStory, database
<1>6. PayloadStory'
  BY <1>1, <1>3 DEF MarketInv, PayloadStory, database
<1>7. EditStory' /\ clashed' \in BOOLEAN
  BY <1>1, EditStays
<1>8. QED
  BY <1>1, <1>4, <1>5, <1>6, <1>7 DEF MarketInv

\* A run is over: what it read is forgotten, and the others go on.
LEMMA RunOverKeeps ==
  ASSUME MarketInv, NEW c \in Collector, phase[c] # "idle",
         phase' = [phase EXCEPT ![c] = "idle"],
         readings' = [readings EXCEPT ![c] = NothingRead], outrun' = outrun \ {c},
         unread' = unread \/ unread' = [unread EXCEPT ![c] = {}],
         payload' \in Snapshot, UNCHANGED <<price, enabled, database, editVars>>
  PROVE  /\ MarketTypeOK' /\ PricesStory' /\ AgesStory' /\ EditStory' /\ clashed' \in BOOLEAN
         /\ \A d \in Collector : phase'[d] \in {"saved", "payload"} /\ d \notin outrun' =>
                readings'[d] = stored'
         /\ phase'[c] = "idle" /\ \A d \in Collector : d # c => phase'[d] = phase[d]
<1>1. /\ phase \in [Collector -> {"idle", "read", "saved", "payload"}]
      /\ readings \in [Collector -> [Source -> Amount]]
      /\ price \in [Source -> 0 .. MaxPrice]
  BY DEF MarketInv, MarketTypeOK
<1>2. /\ phase'[c] = "idle" /\ readings'[c] = NothingRead
      /\ \A d \in Collector : d # c => phase'[d] = phase[d] /\ readings'[d] = readings[d]
                                       /\ (d \in outrun' <=> d \in outrun)
      /\ readings' \in [Collector -> [Source -> Amount]]
  BY <1>1, MarketNumbers
<1>3. MarketTypeOK'
  BY <1>2 DEF MarketInv, MarketTypeOK, database, editVars
<1>4. PricesStory'
  <2>1. \A s \in Source : NothingRead[s] = NoValue /\ NoValue <= price[s]
    BY <1>1, MarketNumbers DEF NothingRead
  <2>2. \A d \in Collector, s \in Source : readings'[d][s] <= price[s]
    BY <1>2, <2>1 DEF MarketInv, PricesStory
  <2>3. QED
    BY <1>2, <2>2 DEF MarketInv, PricesStory, database
<1>5. AgesStory'
  BY <1>2 DEF MarketInv, AgesStory, database
<1>6. \A d \in Collector : phase'[d] \in {"saved", "payload"} /\ d \notin outrun' =>
          readings'[d] = stored'
  BY <1>2 DEF MarketInv, PayloadStory, database
<1>7. EditStory' /\ clashed' \in BOOLEAN
  BY EditStays
<1>8. QED
  BY <1>2, <1>3, <1>4, <1>5, <1>6, <1>7

\* The payload is written: over an empty file, and with no other save since its
\* own, it is the newest snapshot.
LEMMA WriteKeepsInv ==
  ASSUME MarketInv, NEW c \in Collector, WritePayload(c)
  PROVE  MarketInv'
<1>1. /\ phase[c] = "payload" /\ phase' = [phase EXCEPT ![c] = "idle"]
      /\ payload' = BuildSnapshot(readings[c])
            \/ (payload # EmptyPayload /\ payload' = MixedPayload)
      /\ readings' = [readings EXCEPT ![c] = NothingRead]
      /\ outrun' = outrun \ {c}
      /\ astray' = (c \in outrun \/ payload # EmptyPayload) /\ cut' = FALSE
      /\ UNCHANGED <<price, enabled, unread, database, editVars>>
  BY DEF WritePayload, Step
<1>2. readings[c] \in [Source -> Amount]
  BY DEF MarketInv, MarketTypeOK
<1>3. payload' \in Snapshot
  BY <1>1, <1>2, MedianIsTyped, MarketNumbers
<1>4. /\ MarketTypeOK' /\ PricesStory' /\ AgesStory' /\ EditStory' /\ clashed' \in BOOLEAN
      /\ \A d \in Collector : phase'[d] \in {"saved", "payload"} /\ d \notin outrun' =>
             readings'[d] = stored'
  BY <1>1, <1>3, RunOverKeeps
<1>5. astray' \in BOOLEAN /\ cut' \in BOOLEAN
  BY <1>1
<1>6. ~astray' => payload' = latest'
  <2> SUFFICES ASSUME ~astray' PROVE payload' = latest'
    OBVIOUS
  <2>1. c \notin outrun /\ payload' = BuildSnapshot(readings[c])
    BY <1>1
  <2>2. readings[c] = stored /\ latest = BuildSnapshot(stored)
    BY <1>1, <2>1 DEF MarketInv, PayloadStory
  <2>3. QED
    BY <1>1, <2>1, <2>2 DEF database
<1>7. latest' = BuildSnapshot(stored)'
  <2>1. latest' = latest /\ stored' = stored
    BY <1>1 DEF database
  <2>2. latest = BuildSnapshot(stored)
    BY DEF MarketInv, PayloadStory
  <2>3. QED
    BY <2>1, <2>2, SnapshotOfTheNext
<1>8. PayloadStory'
  BY <1>4, <1>6, <1>7 DEF PayloadStory
<1>9. QED
  BY <1>4, <1>5, <1>8 DEF MarketInv

\* A run that dies while it reads leaves the files as they are.
LEMMA EndKeepsRuns ==
  ASSUME MarketInv, NEW c \in Collector, RunEnds(c)
  PROVE  MarketInv'
<1>1. /\ phase[c] # "idle" /\ phase' = [phase EXCEPT ![c] = "idle"]
      /\ unread' = [unread EXCEPT ![c] = {}]
      /\ readings' = [readings EXCEPT ![c] = NothingRead]
      /\ outrun' = outrun \ {c} /\ cut' = (cut \/ phase[c] # "read")
      /\ UNCHANGED <<price, enabled, database, payload, astray, editVars>>
  BY DEF RunEnds
<1>2. payload' \in Snapshot
  BY <1>1 DEF MarketInv, MarketTypeOK
<1>3. /\ MarketTypeOK' /\ PricesStory' /\ AgesStory' /\ EditStory' /\ clashed' \in BOOLEAN
      /\ \A d \in Collector : phase'[d] \in {"saved", "payload"} /\ d \notin outrun' =>
             readings'[d] = stored'
      /\ phase'[c] = "idle" /\ \A d \in Collector : d # c => phase'[d] = phase[d]
  BY <1>1, <1>2, RunOverKeeps
<1>4. astray' \in BOOLEAN /\ cut' \in BOOLEAN
  BY <1>1 DEF MarketInv
<1>5. /\ ~cut' /\ ~astray' /\ (\A d \in Collector : phase'[d] \notin {"saved", "payload"})
          => payload' = latest'
  <2> SUFFICES ASSUME ~cut', ~astray',
                      \A d \in Collector : phase'[d] \notin {"saved", "payload"}
               PROVE  payload' = latest'
    OBVIOUS
  <2>1. ~cut /\ ~astray /\ phase[c] = "read"
    BY <1>1
  <2>2. \A d \in Collector : phase[d] \notin {"saved", "payload"}
    BY <1>3, <2>1
  <2>3. QED
    BY <1>1, <2>1, <2>2 DEF MarketInv, PayloadStory, database
<1>6. latest' = BuildSnapshot(stored)'
  BY <1>1, SnapshotOfTheNext DEF MarketInv, PayloadStory, database
<1>7. PayloadStory'
  BY <1>3, <1>5, <1>6 DEF PayloadStory
<1>8. QED
  BY <1>3, <1>4, <1>7 DEF MarketInv

\* The story of the collectors, when they do nothing.
LEMMA CollectStays ==
  ASSUME MarketInv, UNCHANGED <<price, collectVars>>
  PROVE  /\ PricesStory' /\ AgesStory' /\ PayloadStory'
         /\ astray' \in BOOLEAN /\ cut' \in BOOLEAN
BY DEF MarketInv, PricesStory, AgesStory, PayloadStory, collectVars, database

\* An editor that is alone enables and disables what it should.
LEMMA EditKeepsInv ==
  ASSUME MarketInv, NEW e \in Editor,
         \/ e \in Checker /\ (CheckPending(e) \/ EnablePassed(e))
         \/ e \in Disabler /\ DisableUnstable(e)
         \/ WriteConfig(e) \/ EditEnds(e)
  PROVE  MarketInv'
<1>1. UNCHANGED <<price, collectVars>>
  BY DEF CheckPending, EnablePassed, DisableUnstable, WriteConfig, EditEnds
<1>2. /\ edit \in [Editor -> {"idle", "checked", "write"}]
      /\ passed \in [Checker -> SUBSET Source] /\ draft \in [Editor -> SUBSET Source]
      /\ enabled \subseteq Source \/ enabled = Torn
      /\ clashed \in BOOLEAN
  BY DEF MarketInv, MarketTypeOK
<1>3. EditStory
  BY DEF MarketInv
<1>4. SUFFICES /\ edit' \in [Editor -> {"idle", "checked", "write"}]
               /\ passed' \in [Checker -> SUBSET Source]
               /\ draft' \in [Editor -> SUBSET Source]
               /\ enabled' \subseteq Source \/ enabled' = Torn
               /\ clashed' \in BOOLEAN
               /\ EditStory'
  <2> SUFFICES ASSUME /\ edit' \in [Editor -> {"idle", "checked", "write"}]
                      /\ passed' \in [Checker -> SUBSET Source]
                      /\ draft' \in [Editor -> SUBSET Source]
                      /\ enabled' \subseteq Source \/ enabled' = Torn
                      /\ clashed' \in BOOLEAN
                      /\ EditStory'
               PROVE  MarketInv'
    OBVIOUS
  <2>1. MarketTypeOK'
    BY <1>1 DEF MarketInv, MarketTypeOK, collectVars, database
  <2>2. QED
    BY <1>1, <2>1, CollectStays DEF MarketInv
<1>5. CASE e \in Checker /\ CheckPending(e)
  <2>1. PICK ok \in SUBSET (Source \ enabled) :
          passed' = [passed EXCEPT ![e] = ok] /\ proven' = proven \cup ok
    BY <1>5 DEF CheckPending
  <2>2. /\ edit[e] = "idle" /\ edit' = [edit EXCEPT ![e] = "checked"]
        /\ clashed' = (clashed \/ Others(e)) /\ UNCHANGED <<enabled, draft>>
    BY <1>5 DEF CheckPending
  <2>3. clashed' \in BOOLEAN
    BY <1>2, <2>2
  <2>4. EditStory'
    <3>1. \A f \in Editor : edit'[f] # "write" => draft'[f] = {}
      BY <1>2, <1>3, <2>2 DEF EditStory
    <3>2. \A f \in Checker : f \in Editor
      BY DEF Editor
    <3>3. \A f \in Checker : edit'[f] # "checked" => passed'[f] = {}
      BY <1>2, <1>3, <2>1, <2>2, <3>2 DEF EditStory
    <3>4. ASSUME ~clashed'
          PROVE  /\ \A f, g \in Editor : edit'[f] # "idle" /\ edit'[g] # "idle" => f = g
                 /\ enabled' # Torn => enabled' \subseteq proven'
                 /\ \A f \in Editor : draft'[f] \subseteq proven'
                 /\ \A f \in Checker : passed'[f] \subseteq proven'
      <4>1. ~clashed /\ \A f \in Editor : f # e => edit[f] = "idle"
        BY <2>2, <3>4 DEF Others
      <4>2. \A f, g \in Editor : edit'[f] # "idle" /\ edit'[g] # "idle" => f = g
        BY <1>2, <2>2, <4>1
      <4>3. /\ enabled' # Torn => enabled' \subseteq proven'
            /\ \A f \in Editor : draft'[f] \subseteq proven'
        BY <1>3, <2>1, <2>2, <4>1 DEF EditStory
      <4>4. \A f \in Checker : passed'[f] \subseteq proven'
        BY <1>2, <1>3, <2>1, <4>1 DEF EditStory
      <4>5. QED
        BY <4>2, <4>3, <4>4
    <3>5. QED
      BY <3>1, <3>3, <3>4 DEF EditStory
  <2>5. QED
    BY <1>2, <2>1, <2>2, <2>3, <2>4
<1>6. CASE e \in Checker /\ EnablePassed(e)
  <2>1. /\ edit[e] = "checked" /\ edit' = [edit EXCEPT ![e] = "write"] /\ enabled # Torn
        /\ draft' = [draft EXCEPT ![e] = enabled \cup passed[e]]
        /\ passed' = [passed EXCEPT ![e] = {}] /\ enabled' = Torn
        /\ UNCHANGED <<proven, clashed>>
    BY <1>6 DEF EnablePassed
  <2>2. EditStory'
    BY <1>2, <1>3, <1>6, <2>1 DEF EditStory
  <2>3. QED
    BY <1>2, <1>6, <2>1, <2>2
<1>7. CASE e \in Disabler /\ DisableUnstable(e)
  <2>1. /\ edit[e] = "idle" /\ edit' = [edit EXCEPT ![e] = "write"] /\ enabled # Torn
        /\ draft' = [draft EXCEPT ![e] = enabled \ Unstable] /\ enabled' = Torn
        /\ proven' = proven \ Unstable /\ clashed' = (clashed \/ Others(e))
        /\ UNCHANGED passed
    BY <1>7 DEF DisableUnstable
  <2>2. clashed' \in BOOLEAN
    BY <1>2, <2>1
  <2>3. \A f \in Checker : f \in Editor
    BY DEF Editor
  <2>4. ~clashed' => \A f \in Editor : f # e => edit[f] = "idle"
    BY <2>1 DEF Others
  <2>5. EditStory'
    BY <1>2, <1>3, <2>1, <2>3, <2>4 DEF EditStory
  <2>6. QED
    BY <1>2, <2>1, <2>2, <2>5
<1>8. CASE WriteConfig(e)
  <2>1. /\ edit[e] = "write" /\ enabled' = draft[e] /\ edit' = [edit EXCEPT ![e] = "idle"]
        /\ draft' = [draft EXCEPT ![e] = {}] /\ UNCHANGED <<passed, proven, clashed>>
    BY <1>8 DEF WriteConfig
  <2>2. EditStory'
    BY <1>2, <1>3, <2>1 DEF EditStory
  <2>3. QED
    BY <1>2, <2>1, <2>2
<1>9. CASE EditEnds(e)
  <2>1. /\ edit[e] # "idle" /\ edit' = [edit EXCEPT ![e] = "idle"]
        /\ draft' = [draft EXCEPT ![e] = {}]
        /\ passed' = [f \in Checker |-> IF f = e THEN {} ELSE passed[f]]
        /\ UNCHANGED <<enabled, proven, clashed>>
    BY <1>9 DEF EditEnds
  <2>2. EditStory'
    BY <1>2, <1>3, <2>1 DEF EditStory
  <2>3. QED
    BY <1>2, <2>1, <2>2
<1>10. QED
  BY <1>5, <1>6, <1>7, <1>8, <1>9

\* Every step, a stuttering one too, keeps the invariant of the snapshots.
LEMMA StepMarketInv == MarketInv /\ [MarketNext]_marketVars => MarketInv'
<1> SUFFICES ASSUME MarketInv, [MarketNext]_marketVars PROVE MarketInv'
  OBVIOUS
<1>1. CASE UNCHANGED marketVars
  <2>1. UNCHANGED <<price, enabled, collectVars, editVars>>
    BY <1>1 DEF marketVars
  <2>2. MarketTypeOK'
    BY <2>1 DEF MarketInv, MarketTypeOK, collectVars, database, editVars
  <2>3. QED
    BY <2>1, <2>2, CollectStays, EditStays DEF MarketInv
<1>2. ASSUME NEW c \in Collector, RunOnce(c) PROVE MarketInv'
  BY <1>2, LoadKeepsInv, ReadKeepsInv, SaveKeepsInv, OpenKeepsInv, WriteKeepsInv, EndKeepsRuns
  DEF RunOnce
<1>3. Checker \subseteq Editor /\ Disabler \subseteq Editor
  BY DEF Editor
<1>4. QED
  BY <1>1, <1>2, <1>3, PriceKeepsInv, EditKeepsInv DEF MarketNext

-----------------------------------------------------------------------------
(* MarketSnapshot: the theorem.                                            *)

\* core.py and source_check.py: however far apart the prices of the sources
\* are, whichever of them fail and whoever dies, a run that no other outran
\* never lowers the stored median of a rising market when the same sources
\* answered as the time before; the payload file is the newest snapshot unless
\* its last writer was outrun, wrote over another, or a run died with its own
\* unwritten; and a source that was turned off comes back only after it has
\* answered, as long as no two editors work at once.
THEOREM MarketSafety == MarketSpec => MarketIsTold
<1>1. MarketInv => FilesFollow
  BY DEF MarketInv, FilesFollow, PayloadStory, EditStory
<1>2. MarketInv /\ [MarketNext]_marketVars =>
        [\A c \in Collector :
           /\ phase[c] = "read" /\ phase'[c] = "saved"
           /\ c \notin outrun /\ Good(readings[c]) = Good(stored)
           => latest'.value >= latest.value]_marketVars
  <2> SUFFICES ASSUME MarketInv, MarketNext, NEW c \in Collector,
                      phase[c] = "read", phase'[c] = "saved",
                      c \notin outrun, Good(readings[c]) = Good(stored)
               PROVE  latest'.value >= latest.value
    OBVIOUS
  <2>1. phase \in [Collector -> {"idle", "read", "saved", "payload"}] /\ phase' # phase
    BY DEF MarketInv, MarketTypeOK
  <2>2. PICK d \in Collector : LoadConfig(d) \/ SaveResults(d) \/ OpenPayload(d)
                              \/ WritePayload(d) \/ RunEnds(d)
    BY <2>1 DEF MarketNext, RunOnce, PriceMoves, ReadSource, CheckPending, EnablePassed,
       DisableUnstable, WriteConfig, EditEnds, collectVars
  <2>3. SaveResults(c)
    BY <2>1, <2>2 DEF LoadConfig, SaveResults, OpenPayload, WritePayload, RunEnds, Step
  <2>4. QED
    BY <2>3, SaveKeepsInv
<1>3. QED
  BY InitMarketInv, StepMarketInv, <1>1, <1>2, PTL
  DEF MarketSpec, MarketIsTold, SnapshotsAdvance

-----------------------------------------------------------------------------
(* MarketHistory: the inductive invariant.                                 *)

ReadRow == [feed : Feed, at : 0 .. MaxMinutes, value : {0, 1}]
TableRow == [feed : Feed, at : 0 .. MaxMinutes, value : {0, 1}, run : Nat]

\* Rows in the order of their ids are in that of their stamps.
Ascending(rows) == \A i, j \in 1 .. Len(rows) : i <= j => rows[i].at <= rows[j].at

\* Nothing in the rows is newer than the other rows, or than now.
NotAfter(rows, others) ==
    \A i \in 1 .. Len(rows), j \in 1 .. Len(others) : rows[i].at <= others[j].at
BeforeNow(rows) == \A i \in 1 .. Len(rows) : rows[i].at <= minute

\* Collections that do not cross save in the order of their stamps.
OrderStory ==
    ~crossing =>
        /\ \A c, d \in Collection : gathered[c] # <<>> /\ gathered[d] # <<>> => c = d
        /\ Ascending(table)
        /\ \A c \in Collection : Ascending(gathered[c]) /\ NotAfter(table, gathered[c])

\* A reader has the rows of every run it has the snapshot of.
ShownStory ==
    /\ shown.part # "none" => shown.snapshot <= saves
    /\ shown.part = "both" =>
           \A i \in 1 .. Len(table) : table[i].run <= shown.snapshot => i <= shown.rows

HistoryInv ==
    /\ HistoryTypeOK
    /\ table \in Seq(TableRow)
    /\ gathered \in [Collection -> Seq(ReadRow)]
    /\ crossing \in BOOLEAN
    /\ shown \in [part : {"none", "snapshots", "both"}, snapshot : Nat, rows : Nat]
    /\ BeforeNow(table) /\ \A c \in Collection : BeforeNow(gathered[c])
    /\ OrderStory
    /\ ShownStory

-----------------------------------------------------------------------------
(* MarketHistory: the proofs of the steps.                                 *)

\* Initially the invariant of the price history holds.
LEMMA InitHistoryInv == HistoryInit => HistoryInv
<1> SUFFICES ASSUME HistoryInit PROVE HistoryInv
  OBVIOUS
<1>1. MaxMinutes \in Nat /\ MaxSaves \in Nat
  BY HistoryAssumption
<1>2. /\ minute = 0 /\ quote = 0 /\ saves = 0 /\ crossing = FALSE /\ table = <<>>
      /\ \A c \in Collection : gathered[c] = <<>>
      /\ shown = [part |-> "none", snapshot |-> 0, rows |-> 0]
  BY DEF HistoryInit, NothingShown
<1>3. gathered \in [Collection -> Seq(ReadRow)]
  BY DEF HistoryInit
<1>4. HistoryTypeOK /\ table \in Seq(TableRow)
  BY <1>1, <1>2 DEF HistoryTypeOK
<1>5. crossing \in BOOLEAN
  BY <1>2
<1>6. shown \in [part : {"none", "snapshots", "both"}, snapshot : Nat, rows : Nat]
  BY <1>2
<1>7. BeforeNow(table) /\ \A c \in Collection : BeforeNow(gathered[c])
  BY <1>2 DEF BeforeNow
<1>8. OrderStory
  BY <1>2 DEF OrderStory, Ascending, NotAfter
<1>9. ShownStory
  BY <1>2 DEF ShownStory
<1>10. QED
  BY <1>3, <1>4, <1>5, <1>6, <1>7, <1>8, <1>9 DEF HistoryInv

\* A reading is the newest there is.
LEMMA ReadFeedKeepsInv ==
  ASSUME HistoryInv, NEW c \in Collection, NEW f \in Feed, ReadFeed(c, f)
  PROVE  HistoryInv'
<1>1. PICK x \in ReadRow : x = [feed |-> f, at |-> minute, value |-> quote]
  BY DEF HistoryInv, HistoryTypeOK, ReadRow
<1>2. gathered' = [gathered EXCEPT ![c] = Append(gathered[c], x)]
  BY <1>1 DEF ReadFeed
<1>3. /\ UNCHANGED <<minute, quote, table, saves, shown>>
      /\ crossing' = (crossing \/ \E d \in Collection \ {c} : gathered[d] # <<>>)
  BY DEF ReadFeed
<1>4. x.at = minute /\ minute \in Nat
  BY <1>1 DEF HistoryInv, HistoryTypeOK
<1>5. PICK g \in Seq(ReadRow) : g = gathered[c]
  BY DEF HistoryInv
<1>6. PICK h \in Seq(ReadRow) : h = Append(g, x)
  BY AppendProperties
<1>7. /\ Len(h) = Len(g) + 1 /\ Len(g) \in Nat
      /\ \A i \in 1 .. Len(g) : h[i] = g[i]
      /\ h[Len(g) + 1] = x
  BY <1>6, AppendProperties
<1>8. gathered' = [gathered EXCEPT ![c] = h] /\ gathered' \in [Collection -> Seq(ReadRow)]
  BY <1>2, <1>5, <1>6 DEF HistoryInv
<1>9. gathered'[c] = h /\ \A d \in Collection : d # c => gathered'[d] = gathered[d]
  BY <1>8 DEF HistoryInv
<1>10. BeforeNow(g)
  BY <1>5 DEF HistoryInv
<1>11. \A i \in 1 .. Len(h) : h[i].at <= minute
  BY <1>4, <1>7, <1>10 DEF BeforeNow
<1>12. BeforeNow(table)' /\ \A d \in Collection : BeforeNow(gathered[d])'
  BY <1>3, <1>9, <1>11 DEF HistoryInv, BeforeNow
<1>13. ASSUME ~crossing'
       PROVE  /\ \A d, e \in Collection : gathered'[d] # <<>> /\ gathered'[e] # <<>> => d = e
              /\ Ascending(table)'
              /\ \A d \in Collection : Ascending(gathered[d])' /\ NotAfter(table, gathered[d])'
  <2>1. ~crossing /\ \A d \in Collection : d # c => gathered[d] = <<>>
    BY <1>3, <1>13
  <2>2. Ascending(table) /\ Ascending(g) /\ NotAfter(table, g)
    BY <1>5, <2>1 DEF HistoryInv, OrderStory
  <2>3. \A i, j \in 1 .. Len(h) : i <= j => h[i].at <= h[j].at
    <3> TAKE i, j \in 1 .. Len(h)
    <3> HAVE i <= j
    <3>1. CASE j = Len(g) + 1
      <4>1. h[j].at = minute
        BY <1>4, <1>7, <3>1
      <4>2. QED
        BY <1>11, <4>1
    <3>2. CASE j # Len(g) + 1
      <4>1. i \in 1 .. Len(g) /\ j \in 1 .. Len(g)
        BY <1>7, <3>2
      <4>2. h[i] = g[i] /\ h[j] = g[j]
        BY <1>7, <4>1
      <4>3. QED
        BY <2>2, <4>1, <4>2 DEF Ascending
    <3>3. QED
      BY <3>1, <3>2
  <2>4. \A i \in 1 .. Len(table), j \in 1 .. Len(h) : table[i].at <= h[j].at
    <3> TAKE i \in 1 .. Len(table), j \in 1 .. Len(h)
    <3>1. CASE j = Len(g) + 1
      <4>1. h[j].at = minute
        BY <1>4, <1>7, <3>1
      <4>2. QED
        BY <4>1 DEF HistoryInv, BeforeNow
    <3>2. CASE j # Len(g) + 1
      <4>1. j \in 1 .. Len(g)
        BY <1>7, <3>2
      <4>2. QED
        BY <1>7, <2>2, <4>1 DEF NotAfter
    <3>3. QED
      BY <3>1, <3>2
  <2>5. Ascending(table)'
    BY <1>3, <2>2 DEF Ascending
  <2>6. ASSUME NEW d \in Collection
        PROVE  Ascending(gathered[d])' /\ NotAfter(table, gathered[d])'
    <3>1. CASE d = c
      BY <1>3, <1>9, <2>3, <2>4, <3>1 DEF Ascending, NotAfter
    <3>2. CASE d # c
      BY <1>3, <1>9, <2>1, <3>2 DEF Ascending, NotAfter
    <3>3. QED
      BY <3>1, <3>2
  <2>7. QED
    BY <1>9, <2>1, <2>5, <2>6
<1>14. OrderStory'
  BY <1>13 DEF OrderStory
<1>15. ShownStory' /\ HistoryTypeOK' /\ crossing' \in BOOLEAN
  BY <1>3 DEF HistoryInv, ShownStory, HistoryTypeOK
<1>16. QED
  BY <1>3, <1>8, <1>12, <1>14, <1>15 DEF HistoryInv

\* What joining two sequences of rows gives: the first, then the second.
LEMMA JoinedRows ==
  ASSUME NEW S, NEW s \in Seq(S), NEW r \in Seq(S)
  PROVE  \A u : u = s \o r =>
           /\ Len(s) \in Nat /\ Len(u) = Len(s) + Len(r)
           /\ \A i \in 1 .. Len(s) : u[i] = s[i]
           /\ \A i \in 1 .. Len(u) : i > Len(s) => i - Len(s) \in 1 .. Len(r) /\ u[i] = r[i - Len(s)]
<1> TAKE u
<1> HAVE u = s \o r
<1>1. /\ Len(s) \in Nat /\ Len(r) \in Nat
      /\ Len(u) = Len(s) + Len(r)
      /\ \A i \in 1 .. Len(s) + Len(r) : u[i] = IF i <= Len(s) THEN s[i] ELSE r[i - Len(s)]
  BY ConcatProperties, LenProperties
<1>2. QED
  BY <1>1

\* A collection is saved after whatever is in the table.
LEMMA SaveRunKeepsInv ==
  ASSUME HistoryInv, NEW c \in Collection, SaveRun(c)
  PROVE  HistoryInv'
<1>1. PICK g \in Seq(ReadRow) : g = gathered[c]
  BY DEF HistoryInv
<1>2. PICK n \in Nat : n = saves + 1
  BY HistoryAssumption DEF HistoryInv, HistoryTypeOK
<1>3. /\ saves' = n /\ saves < MaxSaves /\ gathered[c] # <<>>
      /\ gathered' = [gathered EXCEPT ![c] = <<>>]
      /\ UNCHANGED <<minute, quote, shown, crossing>>
  BY <1>2 DEF SaveRun
<1>4. PICK new : new = [i \in 1 .. Len(g) |-> Row(g[i], n)]
  OBVIOUS
<1>5. table' = table \o new
  BY <1>1, <1>2, <1>4 DEF SaveRun
<1>6. new \in Seq(TableRow) /\ Len(new) = Len(g) /\ Len(g) \in Nat
  <2>1. \A i \in 1 .. Len(g) : Row(g[i], n) \in TableRow
    <3> TAKE i \in 1 .. Len(g)
    <3>1. g[i] \in ReadRow
      OBVIOUS
    <3>2. QED
      BY <3>1 DEF Row, ReadRow, TableRow
  <2>2. QED
    BY <1>4, <2>1
<1>7. \A i \in 1 .. Len(g) : new[i].at = g[i].at /\ new[i].run = n /\ new[i].feed = g[i].feed
  BY <1>4 DEF Row
<1>8. PICK t \in Seq(TableRow) : t = table
  BY DEF HistoryInv
<1>9. PICK u \in Seq(TableRow) : u = t \o new
  BY <1>6, ConcatProperties
<1>10. /\ Len(t) \in Nat /\ Len(u) = Len(t) + Len(g)
       /\ \A i \in 1 .. Len(t) : u[i] = t[i]
       /\ \A i \in 1 .. Len(u) : i > Len(t) => i - Len(t) \in 1 .. Len(g) /\ u[i] = new[i - Len(t)]
  <2>1. PICK w \in Seq(TableRow) : w = new
    BY <1>6
  <2>2. u = t \o w /\ Len(w) = Len(g)
    BY <1>6, <1>9, <2>1
  <2>3. \A v : v = t \o w =>
           /\ Len(t) \in Nat /\ Len(v) = Len(t) + Len(w)
           /\ \A i \in 1 .. Len(t) : v[i] = t[i]
           /\ \A i \in 1 .. Len(v) : i > Len(t) => i - Len(t) \in 1 .. Len(w) /\ v[i] = w[i - Len(t)]
    BY JoinedRows, Zenon
  <2>4. QED
    BY <2>1, <2>2, <2>3
<1>11. table' = u
  BY <1>5, <1>8, <1>9
<1>12. gathered' \in [Collection -> Seq(ReadRow)] /\ gathered'[c] = <<>>
       /\ \A d \in Collection : d # c => gathered'[d] = gathered[d]
  BY <1>3 DEF HistoryInv
<1>13. HistoryTypeOK'
  <2>1. saves \in Nat /\ MaxSaves \in Nat /\ n \in 0 .. MaxSaves
    BY <1>2, <1>3, HistoryAssumption DEF HistoryInv, HistoryTypeOK
  <2>2. ASSUME NEW i \in 1 .. Len(u)
        PROVE  u[i].feed \in Feed /\ u[i].value \in {0, 1} /\ u[i].run \in 1 .. n
    <3>1. u[i] \in TableRow
      OBVIOUS
    <3>2. CASE i <= Len(t)
      <4>1. u[i] = t[i] /\ i \in 1 .. Len(t)
        BY <1>10, <3>2
      <4>2. t[i].run \in 1 .. saves
        BY <1>8, <4>1 DEF HistoryInv, HistoryTypeOK
      <4>3. u[i].run \in 1 .. n
        BY <1>2, <2>1, <4>1, <4>2
      <4>4. QED
        BY <3>1, <4>3 DEF TableRow
    <3>3. CASE i > Len(t)
      <4>1. i - Len(t) \in 1 .. Len(g) /\ u[i] = new[i - Len(t)]
        BY <1>10, <3>3
      <4>2. u[i].run = n
        BY <1>7, <4>1
      <4>3. n \in 1 .. n
        BY <1>2, <2>1
      <4>4. QED
        BY <3>1, <4>2, <4>3 DEF TableRow
    <3>4. QED
      BY <1>10, <3>2, <3>3
  <2>3. QED
    BY <1>3, <1>11, <2>1, <2>2 DEF HistoryInv, HistoryTypeOK
<1>14. BeforeNow(table)' /\ \A d \in Collection : BeforeNow(gathered[d])'
  <2>1. \A i \in 1 .. Len(u) : u[i].at <= minute
    <3> TAKE i \in 1 .. Len(u)
    <3>1. CASE i <= Len(t)
      BY <1>8, <1>10, <3>1 DEF HistoryInv, BeforeNow
    <3>2. CASE i > Len(t)
      <4>1. i - Len(t) \in 1 .. Len(g) /\ u[i].at = g[i - Len(t)].at
        BY <1>7, <1>10, <3>2
      <4>2. QED
        BY <1>1, <4>1 DEF HistoryInv, BeforeNow
    <3>3. QED
      BY <1>10, <3>1, <3>2
  <2>2. \A d \in Collection : BeforeNow(gathered[d])'
    BY <1>3, <1>12 DEF HistoryInv, BeforeNow
  <2>3. QED
    BY <1>3, <1>11, <2>1, <2>2 DEF BeforeNow
<1>15. ASSUME ~crossing'
       PROVE  /\ \A d, e \in Collection : gathered'[d] # <<>> /\ gathered'[e] # <<>> => d = e
              /\ Ascending(table)'
              /\ \A d \in Collection : Ascending(gathered[d])' /\ NotAfter(table, gathered[d])'
  <2>1. /\ ~crossing /\ Ascending(t) /\ Ascending(g) /\ NotAfter(t, g)
        /\ \A d \in Collection : d # c => gathered[d] = <<>>
    BY <1>1, <1>3, <1>8, <1>15 DEF HistoryInv, OrderStory
  <2>2. \A d \in Collection : gathered'[d] = <<>>
    BY <1>12, <2>1
  <2>3. \A i, j \in 1 .. Len(u) : i <= j => u[i].at <= u[j].at
    <3> TAKE i, j \in 1 .. Len(u)
    <3> HAVE i <= j
    <3>1. CASE j <= Len(t)
      <4>1. i \in 1 .. Len(t) /\ j \in 1 .. Len(t)
        BY <1>10, <3>1
      <4>2. u[i] = t[i] /\ u[j] = t[j]
        BY <1>10, <4>1
      <4>3. QED
        BY <2>1, <4>1, <4>2 DEF Ascending
    <3>2. CASE j > Len(t) /\ i <= Len(t)
      <4>1. i \in 1 .. Len(t) /\ u[i] = t[i]
        BY <1>10, <3>2
      <4>2. j - Len(t) \in 1 .. Len(g) /\ u[j].at = g[j - Len(t)].at
        BY <1>7, <1>10, <3>2
      <4>3. QED
        BY <2>1, <4>1, <4>2 DEF NotAfter
    <3>3. CASE i > Len(t)
      <4>1. j > Len(t) /\ i - Len(t) <= j - Len(t)
        BY <1>10, <3>3
      <4>2. i - Len(t) \in 1 .. Len(g) /\ u[i].at = g[i - Len(t)].at
        BY <1>7, <1>10, <3>3
      <4>3. j - Len(t) \in 1 .. Len(g) /\ u[j].at = g[j - Len(t)].at
        BY <1>7, <1>10, <4>1
      <4>4. QED
        BY <2>1, <4>1, <4>2, <4>3 DEF Ascending
    <3>4. QED
      BY <1>10, <3>1, <3>2, <3>3
  <2>4. Ascending(table)'
    BY <1>11, <2>3 DEF Ascending
  <2>5. ASSUME NEW d \in Collection
        PROVE  Ascending(gathered[d])' /\ NotAfter(table, gathered[d])'
    <3>1. PICK none : none = gathered'[d] /\ Len(none) = 0
      BY <2>2
    <3>2. QED
      BY <3>1 DEF Ascending, NotAfter
  <2>6. QED
    BY <2>2, <2>4, <2>5
<1>16. OrderStory'
  BY <1>15 DEF OrderStory
<1>17. ShownStory'
  <2>1. shown.part # "none" => shown.snapshot < n
    BY <1>2, HistoryAssumption DEF HistoryInv, HistoryTypeOK, ShownStory
  <2>2. ASSUME shown.part = "both", NEW i \in 1 .. Len(u), u[i].run <= shown.snapshot
        PROVE  i <= shown.rows
    <3>1. ~(i > Len(t))
      <4>1. SUFFICES ASSUME i > Len(t) PROVE FALSE
        OBVIOUS
      <4>2. u[i].run = n
        BY <1>7, <1>10, <4>1
      <4>3. shown.snapshot \in Nat
        BY DEF HistoryInv
      <4>4. QED
        BY <2>1, <2>2, <4>2, <4>3
    <3>2. i \in 1 .. Len(t) /\ u[i] = t[i]
      BY <1>10, <3>1
    <3>3. QED
      BY <1>8, <2>2, <3>2 DEF HistoryInv, ShownStory
  <2>3. QED
    BY <1>2, <1>3, <1>11, <2>1, <2>2, HistoryAssumption DEF HistoryInv, ShownStory
<1>18. QED
  BY <1>3, <1>11, <1>12, <1>13, <1>14, <1>16, <1>17 DEF HistoryInv

\* Every step, a stuttering one too, keeps the invariant of the price history.
LEMMA StepHistoryInv == HistoryInv /\ [HistoryNext]_historyVars => HistoryInv'
<1> SUFFICES ASSUME HistoryInv, [HistoryNext]_historyVars PROVE HistoryInv'
  OBVIOUS
<1> USE DEF HistoryInv, HistoryTypeOK, OrderStory, ShownStory, Ascending, NotAfter, BeforeNow
<1>1. CASE UNCHANGED historyVars
  BY <1>1 DEF historyVars
<1>2. CASE QuoteMoves
  BY <1>2 DEF QuoteMoves
<1>3. CASE MinutePasses
  <2>1. UNCHANGED <<quote, gathered, table, saves, shown, crossing>> /\ minute' = minute + 1
        /\ minute' \in 0 .. MaxMinutes /\ minute \in Nat
    BY <1>3, HistoryAssumption DEF MinutePasses
  <2>2. ASSUME NEW i \in 1 .. Len(table) PROVE table[i].at \in Nat
    <3>1. table[i] \in TableRow
      OBVIOUS
    <3>2. QED
      BY <3>1 DEF TableRow
  <2>3. ASSUME NEW d \in Collection, NEW i \in 1 .. Len(gathered[d])
        PROVE  gathered[d][i].at \in Nat
    <3>1. gathered[d][i] \in ReadRow
      OBVIOUS
    <3>2. QED
      BY <3>1 DEF ReadRow
  <2>4. \A i \in 1 .. Len(table) : table[i].at <= minute'
    BY <2>1, <2>2
  <2>6. \A d \in Collection : \A i \in 1 .. Len(gathered[d]) : gathered[d][i].at <= minute'
    BY <2>1, <2>3
  <2>5. QED
    BY <2>1, <2>4, <2>6
<1>4. CASE ShowSnapshots
  BY <1>4, HistoryAssumption DEF ShowSnapshots
<1>5. CASE ShowRows
  <2>1. /\ shown.part = "snapshots" /\ UNCHANGED <<minute, quote, gathered, table, saves, crossing>>
        /\ shown' = [shown EXCEPT !.part = "both", !.rows = Len(table)]
    BY <1>5 DEF ShowRows
  <2>2. Len(table) \in Nat
    OBVIOUS
  <2>3. shown' \in [part : {"none", "snapshots", "both"}, snapshot : Nat, rows : Nat]
        /\ shown'.part = "both" /\ shown'.snapshot = shown.snapshot /\ shown'.rows = Len(table)
    BY <2>1, <2>2
  <2>4. QED
    BY <2>1, <2>2, <2>3
<1>6. CASE PayloadSent
  BY <1>6 DEF PayloadSent, NothingShown
<1>7. ASSUME NEW c \in Collection, CollectionDies(c) PROVE HistoryInv'
  <2>1. /\ gathered' = [gathered EXCEPT ![c] = <<>>]
        /\ UNCHANGED <<minute, quote, table, saves, shown, crossing>>
    BY <1>7 DEF CollectionDies
  <2>2. \A d \in Collection : gathered'[d] = <<>> \/ gathered'[d] = gathered[d]
    BY <2>1
  <2>3. gathered' \in [Collection -> Seq(ReadRow)]
    BY <2>1
  <2>4. QED
    BY <2>1, <2>2, <2>3
<1>8. QED
  BY <1>1, <1>2, <1>3, <1>4, <1>5, <1>6, <1>7, ReadFeedKeepsInv, SaveRunKeepsInv
  DEF HistoryNext

-----------------------------------------------------------------------------
(* MarketHistory: the theorem.                                             *)

\* max(id) of some rows is one of them.
LEMMA LargestIsThere ==
  ASSUME NEW n \in Nat, NEW S, S \subseteq 1 .. n, S # {}
  PROVE  Largest(S) \in S /\ \A j \in S : j <= Largest(S)
<1> DEFINE T == {n - i : i \in S}
<1>1. T \subseteq Nat /\ T # {}
  <2>1. \A i \in S : n - i \in Nat
    OBVIOUS
  <2>2. QED
    BY <2>1
<1>2. PICK k \in T : \A m \in T : k <= m
  <2> HIDE DEF T
  <2>1. QED
    BY <1>1, LeastOfNumbers
<1>3. PICK i \in S : k = n - i
  OBVIOUS
<1>4. \A j \in S : j <= i
  BY <1>2, <1>3
<1>5. QED
  BY <1>4 DEF Largest

\* As long as no two collections crossed, the row of a source that has the
\* highest id in the window is the newest there is of it.
LEMMA NewestIsLast ==
  ASSUME HistoryInv, ~crossing, NEW f \in Feed, Recent(f) # {}
  PROVE  \A i \in 1 .. Len(table) : table[i].feed = f => table[i].at <= table[Largest(Recent(f))].at
<1>1. Len(table) \in Nat
  BY DEF HistoryInv
<1>2. Recent(f) \subseteq 1 .. Len(table)
  BY DEF Recent
<1>3. /\ Largest(Recent(f)) \in Recent(f)
      /\ \A j \in Recent(f) : j <= Largest(Recent(f))
  BY <1>1, <1>2, LargestIsThere
<1>4. PICK k \in 1 .. Len(table) : k = Largest(Recent(f))
  BY <1>2, <1>3
<1>5. k \in Recent(f) /\ \A j \in Recent(f) : j <= k
  BY <1>3, <1>4
<1>6. \A i \in 1 .. Len(table) : table[i].at \in Nat
  <2> TAKE i \in 1 .. Len(table)
  <2>1. table[i] \in TableRow
    BY ElementOfSeq DEF HistoryInv
  <2>2. QED
    BY <2>1 DEF TableRow
<1>7. Ascending(table)
  BY DEF HistoryInv, OrderStory
<1>8. minute \in Nat /\ Window \in Nat
  BY HistoryAssumption DEF HistoryInv, HistoryTypeOK
<1>9. ASSUME NEW i \in 1 .. Len(table), table[i].feed = f
      PROVE  table[i].at <= table[k].at
  <2>1. CASE i <= k
    BY <1>7, <2>1 DEF Ascending
  <2>2. CASE i > k
    <3>1. table[k].at >= minute - Window
      BY <1>5 DEF Recent
    <3>2. table[k].at <= table[i].at
      BY <1>7, <2>2 DEF Ascending
    <3>3. i \in Recent(f)
      BY <1>6, <1>8, <1>9, <3>1, <3>2 DEF Recent
    <3>4. QED
      BY <1>5, <2>2, <3>3
  <2>3. QED
    BY <2>1, <2>2
<1>10. QED
  BY <1>4, <1>9

\* core.py, live_payload and changed_sources: however collections, their deaths
\* and the reader interleave, a payload has the observations of every snapshot
\* it shows, and without crossing collections a reported change goes from an
\* older reading to the newest one.
THEOREM HistoryIsKept == HistorySpec => []HistoryIsTold
<1>1. HistoryInv => HistoryIsTold
  <2> SUFFICES ASSUME HistoryInv PROVE HistoryIsTold
    OBVIOUS
  <2>1. ASSUME NEW f \in Feed, NEW p \in Changes(f), ~crossing
        PROVE  /\ table[p[2]].at <= table[p[1]].at
               /\ \A i \in 1 .. Len(table) : table[i].feed = f => table[i].at <= table[p[1]].at
    <3>1. Recent(f) # {} /\ p[1] = Largest(Recent(f)) /\ p[2] \in Earlier(f)
      BY <2>1 DEF Changes
    <3>2. p[2] \in 1 .. Len(table) /\ table[p[2]].feed = f
      BY <3>1 DEF Earlier
    <3>3. QED
      BY <2>1, <3>1, <3>2, NewestIsLast
  <2>2. HistoryTypeOK
    BY DEF HistoryInv
  <2>3. shown.part = "both" =>
           \A i \in 1 .. Len(table) : table[i].run <= shown.snapshot => i <= shown.rows
    BY DEF HistoryInv, ShownStory
  <2>4. QED
    BY <2>1, <2>2, <2>3 DEF HistoryIsTold
<1>2. QED
  BY InitHistoryInv, StepHistoryInv, <1>1, PTL DEF HistorySpec

-----------------------------------------------------------------------------
(* SettingsFlow: the inductive invariant.                                  *)

\* How far a run has come, from its last step back.
ToHarvest == {"harvest", "ending"}
ToGenerate == ToHarvest \cup {"generate"}
ToCheck == ToGenerate \cup {"check"}
ToLoad == ToCheck \cup {"load"}
ToManage == ToLoad \cup {"openManagement", "fillManagement"}
ToFill == ToManage \cup {"openInput", "fillInput"}

\* What a run nobody has overlapped finds in the workbooks and has made of them.
OwnFiles(r) ==
    /\ \A q \in Starter \ {r} : pc[q] = "idle"
    /\ pc[r] \in ToFill => got[r] \in Sheet \cup {DefaultSheet}
    /\ pc[r] \in ToManage => input = got[r].rows
    /\ pc[r] \in ToLoad => management = Managed(got[r])

OwnSettings(r) ==
    /\ pc[r] \in ToCheck =>
           \A k \in Loadable : k \in Taken(management.settings) /\ management.header
               => config[r][k] = Meant(k, management.settings[k])
    /\ pc[r] \in ToGenerate => Allowed(management, startedAt[r])
    /\ pc[r] \in ToHarvest => queries[r] = Made(input)

\* A Config has every attribute, and what nothing reads is as it was made.
ConfigFit(c) ==
    /\ c = [k \in Setting |-> c[k]]
    /\ \A k \in Unread : c[k] = Defaults[k]

SettingsInv ==
    /\ SettingsTypeOK
    /\ \A r \in Starter : ConfigFit(config[r])
    /\ config = [r \in Starter |-> config[r]] /\ got = [r \in Starter |-> got[r]]
    /\ queries = [r \in Starter |-> queries[r]]
    /\ startedAt = [r \in Starter |-> startedAt[r]]
    /\ \A r \in alone : pc[r] # "idle" => OwnFiles(r) /\ OwnSettings(r)

-----------------------------------------------------------------------------
(* SettingsFlow: the proofs of the steps.                                  *)

\* The attributes Config is made with.
LEMMA DefaultsFit == DOMAIN Defaults = Setting /\ ConfigFit(Defaults)
<1>1. DOMAIN Defaults = Setting
  BY DEF Defaults, Setting, Loadable, Rank, Unread
<1>2. Defaults = [k \in Setting |-> Defaults[k]]
  BY <1>1 DEF Defaults
<1>3. QED
  BY <1>1, <1>2 DEF ConfigFit

\* Initially the invariant of the settings holds.
LEMMA InitSettingsInv == SettingsInit => SettingsInv
<1> SUFFICES ASSUME SettingsInit PROVE SettingsInv
  OBVIOUS
<1>1. \A r \in Starter : config[r] = Defaults
  BY DEF SettingsInit
<1>2. DOMAIN Defaults = Setting /\ ConfigFit(Defaults)
  BY DefaultsFit
<1>3. SettingsTypeOK
  BY <1>1, <1>2 DEF SettingsInit, SettingsTypeOK
<1>4. alone = {}
  BY DEF SettingsInit
<1>5. /\ config = [r \in Starter |-> config[r]] /\ got = [r \in Starter |-> got[r]]
      /\ queries = [r \in Starter |-> queries[r]]
      /\ startedAt = [r \in Starter |-> startedAt[r]]
  BY DEF SettingsInit
<1>6. QED
  BY <1>1, <1>2, <1>3, <1>4, <1>5 DEF SettingsInv

\* Nobody but the operator, or a run that is not there, changes the workbooks
\* while a run has them to itself, and it has left when another comes.
LEMMA OthersStayAway ==
  ASSUME SettingsInv, NEW r \in alone, NEW s \in Starter, pc[r] # "idle", pc[s] # "idle"
  PROVE  r = s
BY DEF SettingsInv, OwnFiles

\* A load gives every attribute a value, and leaves those it does not know.
LEMMA LoadedFits ==
  ASSUME NEW old, NEW file, DOMAIN old = Setting, ConfigFit(old)
  PROVE  DOMAIN Loaded(old, file) = Setting /\ ConfigFit(Loaded(old, file))
<1>1. CASE IsReadable(file) /\ file.header
  <2>1. \A k \in Unread : k \in Setting /\ k \notin Taken(file.settings)
    BY DEF Unread, Setting, Taken, Loadable, Rank
  <2>2. \A k \in Setting : Loaded(old, file)[k] =
            IF k \in Taken(file.settings) THEN Meant(k, file.settings[k]) ELSE old[k]
    BY <1>1 DEF Loaded
  <2>3. DOMAIN Loaded(old, file) = Setting
        /\ Loaded(old, file) = [k \in Setting |-> Loaded(old, file)[k]]
    BY <1>1 DEF Loaded
  <2>4. \A k \in Unread : Loaded(old, file)[k] = Defaults[k]
    BY <2>1, <2>2 DEF ConfigFit
  <2>5. QED
    BY <2>3, <2>4 DEF ConfigFit
<1>2. CASE ~(IsReadable(file) /\ file.header)
  BY <1>2 DEF Loaded
<1>3. QED
  BY <1>1, <1>2

\* A setting that a readable file gives is the one that is loaded.
LEMMA LoadedTakes ==
  ASSUME NEW old, NEW file, IsReadable(file), file.header,
         NEW k \in Loadable, k \in Taken(file.settings)
  PROVE  Loaded(old, file)[k] = Meant(k, file.settings[k])
BY DEF Loaded, Setting

\* A step of one run leaves the invariant if what that run knows of itself
\* holds after it.
LEMMA SettingsStep ==
  ASSUME SettingsInv, NEW r \in Starter, pc[r] # "idle",
         SettingsTypeOK',
         alone' = alone, \A q \in Starter \ {r} : pc'[q] = pc[q],
         config' = [q \in Starter |-> config'[q]], got' = [q \in Starter |-> got'[q]],
         queries' = [q \in Starter |-> queries'[q]],
         startedAt' = [q \in Starter |-> startedAt'[q]],
         \A q \in Starter : ConfigFit(config'[q]),
         r \in alone /\ pc'[r] # "idle" => OwnFiles(r)' /\ OwnSettings(r)'
  PROVE  SettingsInv'
<1>1. ASSUME NEW q \in alone', pc'[q] # "idle" PROVE q = r
  <2>1. q \in alone /\ q \in Starter
    BY DEF SettingsInv, SettingsTypeOK
  <2>2. CASE q # r
    <3>1. pc[q] # "idle"
      BY <1>1, <2>1, <2>2
    <3>2. QED
      BY <2>1, <2>2, <3>1, OthersStayAway
  <2>3. QED
    BY <2>2
<1>2. ASSUME NEW q \in alone', pc'[q] # "idle" PROVE OwnFiles(q)' /\ OwnSettings(q)'
  BY <1>1, <1>2
<1>3. QED
  BY <1>2 DEF SettingsInv, ConfigFit

\* The first step of a run: what comes before it is over.
LEMMA ImportKeepsInv ==
  ASSUME SettingsInv, NEW r \in Starter, ImportConfig(r)
  PROVE  SettingsInv'
<1>1. /\ pc[r] = "idle" /\ pc' = [pc EXCEPT ![r] = "read"]
      /\ config' = [config EXCEPT ![r] = Loaded(Defaults, management)]
      /\ alone' = IF \A q \in Starter : pc[q] = "idle" THEN {r} ELSE {}
      /\ UNCHANGED <<local, got, queries, startedAt>>
  BY DEF ImportConfig, Advance
<1>2. PICK taken : /\ taken = Loaded(Defaults, management)
                   /\ DOMAIN taken = Setting /\ ConfigFit(taken)
  BY DefaultsFit, LoadedFits
<1>3. /\ \A q \in Starter : ConfigFit(config'[q])
      /\ \A q \in Starter : DOMAIN config'[q] = Setting
      /\ config' = [q \in Starter |-> config'[q]]
  <2>1. config' = [config EXCEPT ![r] = taken] /\ config = [q \in Starter |-> config[q]]
    BY <1>1, <1>2 DEF SettingsInv
  <2>2. \A q \in Starter : config'[q] = IF q = r THEN taken ELSE config[q]
    BY <2>1
  <2>3. config' = [q \in Starter |-> config'[q]]
    BY <2>1
  <2>4. QED
    BY <1>2, <2>2, <2>3 DEF SettingsInv, SettingsTypeOK
<1>4. SettingsTypeOK'
  BY <1>1, <1>3 DEF SettingsInv, SettingsTypeOK
<1>5. pc'[r] = "read" /\ \A q \in Starter \ {r} : pc'[q] = pc[q]
  BY <1>1 DEF SettingsInv, SettingsTypeOK
<1>6. ASSUME NEW q \in alone' PROVE OwnFiles(q)' /\ OwnSettings(q)'
  <2>1. q = r /\ \A s \in Starter : pc[s] = "idle"
    BY <1>1
  <2>2. OwnFiles(r)'
    BY <1>5, <2>1 DEF OwnFiles, ToFill, ToManage, ToLoad, ToCheck, ToGenerate, ToHarvest
  <2>3. OwnSettings(r)'
    BY <1>5 DEF OwnSettings, ToCheck, ToGenerate, ToHarvest
  <2>4. QED
    BY <2>1, <2>2, <2>3
<1>7. /\ got' = [q \in Starter |-> got'[q]] /\ queries' = [q \in Starter |-> queries'[q]]
      /\ startedAt' = [q \in Starter |-> startedAt'[q]]
  BY <1>1 DEF SettingsInv
<1>8. QED
  BY <1>3, <1>4, <1>6, <1>7 DEF SettingsInv, ConfigFit

\* The steps in which a run copies the operator's sheet into the workbooks.
LEMMA CopyKeepsInv ==
  ASSUME SettingsInv, NEW r \in Starter,
         ReadLocal(r) \/ OpenInput(r) \/ FillInput(r) \/ OpenManagement(r) \/ FillManagement(r)
  PROVE  SettingsInv'
<1> USE DEF ToFill, ToManage, ToLoad, ToCheck, ToGenerate, ToHarvest
<1>1. /\ pc[r] # "idle" /\ r \in Starter
      /\ UNCHANGED <<config, startedAt, queries, alone>>
  BY DEF ReadLocal, OpenInput, FillInput, OpenManagement, FillManagement, Advance
<1>2. /\ \A q \in Starter \ {r} : pc'[q] = pc[q]
      /\ pc'[r] \notin ToCheck /\ pc' \in [Starter -> ToFill \cup {"idle", "read"}]
  <2>1. PICK to \in {"openInput", "fillInput", "openManagement", "fillManagement", "load"} :
          pc' = [pc EXCEPT ![r] = to]
    BY DEF ReadLocal, OpenInput, FillInput, OpenManagement, FillManagement, Advance
  <2>2. pc \in [Starter -> ToFill \cup {"idle", "read"}]
    BY DEF SettingsInv, SettingsTypeOK
  <2>3. pc'[r] = to
    BY <2>1, <2>2
  <2>4. to \notin ToCheck /\ to \in ToFill
    OBVIOUS
  <2>5. QED
    BY <2>1, <2>2, <2>3, <2>4
<1>3. SettingsTypeOK' /\ got' = [q \in Starter |-> got'[q]]
  BY <1>1, <1>2 DEF SettingsInv, SettingsTypeOK, ReadLocal, OpenInput, FillInput,
     OpenManagement, FillManagement
<1>4. OwnSettings(r)'
  BY <1>2 DEF OwnSettings
<1>5. ASSUME r \in alone PROVE OwnFiles(r)'
  <2>1. \A q \in Starter \ {r} : pc'[q] = "idle"
    BY <1>1, <1>2, <1>5 DEF SettingsInv, OwnFiles
  <2>2. /\ pc[r] \in ToFill => got[r] \in Sheet \cup {DefaultSheet}
        /\ pc[r] \in ToManage => input = got[r].rows
    BY <1>1, <1>5 DEF SettingsInv, OwnFiles
  <2>3. CASE ReadLocal(r)
    <3>1. local' \in Sheet \cup {DefaultSheet} /\ got'[r] = local' /\ pc'[r] = "openInput"
      BY <2>3 DEF ReadLocal, Advance, SettingsInv, SettingsTypeOK
    <3>2. QED
      BY <2>1, <3>1 DEF OwnFiles
  <2>4. CASE OpenInput(r)
    <3>1. pc[r] = "openInput" /\ pc'[r] = "fillInput" /\ got' = got
      BY <2>4 DEF OpenInput, Advance, SettingsInv, SettingsTypeOK
    <3>2. QED
      BY <2>1, <2>2, <3>1 DEF OwnFiles
  <2>5. CASE FillInput(r)
    <3>1. /\ pc[r] = "fillInput" /\ pc'[r] = "openManagement" /\ got' = got
          /\ input' = got[r].rows
      BY <2>5 DEF FillInput, Advance, SettingsInv, SettingsTypeOK
    <3>2. QED
      BY <2>1, <2>2, <3>1 DEF OwnFiles
  <2>6. CASE OpenManagement(r)
    <3>1. /\ pc[r] = "openManagement" /\ pc'[r] = "fillManagement" /\ got' = got
          /\ input' = input
      BY <2>6 DEF OpenManagement, Advance, SettingsInv, SettingsTypeOK
    <3>2. QED
      BY <2>1, <2>2, <3>1 DEF OwnFiles
  <2>7. CASE FillManagement(r)
    <3>1. /\ pc[r] = "fillManagement" /\ pc'[r] = "load" /\ got' = got
          /\ input' = input /\ management' = Managed(got[r])
      BY <2>7 DEF FillManagement, Advance, SettingsInv, SettingsTypeOK
    <3>2. QED
      BY <2>1, <2>2, <3>1 DEF OwnFiles
  <2>8. QED
    BY <2>3, <2>4, <2>5, <2>6, <2>7
<1>6. /\ config' = [q \in Starter |-> config'[q]] /\ queries' = [q \in Starter |-> queries'[q]]
      /\ startedAt' = [q \in Starter |-> startedAt'[q]]
      /\ \A q \in Starter : ConfigFit(config'[q])
  BY <1>1 DEF SettingsInv
<1> HIDE DEF ToFill, ToManage, ToLoad, ToCheck, ToGenerate, ToHarvest
<1>7. QED
  BY <1>1, <1>2, <1>3, <1>4, <1>5, <1>6, SettingsStep

\* The process is gone, and with it what is said of it.
LEMMA EndKeepsInv ==
  ASSUME SettingsInv, NEW r \in Starter, pc[r] # "idle", Ends(r)
  PROVE  SettingsInv'
<1>1. /\ pc' = [pc EXCEPT ![r] = "idle"]
      /\ got' = [got EXCEPT ![r] = DefaultSheet]
      /\ config' = [config EXCEPT ![r] = Defaults]
      /\ queries' = [queries EXCEPT ![r] = {}]
      /\ startedAt' = [startedAt EXCEPT ![r] = Never]
      /\ UNCHANGED <<local, alone>>
  BY DEF Ends
<1>2. DOMAIN Defaults = Setting /\ ConfigFit(Defaults)
  BY DefaultsFit
<1>3. /\ \A q \in Starter : ConfigFit(config'[q])
      /\ \A q \in Starter : DOMAIN config'[q] = Setting
      /\ config' = [q \in Starter |-> config'[q]]
  BY <1>1, <1>2 DEF SettingsInv, SettingsTypeOK
<1>4. pc'[r] = "idle" /\ \A q \in Starter \ {r} : pc'[q] = pc[q]
  BY <1>1 DEF SettingsInv, SettingsTypeOK
<1>5. SettingsTypeOK'
  BY <1>1, <1>3 DEF SettingsInv, SettingsTypeOK
<1>6. /\ got' = [q \in Starter |-> got'[q]] /\ queries' = [q \in Starter |-> queries'[q]]
      /\ startedAt' = [q \in Starter |-> startedAt'[q]]
  BY <1>1 DEF SettingsInv
<1>7. QED
  BY <1>1, <1>3, <1>4, <1>5, <1>6, SettingsStep

\* The workbook a run has written can be read.
LEMMA ManagedIsReadable ==
  ASSUME NEW sheet \in Sheet \cup {DefaultSheet}
  PROVE  IsReadable(Managed(sheet)) /\ IsReadable(sheet.rows)
BY FilesAssumption DEF IsReadable

\* The steps in which a run takes its settings from the workbooks, and obeys.
LEMMA UseKeepsInv ==
  ASSUME SettingsInv, NEW r \in Starter,
         LoadManagement(r) \/ CheckAllowed(r) \/ GenerateQueries(r) \/ Crawl(r)
  PROVE  SettingsInv'
<1>1. /\ pc[r] # "idle"
      /\ UNCHANGED <<local, input, management, got, alone>>
  BY DEF LoadManagement, CheckAllowed, GenerateQueries, Crawl, Advance
<1>2. PICK to \in {"check", "generate", "harvest", "ending"} : pc' = [pc EXCEPT ![r] = to]
  BY DEF LoadManagement, CheckAllowed, GenerateQueries, Crawl, Advance
<1>3. pc'[r] = to /\ \A q \in Starter \ {r} : pc'[q] = pc[q]
  BY <1>2 DEF SettingsInv, SettingsTypeOK
<1>4. pc[r] \in ToLoad
  BY DEF LoadManagement, CheckAllowed, GenerateQueries, Crawl, Advance, ToLoad, ToCheck,
     ToGenerate, ToHarvest
<1>5. /\ \A q \in Starter : ConfigFit(config'[q])
      /\ \A q \in Starter : DOMAIN config'[q] = Setting
      /\ config' = [q \in Starter |-> config'[q]]
  <2>1. CASE LoadManagement(r)
    <3>1. PICK taken : /\ taken = Loaded(config[r], management)
                       /\ DOMAIN taken = Setting /\ ConfigFit(taken)
      BY LoadedFits DEF SettingsInv, SettingsTypeOK
    <3>2. config' = [config EXCEPT ![r] = taken] /\ config = [q \in Starter |-> config[q]]
      BY <2>1, <3>1 DEF LoadManagement, SettingsInv
    <3>3. \A q \in Starter : config'[q] = IF q = r THEN taken ELSE config[q]
      BY <3>2
    <3>4. config' = [q \in Starter |-> config'[q]]
      BY <3>2
    <3>5. QED
      BY <3>1, <3>3, <3>4 DEF SettingsInv, SettingsTypeOK
  <2>2. CASE ~LoadManagement(r)
    <3>1. config' = config
      BY <2>2 DEF CheckAllowed, GenerateQueries, Crawl
    <3>2. QED
      BY <3>1 DEF SettingsInv, SettingsTypeOK
  <2>3. QED
    BY <2>1, <2>2
<1>6. /\ queries' = [q \in Starter |-> queries'[q]] /\ got' = [q \in Starter |-> got'[q]]
      /\ startedAt' = [q \in Starter |-> startedAt'[q]]
  BY DEF SettingsInv, LoadManagement, CheckAllowed, GenerateQueries, Crawl
<1>7. SettingsTypeOK'
  BY <1>1, <1>2, <1>5 DEF SettingsInv, SettingsTypeOK
<1>8. ASSUME r \in alone PROVE OwnFiles(r)' /\ OwnSettings(r)'
  <2>1. OwnFiles(r) /\ OwnSettings(r)
    BY <1>1, <1>8 DEF SettingsInv
  <2>2. OwnFiles(r)'
    BY <1>1, <1>3, <1>4, <2>1 DEF OwnFiles, ToFill, ToManage, ToLoad, ToCheck, ToGenerate,
       ToHarvest
  <2>3. CASE LoadManagement(r)
    <3>1. pc'[r] = "check" /\ config'[r] = Loaded(config[r], management) /\ management' = management
      BY <1>1, <2>3 DEF LoadManagement, Advance, SettingsInv, SettingsTypeOK
    <3>2. got[r] \in Sheet \cup {DefaultSheet} /\ management = Managed(got[r])
      BY <1>4, <2>1 DEF OwnFiles, ToFill, ToManage
    <3>3. IsReadable(management)
      BY <3>2, ManagedIsReadable
    <3>4. \A k \in Loadable : k \in Taken(management.settings) /\ management.header
             => config'[r][k] = Meant(k, management.settings[k])
      BY <3>1, <3>3, LoadedTakes
    <3>5. QED
      BY <2>2, <3>1, <3>4 DEF OwnSettings, ToCheck, ToGenerate, ToHarvest, Taken, Raises, Meant
  <2>4. CASE CheckAllowed(r)
    <3>1. /\ pc[r] = "check" /\ pc'[r] = "generate" /\ config' = config /\ management' = management
      BY <1>1, <2>4 DEF CheckAllowed, Advance, SettingsInv, SettingsTypeOK
    <3>2. Allowed(management, startedAt'[r])
      <4>1. PICK now \in Clock : /\ Allowed(management, now)
                                 /\ startedAt' = [startedAt EXCEPT ![r] = now]
        BY <2>4 DEF CheckAllowed
      <4>2. startedAt'[r] = now
        BY <4>1 DEF SettingsInv
      <4>3. QED
        BY <4>1, <4>2
    <3>3. QED
      BY <2>1, <2>2, <3>1, <3>2
      DEF OwnSettings, ToCheck, ToGenerate, ToHarvest, Taken, Raises, Meant, Allowed, Cell,
          Opens, Closes
  <2>5. CASE GenerateQueries(r)
    <3>1. /\ pc[r] = "generate" /\ pc'[r] = "harvest" /\ config' = config
          /\ management' = management /\ input' = input /\ queries'[r] = Made(input)
          /\ startedAt' = startedAt
      BY <1>1, <2>5 DEF GenerateQueries, Advance, SettingsInv, SettingsTypeOK
    <3>2. QED
      BY <2>1, <2>2, <3>1 DEF OwnSettings, ToCheck, ToGenerate, ToHarvest
  <2>6. CASE Crawl(r)
    <3>1. /\ pc[r] = "harvest" /\ pc'[r] = "ending" /\ config' = config
          /\ management' = management /\ input' = input /\ queries' = queries
          /\ startedAt' = startedAt
      BY <1>1, <2>6 DEF Crawl, Advance, SettingsInv, SettingsTypeOK
    <3>2. QED
      BY <2>1, <2>2, <3>1 DEF OwnSettings, ToCheck, ToGenerate, ToHarvest
  <2>7. QED
    BY <2>3, <2>4, <2>5, <2>6
<1>9. QED
  BY <1>1, <1>3, <1>5, <1>6, <1>7, <1>8, SettingsStep

\* Every step, a stuttering one too, keeps the invariant of the settings.
LEMMA StepSettingsInv == SettingsInv /\ [SettingsNext]_settingsVars => SettingsInv'
<1> SUFFICES ASSUME SettingsInv, [SettingsNext]_settingsVars PROVE SettingsInv'
  OBVIOUS
<1>1. ASSUME UNCHANGED <<input, management, pc, got, config, startedAt, queries, alone>>,
             local' \in Sheet \cup {NoFile, DefaultSheet}
      PROVE  SettingsInv'
  <2>1. SettingsTypeOK'
    BY <1>1 DEF SettingsInv, SettingsTypeOK
  <2>2. \A r \in alone : (OwnFiles(r) => OwnFiles(r)') /\ (OwnSettings(r) => OwnSettings(r)')
    BY <1>1 DEF OwnFiles, OwnSettings, Allowed, Cell, Opens, Closes, Made, QueriesOfInput,
       Taken, Raises, Meant
  <2>3. QED
    BY <1>1, <2>1, <2>2 DEF SettingsInv
<1>2. CASE UNCHANGED settingsVars
  BY <1>1, <1>2 DEF settingsVars, SettingsInv, SettingsTypeOK
<1>3. CASE Save
  BY <1>1, <1>3 DEF Save
<1>4. ASSUME NEW r \in Starter, CheckRefuses(r) \/ GenerateFails(r) \/ Leave(r)
      PROVE  SettingsInv'
  <2>1. pc[r] # "idle" /\ Ends(r)
    BY <1>4 DEF CheckRefuses, GenerateFails, Leave
  <2>2. QED
    BY <2>1, EndKeepsInv
<1>5. QED
  BY <1>2, <1>3, <1>4, ImportKeepsInv, CopyKeepsInv, UseKeepsInv DEF SettingsNext

-----------------------------------------------------------------------------
(* SettingsFlow: the theorem.                                              *)

\* What the management workbook of a sheet with its headings says.
LEMMA ManagedSays ==
  ASSUME NEW sheet \in Sheet \cup {DefaultSheet}, sheet.header
  PROVE  /\ Managed(sheet).header /\ Managed(sheet).settings = Completed(sheet.settings)
         /\ DOMAIN Completed(sheet.settings) = DOMAIN DefaultSettings
BY DEF Managed, Completed

\* A row gives queries, so that only a sheet without an active one gives none.
LEMMA RowsMakeQueries ==
  ASSUME NEW rows
  PROVE  Made(rows) = IF \E line \in rows : line.active = 1 THEN QueriesOfInput(rows) ELSE Fallback
<1>1. \A line : <<Word(line.keyword), Word(line.city)>> \in QueriesOf(line)
  BY DEF QueriesOf
<1>2. CASE \E line \in rows : line.active = 1
  <2>1. PICK line \in rows : line.active = 1
    BY <1>2
  <2>2. QueriesOf(line) \subseteq QueriesOfInput(rows)
    BY <2>1 DEF QueriesOfInput
  <2>3. QueriesOfInput(rows) # {}
    BY <1>1, <2>2
  <2>4. QED
    BY <1>2, <2>3 DEF Made
<1>3. CASE ~ \E line \in rows : line.active = 1
  <2>1. QueriesOfInput(rows) = {}
    BY <1>3 DEF QueriesOfInput
  <2>2. QED
    BY <1>3, <2>1 DEF Made
<1>4. QED
  BY <1>2, <1>3

\* google-maps-bot, run.py and what it calls: whatever the operator saves
\* meanwhile and however runs overlap and die, a run that had the workbooks to
\* itself began within the hours of its sheet and without its pause, harvests
\* the queries of its active rows (the fallback's only without one), and has
\* each setting load_from_excel reads from it, up to the first cell that is
\* refused; the three keys that nothing reads keep Config's own values.
THEOREM SettingsAreKept == SettingsSpec => []SettingsAreObeyed
<1>1. SettingsInv => SettingsAreObeyed
  <2> SUFFICES ASSUME SettingsInv PROVE SettingsAreObeyed
    OBVIOUS
  <2>1. SettingsTypeOK
    BY DEF SettingsInv
  <2>2. ASSUME NEW r \in alone, HarvestsNow(r)
        PROVE  queries[r] = IF \E line \in got[r].rows : line.active = 1
                            THEN QueriesOfInput(got[r].rows) ELSE Fallback
    <3>1. queries[r] = Made(got[r].rows)
      BY <2>2 DEF SettingsInv, HarvestsNow, OwnFiles, OwnSettings, ToManage, ToLoad, ToCheck,
         ToGenerate, ToHarvest
    <3>2. QED
      BY <3>1, RowsMakeQueries
  <2>3. ASSUME NEW r \in alone, NEW k \in Unread PROVE config[r][k] = Defaults[k]
    BY <2>3 DEF SettingsInv, SettingsTypeOK, ConfigFit
  <2>4. ASSUME NEW r \in alone, HarvestsNow(r), got[r].header
        PROVE  LET asked == Completed(got[r].settings) IN
                 /\ asked.pause # 1
                 /\ Opens(asked) <= startedAt[r] /\ startedAt[r] <= Closes(asked)
                 /\ \A k \in Loadable :
                       \/ config[r][k] = Meant(k, asked[k])
                       \/ asked[k] = NoRange
                       \/ \E j \in Loadable : Rank[j] <= Rank[k] /\ Raises(j, asked[j])
    <3> DEFINE asked == Completed(got[r].settings)
    <3>1. /\ pc[r] \in ToHarvest /\ pc[r] \in ToGenerate /\ pc[r] \in ToCheck /\ pc[r] \in ToLoad
          /\ pc[r] \in ToFill /\ pc[r] # "idle"
      BY <2>4 DEF HarvestsNow, ToFill, ToManage, ToLoad, ToCheck, ToGenerate, ToHarvest
    <3>2. OwnFiles(r) /\ OwnSettings(r)
      BY <3>1 DEF SettingsInv
    <3>3. got[r] \in Sheet \cup {DefaultSheet} /\ management = Managed(got[r])
      BY <3>1, <3>2 DEF OwnFiles
    <3>4. /\ management.header /\ management.settings = asked
          /\ "pause" \in DOMAIN asked /\ Loadable \subseteq DOMAIN asked
      BY <2>4, <3>3, ManagedSays DEF DefaultSettings, Loadable, Rank
    <3>5. IsReadable(management)
      BY <3>3, ManagedIsReadable
    <3> HIDE DEF asked
    <3>6. Allowed(management, startedAt[r])
      BY <3>1, <3>2 DEF OwnSettings
    <3>7. /\ Opens(asked) <= startedAt[r] /\ startedAt[r] <= Closes(asked)
          /\ Cell(asked, "pause", 0) # 1
      BY <3>4, <3>5, <3>6 DEF Allowed
    <3>8. asked.pause # 1
      BY <3>4, <3>7 DEF Cell, Unreadable
    <3>9. ASSUME NEW k \in Loadable
          PROVE  \/ config[r][k] = Meant(k, asked[k])
                 \/ asked[k] = NoRange
                 \/ \E j \in Loadable : Rank[j] <= Rank[k] /\ Raises(j, asked[j])
      <4>1. CASE k \in Taken(asked)
        BY <3>1, <3>2, <3>4, <4>1 DEF OwnSettings
      <4>2. CASE k \notin Taken(asked)
        BY <3>4, <4>2 DEF Taken
      <4>3. QED
        BY <4>1, <4>2
    <3>10. QED
      BY <3>7, <3>8, <3>9 DEF asked
  <2>5. QED
    BY <2>1, <2>2, <2>3, <2>4 DEF SettingsAreObeyed
<1>2. QED
  BY InitSettingsInv, StepSettingsInv, <1>1, PTL DEF SettingsSpec

-----------------------------------------------------------------------------
(* LeadViews: the inductive invariant.                                     *)

\* A business that is done was in a round, and two extractors have had one
\* that is still in a round of another.
RoundStory ==
    /\ \A l \in Lead : row[l].status = "done" => tries[l] > 0
    /\ \A e \in Extractor : \A l \in todo[e] : tries[l] > 0
    /\ \A e \in Extractor : \A l \in todo[e] : row[l].status = "done" => l \in shared
    /\ \A e, f \in Extractor : e # f => todo[e] \cap todo[f] \subseteq shared

\* What was crawled, or will be, has the site it was chosen for.
SiteStory ==
    \A l \in Lead :
        finds[l] # <<>> \/ (\E c \in Crawler : l \in chosen[c]) =>
            l \in shared \/ (row[l].status = "done" /\ row[l].site)

\* Only two crawlers that chose the same business find it twice.
CrawlStory ==
    /\ \A c, d \in Crawler : c # d => chosen[c] \cap chosen[d] \subseteq doubled
    /\ \A c \in Crawler : \A l \in chosen[c] : finds[l] # <<>> => l \in doubled
    /\ \A l \in Lead : Len(finds[l]) > 1 => l \in doubled

ViewInv ==
    /\ ViewTypeOK
    /\ finds \in [Lead -> Seq(SUBSET Find)]
    /\ tries \in [Lead -> 0 .. MaxTries]
    /\ RoundStory
    /\ SiteStory
    /\ CrawlStory

-----------------------------------------------------------------------------
(* LeadViews: the proofs of the steps.                                     *)

\* Initially the invariant of the lead views holds.
LEMMA InitViewInv == ViewInit => ViewInv
<1> SUFFICES ASSUME ViewInit PROVE ViewInv
  OBVIOUS
<1>1. /\ row \in [Lead -> [status : {"pending", "done", "failed"}, phone : Phone, site : BOOLEAN]]
      /\ \A l \in Lead : row[l].status = "pending"
  BY DEF ViewInit, Phone
<1>2. finds \in [Lead -> Seq(SUBSET Find)] /\ \A l \in Lead : finds[l] = <<>> /\ Len(finds[l]) = 0
  BY DEF ViewInit
<1>3. /\ todo \in [Extractor -> SUBSET Lead] /\ \A e \in Extractor : todo[e] = {}
      /\ chosen \in [Crawler -> SUBSET Lead] /\ \A c \in Crawler : chosen[c] = {}
      /\ tries \in [Lead -> 0 .. MaxTries]
  BY ViewAssumption DEF ViewInit
<1>4. ViewTypeOK
  BY <1>1, <1>2, <1>3 DEF ViewTypeOK
<1>5. RoundStory
  BY <1>1, <1>3 DEF RoundStory
<1>6. SiteStory
  BY <1>2, <1>3 DEF SiteStory
<1>7. CrawlStory
  BY <1>2, <1>3 DEF CrawlStory
<1>8. QED
  BY <1>2, <1>3, <1>4, <1>5, <1>6, <1>7 DEF ViewInv

\* A round is of businesses that are not done.
LEMMA FetchKeepsInv ==
  ASSUME ViewInv, NEW e \in Extractor, FetchBatch(e)
  PROVE  ViewInv'
<1>1. PICK round \in SUBSET Lead :
        /\ \A l \in round : row[l].status # "done" /\ tries[l] < MaxTries
        /\ todo' = [todo EXCEPT ![e] = round]
        /\ tries' = [l \in Lead |-> IF l \in round THEN tries[l] + 1 ELSE tries[l]]
        /\ shared' = shared \cup {l \in round : \E o \in Extractor : l \in todo[o]}
  <2>1. PICK round \in NextRound :
        /\ todo' = [todo EXCEPT ![e] = round]
        /\ tries' = [l \in Lead |-> IF l \in round THEN tries[l] + 1 ELSE tries[l]]
        /\ shared' = shared \cup {l \in round : \E o \in Extractor : l \in todo[o]}
    BY DEF FetchBatch
  <2>2. round \in SUBSET Having("failed") \/ round \in SUBSET Having("pending")
    BY DEF NextRound
  <2>3. round \in SUBSET Lead /\ \A l \in round : row[l].status # "done" /\ tries[l] < MaxTries
    BY <2>2 DEF Having
  <2>4. QED
    BY <2>1, <2>3
<1>2. UNCHANGED <<row, finds, chosen, doubled>> /\ todo[e] = {}
  BY DEF FetchBatch
<1>3. /\ todo \in [Extractor -> SUBSET Lead] /\ todo' \in [Extractor -> SUBSET Lead]
      /\ todo'[e] = round /\ \A f \in Extractor : f # e => todo'[f] = todo[f]
  BY <1>1 DEF ViewInv, ViewTypeOK
<1>4. /\ tries' \in [Lead -> 0 .. MaxTries]
      /\ \A l \in Lead : tries'[l] >= tries[l]
      /\ \A l \in round : tries'[l] > 0
  <2>1. MaxTries \in Nat
    BY ViewAssumption
  <2>2. ASSUME NEW l \in Lead
        PROVE  /\ tries'[l] \in 0 .. MaxTries /\ tries'[l] >= tries[l]
               /\ l \in round => tries'[l] > 0
    BY <1>1, <2>1 DEF ViewInv
  <2>3. QED
    BY <1>1, <2>2
<1>5. shared \subseteq shared'
  BY <1>1
<1>6. RoundStory'
  <2>1. \A l \in Lead : row'[l].status = "done" => tries'[l] > 0
    BY <1>2, <1>4 DEF ViewInv, RoundStory
  <2>2. \A f \in Extractor : \A l \in todo'[f] :
          tries'[l] > 0 /\ (row'[l].status = "done" => l \in shared')
    <3> TAKE f \in Extractor
    <3> TAKE l \in todo'[f]
    <3>1. CASE f = e
      BY <1>1, <1>2, <1>3, <1>4, <3>1
    <3>2. CASE f # e
      <4>1. l \in todo[f] /\ l \in Lead
        BY <1>3, <3>2
      <4>2. QED
        BY <1>2, <1>4, <1>5, <4>1 DEF ViewInv, RoundStory
    <3>3. QED
      BY <3>1, <3>2
  <2>3. \A f, g \in Extractor : f # g => todo'[f] \cap todo'[g] \subseteq shared'
    BY <1>1, <1>3, <1>5 DEF ViewInv, RoundStory
  <2>4. QED
    BY <2>1, <2>2, <2>3 DEF RoundStory
<1>7. SiteStory' /\ CrawlStory'
  BY <1>2, <1>5 DEF ViewInv, SiteStory, CrawlStory
<1>8. QED
  BY <1>2, <1>3, <1>4, <1>6, <1>7 DEF ViewInv, ViewTypeOK

\* A page is read, or refused.
LEMMA SettleKeepsInv ==
  ASSUME ViewInv, NEW e \in Extractor, NEW l \in todo[e],
         NEW values \in [status : {"done", "failed"}, phone : Phone, site : BOOLEAN],
         Settle(e, l, values)
  PROVE  ViewInv'
<1>1. /\ row' = [row EXCEPT ![l] = values]
      /\ todo' = [todo EXCEPT ![e] = todo[e] \ {l}]
      /\ UNCHANGED <<finds, chosen, tries, shared, doubled>>
  BY DEF Settle
<1>2. l \in Lead /\ tries[l] > 0
  BY DEF ViewInv, ViewTypeOK, RoundStory
<1>3. /\ row' \in [Lead -> [status : {"pending", "done", "failed"}, phone : Phone, site : BOOLEAN]]
      /\ \A k \in Lead : k # l => row'[k] = row[k]
  BY <1>1 DEF ViewInv, ViewTypeOK
<1>4. todo' \in [Extractor -> SUBSET Lead]
      /\ l \notin todo'[e] /\ \A f \in Extractor : todo'[f] \subseteq todo[f]
  BY <1>1 DEF ViewInv, ViewTypeOK
<1>5. RoundStory'
  <2>1. \A k \in Lead : row'[k].status = "done" => tries'[k] > 0
    BY <1>1, <1>2, <1>3 DEF ViewInv, RoundStory
  <2>2. \A f \in Extractor : \A k \in todo'[f] :
          tries'[k] > 0 /\ (row'[k].status = "done" => k \in shared')
    <3> TAKE f \in Extractor
    <3> TAKE k \in todo'[f]
    <3>1. k \in todo[f] /\ k \in Lead /\ tries[k] > 0
      BY <1>4 DEF ViewInv, RoundStory, ViewTypeOK
    <3>2. CASE k = l
      <4>1. f # e
        BY <1>4, <3>2
      <4>2. QED
        BY <1>1, <3>1, <3>2, <4>1 DEF ViewInv, RoundStory
    <3>3. CASE k # l
      BY <1>1, <1>3, <3>1, <3>3 DEF ViewInv, RoundStory
    <3>4. QED
      BY <3>2, <3>3
  <2>3. \A f, g \in Extractor : f # g => todo'[f] \cap todo'[g] \subseteq shared'
    BY <1>1, <1>4 DEF ViewInv, RoundStory
  <2>4. QED
    BY <2>1, <2>2, <2>3 DEF RoundStory
<1>6. SiteStory'
  <2>1. ASSUME NEW k \in Lead, finds[k] # <<>> \/ \E c \in Crawler : k \in chosen[c]
        PROVE  k \in shared \/ (row'[k].status = "done" /\ row'[k].site)
    <3>1. k \in shared \/ (row[k].status = "done" /\ row[k].site)
      BY <2>1 DEF ViewInv, SiteStory
    <3>2. CASE k = l
      BY <3>1, <3>2 DEF ViewInv, RoundStory
    <3>3. CASE k # l
      BY <1>3, <3>1, <3>3
    <3>4. QED
      BY <3>2, <3>3
  <2>2. QED
    BY <1>1, <2>1 DEF SiteStory
<1>7. CrawlStory'
  BY <1>1 DEF ViewInv, CrawlStory
<1>8. QED
  BY <1>1, <1>3, <1>4, <1>5, <1>6, <1>7 DEF ViewInv, ViewTypeOK

\* A crawler chooses what nobody has crawled yet.
LEMMA SelectKeepsInv ==
  ASSUME ViewInv, NEW c \in Crawler, SelectSites(c)
  PROVE  ViewInv'
<1>1. PICK sites \in SUBSET Lead :
        /\ \A l \in sites : row[l].status = "done" /\ row[l].site /\ finds[l] = <<>>
        /\ chosen' = [chosen EXCEPT ![c] = sites]
        /\ doubled' = doubled \cup {l \in sites : \E o \in Crawler : l \in chosen[o]}
  BY DEF SelectSites
<1>2. UNCHANGED <<row, finds, todo, tries, shared>>
  BY DEF SelectSites
<1>3. /\ chosen' \in [Crawler -> SUBSET Lead] /\ chosen'[c] = sites
      /\ \A d \in Crawler : d # c => chosen'[d] = chosen[d]
  BY <1>1 DEF ViewInv, ViewTypeOK
<1>4. doubled \subseteq doubled'
  BY <1>1
<1>5. SiteStory'
  BY <1>1, <1>2, <1>3 DEF ViewInv, SiteStory
<1>6. RoundStory'
  BY <1>2 DEF ViewInv, RoundStory
<1>7. CrawlStory'
  <2>1. \A d, k \in Crawler : d # k => chosen'[d] \cap chosen'[k] \subseteq doubled'
    BY <1>1, <1>3, <1>4 DEF ViewInv, CrawlStory
  <2>2. \A d \in Crawler : \A l \in chosen'[d] : finds'[l] # <<>> => l \in doubled'
    BY <1>1, <1>2, <1>3, <1>4 DEF ViewInv, CrawlStory
  <2>3. \A l \in Lead : Len(finds'[l]) > 1 => l \in doubled'
    BY <1>2, <1>4 DEF ViewInv, CrawlStory
  <2>4. QED
    BY <2>1, <2>2, <2>3 DEF CrawlStory
<1>8. QED
  BY <1>2, <1>3, <1>5, <1>6, <1>7 DEF ViewInv, ViewTypeOK

\* A crawler writes down what it found.
LEMMA CrawlKeepsInv ==
  ASSUME ViewInv, NEW c \in Crawler, CrawlSite(c)
  PROVE  ViewInv'
<1>1. PICK l \in chosen[c], found \in SUBSET Find :
        /\ finds' = [finds EXCEPT ![l] = Append(finds[l], found)]
        /\ chosen' = [chosen EXCEPT ![c] = chosen[c] \ {l}]
  BY DEF CrawlSite, Find
<1>2. UNCHANGED <<row, todo, tries, shared, doubled>>
  BY DEF CrawlSite
<1>3. /\ l \in Lead /\ chosen' \in [Crawler -> SUBSET Lead]
      /\ l \notin chosen'[c] /\ \A d \in Crawler : chosen'[d] \subseteq chosen[d]
  BY <1>1 DEF ViewInv, ViewTypeOK
<1>4. PICK f \in Seq(SUBSET Find) : f = finds[l]
  BY <1>3 DEF ViewInv
<1>5. PICK g \in Seq(SUBSET Find) : g = Append(f, found)
  BY AppendProperties
<1>6. /\ Len(f) \in Nat /\ Len(g) = Len(f) + 1 /\ g # <<>>
      /\ Len(g) > 1 => f # <<>>
  <2>1. Len(f) \in Nat /\ Len(g) = Len(f) + 1 /\ g # <<>>
    BY <1>5, AppendProperties, LenProperties
  <2>2. f = <<>> => Len(f) = 0
    OBVIOUS
  <2>3. QED
    BY <2>1, <2>2
<1>7. /\ finds' \in [Lead -> Seq(SUBSET Find)] /\ finds'[l] = g
      /\ \A k \in Lead : k # l => finds'[k] = finds[k]
  <2>1. finds' = [finds EXCEPT ![l] = g]
    BY <1>1, <1>4, <1>5
  <2>2. QED
    BY <1>3, <2>1 DEF ViewInv
<1>8. \A k \in Lead : \A i \in 1 .. Len(finds'[k]) : finds'[k][i] \subseteq Find
  <2> TAKE k \in Lead
  <2>1. PICK h \in Seq(SUBSET Find) : h = finds'[k]
    BY <1>7
  <2>2. \A i \in 1 .. Len(h) : h[i] \subseteq Find
    OBVIOUS
  <2>3. QED
    BY <2>1, <2>2
<1>9. SiteStory'
  BY <1>1, <1>2, <1>3, <1>7 DEF ViewInv, SiteStory
<1>10. RoundStory'
  BY <1>2 DEF ViewInv, RoundStory
<1>11. CrawlStory'
  <2>1. \A d, k \in Crawler : d # k => chosen'[d] \cap chosen'[k] \subseteq doubled
    BY <1>3 DEF ViewInv, CrawlStory
  <2>2. \A d \in Crawler : \A k \in chosen'[d] : finds'[k] # <<>> => k \in doubled
    <3> TAKE d \in Crawler
    <3> TAKE k \in chosen'[d]
    <3>1. k \in chosen[d] /\ k \in Lead
      BY <1>3
    <3>2. CASE k = l
      BY <1>1, <1>3, <3>1, <3>2 DEF ViewInv, CrawlStory
    <3>3. CASE k # l
      BY <1>7, <3>1, <3>3 DEF ViewInv, CrawlStory
    <3>4. QED
      BY <3>2, <3>3
  <2>3. \A k \in Lead : Len(finds'[k]) > 1 => k \in doubled
    <3> TAKE k \in Lead
    <3>1. CASE k = l
      BY <1>1, <1>4, <1>6, <1>7, <3>1 DEF ViewInv, CrawlStory
    <3>2. CASE k # l
      BY <1>7, <3>2 DEF ViewInv, CrawlStory
    <3>3. QED
      BY <3>1, <3>2
  <2>4. QED
    BY <1>2, <2>1, <2>2, <2>3 DEF CrawlStory
<1>12. QED
  BY <1>2, <1>3, <1>7, <1>8, <1>9, <1>10, <1>11 DEF ViewInv, ViewTypeOK

\* Every step, a stuttering one too, keeps the invariant of the lead views.
LEMMA StepViewInv == ViewInv /\ [ViewNext]_viewVars => ViewInv'
<1> SUFFICES ASSUME ViewInv, [ViewNext]_viewVars PROVE ViewInv'
  OBVIOUS
<1>1. CASE UNCHANGED viewVars
  BY <1>1 DEF viewVars, ViewInv, ViewTypeOK, RoundStory, SiteStory, CrawlStory
<1>2. ASSUME NEW e \in Extractor, PageRead(e) PROVE ViewInv'
  <2>1. PICK l \in todo[e], p \in Phone, s \in BOOLEAN :
          Settle(e, l, [status |-> "done", phone |-> p, site |-> s])
    BY <1>2 DEF PageRead
  <2>2. [status |-> "done", phone |-> p, site |-> s]
          \in [status : {"done", "failed"}, phone : Phone, site : BOOLEAN]
    OBVIOUS
  <2>3. QED
    BY <2>1, <2>2, SettleKeepsInv
<1>3. ASSUME NEW e \in Extractor, PageRefused(e) PROVE ViewInv'
  <2>1. PICK l \in todo[e] : Settle(e, l, [row[l] EXCEPT !.status = "failed"])
    BY <1>3 DEF PageRefused
  <2>2. [row[l] EXCEPT !.status = "failed"]
          \in [status : {"done", "failed"}, phone : Phone, site : BOOLEAN]
    <3>1. row[l] \in [status : {"pending", "done", "failed"}, phone : Phone, site : BOOLEAN]
      BY DEF ViewInv, ViewTypeOK
    <3>2. QED
      BY <3>1
  <2>3. QED
    BY <2>1, <2>2, SettleKeepsInv
<1>4. ASSUME NEW p \in Extractor \cup Crawler, Killed(p) PROVE ViewInv'
  <2>1. /\ todo' \in [Extractor -> SUBSET Lead] /\ \A e \in Extractor : todo'[e] \subseteq todo[e]
        /\ chosen' \in [Crawler -> SUBSET Lead] /\ \A c \in Crawler : chosen'[c] \subseteq chosen[c]
        /\ UNCHANGED <<row, finds, tries, shared, doubled>>
    BY <1>4 DEF Killed, ViewInv, ViewTypeOK
  <2>2. RoundStory' /\ SiteStory' /\ CrawlStory'
    BY <2>1 DEF ViewInv, RoundStory, SiteStory, CrawlStory
  <2>3. QED
    BY <2>1, <2>2 DEF ViewInv, ViewTypeOK
<1>5. QED
  BY <1>1, <1>2, <1>3, <1>4, FetchKeepsInv, SelectKeepsInv, CrawlKeepsInv DEF ViewNext

-----------------------------------------------------------------------------
(* LeadViews: the theorem.                                                 *)

\* The records of a business are those of its rows in the join.
LEMMA RecordsOfJoin ==
  ASSUME ViewInv, NEW l \in Lead
  PROVE  /\ Joined(l) \in Seq(SUBSET Find) /\ DOMAIN Records(l) = 1 .. Len(Joined(l))
         /\ \A i \in DOMAIN Records(l) : Records(l)[i] = Record(l, Joined(l)[i])
         /\ Len(Joined(l)) >= 1
         /\ Len(Joined(l)) > 1 => Len(finds[l]) > 1
         /\ \A i \in DOMAIN Records(l) : Joined(l)[i] # {} => finds[l] # <<>>
<1>1. finds[l] \in Seq(SUBSET Find)
  BY DEF ViewInv
<1>2. CASE finds[l] = <<>>
  <2>1. Joined(l) = <<{}>>
    BY <1>2 DEF Joined
  <2>2. <<{}>> \in Seq(SUBSET Find) /\ Len(<<{}>>) = 1 /\ DOMAIN <<{}>> = 1 .. 1
    OBVIOUS
  <2>3. DOMAIN Records(l) = 1 .. 1
    BY <2>1, <2>2 DEF Records
  <2>4. \A i \in DOMAIN Records(l) : Records(l)[i] = Record(l, Joined(l)[i])
    BY <2>1, <2>2 DEF Records
  <2>5. \A i \in DOMAIN Records(l) : Joined(l)[i] = {}
    BY <2>1, <2>3
  <2>6. QED
    BY <2>1, <2>2, <2>3, <2>4, <2>5
<1>3. CASE finds[l] # <<>>
  <2>1. Joined(l) = finds[l]
    BY <1>3 DEF Joined
  <2>2. Len(finds[l]) \in Nat \ {0} /\ DOMAIN finds[l] = 1 .. Len(finds[l])
    BY <1>1, <1>3, EmptySeq, LenProperties
  <2>3. /\ DOMAIN Records(l) = 1 .. Len(finds[l])
        /\ \A i \in DOMAIN Records(l) : Records(l)[i] = Record(l, Joined(l)[i])
    BY <2>1, <2>2 DEF Records
  <2>4. QED
    BY <1>1, <1>3, <2>1, <2>2, <2>3
<1>4. QED
  BY <1>2, <1>3

\* What one row of the join adds can be high only with a phone or a site.
LEMMA HighShowsMore ==
  ASSUME ViewInv, NEW l \in Lead, NEW found \in SUBSET Find, Grade(l, found) = "high"
  PROVE  Quality(l) # "low"
<1>1. Score(l, found) >= 5
  BY DEF Grade
<1>2. row[l].site \in BOOLEAN
  BY DEF ViewInv, ViewTypeOK
<1>3. ASSUME row[l].phone = "none", ~row[l].site PROVE FALSE
  <2>1. If(row[l].phone # "none", 1) = 0 /\ If(row[l].site, 1) = 0
    BY <1>3 DEF If
  <2>2. /\ If("email" \in found, 2) \in 0 .. 2
        /\ If("social" \in found, 1) \in 0 .. 1
        /\ If("extra" \in found, 1) \in 0 .. 1
    BY DEF If
  <2>3. Score(l, found) <= 4
    BY <2>1, <2>2 DEF Score
  <2>4. Score(l, found) \in Int
    BY <2>1, <2>2 DEF Score
  <2>5. QED
    BY <1>1, <2>3, <2>4
<1>4. QED
  BY <1>3 DEF Quality

\* A set in three parts that do not meet.
LEMMA ThreeParts ==
  ASSUME NEW S, IsFiniteSet(S), NEW A, NEW B, NEW C, S = A \cup B \cup C,
         A \cap B = {}, A \cap C = {}, B \cap C = {}
  PROVE  Cardinality(A) + Cardinality(B) + Cardinality(C) = Cardinality(S)
<1>1. /\ IsFiniteSet(A) /\ IsFiniteSet(B) /\ IsFiniteSet(C) /\ IsFiniteSet(A \cup B)
  BY FS_Subset
<1>2. Cardinality(A \cup B) = Cardinality(A) + Cardinality(B) - Cardinality(A \cap B)
  BY <1>1, FS_Union
<1>3. Cardinality((A \cup B) \cup C)
        = Cardinality(A \cup B) + Cardinality(C) - Cardinality((A \cup B) \cap C)
  BY <1>1, FS_Union
<1>4. /\ Cardinality(A \cap B) = 0 /\ Cardinality((A \cup B) \cap C) = 0
      /\ S = (A \cup B) \cup C
  <2>1. A \cap B = {} /\ (A \cup B) \cap C = {}
    OBVIOUS
  <2>2. QED
    BY <2>1, FS_EmptySet
<1>5. PICK a \in Nat, b \in Nat, d \in Nat, ab \in Nat :
        a = Cardinality(A) /\ b = Cardinality(B) /\ d = Cardinality(C) /\ ab = Cardinality(A \cup B)
  BY <1>1, FS_CardinalityType
<1>6. ab = a + b - 0 /\ Cardinality(S) = ab + d - 0
  BY <1>2, <1>3, <1>4, <1>5
<1>7. Cardinality(S) = a + b + d
  BY <1>6
<1>8. QED
  BY <1>5, <1>7

\* With one record each, the grades sum up to what is done.
LEMMA GradesSumUp ==
  ASSUME ViewInv, doubled = {}
  PROVE  RecordsGraded("high") + RecordsGraded("medium") + RecordsGraded("low") = DoneCount
<1> DEFINE Graded(g) == {p \in Listed \X (1 .. 2 * MaxTries) :
                           p[2] \in DOMAIN Records(p[1]) /\ Records(p[1])[p[2]].meta = g}
<1>1. Listed \subseteq Lead /\ IsFiniteSet(Listed)
  BY ViewAssumption, FS_Subset DEF Listed
<1>2. ASSUME NEW l \in Listed
      PROVE  DOMAIN Records(l) = {1} /\ Records(l)[1].meta \in {"high", "medium", "low"}
             /\ 1 \in 1 .. 2 * MaxTries
  <2>1. l \in Lead /\ row[l].status = "done"
    BY DEF Listed
  <2>2. ~(Len(finds[l]) > 1)
    BY <2>1 DEF ViewInv, CrawlStory
  <2>3. PICK n \in Nat : n = Len(Joined(l))
    BY <2>1, RecordsOfJoin, LenProperties
  <2>4. Len(Joined(l)) = 1
    <3>1. n >= 1 /\ ~(n > 1)
      BY <2>1, <2>2, <2>3, RecordsOfJoin
    <3>2. n = 1
      BY <3>1
    <3>3. QED
      BY <2>3, <3>2
  <2>5. DOMAIN Records(l) = {1}
    BY <2>1, <2>4, RecordsOfJoin
  <2>6. Records(l)[1] = Record(l, Joined(l)[1])
    BY <2>1, <2>5, RecordsOfJoin
  <2>7. Records(l)[1].meta \in {"high", "medium", "low"}
    BY <2>6 DEF Record, Grade
  <2>8. MaxTries \in Nat /\ tries[l] \in 0 .. MaxTries /\ tries[l] > 0
    BY <2>1, ViewAssumption DEF ViewInv, RoundStory
  <2>9. 1 \in 1 .. 2 * MaxTries
    BY <2>8
  <2>10. QED
    BY <2>5, <2>7, <2>9
<1>3. Listed \X {1} = Graded("high") \cup Graded("medium") \cup Graded("low")
  <2>1. ASSUME NEW p \in Listed \X {1}
        PROVE  p \in Graded("high") \cup Graded("medium") \cup Graded("low")
    <3>1. p[1] \in Listed /\ p[2] = 1 /\ p = <<p[1], 1>>
      OBVIOUS
    <3>2. p \in Listed \X (1 .. 2 * MaxTries)
      BY <1>2, <3>1
    <3>3. QED
      BY <1>2, <3>1, <3>2
  <2>2. ASSUME NEW g, NEW p \in Graded(g) PROVE p \in Listed \X {1}
    <3>1. p \in Listed \X (1 .. 2 * MaxTries) /\ p[2] \in DOMAIN Records(p[1])
      OBVIOUS
    <3>2. p[1] \in Listed /\ p = <<p[1], p[2]>>
      BY <3>1
    <3>3. p[2] = 1
      BY <1>2, <3>1, <3>2
    <3>4. QED
      BY <3>2, <3>3
  <2> HIDE DEF Graded
  <2>3. QED
    BY <2>1, <2>2
<1>4. /\ Graded("high") \cap Graded("medium") = {} /\ Graded("high") \cap Graded("low") = {}
      /\ Graded("medium") \cap Graded("low") = {}
  OBVIOUS
<1>5. IsFiniteSet(Listed \X {1}) /\ Cardinality(Listed \X {1}) = Cardinality(Listed) * 1
  <2>1. IsFiniteSet({1}) /\ Cardinality({1}) = 1
    BY FS_Singleton
  <2>2. QED
    BY <1>1, <2>1, FS_Product
<1>6. Cardinality(Listed) \in Nat
  BY <1>1, FS_CardinalityType
<1>7. /\ RecordsGraded("high") = Cardinality(Graded("high"))
      /\ RecordsGraded("medium") = Cardinality(Graded("medium"))
      /\ RecordsGraded("low") = Cardinality(Graded("low"))
  BY DEF RecordsGraded
<1> HIDE DEF Graded
<1>8. Cardinality(Graded("high")) + Cardinality(Graded("medium")) + Cardinality(Graded("low"))
        = Cardinality(Listed \X {1})
  BY <1>3, <1>4, <1>5, ThreeParts
<1>9. QED
  BY <1>5, <1>6, <1>7, <1>8 DEF DoneCount

\* google_maps/app, excel_exporter.py, api_mapper.py and database.py: however
\* extractors and crawlers overlap, fail and die, the workbook and the payload
\* show the same harvest, a business twice only after two crawlers chose it.
THEOREM ViewsAreOne == ViewSpec => []ViewsAgree
<1>1. ViewInv => ViewsAgree
  <2> SUFFICES ASSUME ViewInv PROVE ViewsAgree
    OBVIOUS
  <2>1. ViewTypeOK
    BY DEF ViewInv
  <2>2. ASSUME NEW l \in Listed, NEW i \in DOMAIN Records(l)
        PROVE  /\ i > 1 => l \in doubled
               /\ Joined(l)[i] # {} /\ ~row[l].site => l \in shared
               /\ Records(l)[i].meta = "high" => Quality(l) # "low"
    <3>1. l \in Lead
      BY DEF Listed
    <3>2. PICK n \in Nat : n = Len(Joined(l))
      BY <3>1, RecordsOfJoin, LenProperties
    <3>3. i \in 1 .. n /\ (n > 1 => Len(finds[l]) > 1)
      BY <3>1, <3>2, RecordsOfJoin
    <3>4. i > 1 => l \in doubled
      BY <3>1, <3>3 DEF ViewInv, CrawlStory
    <3>5. Joined(l)[i] # {} => finds[l] # <<>>
      BY <3>1, RecordsOfJoin
    <3>6. Joined(l)[i] # {} /\ ~row[l].site => l \in shared
      BY <3>1, <3>5 DEF ViewInv, SiteStory
    <3>7. Joined(l)[i] \in SUBSET Find
      <4>1. PICK j \in Seq(SUBSET Find) : j = Joined(l)
        BY <3>1, RecordsOfJoin
      <4>2. i \in 1 .. Len(j)
        BY <3>2, <3>3, <4>1
      <4>3. j[i] \in SUBSET Find
        BY <4>2, ElementOfSeq
      <4>4. QED
        BY <4>1, <4>3
    <3>8. Records(l)[i] = Record(l, Joined(l)[i])
      BY <3>1, RecordsOfJoin
    <3>9. Records(l)[i].meta = Grade(l, Joined(l)[i])
      BY <3>8 DEF Record
    <3>10. QED
      BY <3>1, <3>4, <3>6, <3>7, <3>9, HighShowsMore
  <2>3. QED
    BY <2>1, <2>2, GradesSumUp DEF ViewsAgree
<1>2. QED
  BY InitViewInv, StepViewInv, <1>1, PTL DEF ViewSpec
-----------------------------------------------------------------------------
(* MarketReading: the calendar.  gregorian_to_jalali counts the days and   *)
(* takes the count apart into cycles of 33 years and periods of four: the  *)
(* proof shows that the count grows by one a day and that the parts follow *)
(* each other as the days of the Jalali calendar do.                       *)

\* The second half of gregorian_to_jalali: the date of a day number.
FromNumber(a) ==
    LET inCycle == a % 12053
        inFour == inCycle % 1461
        days == IF IsLate(inFour) THEN (inFour - 1) % 365 ELSE inFour
    IN  [year |-> 979 + 33 * (a \div 12053) + 4 * (inCycle \div 1461)
                  + (IF IsLate(inFour) THEN (inFour - 1) \div 365 ELSE 0),
         month |-> IF days < 186 THEN 1 + days \div 31 ELSE 7 + (days - 186) \div 30,
         day |-> 1 + (IF days < 186 THEN days % 31 ELSE (days - 186) % 30)]

\* The year a day of a number falls in, and which day of that year it is.
YearOf(a) ==
    LET inCycle == a % 12053
        inFour == inCycle % 1461
    IN  979 + 33 * (a \div 12053) + 4 * (inCycle \div 1461)
        + (IF IsLate(inFour) THEN (inFour - 1) \div 365 ELSE 0)
DayOf(a) ==
    LET inFour == (a % 12053) % 1461
    IN  IF IsLate(inFour) THEN (inFour - 1) % 365 ELSE inFour
YearLength(year) == IF IsLong(year) THEN 366 ELSE 365
OnDay(year, d) ==
    [year |-> year,
     month |-> IF d < 186 THEN 1 + d \div 31 ELSE 7 + (d - 186) \div 30,
     day |-> 1 + (IF d < 186 THEN d % 31 ELSE (d - 186) % 30)]

\* A day number is a year and a day of it.
LEMMA NumberIsDay ==
  ASSUME NEW a \in Int
  PROVE  FromNumber(a) = OnDay(YearOf(a), DayOf(a))
BY DEF FromNumber, OnDay, YearOf, DayOf

\* Within a year days follow each other as its months do.
LEMMA DayInYear ==
  ASSUME NEW year \in Int, NEW d \in 0 .. 365, d < YearLength(year)
  PROVE  JalaliDayAfter(OnDay(year, d)) =
             IF d + 1 < YearLength(year) THEN OnDay(year, d + 1) ELSE OnDay(year + 1, 0)
<1>1. PICK long \in BOOLEAN : long = IsLong(year)
  <2>1. IsLong(year) \in BOOLEAN
    BY DEF IsLong
  <2>2. QED
    BY <2>1
<1>2. YearLength(year) = IF long THEN 366 ELSE 365
  BY <1>1 DEF YearLength
<1>3. \A j : j.year = year =>
          JalaliLength(j) = IF j.month <= 6 THEN 31 ELSE IF j.month <= 11 \/ long THEN 30 ELSE 29
  BY <1>1 DEF JalaliLength
<1>4. PICK m \in 1 .. 12 : m = IF d < 186 THEN 1 + d \div 31 ELSE 7 + (d - 186) \div 30
  OBVIOUS
<1>5. PICK n \in 1 .. 31 : n = 1 + (IF d < 186 THEN d % 31 ELSE (d - 186) % 30)
  OBVIOUS
<1>6. OnDay(year, d) = [year |-> year, month |-> m, day |-> n]
  BY <1>4, <1>5 DEF OnDay
<1>7. JalaliLength(OnDay(year, d)) = IF m <= 6 THEN 31 ELSE IF m <= 11 \/ long THEN 30 ELSE 29
  BY <1>3, <1>6
<1>8. JalaliDayAfter(OnDay(year, d)) =
        IF n < (IF m <= 6 THEN 31 ELSE IF m <= 11 \/ long THEN 30 ELSE 29)
        THEN [year |-> year, month |-> m, day |-> n + 1]
        ELSE IF m < 12 THEN [year |-> year, month |-> m + 1, day |-> 1]
        ELSE [year |-> year + 1, month |-> 1, day |-> 1]
  <2>1. PICK j : j = OnDay(year, d)
    OBVIOUS
  <2>2. PICK len : len = IF m <= 6 THEN 31 ELSE IF m <= 11 \/ long THEN 30 ELSE 29
    OBVIOUS
  <2>3. JalaliDayAfter(j) =
          IF j.day < len THEN [j EXCEPT !.day = @ + 1]
          ELSE IF j.month < 12 THEN [j EXCEPT !.month = @ + 1, !.day = 1]
          ELSE [year |-> j.year + 1, month |-> 1, day |-> 1]
    BY <1>7, <2>1, <2>2 DEF JalaliDayAfter
  <2>4. /\ j.year = year /\ j.month = m /\ j.day = n
        /\ [j EXCEPT !.day = @ + 1] = [year |-> year, month |-> m, day |-> n + 1]
        /\ [j EXCEPT !.month = @ + 1, !.day = 1] = [year |-> year, month |-> m + 1, day |-> 1]
    <3>1. j = [year |-> year, month |-> m, day |-> n]
      BY <1>6, <2>1
    <3>2. j.year = year /\ j.month = m /\ j.day = n
      BY <3>1
    <3>3. [j EXCEPT !.day = n + 1] = [year |-> year, month |-> m, day |-> n + 1]
      BY <3>1
    <3>4. [j EXCEPT !.month = m + 1, !.day = 1] = [year |-> year, month |-> m + 1, day |-> 1]
      <4>1. PICK k : k = [j EXCEPT !.month = m + 1]
        OBVIOUS
      <4>2. k = [year |-> year, month |-> m + 1, day |-> n]
        BY <3>1, <4>1
      <4>3. [k EXCEPT !.day = 1] = [year |-> year, month |-> m + 1, day |-> 1]
        BY <4>2
      <4>4. QED
        BY <4>1, <4>3
    <3>5. QED
      BY <3>2, <3>3, <3>4
  <2>5. QED
    BY <2>1, <2>2, <2>3, <2>4
<1>9. OnDay(year + 1, 0) = [year |-> year + 1, month |-> 1, day |-> 1]
  BY DEF OnDay
<1>10. CASE d < 185
  <2>1. OnDay(year, d + 1) = [year |-> year, month |-> 1 + (d + 1) \div 31, day |-> 1 + ((d + 1) % 31)]
    BY <1>10 DEF OnDay
  <2>2. m = 1 + d \div 31 /\ n = 1 + (d % 31) /\ m <= 6
    BY <1>4, <1>5, <1>10
  <2>3. CASE n < 31
    <3>1. (d + 1) \div 31 = d \div 31 /\ (d + 1) % 31 = (d % 31) + 1
      BY <2>2, <2>3
    <3>2. QED
      BY <1>2, <1>8, <1>10, <2>1, <2>2, <2>3, <3>1
  <2>4. CASE ~(n < 31)
    <3>1. (d + 1) \div 31 = d \div 31 + 1 /\ (d + 1) % 31 = 0
      BY <2>2, <2>4
    <3>2. QED
      BY <1>2, <1>8, <1>10, <2>1, <2>2, <2>4, <3>1
  <2>5. QED
    BY <2>3, <2>4
<1>11. CASE d = 185
  <2>1. OnDay(year, d + 1) = [year |-> year, month |-> 7, day |-> 1]
    BY <1>11 DEF OnDay
  <2>2. m = 6 /\ n = 31
    BY <1>4, <1>5, <1>11
  <2>3. QED
    BY <1>2, <1>8, <1>11, <2>1, <2>2
<1>12. CASE d > 185
  <2>1. OnDay(year, d + 1) =
          [year |-> year, month |-> 7 + (d - 185) \div 30, day |-> 1 + ((d - 185) % 30)]
    <3>1. (d + 1) - 186 = d - 185 /\ ~(d + 1 < 186)
      BY <1>12
    <3>2. QED
      BY <3>1 DEF OnDay
  <2>2. m = 7 + (d - 186) \div 30 /\ n = 1 + ((d - 186) % 30) /\ m > 6
    BY <1>4, <1>5, <1>12
  <2>3. CASE d + 1 < YearLength(year)
    <3>1. CASE n < 30
      <4>1. (d - 185) \div 30 = (d - 186) \div 30 /\ (d - 185) % 30 = ((d - 186) % 30) + 1
        BY <2>2, <3>1
      <4>2. m = 12 /\ ~long => n < 29
        BY <1>2, <2>2, <2>3
      <4>3. QED
        BY <1>8, <2>1, <2>2, <2>3, <3>1, <4>1, <4>2
    <3>2. CASE n = 30
      <4>1. (d - 185) \div 30 = (d - 186) \div 30 + 1 /\ (d - 185) % 30 = 0
        BY <2>2, <3>2
      <4>2. m < 12
        BY <1>2, <2>2, <2>3, <3>2
      <4>3. QED
        BY <1>8, <2>1, <2>2, <2>3, <3>2, <4>1, <4>2
    <3>3. QED
      BY <2>2, <3>1, <3>2
  <2>4. CASE ~(d + 1 < YearLength(year))
    <3>1. m = 12 /\ n = IF long THEN 30 ELSE 29
      BY <1>2, <2>2, <2>4
    <3>2. QED
      BY <1>8, <1>9, <2>4, <3>1
  <2>5. QED
    BY <2>3, <2>4
<1>13. QED
  BY <1>10, <1>11, <1>12

\* A number in parts: cycles of 33 years, periods of four years in one, days.
Parts(a, q, p, f) ==
    /\ a \in Int /\ q \in Int /\ p \in Int /\ f \in Int
    /\ 0 <= p /\ p <= 8 /\ 0 <= f /\ f <= 1460 /\ (p = 8 => f <= 364)
    /\ a = 12053 * q + (1461 * p + f)

\* Every number has its parts.
LEMMA PartsOf ==
  ASSUME NEW a \in Int
  PROVE  \E q, p, f : Parts(a, q, p, f)
<1>1. PICK q, c : q = a \div 12053 /\ c = a % 12053
  OBVIOUS
<1>2. q \in Int /\ c \in Int /\ 0 <= c /\ c <= 12052 /\ a = 12053 * q + c
  BY <1>1
<1>3. PICK p, f : p = c \div 1461 /\ f = c % 1461
  OBVIOUS
<1>4. p \in Int /\ f \in Int /\ 0 <= f /\ f <= 1460 /\ c = 1461 * p + f
  BY <1>2, <1>3
<1>5. 0 <= p /\ p <= 8 /\ (p = 8 => f <= 364)
  BY <1>2, <1>4
<1>6. Parts(a, q, p, f)
  BY <1>2, <1>4, <1>5 DEF Parts
<1>7. QED
  BY <1>6

\* There is one way to take a number apart.
LEMMA PartsAre ==
  ASSUME NEW a, NEW q, NEW p, NEW f, Parts(a, q, p, f)
  PROVE  a \div 12053 = q /\ (a % 12053) \div 1461 = p /\ (a % 12053) % 1461 = f
<1>1. PICK c : c = 1461 * p + f
  OBVIOUS
<1>2. p \in Int /\ f \in Int /\ 0 <= f /\ f <= 1460 /\ c \in Int /\ 0 <= c /\ c <= 12052
  BY <1>1 DEF Parts
<1>3. c \div 1461 = p /\ c % 1461 = f
  BY <1>1, <1>2
<1>4. a \in Int /\ q \in Int /\ a = 12053 * q + c
  BY <1>1 DEF Parts
<1>5. a \div 12053 = q /\ a % 12053 = c
  BY <1>2, <1>4
<1>6. QED
  BY <1>3, <1>5

\* The year and the day of it that the parts of a number give.
YearAt(q, p, f) == 979 + 33 * q + 4 * p + (IF f > 365 THEN (f - 1) \div 365 ELSE 0)
DayAt(f) == IF f > 365 THEN (f - 1) % 365 ELSE f

\* The date of a number, by its parts.
LEMMA DayOfParts ==
  ASSUME NEW a, NEW q, NEW p, NEW f, Parts(a, q, p, f)
  PROVE  FromNumber(a) = OnDay(YearAt(q, p, f), DayAt(f))
<1>1. a \div 12053 = q /\ (a % 12053) \div 1461 = p /\ (a % 12053) % 1461 = f
  BY PartsAre
<1>2. YearOf(a) = YearAt(q, p, f) /\ DayOf(a) = DayAt(f)
  BY <1>1 DEF YearOf, DayOf, YearAt, DayAt, IsLate
<1>3. a \in Int
  BY DEF Parts
<1>4. QED
  BY <1>2, <1>3, NumberIsDay

\* A year of four is long if it is the first, except in the odd year of 33.
LEMMA LongYears ==
  ASSUME NEW a, NEW q, NEW p, NEW f, Parts(a, q, p, f)
  PROVE  /\ YearAt(q, p, f) \in Int
         /\ IsLong(YearAt(q, p, f)) <=> f <= 365 /\ p <= 7
<1>1. q \in Int /\ p \in 0 .. 8 /\ f \in Int /\ 0 <= f /\ f <= 1460 /\ (p = 8 => f <= 364)
  BY DEF Parts
<1>2. CASE f <= 365
  <2>1. YearAt(q, p, f) = 979 + 33 * q + 4 * p
    BY <1>1, <1>2 DEF YearAt
  <2>2. (979 + 33 * q + 4 * p) % 33 = (22 + 4 * p) % 33
    BY <1>1
  <2>3. (22 + 4 * p) % 33 \in {1, 5, 9, 13, 17, 22, 26, 30} <=> p <= 7
    BY <1>1
  <2>4. QED
    BY <1>1, <1>2, <2>1, <2>2, <2>3 DEF IsLong
<1>3. CASE f > 365
  <2>1. PICK e : e = (f - 1) \div 365
    OBVIOUS
  <2>2. e \in 1 .. 3
    BY <1>1, <1>3, <2>1
  <2>3. p <= 7
    BY <1>1, <1>3
  <2>4. YearAt(q, p, f) = 979 + 33 * q + 4 * p + e
    BY <1>1, <1>3, <2>1 DEF YearAt
  <2>5. (979 + 33 * q + 4 * p + e) % 33 = (22 + 4 * p + e) % 33
    BY <1>1, <2>2
  <2>6. (22 + 4 * p + e) % 33 \notin {1, 5, 9, 13, 17, 22, 26, 30}
    BY <1>1, <2>2, <2>3
  <2>7. QED
    BY <1>1, <1>3, <2>2, <2>4, <2>5, <2>6 DEF IsLong
<1>4. QED
  BY <1>1, <1>2, <1>3

\* The number that follows is the day that follows.
LEMMA NumberAfter ==
  ASSUME NEW a \in Int
  PROVE  FromNumber(a + 1) = JalaliDayAfter(FromNumber(a))
<1>0. PICK q, p, f : Parts(a, q, p, f)
  BY PartsOf
<1>1. /\ q \in Int /\ p \in Int /\ f \in Int /\ a = 12053 * q + (1461 * p + f)
      /\ 0 <= p /\ p <= 8 /\ 0 <= f /\ f <= 1460 /\ (p = 8 => f <= 364)
  BY <1>0 DEF Parts
<1>2. PICK year \in Int : year = YearAt(q, p, f) /\ (IsLong(year) <=> f <= 365 /\ p <= 7)
  <2>1. YearAt(q, p, f) \in Int /\ (IsLong(YearAt(q, p, f)) <=> f <= 365 /\ p <= 7)
    BY <1>0, LongYears
  <2>2. QED
    BY <2>1
<1>3. PICK d \in 0 .. 365 : d = DayAt(f)
  <2>1. CASE f > 365
    <3>1. (f - 1) % 365 \in 0 .. 365
      BY <1>1
    <3>2. QED
      BY <2>1, <3>1 DEF DayAt
  <2>2. CASE f <= 365
    BY <1>1, <2>2 DEF DayAt
  <2>3. QED
    BY <1>1, <2>1, <2>2
<1>4. YearLength(year) = IF f <= 365 /\ p <= 7 THEN 366 ELSE 365
  BY <1>2 DEF YearLength
<1>5. d < YearLength(year)
  BY <1>1, <1>3, <1>4 DEF DayAt
<1>6. FromNumber(a) = OnDay(year, d)
  <2>1. FromNumber(a) = OnDay(YearAt(q, p, f), DayAt(f))
    BY <1>0, DayOfParts
  <2>2. QED
    BY <1>2, <1>3, <2>1
<1>7. JalaliDayAfter(FromNumber(a)) =
          IF d + 1 < YearLength(year) THEN OnDay(year, d + 1) ELSE OnDay(year + 1, 0)
  BY <1>5, <1>6, DayInYear
<1>8. \/ f + 1 <= 1460 /\ (p = 8 => f + 1 <= 364)
      \/ f = 1460 /\ p < 8
      \/ p = 8 /\ f = 364
  BY <1>1
<1>9. CASE f + 1 <= 1460 /\ (p = 8 => f + 1 <= 364)
  <2>0. FromNumber(a + 1) = OnDay(YearAt(q, p, f + 1), DayAt(f + 1))
    <3>1. Parts(a + 1, q, p, f + 1)
      BY <1>1, <1>9 DEF Parts
    <3>2. QED
      BY <3>1, DayOfParts
  <2>1. CASE f < 365
    <3>1. year = 979 + 33 * q + 4 * p /\ YearAt(q, p, f + 1) = year /\ d = f /\ DayAt(f + 1) = f + 1
      BY <1>1, <1>2, <1>3, <2>1 DEF YearAt, DayAt
    <3>2. d + 1 < YearLength(year)
      BY <1>1, <1>4, <1>9, <2>1, <3>1
    <3>3. QED
      BY <1>7, <2>0, <3>1, <3>2
  <2>2. CASE f = 365
    <3>1. YearAt(q, p, f + 1) = year + 1 /\ d = 365 /\ DayAt(f + 1) = 0
      BY <1>1, <1>2, <1>3, <2>2 DEF YearAt, DayAt
    <3>2. ~(d + 1 < YearLength(year))
      BY <1>1, <1>4, <3>1
    <3>3. QED
      BY <1>7, <2>0, <3>1, <3>2
  <2>3. CASE f > 365
    <3>1. YearLength(year) = 365
      BY <1>1, <1>4, <2>3
    <3>2. PICK e : e = (f - 1) \div 365
      OBVIOUS
    <3>3. year = 979 + 33 * q + 4 * p + e /\ d = (f - 1) % 365
      BY <1>1, <1>2, <1>3, <2>3, <3>2 DEF YearAt, DayAt
    <3>4. e \in Int /\ f - 1 = 365 * e + d /\ d <= 364
      BY <1>1, <3>2, <3>3
    <3>5. /\ YearAt(q, p, f + 1) = 979 + 33 * q + 4 * p + (f \div 365)
          /\ DayAt(f + 1) = f % 365
      <4>1. f + 1 > 365 /\ (f + 1) - 1 = f
        BY <1>1, <2>3
      <4>2. QED
        BY <4>1 DEF YearAt, DayAt
    <3>6. CASE d < 364
      <4>1. f \div 365 = e /\ f % 365 = d + 1
        BY <1>1, <3>4, <3>6
      <4>2. QED
        BY <1>7, <2>0, <3>1, <3>3, <3>5, <3>6, <4>1
    <3>7. CASE d = 364
      <4>1. f \div 365 = e + 1 /\ f % 365 = 0
        BY <1>1, <3>4, <3>7
      <4>2. YearAt(q, p, f + 1) = year + 1 /\ DayAt(f + 1) = 0 /\ ~(d + 1 < 365)
        BY <1>1, <1>2, <3>3, <3>4, <3>5, <3>7, <4>1
      <4>3. QED
        BY <1>7, <2>0, <3>1, <4>2
    <3>8. QED
      BY <3>4, <3>6, <3>7
  <2>4. QED
    BY <1>1, <2>1, <2>2, <2>3
<1>10. CASE f = 1460 /\ p < 8
  <2>1. FromNumber(a + 1) = OnDay(YearAt(q, p + 1, 0), DayAt(0))
    <3>1. Parts(a + 1, q, p + 1, 0)
      BY <1>1, <1>10 DEF Parts
    <3>2. QED
      BY <3>1, DayOfParts
  <2>2. YearAt(q, p + 1, 0) = year + 1 /\ d = 364 /\ DayAt(0) = 0
    BY <1>1, <1>2, <1>3, <1>10 DEF YearAt, DayAt
  <2>3. ~(d + 1 < YearLength(year))
    BY <1>1, <1>4, <1>10, <2>2
  <2>4. QED
    BY <1>7, <2>1, <2>2, <2>3
<1>11. CASE p = 8 /\ f = 364
  <2>1. FromNumber(a + 1) = OnDay(YearAt(q + 1, 0, 0), DayAt(0))
    <3>1. Parts(a + 1, q + 1, 0, 0)
      BY <1>1, <1>11 DEF Parts
    <3>2. QED
      BY <3>1, DayOfParts
  <2>2. YearAt(q + 1, 0, 0) = year + 1 /\ d = 364 /\ DayAt(0) = 0
    BY <1>1, <1>2, <1>3, <1>11 DEF YearAt, DayAt
  <2>3. ~(d + 1 < YearLength(year))
    BY <1>1, <1>4, <1>11, <2>2
  <2>4. QED
    BY <1>7, <2>1, <2>2, <2>3
<1>12. QED
  BY <1>8, <1>9, <1>10, <1>11

\* The leap days of the years before one, from the year 1600.
Leaps(y) == (y + 3) \div 4 - (y + 99) \div 100 + (y + 399) \div 400

\* The Jalali date is that of the day number.
LEMMA JalaliOfNumber ==
  ASSUME NEW g
  PROVE  Jalali(g) = FromNumber(DayNumber(g))
BY DEF Jalali, FromNumber

IsLeap(year) == (year % 4 = 0 /\ year % 100 # 0) \/ year % 400 = 0

\* The count of leap days grows after a leap year, and only then.
LEMMA LeapDay ==
  ASSUME NEW year \in Int
  PROVE  /\ Leaps(year - 1600) \in Int
         /\ Leaps(year - 1600 + 1) =
                Leaps(year - 1600) + (IF IsLeap(year) THEN 1 ELSE 0)
<1>1. PICK y \in Int : y = year - 1600
  OBVIOUS
<1>2. year % 4 = y % 4 /\ year % 100 = y % 100 /\ year % 400 = y % 400
  BY <1>1
<1>3. (y + 4) \div 4 = (y + 3) \div 4 + (IF y % 4 = 0 THEN 1 ELSE 0)
  OBVIOUS
<1>4. (y + 100) \div 100 = (y + 99) \div 100 + (IF y % 100 = 0 THEN 1 ELSE 0)
  OBVIOUS
<1>5. (y + 400) \div 400 = (y + 399) \div 400 + (IF y % 400 = 0 THEN 1 ELSE 0)
  OBVIOUS
<1>6. (y % 100 = 0 => y % 4 = 0) /\ (y % 400 = 0 => y % 100 = 0)
  OBVIOUS
<1>7. PICK c, h, k : c = (y + 3) \div 4 /\ h = (y + 99) \div 100 /\ k = (y + 399) \div 400
  OBVIOUS
<1>8. c \in Int /\ h \in Int /\ k \in Int
  BY <1>7
<1>9. Leaps(y) = c - h + k
  BY <1>7 DEF Leaps
<1>10. Leaps(y + 1) = (y + 4) \div 4 - (y + 100) \div 100 + (y + 400) \div 400
  <2>1. (y + 1) + 3 = y + 4 /\ (y + 1) + 99 = y + 100 /\ (y + 1) + 399 = y + 400
    OBVIOUS
  <2>2. QED
    BY <2>1 DEF Leaps
<1>11. IsLeap(year) <=> (y % 4 = 0 /\ y % 100 # 0) \/ y % 400 = 0
  BY <1>2 DEF IsLeap
<1>12. QED
  BY <1>1, <1>3, <1>4, <1>5, <1>6, <1>7, <1>8, <1>9, <1>10, <1>11

\* The number of a date by its parts.
LEMMA NumberOf ==
  ASSUME NEW y \in Int, NEW m \in 1 .. 12, NEW d \in Int, NEW g,
         g.year = y, g.month = m, g.day = d
  PROVE  DayNumber(g) = 365 * (y - 1600) + Leaps(IF m > 2 THEN y - 1600 + 1 ELSE y - 1600)
                        - 80 + d + DaysBefore[m]
<1>1. PICK y2 \in Int : y2 = IF m > 2 THEN y - 1600 + 1 ELSE y - 1600
  <2>1. (IF m > 2 THEN y - 1600 + 1 ELSE y - 1600) \in Int
    OBVIOUS
  <2>2. QED
    BY <2>1
<1>2. PICK c, h, k : c = (y2 + 3) \div 4 /\ h = (y2 + 99) \div 100 /\ k = (y2 + 399) \div 400
  OBVIOUS
<1>3. c \in Int /\ h \in Int /\ k \in Int
  BY <1>2
<1>4. DaysBefore[m] \in Int
  <2>1. m \in {1, 2, 3, 4, 5, 6, 7, 8, 9, 10, 11, 12}
    OBVIOUS
  <2>2. QED
    BY <2>1 DEF DaysBefore
<1>5. PICK before \in Int : before = DaysBefore[m]
  BY <1>4
<1>6. DayNumber(g) = 365 * (y - 1600) + c - h + k - 80 + d + before
  BY <1>1, <1>2, <1>5 DEF DayNumber
<1>7. Leaps(y2) = c - h + k
  BY <1>2 DEF Leaps
<1>8. QED
  BY <1>1, <1>3, <1>5, <1>6, <1>7

\* The lengths of the months, and the days before them.
LEMMA MonthLengths ==
  ASSUME NEW year \in Int, NEW m \in 1 .. 12
  PROVE  /\ GregorianLength(year, m) =
                IF m = 2 THEN (IF IsLeap(year) THEN 29 ELSE 28)
                ELSE IF m \in {4, 6, 9, 11} THEN 30 ELSE 31
         /\ DaysBefore[m] \in Int
         /\ m < 12 => DaysBefore[m + 1] =
                          DaysBefore[m] + (IF m = 2 THEN 28 ELSE IF m \in {4, 6, 9, 11} THEN 30 ELSE 31)
         /\ DaysBefore[1] = 0 /\ DaysBefore[12] = 334
<1>1. m \in {1, 2, 3, 4, 5, 6, 7, 8, 9, 10, 11, 12}
  OBVIOUS
<1>2. /\ DaysBefore[1] = 0 /\ DaysBefore[2] = 31 /\ DaysBefore[3] = 59 /\ DaysBefore[4] = 90
      /\ DaysBefore[5] = 120 /\ DaysBefore[6] = 151 /\ DaysBefore[7] = 181 /\ DaysBefore[8] = 212
      /\ DaysBefore[9] = 243 /\ DaysBefore[10] = 273 /\ DaysBefore[11] = 304 /\ DaysBefore[12] = 334
  BY DEF DaysBefore
<1>3. GregorianLength(year, m) =
          IF m = 2 THEN (IF IsLeap(year) THEN 29 ELSE 28)
          ELSE IF m \in {4, 6, 9, 11} THEN 30 ELSE 31
  BY DEF GregorianLength, IsLeap
<1>4. QED
  BY <1>1, <1>2, <1>3

\* The day after a date is a date, and its number is the next one.
LEMMA DayNumberAfter ==
  ASSUME NEW g, IsDate(g)
  PROVE  /\ DayNumber(g) \in Int /\ IsDate(DayAfter(g))
         /\ DayNumber(DayAfter(g)) = DayNumber(g) + 1
<1>1. PICK y, m, d : g = [year |-> y, month |-> m, day |-> d]
  BY DEF IsDate
<1>2. /\ y \in Int /\ m \in 1 .. 12 /\ d \in Int
      /\ g.year = y /\ g.month = m /\ g.day = d
      /\ 1 <= d /\ d <= GregorianLength(y, m)
  BY <1>1 DEF IsDate
<1>3. PICK before : before = DaysBefore[m]
  OBVIOUS
<1>4. PICK len : len = GregorianLength(y, m)
  OBVIOUS
<1>5. /\ len = IF m = 2 THEN (IF IsLeap(y) THEN 29 ELSE 28)
               ELSE IF m \in {4, 6, 9, 11} THEN 30 ELSE 31
      /\ before \in Int
      /\ m < 12 => DaysBefore[m + 1] =
                       before + (IF m = 2 THEN 28 ELSE IF m \in {4, 6, 9, 11} THEN 30 ELSE 31)
      /\ DaysBefore[1] = 0 /\ DaysBefore[12] = 334
  BY <1>2, <1>3, <1>4, MonthLengths
<1>6. PICK leaps : leaps = Leaps(y - 1600)
  OBVIOUS
<1>7. leaps \in Int /\ Leaps(y - 1600 + 1) = leaps + (IF IsLeap(y) THEN 1 ELSE 0)
  BY <1>2, <1>6, LeapDay
<1>8. DayNumber(g) = 365 * (y - 1600) + (IF m > 2 THEN leaps + (IF IsLeap(y) THEN 1 ELSE 0) ELSE leaps)
                     - 80 + d + before
  <2>1. DayNumber(g) = 365 * (y - 1600) + Leaps(IF m > 2 THEN y - 1600 + 1 ELSE y - 1600)
                       - 80 + d + before
    BY <1>2, <1>3, NumberOf
  <2>2. QED
    BY <1>6, <1>7, <2>1
<1>9. CASE d < len
  <2>1. DayAfter(g) = [year |-> y, month |-> m, day |-> d + 1]
    <3>1. [g EXCEPT !.day = d + 1] = [year |-> y, month |-> m, day |-> d + 1]
      BY <1>1
    <3>2. QED
      BY <1>2, <1>4, <1>9, <3>1 DEF DayAfter
  <2>2. PICK h : h = DayAfter(g)
    OBVIOUS
  <2>3. /\ h \in [year : Int, month : 1 .. 12, day : Int]
        /\ h.year = y /\ h.month = m /\ h.day = d + 1
    BY <1>2, <2>1, <2>2
  <2>4. IsDate(h)
    <3>1. GregorianLength(h.year, h.month) = len
      BY <1>4, <2>3
    <3>2. 1 <= d + 1 /\ d + 1 <= len
      BY <1>2, <1>5, <1>9
    <3>3. QED
      BY <2>3, <3>1, <3>2 DEF IsDate
  <2>5. DayNumber(h) = 365 * (y - 1600) + (IF m > 2 THEN leaps + (IF IsLeap(y) THEN 1 ELSE 0) ELSE leaps)
                       - 80 + (d + 1) + before
    <3>1. DayNumber(h) = 365 * (y - 1600) + Leaps(IF m > 2 THEN y - 1600 + 1 ELSE y - 1600)
                         - 80 + (d + 1) + before
      <4>1. d + 1 \in Int
        BY <1>2
      <4>2. QED
        BY <1>2, <1>3, <2>3, <4>1, NumberOf
    <3>2. QED
      BY <1>6, <1>7, <3>1
  <2>6. QED
    BY <1>2, <1>5, <1>7, <1>8, <2>2, <2>4, <2>5
<1>10. CASE d = len /\ m < 12
  <2>1. DayAfter(g) = [year |-> y, month |-> m + 1, day |-> 1]
    <3>1. PICK k : k = [g EXCEPT !.month = m + 1]
      OBVIOUS
    <3>2. k = [year |-> y, month |-> m + 1, day |-> d]
      BY <1>1, <3>1
    <3>3. [k EXCEPT !.day = 1] = [year |-> y, month |-> m + 1, day |-> 1]
      BY <3>2
    <3>4. ~(g.day < GregorianLength(g.year, g.month)) /\ g.month < 12
      BY <1>2, <1>4, <1>10
    <3>5. DayAfter(g) = [g EXCEPT !.month = m + 1, !.day = 1]
      BY <1>2, <3>4 DEF DayAfter
    <3>6. QED
      BY <3>1, <3>3, <3>5
  <2>2. PICK h : h = DayAfter(g)
    OBVIOUS
  <2>3. /\ h \in [year : Int, month : 1 .. 12, day : Int]
        /\ h.year = y /\ h.month = m + 1 /\ h.day = 1
    BY <1>2, <1>10, <2>1, <2>2
  <2>4. IsDate(h)
    <3>1. m + 1 \in 1 .. 12
      BY <1>2, <1>10
    <3>2. GregorianLength(y, m + 1) \in 28 .. 31
      BY <1>2, <3>1, MonthLengths
    <3>3. QED
      BY <2>3, <3>2 DEF IsDate
  <2>5. DayNumber(h) =
          365 * (y - 1600) + (IF m + 1 > 2 THEN leaps + (IF IsLeap(y) THEN 1 ELSE 0) ELSE leaps)
          - 80 + 1 + DaysBefore[m + 1]
    <3>1. m + 1 \in 1 .. 12 /\ 1 \in Int
      BY <1>2, <1>10
    <3>2. DayNumber(h) =
            365 * (y - 1600) + Leaps(IF m + 1 > 2 THEN y - 1600 + 1 ELSE y - 1600)
            - 80 + 1 + DaysBefore[m + 1]
      BY <1>2, <2>3, <3>1, NumberOf
    <3>3. QED
      BY <1>6, <1>7, <3>2
  <2>6. QED
    BY <1>2, <1>5, <1>7, <1>8, <1>10, <2>2, <2>4, <2>5
<1>11. CASE d = len /\ m = 12
  <2>1. DayAfter(g) = [year |-> y + 1, month |-> 1, day |-> 1]
    <3>1. ~(g.day < GregorianLength(g.year, g.month)) /\ ~(g.month < 12)
      BY <1>2, <1>4, <1>11
    <3>2. QED
      BY <1>2, <3>1 DEF DayAfter
  <2>2. PICK h : h = DayAfter(g)
    OBVIOUS
  <2>3. /\ h \in [year : Int, month : 1 .. 12, day : Int]
        /\ h.year = y + 1 /\ h.month = 1 /\ h.day = 1
    BY <1>2, <2>1, <2>2
  <2>4. IsDate(h)
    <3>1. y + 1 \in Int /\ 1 \in 1 .. 12
      BY <1>2
    <3>2. GregorianLength(y + 1, 1) = 31
      BY <3>1, MonthLengths
    <3>3. QED
      BY <2>3, <3>2 DEF IsDate
  <2>5. DayNumber(h) = 365 * ((y + 1) - 1600) + Leaps((y + 1) - 1600) - 80 + 1 + DaysBefore[1]
    <3>1. y + 1 \in Int /\ 1 \in 1 .. 12 /\ 1 \in Int
      BY <1>2
    <3>2. DayNumber(h) = 365 * ((y + 1) - 1600)
              + Leaps(IF 1 > 2 THEN (y + 1) - 1600 + 1 ELSE (y + 1) - 1600) - 80 + 1 + DaysBefore[1]
      BY <2>3, <3>1, NumberOf
    <3>3. QED
      BY <3>2
  <2>6. Leaps((y + 1) - 1600) = leaps + (IF IsLeap(y) THEN 1 ELSE 0)
    <3>1. (y + 1) - 1600 = y - 1600 + 1
      BY <1>2
    <3>2. QED
      BY <1>7, <3>1
  <2>7. before = 334 /\ len = 31
    BY <1>3, <1>5, <1>11
  <2>8. QED
    BY <1>2, <1>5, <1>7, <1>8, <1>11, <2>2, <2>4, <2>5, <2>6, <2>7
<1>12. QED
  BY <1>2, <1>4, <1>5, <1>9, <1>10, <1>11

\* The Jalali date of the day that follows is the day that follows it.
LEMMA StampFollows ==
  ASSUME NEW g, IsDate(g)
  PROVE  Jalali(DayAfter(g)) = JalaliDayAfter(Jalali(g))
<1>1. DayNumber(g) \in Int /\ DayNumber(DayAfter(g)) = DayNumber(g) + 1
  BY DayNumberAfter
<1>2. PICK a \in Int : a = DayNumber(g)
  BY <1>1
<1>3. FromNumber(a + 1) = JalaliDayAfter(FromNumber(a))
  BY NumberAfter
<1>4. QED
  BY <1>1, <1>2, <1>3, JalaliOfNumber

\* The clock shows a date and a half hour of it.
ClockInv == utc \in [day : {g \in [year : Int, month : 1 .. 12, day : Int] : IsDate(g)}, half : 0 .. 47]

\* What a half hour does to the day in Tehran.
LEMMA TehranAfter ==
  ASSUME ClockInv, HalfHour
  PROVE  /\ ClockInv'
         /\ IsDate(TehranDay(utc))
         /\ TehranDay(utc)' = IF utc.half + 7 = 47 THEN DayAfter(TehranDay(utc)) ELSE TehranDay(utc)
<1>1. PICK g, n : utc = [day |-> g, half |-> n] /\ IsDate(g) /\ n \in 0 .. 47
  BY DEF ClockInv
<1>2. IsDate(g) /\ IsDate(DayAfter(g))
  BY <1>1, DayNumberAfter
<1>3. TehranDay(utc) = IF n + 7 >= 48 THEN DayAfter(g) ELSE g
  BY <1>1 DEF TehranDay
<1>4. PICK g2, n2 : utc' = [day |-> g2, half |-> n2] /\ g2 = (IF n < 47 THEN g ELSE DayAfter(g))
                    /\ n2 = IF n < 47 THEN n + 1 ELSE 0
  <2>1. CASE n < 47
    <3>1. utc' = [utc EXCEPT !.half = n + 1]
      BY <1>1, <2>1 DEF HalfHour
    <3>2. QED
      BY <1>1, <2>1, <3>1
  <2>2. CASE ~(n < 47)
    BY <1>1, <2>2 DEF HalfHour
  <2>3. QED
    BY <2>1, <2>2
<1>5. TehranDay(utc)' = IF n2 + 7 >= 48 THEN DayAfter(g2) ELSE g2
  BY <1>4 DEF TehranDay
<1>6. IsDate(g2) /\ n2 \in 0 .. 47
  BY <1>1, <1>2, <1>4
<1>7. ClockInv'
  BY <1>4, <1>6 DEF ClockInv, IsDate
<1>8. \/ n < 40
     \/ n = 40
     \/ (n > 40 /\ n < 47)
     \/ n = 47
  BY <1>1
<1>9. TehranDay(utc)' = IF n + 7 = 47 THEN DayAfter(TehranDay(utc)) ELSE TehranDay(utc)
  BY <1>1, <1>3, <1>4, <1>5, <1>8
<1>10. QED
  BY <1>1, <1>2, <1>3, <1>7, <1>9

\* The calendar of the observations: in every behaviour, from any first day after
\* 1600 and over any number of years, the Jalali date changes at midnight in
\* Tehran and then to the next day of the calendar, and 1403 began on 20 March 2024.
THEOREM CalendarIsFollowed == ReadingSpec => StampFollowsCalendar
<1>1. ReadingInit => ClockInv
  <2>1. ASSUME ReadingInit PROVE ClockInv
    <3>1. IsDate(begun) /\ utc = [day |-> begun, half |-> 0]
      BY <2>1, CalendarAssumption DEF ReadingInit
    <3>2. QED
      BY <3>1 DEF ClockInv, IsDate
  <2>2. QED
    BY <2>1
<1>2. ClockInv /\ [ReadingNext]_readingVars => ClockInv'
  <2>1. ASSUME ClockInv, HalfHour PROVE ClockInv'
    BY <2>1, TehranAfter
  <2>2. ASSUME ClockInv, UNCHANGED utc PROVE ClockInv'
    BY <2>2 DEF ClockInv
  <2>3. QED
    BY <2>1, <2>2 DEF ReadingNext, Observe, readingVars
<1>3. TehranDay(utc) = [year |-> 2024, month |-> 3, day |-> 20] =>
          Stamp(utc) = [year |-> 1403, month |-> 1, day |-> 1]
  <2>1. ASSUME TehranDay(utc) = [year |-> 2024, month |-> 3, day |-> 20]
        PROVE  Stamp(utc) = [year |-> 1403, month |-> 1, day |-> 1]
    <3>0. PICK g : g = TehranDay(utc)
      OBVIOUS
    <3>1. g = [year |-> 2024, month |-> 3, day |-> 20]
      BY <2>1, <3>0
    <3>2. DayNumber(g) = 154863
      <4>1. g.year = 2024 /\ g.month = 3 /\ g.day = 20
        BY <3>1
      <4>2. DaysBefore[3] = 59
        BY DEF DaysBefore
      <4>3. QED
        BY <4>1, <4>2 DEF DayNumber
    <3>3. FromNumber(154863) = [year |-> 1403, month |-> 1, day |-> 1]
      BY DEF FromNumber, IsLate
    <3>4. QED
      BY <3>0, <3>2, <3>3, JalaliOfNumber DEF Stamp
  <2>2. QED
    BY <2>1
<1>4. ClockInv /\ [ReadingNext]_readingVars =>
          [utc' # utc =>
             Stamp(utc)' = IF utc.half + 7 = 47 THEN JalaliDayAfter(Stamp(utc)) ELSE Stamp(utc)]_readingVars
  <2>1. ASSUME ClockInv, HalfHour
        PROVE  Stamp(utc)' = IF utc.half + 7 = 47 THEN JalaliDayAfter(Stamp(utc)) ELSE Stamp(utc)
    <3>1. /\ IsDate(TehranDay(utc))
          /\ TehranDay(utc)' = IF utc.half + 7 = 47 THEN DayAfter(TehranDay(utc)) ELSE TehranDay(utc)
      BY <2>1, TehranAfter
    <3>2. PICK g, h : g = TehranDay(utc) /\ h = TehranDay(utc)'
      OBVIOUS
    <3>3. Stamp(utc) = Jalali(g) /\ Stamp(utc)' = Jalali(h)
      BY <3>2 DEF Stamp
    <3>4. IsDate(g) /\ h = IF utc.half + 7 = 47 THEN DayAfter(g) ELSE g
      BY <3>1, <3>2
    <3>5. QED
      BY <3>3, <3>4, StampFollows
  <2>2. QED
    BY <2>1 DEF ReadingNext, Observe, readingVars
<1>5. QED
  BY <1>1, <1>2, <1>3, <1>4, PTL DEF ReadingSpec, StampFollowsCalendar
-----------------------------------------------------------------------------
(* MarketReading: the price.  What a source shows is digits, in groups of  *)
(* three; clean_number goes along the text and comes to the number that    *)
(* the digits write.                                                       *)

\* What is reached after each element of a list.
Course(f, list, next, first, m) ==
    f = [i \in 0 .. m |-> IF i = 0 THEN first ELSE next[list[i]][f[i - 1]]]

\* There is a way along any list.
LEMMA CourseExists ==
  ASSUME NEW list, NEW next, NEW first, NEW m \in Nat
  PROVE  \E f : Course(f, list, next, first, m)
<1> DEFINE Missing == {k \in Nat : ~ \E f : Course(f, list, next, first, k)}
<1>1. SUFFICES ASSUME Missing # {} PROVE FALSE
  OBVIOUS
<1>2. PICK k \in Missing : \A j \in Missing : k <= j
  <2>1. Missing \subseteq Nat
    OBVIOUS
  <2> HIDE DEF Missing
  <2>2. QED
    BY <1>1, <2>1, LeastOfNumbers
<1>3. k \in Nat /\ ~ \E f : Course(f, list, next, first, k)
  OBVIOUS
<1>4. CASE k = 0
  <2>1. Course([i \in 0 .. 0 |-> first], list, next, first, k)
    BY <1>4 DEF Course
  <2>2. QED
    BY <1>3, <2>1
<1>5. CASE k # 0
  <2>1. k - 1 \in Nat /\ k - 1 \notin Missing
    BY <1>2, <1>3, <1>5
  <2>2. PICK h : Course(h, list, next, first, k - 1)
    BY <2>1
  <2>3. PICK f : f = [i \in 0 .. k |-> IF i = 0 THEN first ELSE next[list[i]][h[i - 1]]]
    OBVIOUS
  <2>4. \A i \in 0 .. k : i # 0 => i - 1 \in 0 .. k - 1
    BY <1>3
  <2>5. \A i \in 0 .. k - 1 : f[i] = h[i]
    <3>1. \A i \in 0 .. k - 1 : i \in 0 .. k
      BY <1>3
    <3>2. \A i \in 0 .. k - 1 : h[i] = IF i = 0 THEN first ELSE next[list[i]][h[i - 1]]
      BY <2>2 DEF Course
    <3>3. QED
      BY <2>3, <3>1, <3>2
  <2>6. \A i \in 0 .. k :
            (IF i = 0 THEN first ELSE next[list[i]][h[i - 1]])
              = (IF i = 0 THEN first ELSE next[list[i]][f[i - 1]])
    BY <2>4, <2>5
  <2>7. f = [i \in 0 .. k |-> IF i = 0 THEN first ELSE next[list[i]][f[i - 1]]]
    BY <2>3, <2>6
  <2>8. QED
    BY <1>3, <2>7 DEF Course
<1>6. QED
  BY <1>4, <1>5

Way(f, list, next, first) ==
    /\ f[0] = first
    /\ \A i \in 1 .. Len(list) : f[i] = next[list[i]][f[i - 1]]
    /\ Along(list, next, first) = f[Len(list)]

\* Along is the end of such a way.
LEMMA AlongIs ==
  ASSUME NEW list, NEW next, NEW first, Len(list) \in Nat
  PROVE  \E f : Way(f, list, next, first)
<1> DEFINE g == CHOOSE g : g = [i \in 0 .. Len(list) |-> IF i = 0 THEN first ELSE next[list[i]][g[i - 1]]]
<1>1. \E f : f = [i \in 0 .. Len(list) |-> IF i = 0 THEN first ELSE next[list[i]][f[i - 1]]]
  <2>1. \E f : Course(f, list, next, first, Len(list))
    BY CourseExists
  <2>2. QED
    BY <2>1 DEF Course
<1>2. g = [i \in 0 .. Len(list) |-> IF i = 0 THEN first ELSE next[list[i]][g[i - 1]]]
  BY <1>1
<1>3. Along(list, next, first) = g[Len(list)]
  BY DEF Along
<1> HIDE DEF g
<1>4. \A i \in 0 .. Len(list) : g[i] = IF i = 0 THEN first ELSE next[list[i]][g[i - 1]]
  BY <1>2
<1>5. g[0] = first /\ \A i \in 1 .. Len(list) : g[i] = next[list[i]][g[i - 1]]
  BY <1>4
<1>6. QED
  BY <1>3, <1>5 DEF Way

Leads(e, list, next, first) ==
    /\ Len(list) \in Nat
    /\ e[0] = first
    /\ \A i \in 1 .. Len(list) : e[i] = next[list[i]][e[i - 1]]

\* There is one way only.
LEMMA AlongReaches ==
  ASSUME NEW list, NEW next, NEW first, NEW e, Leads(e, list, next, first)
  PROVE  Along(list, next, first) = e[Len(list)]
<1>0. /\ Len(list) \in Nat
      /\ e[0] = first
      /\ \A i \in 1 .. Len(list) : e[i] = next[list[i]][e[i - 1]]
  BY DEF Leads
<1>1. PICK f : /\ f[0] = first
               /\ \A i \in 1 .. Len(list) : f[i] = next[list[i]][f[i - 1]]
               /\ Along(list, next, first) = f[Len(list)]
  <2>1. PICK f : Way(f, list, next, first)
    BY <1>0, AlongIs
  <2>2. QED
    BY <2>1 DEF Way
<1> DEFINE Other == {i \in 0 .. Len(list) : f[i] # e[i]}
<1>2. SUFFICES ASSUME Other # {} PROVE FALSE
  BY <1>0, <1>1
<1>3. PICK i \in Other : \A j \in Other : i <= j
  <2>1. Other \subseteq Nat
    OBVIOUS
  <2> HIDE DEF Other
  <2>2. QED
    BY <1>2, <2>1, LeastOfNumbers
<1>4. i # 0
  BY <1>0, <1>1
<1>5. i - 1 \in 0 .. Len(list) /\ i - 1 \notin Other /\ i \in 1 .. Len(list)
  BY <1>0, <1>3, <1>4
<1>6. f[i - 1] = e[i - 1]
  BY <1>5
<1>7. QED
  BY <1>0, <1>1, <1>3, <1>5, <1>6

\* What is reached along two lists.
LEMMA AlongBoth ==
  ASSUME NEW A, NEW s \in Seq(A), NEW t \in Seq(A), NEW next, NEW first
  PROVE  Along(s \o t, next, first) = Along(t, next, Along(s, next, first))
<1>1. PICK m, n : m = Len(s) /\ n = Len(t) /\ m \in Nat /\ n \in Nat
  <2>1. Len(s) \in Nat /\ Len(t) \in Nat
    OBVIOUS
  <2>2. QED
    BY <2>1
<1>2. PICK f : /\ f[0] = first
               /\ \A i \in 1 .. m : f[i] = next[s[i]][f[i - 1]]
               /\ Along(s, next, first) = f[m]
  <2>1. Len(s) \in Nat
    OBVIOUS
  <2>2. PICK f : Way(f, s, next, first)
    BY <2>1, AlongIs
  <2>3. QED
    BY <1>1, <2>2 DEF Way
<1>3. PICK g : /\ g[0] = f[m]
               /\ \A i \in 1 .. n : g[i] = next[t[i]][g[i - 1]]
               /\ Along(t, next, f[m]) = g[n]
  <2>1. Len(t) \in Nat
    OBVIOUS
  <2>2. PICK g : Way(g, t, next, f[m])
    BY <2>1, AlongIs
  <2>3. QED
    BY <1>1, <2>2 DEF Way
<1>4. PICK e : e = [i \in 0 .. m + n |-> IF i <= m THEN f[i] ELSE g[i - m]]
  OBVIOUS
<1>5. /\ Len(s \o t) = m + n
      /\ \A i \in 1 .. m + n : (s \o t)[i] = IF i <= m THEN s[i] ELSE t[i - m]
  BY <1>1
<1>6. ASSUME NEW i \in 1 .. m + n PROVE e[i] = next[(s \o t)[i]][e[i - 1]]
  <2>1. i \in 0 .. m + n /\ i - 1 \in 0 .. m + n
    BY <1>1
  <2>2. CASE i <= m
    <3>1. i \in 1 .. m /\ i - 1 <= m
      BY <1>1, <2>2
    <3>2. QED
      BY <1>2, <1>4, <1>5, <2>1, <2>2, <3>1
  <2>3. CASE ~(i <= m)
    <3>1. i - m \in 1 .. n /\ (i - m) - 1 = (i - 1) - m
      BY <1>1, <2>3
    <3>2. e[i] = next[t[i - m]][g[(i - m) - 1]]
      BY <1>3, <1>4, <2>1, <2>3, <3>1
    <3>3. e[i - 1] = g[(i - m) - 1]
      <4>1. CASE i - 1 <= m
        <5>1. i - 1 = m /\ (i - m) - 1 = 0
          BY <1>1, <2>3, <4>1
        <5>2. QED
          BY <1>1, <1>3, <1>4, <2>1, <5>1
      <4>2. CASE ~(i - 1 <= m)
        BY <1>4, <2>1, <3>1, <4>2
      <4>3. QED
        BY <4>1, <4>2
    <3>4. QED
      BY <1>5, <2>3, <3>2, <3>3
  <2>4. QED
    BY <2>2, <2>3
<1>7. e[0] = first /\ e[m + n] = g[n]
  <2>1. e[0] = first
    BY <1>1, <1>2, <1>4
  <2>2. CASE n = 0
    BY <1>1, <1>3, <1>4, <2>2
  <2>3. CASE n # 0
    <3>1. m + n \in 0 .. m + n /\ ~(m + n <= m) /\ (m + n) - m = n
      BY <1>1, <2>3
    <3>2. QED
      BY <1>4, <3>1
  <2>4. QED
    BY <2>1, <2>2, <2>3
<1>8. Along(s \o t, next, first) = e[m + n]
  <2>1. PICK both : both = s \o t
    OBVIOUS
  <2>2. Len(both) = m + n /\ Len(both) \in Nat
    BY <1>1, <1>5, <2>1
  <2>3. \A i \in 1 .. Len(both) : e[i] = next[both[i]][e[i - 1]]
    BY <1>6, <2>1, <2>2
  <2>4. Leads(e, both, next, first)
    BY <1>2, <1>7, <2>2, <2>3 DEF Leads
  <2>5. Along(both, next, first) = e[Len(both)]
    BY <2>4, AlongReaches
  <2>6. QED
    BY <2>1, <2>2, <2>5
<1>9. QED
  BY <1>2, <1>3, <1>7, <1>8

\* The numbers that the beginnings of a row of digits write.
Numbers(v, digits) ==
    /\ \A i \in 0 .. Len(digits) : v[i] \in Nat
    /\ v[0] = 0
    /\ \A i \in 1 .. Len(digits) : v[i] = 10 * v[i - 1] + digits[i]

\* A row of digits writes a number ...
LEMMA ValueOf ==
  ASSUME NEW digits \in Seq(0 .. 9)
  PROVE  \E v : Numbers(v, digits) /\ Value(digits) = v[Len(digits)]
<1>1. PICK m \in Nat : m = Len(digits)
  OBVIOUS
<1>2. PICK next : next = [c \in 0 .. 9 |-> [v \in Nat |-> 10 * v + c]]
  OBVIOUS
<1>3. PICK f : /\ f[0] = 0
               /\ \A i \in 1 .. m : f[i] = next[digits[i]][f[i - 1]]
               /\ Along(digits, next, 0) = f[m]
  <2>1. Len(digits) \in Nat
    OBVIOUS
  <2>2. PICK f : Way(f, digits, next, 0)
    BY <2>1, AlongIs
  <2>3. QED
    BY <1>1, <2>2 DEF Way
<1>4. \A i \in 1 .. m : digits[i] \in 0 .. 9
  BY <1>1
<1>5. ASSUME NEW i \in 1 .. m, f[i - 1] \in Nat
      PROVE  f[i] = 10 * f[i - 1] + digits[i] /\ f[i] \in Nat
  <2>1. f[i] = 10 * f[i - 1] + digits[i]
    BY <1>2, <1>3, <1>4, <1>5
  <2>2. PICK x, c : x = f[i - 1] /\ c = digits[i]
    OBVIOUS
  <2>3. x \in Nat /\ c \in 0 .. 9
    BY <1>4, <1>5, <2>2
  <2>4. 10 * x + c \in Nat
    BY <2>3
  <2>5. QED
    BY <2>1, <2>2, <2>4
<1>6. \A i \in 0 .. m : f[i] \in Nat
  <2> DEFINE Odd == {i \in 0 .. m : f[i] \notin Nat}
  <2>1. SUFFICES ASSUME Odd # {} PROVE FALSE
    OBVIOUS
  <2>2. PICK i \in Odd : \A j \in Odd : i <= j
    <3>1. Odd \subseteq Nat
      OBVIOUS
    <3> HIDE DEF Odd
    <3>2. QED
      BY <2>1, <3>1, LeastOfNumbers
  <2>3. i # 0
    BY <1>3
  <2>4. i - 1 \in 0 .. m /\ i - 1 \notin Odd /\ i \in 1 .. m
    BY <2>2, <2>3
  <2>5. QED
    BY <1>5, <2>2, <2>4
<1>7. \A i \in 1 .. m : f[i] = 10 * f[i - 1] + digits[i]
  <2>1. \A i \in 1 .. m : i - 1 \in 0 .. m
    OBVIOUS
  <2>2. QED
    BY <1>5, <1>6, <2>1
<1>8. Value(digits) = f[m]
  BY <1>2, <1>3 DEF Value
<1>9. Numbers(f, digits)
  BY <1>1, <1>3, <1>6, <1>7 DEF Numbers
<1>10. QED
  BY <1>1, <1>8, <1>9

\* ... and only one.
LEMMA ValueIs ==
  ASSUME NEW digits \in Seq(0 .. 9), NEW v, Numbers(v, digits)
  PROVE  Value(digits) = v[Len(digits)]
<1>1. PICK m \in Nat : m = Len(digits)
  OBVIOUS
<1>2. PICK next : next = [c \in 0 .. 9 |-> [w \in Nat |-> 10 * w + c]]
  OBVIOUS
<1>3. ASSUME NEW i \in 1 .. m PROVE v[i] = next[digits[i]][v[i - 1]]
  <2>1. i - 1 \in 0 .. m
    OBVIOUS
  <2>2. v[i - 1] \in Nat /\ v[i] = 10 * v[i - 1] + digits[i] /\ digits[i] \in 0 .. 9
    BY <1>1, <2>1 DEF Numbers
  <2>3. QED
    BY <1>2, <2>2
<1>4. v[0] = 0
  BY DEF Numbers
<1>5. Along(digits, next, 0) = v[m]
  <2>1. Leads(v, digits, next, 0)
    BY <1>1, <1>3, <1>4 DEF Leads
  <2>2. QED
    BY <1>1, <2>1, AlongReaches
<1>6. QED
  BY <1>1, <1>2, <1>5 DEF Value

\* A price in rials is ten times the price.
LEMMA TenTimes ==
  ASSUME NEW digits \in Seq(0 .. 9), digits # <<>>
  PROVE  /\ InRials(digits) \in Seq(0 .. 9) /\ InRials(digits) # <<>>
         /\ Value(digits) \in Nat /\ Value(InRials(digits)) = 10 * Value(digits)
<1>1. PICK m \in Nat : m = Len(digits)
  OBVIOUS
<1>2. PICK v : Numbers(v, digits) /\ Value(digits) = v[m]
  BY <1>1, ValueOf
<1>3. v[m] \in Nat
  BY <1>1, <1>2 DEF Numbers
<1>4. CASE digits = <<0>>
  <2>1. m = 1 /\ digits[1] = 0
    BY <1>1, <1>4
  <2>2. v[1] = 10 * v[0] + 0 /\ v[0] = 0
    BY <1>1, <1>2, <2>1 DEF Numbers
  <2>3. QED
    BY <1>2, <1>3, <1>4, <2>1, <2>2 DEF InRials
<1>5. CASE digits # <<0>>
  <2>1. PICK d : d = Append(digits, 0)
    OBVIOUS
  <2>2. /\ d \in Seq(0 .. 9) /\ Len(d) = m + 1 /\ d # <<>>
        /\ d[m + 1] = 0 /\ \A i \in 1 .. m : d[i] = digits[i]
    BY <1>1, <2>1
  <2>3. PICK w : w = [i \in 0 .. m + 1 |-> IF i <= m THEN v[i] ELSE 10 * v[m]]
    OBVIOUS
  <2>4. /\ \A i \in 0 .. m : v[i] \in Nat
        /\ v[0] = 0
        /\ \A i \in 1 .. m : v[i] = 10 * v[i - 1] + digits[i]
    BY <1>1, <1>2 DEF Numbers
  <2>5. /\ \A i \in 0 .. m + 1 : w[i] \in Nat
        /\ w[0] = 0 /\ w[m + 1] = 10 * v[m]
    <3>1. m + 1 \in 0 .. m + 1 /\ ~(m + 1 <= m) /\ 0 \in 0 .. m + 1 /\ 0 <= m
      OBVIOUS
    <3>2. \A i \in 0 .. m + 1 : i <= m => i \in 0 .. m
      OBVIOUS
    <3>3. 10 * v[m] \in Nat
      BY <1>3
    <3>4. QED
      BY <2>3, <2>4, <3>1, <3>2, <3>3
  <2>6. ASSUME NEW i \in 1 .. m + 1 PROVE w[i] = 10 * w[i - 1] + d[i]
    <3>1. i \in 0 .. m + 1 /\ i - 1 \in 0 .. m + 1 /\ i - 1 <= m
      OBVIOUS
    <3>2. w[i - 1] = v[i - 1]
      BY <2>3, <3>1
    <3>3. CASE i <= m
      <4>1. i \in 1 .. m
        BY <3>3
      <4>2. QED
        BY <2>2, <2>3, <2>4, <3>1, <3>2, <3>3, <4>1
    <3>4. CASE i = m + 1
      <4>1. i - 1 = m
        BY <3>4
      <4>2. QED
        BY <1>3, <2>2, <2>5, <3>2, <3>4, <4>1
    <3>5. QED
      BY <3>3, <3>4
  <2>7. Numbers(w, d)
    BY <2>2, <2>5, <2>6 DEF Numbers
  <2>8. Value(d) = w[m + 1]
    BY <2>2, <2>7, ValueIs
  <2>9. InRials(digits) = d
    BY <1>5, <2>1 DEF InRials
  <2>10. QED
    BY <1>2, <1>3, <2>2, <2>5, <2>8, <2>9
<1>6. QED
  BY <1>4, <1>5

\* Place p of the n of a number of m digits, r places from its right end.
PlaceIn(m, n, p, r) ==
    /\ m \in Int /\ n \in Int /\ p \in Int /\ r \in Int
    /\ 1 <= m /\ n = m + (m - 1) \div 3 /\ 1 <= p /\ p <= n /\ r = n - p

\* Which digit stands at a place of a number in groups of three.
LEMMA PlaceOfDigit ==
  ASSUME NEW m, NEW n, NEW p, NEW r, PlaceIn(m, n, p, r)
  PROVE  /\ r % 4 = 3 => p > 1 /\ m - (r + 1) + (r + 1) \div 4 = m - r + r \div 4
         /\ r % 4 # 3 => /\ 1 <= m - r + r \div 4 /\ m - r + r \div 4 <= m
                         /\ m - (r + 1) + (r + 1) \div 4 = m - r + r \div 4 - 1
                         /\ p = 1 => m - r + r \div 4 = 1
<1>0. /\ m \in Int /\ n \in Int /\ p \in Int /\ r \in Int
      /\ 1 <= m /\ n = m + (m - 1) \div 3 /\ 1 <= p /\ p <= n /\ r = n - p
  BY DEF PlaceIn
<1>1. PICK g \in Int : g = (m - 1) \div 3
  BY <1>0
<1>2. 3 * g <= m - 1 /\ m - 1 <= 3 * g + 2 /\ n = m + g
  BY <1>0, <1>1
<1>3. PICK h \in Int : h = r \div 4
  BY <1>0
<1>4. 4 * h <= r /\ r <= 4 * h + 3 /\ (r % 4 = 3 <=> r = 4 * h + 3)
  BY <1>0, <1>3
<1>5. r = 4 * h + 3 => (r + 1) \div 4 = h + 1
  BY <1>0
<1>6. r # 4 * h + 3 => (r + 1) \div 4 = h
  BY <1>0, <1>4
<1>7. r % 4 = 3 => p > 1 /\ m - (r + 1) + (r + 1) \div 4 = m - r + r \div 4
  BY <1>0, <1>2, <1>3, <1>4, <1>5
<1>8. ASSUME r # 4 * h + 3
      PROVE  1 <= m - r + h /\ m - r + h <= m /\ (p = 1 => m - r + h = 1)
  <2>1. r <= 4 * h + 2 /\ 0 <= r /\ r <= m + g - 1
    BY <1>0, <1>2, <1>4, <1>8
  <2>2. 0 <= h /\ h <= r
    BY <1>0, <1>4, <2>1
  <2>3. 1 <= m - r + h
    BY <1>0, <1>2, <1>4, <2>1
  <2>4. p = 1 => h = g
    BY <1>0, <1>2, <1>4, <2>1
  <2>5. QED
    BY <1>0, <1>2, <2>2, <2>3, <2>4
<1>9. QED
  BY <1>0, <1>3, <1>4, <1>6, <1>7, <1>8

\* One character of a text.
LEMMA OneRead ==
  ASSUME NEW c \in Character, NEW at \in {"before", "in", "after"}, NEW v \in Nat,
         NEW s, s = [at |-> at, minus |-> FALSE, value |-> v]
  PROVE  /\ c \in Dropped \/ at = "after" => Reads[c][s] = s
         /\ c \notin Dropped /\ at # "after" /\ IsDigit(c) =>
                Reads[c][s] = [at |-> "in", minus |-> FALSE, value |-> 10 * v + (c % 10)]
         /\ c = Letter \/ c = Point =>
                Reads[c][s] = [at |-> IF at = "before" THEN "before" ELSE "after",
                               minus |-> FALSE, value |-> v]
<1>1. s \in Search
  BY DEF Search
<1>2. Reads[c][s] =
        IF c \in Dropped \/ s.at = "after" THEN s
        ELSE IF IsDigit(c) THEN [at |-> "in", minus |-> s.minus, value |-> 10 * s.value + (c % 10)]
        ELSE IF s.at = "in" THEN [s EXCEPT !.at = "after"]
        ELSE [s EXCEPT !.minus = (c = Minus)]
  BY <1>1 DEF Reads
<1>3. s.at = at /\ s.minus = FALSE /\ s.value = v
  OBVIOUS
<1>4. c \in Dropped \/ at = "after" => Reads[c][s] = s
  BY <1>2, <1>3
<1>5. c \notin Dropped /\ at # "after" /\ IsDigit(c) =>
          Reads[c][s] = [at |-> "in", minus |-> FALSE, value |-> 10 * v + (c % 10)]
  BY <1>2, <1>3
<1>6. ASSUME c = Letter \/ c = Point
      PROVE  Reads[c][s] = [at |-> IF at = "before" THEN "before" ELSE "after",
                            minus |-> FALSE, value |-> v]
  <2>1. c \notin Dropped /\ ~IsDigit(c) /\ (c = Minus) = FALSE
    BY <1>6 DEF Letter, Point, Minus, Dropped, Comma, Thousands, ArabicDecimal, Space, IsDigit
  <2>2. CASE at = "before"
    <3>1. Reads[c][s] = [s EXCEPT !.minus = FALSE]
      BY <1>2, <1>3, <2>1, <2>2
    <3>2. QED
      BY <2>2, <3>1
  <2>3. CASE at = "in"
    <3>1. Reads[c][s] = [s EXCEPT !.at = "after"]
      BY <1>2, <1>3, <2>1, <2>3
    <3>2. QED
      BY <2>3, <3>1
  <2>4. CASE at = "after"
    BY <1>4, <2>4
  <2>5. QED
    BY <2>2, <2>3, <2>4
<1>7. QED
  BY <1>4, <1>5, <1>6

\* One character after a digit.
LEMMA InRead ==
  ASSUME NEW c \in Character, NEW v \in Nat, NEW s, s = [at |-> "in", minus |-> FALSE, value |-> v]
  PROVE  /\ c \in Dropped => Reads[c][s] = s
         /\ c \notin Dropped /\ IsDigit(c) =>
                Reads[c][s] = [at |-> "in", minus |-> FALSE, value |-> 10 * v + (c % 10)]
         /\ c = Letter \/ c = Point => Reads[c][s] = [at |-> "after", minus |-> FALSE, value |-> v]
<1>1. PICK at \in {"before", "in", "after"} : at = "in"
  OBVIOUS
<1>2. s = [at |-> at, minus |-> FALSE, value |-> v]
  BY <1>1
<1>3. /\ c \in Dropped \/ at = "after" => Reads[c][s] = s
      /\ c \notin Dropped /\ at # "after" /\ IsDigit(c) =>
             Reads[c][s] = [at |-> "in", minus |-> FALSE, value |-> 10 * v + (c % 10)]
      /\ c = Letter \/ c = Point =>
             Reads[c][s] = [at |-> IF at = "before" THEN "before" ELSE "after",
                            minus |-> FALSE, value |-> v]
  BY <1>2, OneRead
<1>4. at # "after" /\ at # "before"
  BY <1>1
<1>5. QED
  BY <1>3, <1>4

\* A grouped number is read as the number that its digits write.
LEMMA GroupRead ==
  ASSUME NEW digits \in Seq(0 .. 9), digits # <<>>, NEW separator \in Dropped, NEW script \in 0 .. 2
  PROVE  /\ Grouped(digits, separator, script) \in Seq(Character)
         /\ Value(digits) \in Nat
         /\ Along(Grouped(digits, separator, script), Reads, Start) =
                [at |-> "in", minus |-> FALSE, value |-> Value(digits)]
<1>1. PICK m \in Nat : m = Len(digits) /\ 1 <= m
  OBVIOUS
<1>2. PICK v : Numbers(v, digits) /\ Value(digits) = v[m]
  BY <1>1, ValueOf
<1>3. /\ \A i \in 0 .. m : v[i] \in Nat
      /\ v[0] = 0
      /\ \A i \in 1 .. m : v[i] = 10 * v[i - 1] + digits[i]
  BY <1>1, <1>2 DEF Numbers
<1>4. PICK n \in Nat : n = m + (m - 1) \div 3
  <2>1. m + (m - 1) \div 3 \in Nat
    BY <1>1
  <2>2. QED
    BY <2>1
<1>5. PICK text : text = Grouped(digits, separator, script)
  OBVIOUS
<1>6. text = [p \in 1 .. n |-> IF (n - p) % 4 = 3 THEN separator
                               ELSE 10 * script + digits[m - (n - p) + (n - p) \div 4]]
  BY <1>1, <1>4, <1>5 DEF Grouped
<1>7. ASSUME NEW p \in 1 .. n
      PROVE  LET r == n - p
                 k == m - r + r \div 4
             IN  /\ r % 4 = 3 => p > 1 /\ m - (r + 1) + (r + 1) \div 4 = k
                 /\ r % 4 # 3 => /\ k \in 1 .. m /\ m - (r + 1) + (r + 1) \div 4 = k - 1
                                 /\ p = 1 => k = 1
  <2>1. PICK r \in Int : r = n - p
    OBVIOUS
  <2>2. PlaceIn(m, n, p, r) /\ m \in Int
    BY <1>1, <1>4, <2>1 DEF PlaceIn
  <2>3. /\ r % 4 = 3 => p > 1 /\ m - (r + 1) + (r + 1) \div 4 = m - r + r \div 4
        /\ r % 4 # 3 => /\ 1 <= m - r + r \div 4 /\ m - r + r \div 4 <= m
                        /\ m - (r + 1) + (r + 1) \div 4 = m - r + r \div 4 - 1
                        /\ p = 1 => m - r + r \div 4 = 1
    BY <2>2, PlaceOfDigit
  <2>4. m - r + r \div 4 \in Int
    BY <2>2
  <2>5. QED
    BY <2>1, <2>2, <2>3, <2>4
<1>8. separator \in Character /\ separator \in Dropped
  BY DEF Dropped, Character, Comma, Thousands, ArabicDecimal, Space, Letter
<1>9. ASSUME NEW p \in 1 .. n, (n - p) % 4 # 3
      PROVE  /\ text[p] = 10 * script + digits[m - (n - p) + (n - p) \div 4]
             /\ text[p] \in Character /\ text[p] \notin Dropped /\ IsDigit(text[p])
             /\ text[p] % 10 = digits[m - (n - p) + (n - p) \div 4]
  <2>1. PICK k \in 1 .. m : k = m - (n - p) + (n - p) \div 4
    BY <1>7, <1>9
  <2>2. text[p] = 10 * script + digits[k]
    BY <1>6, <1>9, <2>1
  <2>3. PICK d \in 0 .. 9 : d = digits[k]
    BY <1>1
  <2>4. 10 * script + d \in 0 .. 29 /\ (10 * script + d) % 10 = d
    <3>1. script = 0 \/ script = 1 \/ script = 2
      OBVIOUS
    <3>2. QED
      BY <3>1
  <2>5. \A c \in 0 .. 29 : c \in Character /\ c \notin Dropped /\ IsDigit(c)
    BY DEF Character, Letter, Dropped, Comma, Thousands, ArabicDecimal, Space, IsDigit
  <2>6. QED
    BY <2>1, <2>2, <2>3, <2>4, <2>5
<1>10. ASSUME NEW p \in 1 .. n, (n - p) % 4 = 3
       PROVE  text[p] = separator
  BY <1>6, <1>10
<1>11. text \in Seq(Character) /\ Len(text) = n
  <2>1. \A p \in 1 .. n : text[p] \in Character
    BY <1>8, <1>9, <1>10
  <2>2. text \in [1 .. n -> Character]
    BY <1>6, <2>1
  <2>3. QED
    BY <2>2
<1>12. PICK e : e = [p \in 0 .. n |-> IF p = 0 THEN Start
                        ELSE [at |-> "in", minus |-> FALSE, value |-> v[m - (n - p) + (n - p) \div 4]]]
  OBVIOUS
<1>13. ASSUME NEW p \in 1 .. n PROVE e[p] = Reads[text[p]][e[p - 1]]
  <2>1. PICK r \in Int : r = n - p
    OBVIOUS
  <2>2. PICK k : k = m - r + r \div 4
    OBVIOUS
  <2>3. e[p] = [at |-> "in", minus |-> FALSE, value |-> v[k]]
    BY <1>12, <2>1, <2>2
  <2>4. p # 1 => e[p - 1] = [at |-> "in", minus |-> FALSE, value |-> v[m - (r + 1) + (r + 1) \div 4]]
    <3>1. PICK q : q = p - 1
      OBVIOUS
    <3>2. n - q = r + 1 /\ q \in 0 .. n /\ (p # 1 => q # 0)
      BY <2>1, <3>1
    <3>3. q # 0 => e[q] = [at |-> "in", minus |-> FALSE, value |-> v[m - (n - q) + (n - q) \div 4]]
      BY <1>12, <3>2
    <3>4. QED
      BY <3>1, <3>2, <3>3
  <2>5. p = 1 => e[p - 1] = Start
    BY <1>12
  <2>6. CASE r % 4 = 3
    <3>1. p # 1 /\ m - (r + 1) + (r + 1) \div 4 = k
      BY <1>7, <2>1, <2>2, <2>6
    <3>2. e[p - 1] = e[p]
      BY <2>3, <2>4, <3>1
    <3>3. k \in 0 .. m
      <4>1. r + 1 <= n /\ 0 <= r
        BY <2>1
      <4>2. QED
        BY <1>1, <1>4, <2>1, <2>2, <4>1
    <3>4. v[k] \in Nat /\ text[p] = separator
      BY <1>3, <1>10, <2>1, <2>6, <3>3
    <3>5. PICK x \in Nat : x = v[k]
      BY <3>4
    <3>6. PICK s : s = [at |-> "in", minus |-> FALSE, value |-> x]
      OBVIOUS
    <3>7. Reads[separator][s] = s
      <4>1. PICK c \in Character : c = separator /\ c \in Dropped
        BY <1>8
      <4>2. /\ c \in Dropped => Reads[c][s] = s
            /\ c \notin Dropped /\ IsDigit(c) =>
                   Reads[c][s] = [at |-> "in", minus |-> FALSE, value |-> 10 * x + (c % 10)]
            /\ c = Letter \/ c = Point => Reads[c][s] = [at |-> "after", minus |-> FALSE, value |-> x]
        BY <3>6, InRead
      <4>3. QED
        BY <4>1, <4>2
    <3>8. QED
      BY <2>3, <3>2, <3>4, <3>5, <3>6, <3>7
  <2>7. CASE r % 4 # 3
    <3>1. k \in 1 .. m /\ m - (r + 1) + (r + 1) \div 4 = k - 1 /\ (p = 1 => k = 1)
      BY <1>7, <2>1, <2>2, <2>7
    <3>2. PICK c : c = text[p]
      OBVIOUS
    <3>3. c \in Character /\ c \notin Dropped /\ IsDigit(c) /\ c % 10 = digits[k]
      BY <1>9, <2>1, <2>2, <2>7, <3>2
    <3>4. v[k - 1] \in Nat /\ v[k] = 10 * v[k - 1] + digits[k]
      BY <1>3, <3>1
    <3>5. CASE p = 1
      <4>1. e[p - 1] = [at |-> "before", minus |-> FALSE, value |-> v[k - 1]]
        <5>1. k - 1 = 0
          BY <3>1, <3>5
        <5>2. v[k - 1] = 0
          BY <1>3, <5>1
        <5>3. QED
          BY <2>5, <3>5, <5>2 DEF Start
      <4>2. Reads[c][e[p - 1]] = [at |-> "in", minus |-> FALSE, value |-> 10 * v[k - 1] + (c % 10)]
        <5>1. PICK x \in Nat : x = v[k - 1]
          BY <3>4
        <5>2. PICK s : s = [at |-> "before", minus |-> FALSE, value |-> x]
          OBVIOUS
        <5>3. Reads[c][s] = [at |-> "in", minus |-> FALSE, value |-> 10 * x + (c % 10)]
          BY <3>3, <5>2, OneRead
        <5>4. QED
          BY <4>1, <5>1, <5>2, <5>3
      <4>3. QED
        BY <2>3, <3>2, <3>3, <3>4, <4>2
    <3>6. CASE p # 1
      <4>1. e[p - 1] = [at |-> "in", minus |-> FALSE, value |-> v[k - 1]]
        BY <2>4, <3>1, <3>6
      <4>2. Reads[c][e[p - 1]] = [at |-> "in", minus |-> FALSE, value |-> 10 * v[k - 1] + (c % 10)]
        <5>1. PICK x \in Nat : x = v[k - 1]
          BY <3>4
        <5>2. PICK s : s = [at |-> "in", minus |-> FALSE, value |-> x]
          OBVIOUS
        <5>3. Reads[c][s] = [at |-> "in", minus |-> FALSE, value |-> 10 * x + (c % 10)]
          BY <3>3, <5>2, InRead
        <5>4. QED
          BY <4>1, <5>1, <5>2, <5>3
      <4>3. QED
        BY <2>3, <3>2, <3>3, <3>4, <4>2
    <3>7. QED
      BY <3>5, <3>6
  <2>8. QED
    BY <2>6, <2>7
<1>14. e[0] = Start /\ e[n] = [at |-> "in", minus |-> FALSE, value |-> v[m]]
  <2>1. n # 0 /\ n \in 0 .. n /\ m - (n - n) + (n - n) \div 4 = m
    BY <1>1, <1>4
  <2>2. QED
    BY <1>12, <2>1
<1>15. Along(text, Reads, Start) = e[n]
  <2>1. Len(text) \in Nat /\ \A p \in 1 .. Len(text) : e[p] = Reads[text[p]][e[p - 1]]
    BY <1>11, <1>13
  <2>2. Leads(e, text, Reads, Start)
    BY <1>14, <2>1 DEF Leads
  <2>3. Along(text, Reads, Start) = e[Len(text)]
    BY <2>2, AlongReaches
  <2>4. QED
    BY <1>11, <2>3
<1>16. v[m] \in Nat
  BY <1>1, <1>3
<1>17. QED
  BY <1>2, <1>5, <1>11, <1>14, <1>15, <1>16

\* What is read after a number: no more of it, or one digit more.
LEMMA TailRead ==
  ASSUME NEW tail \in Tails, NEW v \in Nat,
         NEW first, first = [at |-> "in", minus |-> FALSE, value |-> v]
  PROVE  /\ tail \in Seq(Character)
         /\ \E at \in {"in", "after"} :
                Along(tail, Reads, first) =
                    [at |-> at, minus |-> FALSE,
                     value |-> IF IsPlain(tail) \/ tail = <<Point, 4>> THEN v ELSE 10 * v + 4]
<1>1. /\ Letter \in Character /\ Point \in Character /\ Space \in Character
      /\ ArabicDecimal \in Character /\ 4 \in Character
      /\ Space \in Dropped /\ ArabicDecimal \in Dropped /\ 4 \notin Dropped
      /\ IsDigit(4) /\ 4 % 10 = 4
  BY DEF Letter, Point, Space, ArabicDecimal, Character, Dropped, Comma, Thousands, IsDigit
<1>2. PICK last : last = [at |-> "after", minus |-> FALSE, value |-> v]
  OBVIOUS
<1>3. PICK more : more = [at |-> "in", minus |-> FALSE, value |-> 10 * v + 4]
  OBVIOUS
<1>4. /\ Reads[Space][first] = first /\ Reads[ArabicDecimal][first] = first
      /\ Reads[4][first] = more
      /\ Reads[Letter][first] = last /\ Reads[Point][first] = last
  <2>1. ASSUME NEW c \in Character
        PROVE  /\ c \in Dropped => Reads[c][first] = first
               /\ c \notin Dropped /\ IsDigit(c) =>
                      Reads[c][first] = [at |-> "in", minus |-> FALSE, value |-> 10 * v + (c % 10)]
               /\ c = Letter \/ c = Point => Reads[c][first] = last
    BY <1>2, InRead
  <2>2. Reads[4][first] = [at |-> "in", minus |-> FALSE, value |-> 10 * v + (4 % 10)]
    BY <1>1, <2>1
  <2>3. QED
    BY <1>1, <1>3, <2>1, <2>2
<1>5. Reads[4][last] = last
  <2>1. PICK at \in {"before", "in", "after"} : at = "after"
    OBVIOUS
  <2>2. last = [at |-> at, minus |-> FALSE, value |-> v]
    BY <1>2, <2>1
  <2>3. ASSUME NEW c \in Character PROVE Reads[c][last] = last
    BY <2>1, <2>2, OneRead
  <2>4. QED
    BY <1>1, <2>3
<1>6. \A x : Along(<<>>, Reads, x) = x
  <2>1. ASSUME NEW x PROVE Along(<<>>, Reads, x) = x
    <3>1. PICK s : s = <<>> /\ Len(s) = 0
      OBVIOUS
    <3>2. PICK f : Way(f, s, Reads, x)
      BY <3>1, AlongIs
    <3>3. QED
      BY <3>1, <3>2 DEF Way
  <2>2. QED
    BY <2>1
<1>7. \A x, c, d : Along(<<c, d>>, Reads, x) = Reads[d][Reads[c][x]]
  <2>1. ASSUME NEW x, NEW c, NEW d PROVE Along(<<c, d>>, Reads, x) = Reads[d][Reads[c][x]]
    <3>0. Len(<<c, d>>) = 2 /\ <<c, d>>[1] = c /\ <<c, d>>[2] = d
      OBVIOUS
    <3>1. PICK s : s = <<c, d>> /\ Len(s) = 2 /\ s[1] = c /\ s[2] = d
      BY <3>0
    <3>2. PICK f : Way(f, s, Reads, x)
      BY <3>1, AlongIs
    <3>3. f[0] = x /\ f[1] = Reads[s[1]][f[1 - 1]] /\ f[2] = Reads[s[2]][f[2 - 1]]
      BY <3>1, <3>2 DEF Way
    <3>4. Along(s, Reads, x) = f[2]
      BY <3>1, <3>2 DEF Way
    <3>5. QED
      BY <3>1, <3>3, <3>4
  <2>2. QED
    BY <2>1
<1>8. \A x, b, c, d : Along(<<b, c, d>>, Reads, x) = Reads[d][Reads[c][Reads[b][x]]]
  <2>1. ASSUME NEW x, NEW b, NEW c, NEW d
        PROVE  Along(<<b, c, d>>, Reads, x) = Reads[d][Reads[c][Reads[b][x]]]
    <3>0. Len(<<b, c, d>>) = 3 /\ <<b, c, d>>[1] = b /\ <<b, c, d>>[2] = c /\ <<b, c, d>>[3] = d
      OBVIOUS
    <3>1. PICK s : s = <<b, c, d>> /\ Len(s) = 3 /\ s[1] = b /\ s[2] = c /\ s[3] = d
      BY <3>0
    <3>2. PICK f : Way(f, s, Reads, x)
      BY <3>1, AlongIs
    <3>3. /\ f[0] = x /\ f[1] = Reads[s[1]][f[1 - 1]] /\ f[2] = Reads[s[2]][f[2 - 1]]
          /\ f[3] = Reads[s[3]][f[3 - 1]]
      BY <3>1, <3>2 DEF Way
    <3>4. Along(s, Reads, x) = f[3]
      BY <3>1, <3>2 DEF Way
    <3>5. QED
      BY <3>1, <3>3, <3>4
  <2>2. QED
    BY <2>1
<1>9. tail \in Seq(Character)
  <2>1. <<>> \in Seq(Character)
    OBVIOUS
  <2>2. \A c, d \in Character : <<c, d>> \in Seq(Character)
    OBVIOUS
  <2>3. \A b, c, d \in Character : <<b, c, d>> \in Seq(Character)
    OBVIOUS
  <2>4. /\ <<Space, Letter>> \in Seq(Character) /\ <<Point, 4>> \in Seq(Character)
        /\ <<ArabicDecimal, 4>> \in Seq(Character) /\ <<Space, 4>> \in Seq(Character)
    BY <1>1, <2>2
  <2>5. <<Space, Letter, 4>> \in Seq(Character)
    BY <1>1, <2>3
  <2>6. QED
    BY <2>1, <2>4, <2>5 DEF Tails
<1>10. Point # Space /\ Point # ArabicDecimal /\ Letter # 4
  BY DEF Point, Space, ArabicDecimal, Letter
<1>11. \/ IsPlain(tail) /\ Along(tail, Reads, first) \in {first, last}
       \/ tail = <<Point, 4>> /\ Along(tail, Reads, first) = last
       \/ ~IsPlain(tail) /\ tail # <<Point, 4>> /\ Along(tail, Reads, first) = more
  <2>1. CASE tail = <<>>
    BY <1>6, <2>1 DEF IsPlain
  <2>2. CASE tail = <<Space, Letter>>
    BY <1>4, <1>7, <2>2 DEF IsPlain
  <2>3. CASE tail = <<Point, 4>>
    BY <1>4, <1>5, <1>7, <2>3
  <2>4. CASE tail = <<ArabicDecimal, 4>>
    <3>1. Along(tail, Reads, first) = more
      BY <1>4, <1>7, <2>4
    <3>2. Len(tail) = 2 /\ tail[1] = ArabicDecimal /\ tail[2] = 4
      BY <2>4
    <3>3. ~IsPlain(tail) /\ tail # <<Point, 4>>
      BY <1>10, <3>2 DEF IsPlain
    <3>4. QED
      BY <3>1, <3>3
  <2>5. CASE tail = <<Space, Letter, 4>>
    BY <1>4, <1>5, <1>8, <2>5 DEF IsPlain
  <2>6. CASE tail = <<Space, 4>>
    <3>1. Along(tail, Reads, first) = more
      BY <1>4, <1>7, <2>6
    <3>2. Len(tail) = 2 /\ tail[1] = Space /\ tail[2] = 4
      BY <2>6
    <3>3. ~IsPlain(tail) /\ tail # <<Point, 4>>
      BY <1>10, <3>2 DEF IsPlain
    <3>4. QED
      BY <3>1, <3>3
  <2>7. QED
    BY <2>1, <2>2, <2>3, <2>4, <2>5, <2>6 DEF Tails
<1>12. QED
  BY <1>2, <1>3, <1>9, <1>11

\* A price, as clean_number reads it out of a text.
LEMMA NumberRead ==
  ASSUME NEW digits \in Seq(0 .. 9), digits # <<>>, NEW separator \in Dropped, NEW script \in 0 .. 2,
         NEW tail \in Tails
  PROVE  CleanNumber(<<Letter>> \o Grouped(digits, separator, script) \o tail) =
             [ok |-> TRUE,
              value |-> IF IsPlain(tail) \/ tail = <<Point, 4>> THEN Value(digits) ELSE 10 * Value(digits) + 4]
<1>1. PICK text : text = Grouped(digits, separator, script)
  OBVIOUS
<1>2. PICK v : v = Value(digits)
  OBVIOUS
<1>3. /\ text \in Seq(Character) /\ v \in Nat
      /\ Along(text, Reads, Start) = [at |-> "in", minus |-> FALSE, value |-> v]
  BY <1>1, <1>2, GroupRead
<1>4. tail \in Seq(Character)
  <2>1. PICK first : first = [at |-> "in", minus |-> FALSE, value |-> v]
    OBVIOUS
  <2>2. QED
    BY <1>3, <2>1, TailRead
<1>5. <<Letter>> \in Seq(Character) /\ Along(<<Letter>>, Reads, Start) = Start
  <2>1. Letter \in Character
    BY DEF Letter, Character
  <2>2. Len(<<Letter>>) = 1 /\ <<Letter>>[1] = Letter /\ Len(<<Letter>>) \in Nat
    OBVIOUS
  <2>3. PICK f : Way(f, <<Letter>>, Reads, Start)
    BY <2>2, AlongIs
  <2>4. f[0] = Start /\ f[1] = Reads[<<Letter>>[1]][f[1 - 1]] /\ Along(<<Letter>>, Reads, Start) = f[1]
    BY <2>2, <2>3 DEF Way
  <2>5. Reads[Letter][Start] = Start
    <3>1. PICK at \in {"before", "in", "after"} : at = "before"
      OBVIOUS
    <3>2. PICK w \in Nat : w = 0
      OBVIOUS
    <3>3. PICK s : s = [at |-> at, minus |-> FALSE, value |-> w]
      OBVIOUS
    <3>4. PICK c \in Character : c = Letter
      BY <2>1
    <3>5. Reads[c][s] = [at |-> IF at = "before" THEN "before" ELSE "after", minus |-> FALSE, value |-> w]
      <4>1. /\ c \in Dropped \/ at = "after" => Reads[c][s] = s
            /\ c \notin Dropped /\ at # "after" /\ IsDigit(c) =>
                   Reads[c][s] = [at |-> "in", minus |-> FALSE, value |-> 10 * w + (c % 10)]
            /\ c = Letter \/ c = Point =>
                   Reads[c][s] = [at |-> IF at = "before" THEN "before" ELSE "after",
                                  minus |-> FALSE, value |-> w]
        BY <3>3, OneRead
      <4>2. QED
        BY <3>4, <4>1
    <3>6. s = Start
      BY <3>1, <3>2, <3>3 DEF Start
    <3>7. QED
      BY <3>1, <3>2, <3>4, <3>5, <3>6 DEF Start
  <2>6. QED
    BY <2>1, <2>2, <2>4, <2>5
<1>6. Along(<<Letter>> \o text, Reads, Start) = [at |-> "in", minus |-> FALSE, value |-> v]
  <2>1. Along(<<Letter>> \o text, Reads, Start) = Along(text, Reads, Along(<<Letter>>, Reads, Start))
    <3>1. PICK one : one = <<Letter>>
      OBVIOUS
    <3>2. one \in Seq(Character)
      BY <1>5, <3>1
    <3>3. Along(one \o text, Reads, Start) = Along(text, Reads, Along(one, Reads, Start))
      BY <1>3, <3>2, AlongBoth
    <3>4. QED
      BY <3>1, <3>3
  <2>2. QED
    BY <1>3, <1>5, <2>1
<1>7. PICK whole : whole = <<Letter>> \o text
  OBVIOUS
<1>8. whole \in Seq(Character)
  BY <1>3, <1>5, <1>7
<1>9. Along(whole \o tail, Reads, Start) = Along(tail, Reads, Along(whole, Reads, Start))
  BY <1>4, <1>8, AlongBoth
<1>10. PICK at \in {"in", "after"} :
         Along(whole \o tail, Reads, Start) =
             [at |-> at, minus |-> FALSE,
              value |-> IF IsPlain(tail) \/ tail = <<Point, 4>> THEN v ELSE 10 * v + 4]
  <2>1. PICK first : first = Along(whole, Reads, Start)
    OBVIOUS
  <2>2. first = [at |-> "in", minus |-> FALSE, value |-> v]
    BY <1>6, <1>7, <2>1
  <2>3. QED
    <3>1. \E at \in {"in", "after"} :
             Along(tail, Reads, first) =
                 [at |-> at, minus |-> FALSE,
                  value |-> IF IsPlain(tail) \/ tail = <<Point, 4>> THEN v ELSE 10 * v + 4]
      BY <1>3, <2>2, TailRead
    <3>2. QED
      BY <1>9, <2>1, <3>1
<1>11. CleanNumber(whole \o tail) =
         [ok |-> TRUE, value |-> IF IsPlain(tail) \/ tail = <<Point, 4>> THEN v ELSE 10 * v + 4]
  <2>1. PICK value : value = IF IsPlain(tail) \/ tail = <<Point, 4>> THEN v ELSE 10 * v + 4
    OBVIOUS
  <2>2. Along(whole \o tail, Reads, Start) = [at |-> at, minus |-> FALSE, value |-> value]
    BY <1>10, <2>1
  <2>3. at # "before"
    BY <1>10
  <2>4. CleanNumber(whole \o tail) = [ok |-> TRUE, value |-> value]
    <3>1. PICK end : end = Along(whole \o tail, Reads, Start)
      OBVIOUS
    <3>2. end.at # "before" /\ end.minus = FALSE /\ end.value = value
      BY <2>2, <2>3, <3>1
    <3>3. CleanNumber(whole \o tail) =
            [ok |-> end.at # "before", value |-> IF end.minus THEN -end.value ELSE end.value]
      BY <3>1 DEF CleanNumber
    <3>4. QED
      BY <3>2, <3>3
  <2>5. QED
    BY <2>1, <2>4
<1>12. QED
  BY <1>1, <1>2, <1>7, <1>11

\* normalize takes a tenth of rials, and a fraction of one toman goes.
LEMMA TomanOfRials ==
  ASSUME NEW v \in Nat
  PROVE  /\ InToman(10 * v, "rial") = v /\ InToman(10 * v, "toman") = 10 * v
         /\ InToman(v, "toman") = v
         /\ InToman(10 * (10 * v) + 4, "rial") = 10 * v
         /\ InToman(10 * v + 4, "toman") = 10 * v + 4
<1>1. (10 * v) \div 10 = v /\ (10 * v) % 10 = 0
  OBVIOUS
<1>2. (10 * (10 * v) + 4) \div 10 = 10 * v /\ (10 * (10 * v) + 4) % 10 = 4
  OBVIOUS
<1>3. "toman" # "rial"
  OBVIOUS
<1>4. InToman(10 * v, "rial") = v
  BY <1>1 DEF InToman
<1>5. InToman(10 * (10 * v) + 4, "rial") = 10 * v
  BY <1>2 DEF InToman
<1>6. \A x : InToman(x, "toman") = x
  BY <1>3 DEF InToman
<1>7. QED
  BY <1>4, <1>5, <1>6

\* What extract_source stores is the price that was shown.
LEMMA ObservedIsRead ==
  ASSUME Observe
  PROVE  (observed.price.ok => PriceIsRead)'
<1>1. PICK digits \in Price, unit \in {"toman", "rial"},
           separator \in {Comma, Thousands, ArabicDecimal, Space},
           script \in 0 .. 2, tail \in Tails, missed \in 0 .. 1, found \in BOOLEAN :
        LET text == <<Letter>> \o Grouped(IF unit = "rial" THEN InRials(digits) ELSE digits, separator, script) \o tail
            texts == [i \in 1 .. missed |-> NoText] \o (IF found THEN <<text>> ELSE <<>>)
        IN  /\ observed' = [shown |-> Value(digits), tail |-> tail, price |-> ExtractSource(texts, unit)]
            /\ UNCHANGED <<utc, begun>>
  BY Zenon DEF Observe
<1>2. digits \in Seq(0 .. 9) /\ digits # <<>> /\ separator \in Dropped
  BY ReadingAssumption DEF Dropped
<1>3. PICK d : d = IF unit = "rial" THEN InRials(digits) ELSE digits
  OBVIOUS
<1>4. PICK v : v = Value(digits)
  OBVIOUS
<1>5. /\ d \in Seq(0 .. 9) /\ d # <<>> /\ v \in Nat
      /\ Value(d) = IF unit = "rial" THEN 10 * v ELSE v
  BY <1>2, <1>3, <1>4, TenTimes
<1>6. PICK text : text = <<Letter>> \o Grouped(d, separator, script) \o tail
  OBVIOUS
<1>7. CleanNumber(text) =
        [ok |-> TRUE,
         value |-> IF IsPlain(tail) \/ tail = <<Point, 4>> THEN Value(d) ELSE 10 * Value(d) + 4]
  BY <1>2, <1>5, <1>6, NumberRead
<1>8. PICK texts : texts = [i \in 1 .. missed |-> NoText] \o (IF found THEN <<text>> ELSE <<>>)
  OBVIOUS
<1>9. observed' = [shown |-> v, tail |-> tail, price |-> ExtractSource(texts, unit)]
  BY <1>1, <1>3, <1>4, <1>6, <1>8
<1>10. /\ Len(text) # 0 /\ text # NoText
  <2>1. PICK g : g = Grouped(d, separator, script)
    OBVIOUS
  <2>2. g \in Seq(Character)
    BY <1>2, <1>5, <2>1, GroupRead
  <2>3. tail \in Seq(Character)
    <3>1. PICK first : first = [at |-> "in", minus |-> FALSE, value |-> v]
      OBVIOUS
    <3>2. QED
      BY <1>5, <3>1, TailRead
  <2>4. <<Letter>> \in Seq(Character) /\ Len(<<Letter>>) = 1
    BY DEF Letter, Character
  <2>5. Len(text) = 1 + Len(g) + Len(tail) /\ Len(g) \in Nat /\ Len(tail) \in Nat
    BY <1>6, <2>1, <2>2, <2>3, <2>4
  <2>6. Len(NoText) = 0
    BY DEF NoText
  <2>7. QED
    BY <2>5, <2>6
<1>11. \/ ExtractSource(texts, unit) = NoPrice
       \/ ExtractSource(texts, unit) = [ok |-> TRUE, value |-> InToman(CleanNumber(text).value, unit)]
  <2>1. ASSUME NEW i \in DOMAIN texts, texts[i] # NoText PROVE texts[i] = text
    <3>1. missed = 0 \/ missed = 1
      OBVIOUS
    <3>2. CASE missed = 0
      BY <1>8, <2>1, <3>2
    <3>3. CASE missed = 1
      BY <1>8, <2>1, <3>3
    <3>4. QED
      BY <3>1, <3>2, <3>3
  <2>2. PICK hits : hits = {i \in DOMAIN texts : texts[i] # NoText}
    OBVIOUS
  <2>3. CASE hits = {}
    BY <2>2, <2>3 DEF ExtractSource
  <2>4. CASE hits # {}
    <3>1. Min(hits) \in hits
      <4>1. hits \subseteq Nat
        <5>1. DOMAIN texts \subseteq Nat
          <6>1. missed = 0 \/ missed = 1
            OBVIOUS
          <6>2. texts \in Seq({NoText, text})
            BY <1>8, <6>1
          <6>3. QED
            BY <6>2
        <5>2. QED
          BY <2>2, <5>1
      <4>2. PICK i \in hits : \A j \in hits : i <= j
        BY <2>4, <4>1, LeastOfNumbers
      <4>3. QED
        BY <4>2 DEF Min
    <3>2. texts[Min(hits)] = text
      BY <2>1, <2>2, <3>1
    <3>3. CleanNumber(text).ok = TRUE
      BY <1>7
    <3>4. QED
      BY <2>2, <2>4, <3>2, <3>3 DEF ExtractSource
  <2>5. QED
    BY <2>3, <2>4
<1>12. CASE ExtractSource(texts, unit) = NoPrice
  BY <1>9, <1>12 DEF NoPrice
<1>13. CASE ExtractSource(texts, unit) = [ok |-> TRUE, value |-> InToman(CleanNumber(text).value, unit)]
  <2>1. observed'.shown = v /\ observed'.tail = tail
        /\ observed'.price.value = InToman(CleanNumber(text).value, unit)
    BY <1>9, <1>13
  <2>2. CASE IsPlain(tail) \/ tail = <<Point, 4>>
    <3>1. observed'.price.value = InToman(Value(d), unit)
      BY <1>7, <2>1, <2>2
    <3>2. InToman(Value(d), unit) = v
      BY <1>5, TomanOfRials
    <3>3. QED
      BY <2>1, <2>2, <3>1, <3>2 DEF PriceIsRead
  <2>3. CASE ~(IsPlain(tail) \/ tail = <<Point, 4>>)
    <3>1. observed'.price.value = InToman(10 * Value(d) + 4, unit)
      BY <1>7, <2>1, <2>3
    <3>2. InToman(10 * Value(d) + 4, unit) \in 10 * v .. 10 * v + 4
      <4>1. CASE unit = "rial"
        <5>1. InToman(10 * (10 * v) + 4, "rial") = 10 * v
          BY <1>5, TomanOfRials
        <5>2. QED
          BY <1>5, <4>1, <5>1
      <4>2. CASE unit # "rial"
        <5>1. InToman(10 * v + 4, "toman") = 10 * v + 4
          BY <1>5, TomanOfRials
        <5>2. QED
          BY <1>5, <4>2, <5>1
      <4>3. QED
        BY <4>1, <4>2
    <3>3. QED
      BY <2>1, <2>3, <3>1, <3>2 DEF PriceIsRead
  <2>4. QED
    BY <2>2, <2>3
<1>14. QED
  BY <1>11, <1>12, <1>13

\* What is stored of a source is the price that it showed, however it was written,
\* for prices of any length, in toman or in rials; and the date it showed it on.
THEOREM ReadingSafety == ReadingSpec => ReadingIsTrue
<1>1. ReadingInit => (observed.price.ok => PriceIsRead)
  BY DEF ReadingInit, Nothing, NoPrice
<1>2. (observed.price.ok => PriceIsRead) /\ [ReadingNext]_readingVars => (observed.price.ok => PriceIsRead)'
  <2>1. ASSUME Observe PROVE (observed.price.ok => PriceIsRead)'
    BY <2>1, ObservedIsRead
  <2>2. ASSUME HalfHour PROVE (observed.price.ok => PriceIsRead)'
    BY <2>2 DEF HalfHour, Nothing, NoPrice
  <2>3. ASSUME observed.price.ok => PriceIsRead, UNCHANGED readingVars
        PROVE  (observed.price.ok => PriceIsRead)'
    BY <2>3 DEF readingVars, PriceIsRead
  <2>4. QED
    BY <2>1, <2>2, <2>3 DEF ReadingNext
<1>3. QED
  BY <1>1, <1>2, CalendarIsFollowed, PTL DEF ReadingSpec, ReadingIsTrue
=============================================================================
