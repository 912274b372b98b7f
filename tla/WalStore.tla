------------------------------ MODULE WalStore ------------------------------
(***************************************************************************)
(* The write-ahead log of one runtime instance                             *)
(* (divar_bot/infra/wal_recovery.py): append, replay, recover_state and    *)
(* compact over a JSONL file and a snapshot file that outlive the process. *)
(*                                                                         *)
(* A line of the file is what its text parses to, a record or Corrupt, and *)
(* whether its newline was written.  A write that a crash cuts short may   *)
(* leave a prefix of the record, or the whole of it without its newline;   *)
(* records hold Persian text, written with ensure_ascii=False, so that the *)
(* prefix may end inside a character, and reading the file raises then.    *)
(* No code of the repository calls compact: its caller here passes what    *)
(* recover_state returned, and appends nothing in between.                 *)
(***************************************************************************)
EXTENDS Naturals, Sequences, FiniteSets

CONSTANTS
    Id,             \* event ids of records
    Payload,        \* payloads of records
    Corrupt,        \* a line that does not parse or fails its checksum
    Undecodable,    \* a line cut inside a multi-byte character
    NoState,        \* the compacting caller holds no state
    MaxLines,       \* bound: lines of the WAL file
    MaxCrashes      \* bound: crashes

Record == [id : Id, payload : Payload]

ASSUME WalAssumption ==
    /\ {Corrupt, Undecodable} \cap Record = {}
    /\ Corrupt # Undecodable
    /\ NoState \notin UNION {[D -> Payload] : D \in SUBSET Id}
    /\ MaxLines \in Nat
    /\ MaxCrashes \in Nat

VARIABLES
    wal,        \* the lines of the WAL file
    snapshot,   \* the payloads in the snapshot file, by event id
    view,       \* what the compacting caller read, or NoState
    pc,         \* "open", or "rotate" between the halves of compact
    acked,      \* ids of records whose append returned (history)
    crashes     \* crashes so far

walVars == <<wal, snapshot, view, pc, acked, crashes>>

States == UNION {[D -> Payload] : D \in SUBSET Id}
Damage == {Corrupt, Undecodable}
Line == [record : Record \cup Damage, ended : BOOLEAN]

WalTypeOK ==
    /\ wal \in Seq(Line)
    /\ \A n \in 1 .. Len(wal) - 1 : wal[n].ended
    /\ snapshot \in States
    /\ view \in States \cup {NoState}
    /\ pc \in {"open", "rotate"}
    /\ acked \subseteq Id
    /\ crashes \in 0 .. MaxCrashes

WalInit ==
    /\ wal = <<>>
    /\ snapshot = [i \in {} |-> 0]
    /\ view = NoState
    /\ pc = "open"
    /\ acked = {}
    /\ crashes = 0

-----------------------------------------------------------------------------
(* replay() and recover_state().                                           *)

\* The lines replay yields that carry event id i.
LinesOf(i) ==
    {n \in 1 .. Len(wal) : wal[n].record \in Record /\ wal[n].record.id = i}

FirstLine(i) == CHOOSE n \in LinesOf(i) : \A m \in LinesOf(i) : n <= m

\* The iteration over the file is outside replay's try block.
ReplayRaises == \E n \in 1 .. Len(wal) : wal[n].record = Undecodable

\* The snapshot, and for every other event the first record of it: a record
\* whose id is in applied_events is skipped.
Found ==
    [i \in DOMAIN snapshot \cup {j \in Id : LinesOf(j) # {}} |->
        IF i \in DOMAIN snapshot THEN snapshot[i]
        ELSE wal[FirstLine(i)].record.payload]

\* What recover_state returns: nothing, if it raises.
Recovered == IF ReplayRaises THEN NoState ELSE Found

-----------------------------------------------------------------------------

\* The file after text was written at its end: the text starts a line only
\* if the newline of the last one is there, and is glued to it otherwise.
FileAfter(record, ended) ==
    LET n == Len(wal) IN
    IF n = 0 \/ wal[n].ended
    THEN Append(wal, [record |-> record, ended |-> ended])
    ELSE [wal EXCEPT ![n] =
            [record |-> IF Undecodable \in {wal[n].record, record}
                        THEN Undecodable
                        ELSE Corrupt,
             ended |-> ended]]

MayAppend == Len(wal) < MaxLines /\ view = NoState

-----------------------------------------------------------------------------
(* Mutants: what a plausible slip in the code would make of an action.      *)

\* compact that rotates the WAL before it writes the snapshot.
RotateFirst ==
    /\ view # NoState
    /\ pc = "open"
    /\ wal' = <<>>
    /\ pc' = "rotate"
    /\ UNCHANGED <<snapshot, view, acked, crashes>>

\* An append that acknowledges a record it only buffered.
AppendBuffered(r) ==
    /\ MayAppend
    /\ acked' = acked \cup {r.id}
    /\ UNCHANGED <<wal, snapshot, view, pc, crashes>>

-----------------------------------------------------------------------------
(* append() and compact().                                                 *)

AppendRecord(r) ==
    /\ MayAppend
    /\ wal' = FileAfter(r, TRUE)
    /\ acked' = acked \cup {r.id}
    /\ UNCHANGED <<snapshot, view, pc, crashes>>

\* The process dies in append; the file keeps what was written.
CrashInAppend(r) ==
    /\ MayAppend
    /\ crashes < MaxCrashes
    /\ crashes' = crashes + 1
    /\ \/ \E d \in Damage : wal' = FileAfter(d, FALSE)
       \/ \E newline \in BOOLEAN : wal' = FileAfter(r, newline)
    /\ view' = NoState
    /\ pc' = "open"
    /\ UNCHANGED <<snapshot, acked>>

RecoverState ==
    /\ view = NoState
    /\ ~ReplayRaises
    /\ view' = Recovered
    /\ UNCHANGED <<wal, snapshot, pc, acked, crashes>>

\* compact: the snapshot replaces the old one in one rename ...
CreateSnapshot ==
    /\ view # NoState
    /\ pc = "open"
    /\ snapshot' = view
    /\ pc' = "rotate"
    /\ UNCHANGED <<wal, view, acked, crashes>>

\* ... and then the WAL is renamed away.
RotateWal ==
    /\ pc = "rotate"
    /\ wal' = <<>>
    /\ view' = NoState
    /\ pc' = "open"
    /\ UNCHANGED <<snapshot, acked, crashes>>

CrashInCompact ==
    /\ pc = "rotate"
    /\ crashes < MaxCrashes
    /\ crashes' = crashes + 1
    /\ view' = NoState
    /\ pc' = "open"
    /\ UNCHANGED <<wal, snapshot, acked>>

WalNext ==
    \/ \E r \in Record : AppendRecord(r) \/ CrashInAppend(r)
    \/ RecoverState \/ CreateSnapshot \/ RotateWal \/ CrashInCompact

WalSpec == WalInit /\ [][WalNext]_walVars

-----------------------------------------------------------------------------
(* Properties.                                                             *)

\* What append acknowledged, the next recover_state finds, but for one event
\* per crash: the one whose record was glued to the line the crash had cut
\* short.  It finds nothing at all, and raises, once a crash has cut a line
\* inside a character.  (DEPLOYMENT.md line 82 says of such a file too that "the
\* runtime can replay valid WAL records and ignore corrupted lines".)
LossCostsCrash ==
    /\ WalTypeOK
    /\ IF ReplayRaises THEN crashes > 0
       ELSE Cardinality(acked \ DOMAIN Recovered) <= crashes

\* An event whose complete line recover_state has seen.
Settled(i) ==
    \/ i \in DOMAIN snapshot
    \/ LinesOf(i) # {} /\ wal[FirstLine(i)].ended

\* A restart sees what the last one saw.  Neither half of compact, nor a crash
\* between them, changes what recover_state returns, and what it returned for
\* an event whose complete line it has seen, it returns ever after -- as long
\* as it returns.  Only a crash makes it raise, and then nothing the runtime
\* does makes the file readable again.
RecoveryIsFaithful ==
    [][/\ snapshot' # snapshot \/ wal' = <<>> => Recovered' = Recovered
       /\ ReplayRaises => ReplayRaises'
       /\ ReplayRaises' => ReplayRaises \/ crashes' > crashes
       /\ ~ReplayRaises' => \A i \in Id : Settled(i) =>
              i \in DOMAIN Recovered' /\ Recovered'[i] = Recovered[i]]_walVars
=============================================================================
