--------------------------- MODULE MarketHistory ---------------------------
(***************************************************************************)
(* What the dashboard and the API read back from the market database       *)
(* (afra_market_data/core.py): live_payload, which reads the snapshots and *)
(* then, over another connection, the observations, and changed_sources,   *)
(* which compares each source's newest observation with an older one.      *)
(* Collections run beside them, several at once if an operator starts      *)
(* them: each reads its sources in a pool of threads, every reading with a *)
(* stamp of its own, and saves readings and snapshots in one transaction.  *)
(***************************************************************************)
EXTENDS Integers, Sequences, FiniteSets

CONSTANTS
    Feed,           \* sources of the indicator
    Collection,     \* processes that collect
    Window,         \* updated_within_minutes
    Compare,        \* compare_minutes
    MaxMinutes,     \* bound: the time
    MaxSaves        \* bound: collections saved

ASSUME HistoryAssumption == {Window, Compare, MaxMinutes, MaxSaves} \subseteq Nat

VARIABLES
    minute,         \* now_utc()
    quote,          \* what every source shows now
    gathered,       \* Collection -> the readings it has made, in order
    table,          \* the good observations, in the order of their ids
    saves,          \* snapshots saved; each stands for those of one run
    shown,          \* the reader: snapshots and observations it has read
    crossing        \* two collections read at once (history)

historyVars == <<minute, quote, gathered, table, saves, shown, crossing>>

HistoryTypeOK ==
    /\ minute \in 0 .. MaxMinutes /\ quote \in {0, 1} /\ saves \in 0 .. MaxSaves
    /\ \A i \in 1 .. Len(table) :
           table[i].feed \in Feed /\ table[i].value \in {0, 1} /\ table[i].run \in 1 .. saves

NothingShown == [part |-> "none", snapshot |-> 0, rows |-> 0]

HistoryInit ==
    /\ minute = 0 /\ quote = 0 /\ saves = 0 /\ crossing = FALSE
    /\ gathered = [c \in Collection |-> <<>>]
    /\ table = <<>>
    /\ shown = NothingShown

-----------------------------------------------------------------------------
(* Collections.                                                            *)

FeedsRead(c) == {gathered[c][i].feed : i \in 1 .. Len(gathered[c])}

ReadFeed(c, f) ==
    /\ f \notin FeedsRead(c) /\ saves < MaxSaves
    /\ gathered' = [gathered EXCEPT ![c] =
           Append(@, [feed |-> f, at |-> minute, value |-> quote])]
    /\ crossing' = (crossing \/ \E d \in Collection \ {c} : gathered[d] # <<>>)
    /\ UNCHANGED <<minute, quote, table, saves, shown>>

Row(reading, run) ==
    [feed |-> reading.feed, at |-> reading.at, value |-> reading.value, run |-> run]

\* save_results: every observation, then the snapshots, then the commit.
SaveRun(c) ==
    /\ gathered[c] # <<>> /\ saves < MaxSaves
    /\ saves' = saves + 1
    /\ table' = table \o [i \in 1 .. Len(gathered[c]) |-> Row(gathered[c][i], saves + 1)]
    /\ gathered' = [gathered EXCEPT ![c] = <<>>]
    /\ UNCHANGED <<minute, quote, shown, crossing>>

CollectionDies(c) ==
    /\ gathered[c] # <<>>
    /\ gathered' = [gathered EXCEPT ![c] = <<>>]
    /\ UNCHANGED <<minute, quote, table, saves, shown, crossing>>

QuoteMoves == quote' = 1 - quote /\ UNCHANGED <<minute, gathered, table, saves, shown, crossing>>

MinutePasses ==
    /\ minute < MaxMinutes /\ minute' = minute + 1
    /\ UNCHANGED <<quote, gathered, table, saves, shown, crossing>>

-----------------------------------------------------------------------------
(* Reading back.                                                           *)

\* live_payload: latest_snapshots.
ShowSnapshots ==
    /\ shown.part = "none"
    /\ shown' = [part |-> "snapshots", snapshot |-> saves, rows |-> 0]
    /\ UNCHANGED <<minute, quote, gathered, table, saves, crossing>>

\* live_payload: latest_rows.  (Bound: the table is below the limit of fifty.)
ShowRows ==
    /\ shown.part = "snapshots"
    /\ shown' = [shown EXCEPT !.part = "both", !.rows = Len(table)]
    /\ UNCHANGED <<minute, quote, gathered, table, saves, crossing>>

PayloadSent ==
    /\ shown.part = "both" /\ shown' = NothingShown
    /\ UNCHANGED <<minute, quote, gathered, table, saves, crossing>>

Recent(f) == {i \in 1 .. Len(table) : table[i].feed = f /\ table[i].at >= minute - Window}

\* Mutant: min(id) for max(id).
Smallest(S) == CHOOSE i \in S : \A j \in S : i <= j

Largest(S) == CHOOSE i \in S : \A j \in S : j <= i

\* order by observed_at_utc desc limit 1, of those before the cutoff.
Earlier(f) ==
    LET old == {i \in 1 .. Len(table) : table[i].feed = f /\ table[i].at <= minute - Compare}
    IN  {i \in old : \A j \in old : table[j].at <= table[i].at}

\* changed_sources: the pairs <<newest, earlier>> of rows it may report for f.
Changes(f) ==
    IF Recent(f) = {} THEN {}
    ELSE {p \in {Largest(Recent(f))} \X Earlier(f) : table[p[1]].value # table[p[2]].value}

HistoryNext ==
    \/ QuoteMoves \/ MinutePasses \/ ShowSnapshots \/ ShowRows \/ PayloadSent
    \/ \E c \in Collection : SaveRun(c) \/ CollectionDies(c) \/ \E f \in Feed : ReadFeed(c, f)

HistorySpec == HistoryInit /\ [][HistoryNext]_historyVars

-----------------------------------------------------------------------------
(* Properties.                                                             *)

\* A payload never shows a snapshot without the observations it was built
\* from.  A change that is reported was seen in that order, and nothing newer is
\* known of the source, as long as no two collections overlapped: the newest
\* row is the one saved last, and a slow collection saves old readings last.
HistoryIsTold ==
    /\ HistoryTypeOK
    /\ shown.part = "both" =>
           \A i \in 1 .. Len(table) : table[i].run <= shown.snapshot => i <= shown.rows
    /\ \A f \in Feed : \A p \in Changes(f) :
           ~crossing =>
               /\ table[p[2]].at <= table[p[1]].at
               /\ \A i \in 1 .. Len(table) : table[i].feed = f => table[i].at <= table[p[1]].at

=============================================================================
