--------------------------- MODULE MarketSnapshot ---------------------------
(***************************************************************************)
(* The market data collector (afra_market_data/core.py, source_check.py,   *)
(* cli.py): a run reads every enabled source in a pool of threads, saves   *)
(* the observations and the median of them in one transaction, and then    *)
(* writes latest_payload.json.  Runs of one indicator come from the loop   *)
(* of cli.py, from the dashboard's collector thread and from its           *)
(* /api/run-once.  enable-pending checks the disabled sources and enables  *)
(* those that answer; tools/disable_current_error_sources.py turns sources *)
(* off.  Both rewrite the configuration in place.                          *)
(*                                                                         *)
(* Each source shows a price of its own, a number that only grows, so that *)
(* an older one shows; the aggregation_method is the median.               *)
(***************************************************************************)
EXTENDS Integers, FiniteSets

CONSTANTS
    Source,         \* sources of the indicator
    Collector,      \* threads and processes that run run_once
    Checker,        \* runs of enable-pending
    Disabler,       \* runs of the tool that disables sources
    Unstable,       \* the sources it disables
    MaxPrice        \* bound: how far the prices move

Editor == Checker \cup Disabler

ASSUME MarketAssumption ==
    /\ Checker \cap Disabler = {}
    /\ IsFiniteSet(Source) /\ Unstable \subseteq Source
    /\ MaxPrice \in Nat

VARIABLES
    price,          \* Source -> what it shows
    enabled,        \* indicators.json: the enabled sources, or Torn
    phase,          \* Collector -> where its run is
    unread,         \* Collector -> sources it has not read yet
    readings,       \* Collector -> Source -> what its run read there
    stored,         \* Source -> the observation saved with the last snapshot
    latest,         \* the snapshot with the greatest id
    payload,        \* latest_payload.json: a snapshot, or what is no JSON
    edit,           \* Editor -> where it is
    passed,         \* Checker -> disabled sources that answered
    draft,          \* Editor -> the configuration it is writing
    proven,         \* sources that answered since they were disabled (history)
    outrun,         \* runs during which another saved, those that have saved
                    \* counted from there on (history)
    astray,         \* the payload was last written by a run that was outrun,
                    \* or over one that another wrote meanwhile (history)
    cut,            \* a run died before its payload was written (history)
    clashed         \* two editors were at work at the same time (history)

database == <<stored, latest>>
collectVars == <<phase, unread, readings, database, payload, outrun, astray, cut>>
editVars == <<edit, passed, draft, proven, clashed>>
marketVars == <<price, enabled, collectVars, editVars>>

Torn == {"torn"}
NoValue == -1
Amount == NoValue .. MaxPrice
NothingRead == [s \in Source |-> NoValue]
NoSnapshot == [value |-> NoValue, okCount |-> 0]
EmptyPayload == [value |-> NoValue, okCount |-> -1]
MixedPayload == [value |-> NoValue, okCount |-> -2]
Snapshot == [value : Amount, okCount : -2 .. Cardinality(Source)]

MarketTypeOK ==
    /\ price \in [Source -> 0 .. MaxPrice]
    /\ enabled \subseteq Source \/ enabled = Torn
    /\ phase \in [Collector -> {"idle", "read", "saved", "payload"}]
    /\ unread \in [Collector -> SUBSET Source]
    /\ readings \in [Collector -> [Source -> Amount]]
    /\ stored \in [Source -> Amount]
    /\ {latest, payload} \subseteq Snapshot
    /\ edit \in [Editor -> {"idle", "checked", "write"}]
    /\ passed \in [Checker -> SUBSET Source]
    /\ draft \in [Editor -> SUBSET Source]
    /\ outrun \subseteq Collector

MarketInit ==
    /\ price = [s \in Source |-> 0]
    /\ enabled \in SUBSET Source
    /\ phase = [c \in Collector |-> "idle"]
    /\ unread = [c \in Collector |-> {}]
    /\ readings = [c \in Collector |-> NothingRead]
    /\ stored = NothingRead
    /\ latest = NoSnapshot
    /\ payload = NoSnapshot
    /\ edit = [e \in Editor |-> "idle"]
    /\ passed = [e \in Checker |-> {}]
    /\ draft = [e \in Editor |-> {}]
    /\ proven = enabled
    /\ outrun = {}
    /\ astray = FALSE
    /\ cut = FALSE
    /\ clashed = FALSE

-----------------------------------------------------------------------------
(* Aggregation.                                                            *)

Good(rs) == {s \in Source : rs[s] # NoValue}
Below(rs, v) == {s \in Good(rs) : rs[s] < v}
Upto(rs, v) == {s \in Good(rs) : rs[s] <= v}

\* The value with n others before it in some order of the readings.
Ranked(rs, n) ==
    CHOOSE v \in {rs[s] : s \in Good(rs)} :
        Cardinality(Below(rs, v)) <= n /\ n < Cardinality(Upto(rs, v))

\* round() takes a half to the even neighbour.
HalfEven(twice) ==
    LET low == twice \div 2
    IN  IF twice % 2 = 0 \/ low % 2 = 0 THEN low ELSE low + 1

\* The median of the values that were read, None if there are none.
Median(rs) ==
    LET n == Cardinality(Good(rs)) IN
    IF n = 0 THEN NoValue
    ELSE HalfEven(Ranked(rs, (n - 1) \div 2) + Ranked(rs, n \div 2))

BuildSnapshot(rs) == [value |-> Median(rs), okCount |-> Cardinality(Good(rs))]

-----------------------------------------------------------------------------
(* run_once.                                                               *)

Step(c, from, to) == phase[c] = from /\ phase' = [phase EXCEPT ![c] = to]

\* Mutant: a page may come from a cache, as old as it likes.
ReadSourceCached(c) ==
    /\ phase[c] = "read"
    /\ \E s \in unread[c] : \E v \in NoValue .. price[s] :
           /\ unread' = [unread EXCEPT ![c] = @ \ {s}]
           /\ readings' = [readings EXCEPT ![c] = [@ EXCEPT ![s] = v]]
    /\ UNCHANGED <<price, enabled, phase, database, payload, outrun, astray, cut, editVars>>

\* load_config, sync_config_to_db, _flatten_enabled_sources.
LoadConfig(c) ==
    /\ Step(c, "idle", "read")
    /\ enabled # Torn
    /\ unread' = [unread EXCEPT ![c] = enabled]
    /\ UNCHANGED <<price, enabled, readings, database, payload, outrun, astray, cut, editVars>>

\* extract_source in its own thread, as_completed: in any order, and a source
\* that fails has a result too.
ReadSource(c) ==
    /\ phase[c] = "read"
    /\ \E s \in unread[c] : \E v \in {price[s], NoValue} :
           /\ unread' = [unread EXCEPT ![c] = @ \ {s}]
           /\ readings' = [readings EXCEPT ![c] = [@ EXCEPT ![s] = v]]
    /\ UNCHANGED <<price, enabled, phase, database, payload, outrun, astray, cut, editVars>>

\* save_results: the observations and the snapshot in one transaction.
SaveResults(c) ==
    /\ Step(c, "read", "saved")
    /\ unread[c] = {}
    /\ stored' = readings[c]
    /\ latest' = BuildSnapshot(readings[c])
    /\ outrun' = {d \in Collector \ {c} : phase[d] # "idle"}
    /\ UNCHANGED <<price, enabled, unread, readings, payload, astray, cut, editVars>>

\* write_text of the payload: the file is truncated, then written, over
\* whatever another run wrote in between.
OpenPayload(c) ==
    /\ Step(c, "saved", "payload")
    /\ payload' = EmptyPayload
    /\ UNCHANGED <<price, enabled, unread, readings, database, outrun, astray, cut, editVars>>

WritePayload(c) ==
    /\ Step(c, "payload", "idle")
    /\ \/ payload' = BuildSnapshot(readings[c])
       \/ payload # EmptyPayload /\ payload' = MixedPayload
    /\ readings' = [readings EXCEPT ![c] = NothingRead]
    /\ outrun' = outrun \ {c}
    /\ astray' = (c \in outrun \/ payload # EmptyPayload)
    /\ cut' = FALSE
    /\ UNCHANGED <<price, enabled, unread, database, editVars>>

\* An exception (a database that is locked) or a death ends the run.
RunEnds(c) ==
    /\ phase[c] # "idle"
    /\ phase' = [phase EXCEPT ![c] = "idle"]
    /\ unread' = [unread EXCEPT ![c] = {}]
    /\ readings' = [readings EXCEPT ![c] = NothingRead]
    /\ outrun' = outrun \ {c}
    /\ cut' = (cut \/ phase[c] # "read")
    /\ UNCHANGED <<price, enabled, database, payload, astray, editVars>>

PriceMoves(s) ==
    /\ price[s] < MaxPrice
    /\ price' = [price EXCEPT ![s] = @ + 1]
    /\ UNCHANGED <<enabled, collectVars, editVars>>

-----------------------------------------------------------------------------
(* The configuration.                                                      *)

Others(e) == \E f \in Editor \ {e} : edit[f] # "idle"

\* check_sources, on the sources that are disabled now.
CheckPending(e) ==
    /\ edit[e] = "idle"
    /\ enabled # Torn
    /\ edit' = [edit EXCEPT ![e] = "checked"]
    /\ \E ok \in SUBSET (Source \ enabled) :
           /\ passed' = [passed EXCEPT ![e] = ok]
           /\ proven' = proven \cup ok
    /\ clashed' = (clashed \/ Others(e))
    /\ UNCHANGED <<price, enabled, draft, collectVars>>

\* load_config again; the sources that passed are enabled in it, and the file
\* is opened for writing.
EnablePassed(e) ==
    /\ edit[e] = "checked"
    /\ enabled # Torn
    /\ edit' = [edit EXCEPT ![e] = "write"]
    /\ draft' = [draft EXCEPT ![e] = enabled \cup passed[e]]
    /\ passed' = [passed EXCEPT ![e] = {}]
    /\ enabled' = Torn
    /\ UNCHANGED <<price, proven, clashed, collectVars>>

\* disable_current_error_sources.main, as far as the truncation.
DisableUnstable(e) ==
    /\ edit[e] = "idle"
    /\ enabled # Torn
    /\ edit' = [edit EXCEPT ![e] = "write"]
    /\ draft' = [draft EXCEPT ![e] = enabled \ Unstable]
    /\ enabled' = Torn
    /\ proven' = proven \ Unstable
    /\ clashed' = (clashed \/ Others(e))
    /\ UNCHANGED <<price, passed, collectVars>>

WriteConfig(e) ==
    /\ edit[e] = "write"
    /\ enabled' = draft[e]
    /\ edit' = [edit EXCEPT ![e] = "idle"]
    /\ draft' = [draft EXCEPT ![e] = {}]
    /\ UNCHANGED <<price, passed, proven, clashed, collectVars>>

\* The editor dies, or finds a file it cannot read.
EditEnds(e) ==
    /\ edit[e] # "idle"
    /\ edit' = [edit EXCEPT ![e] = "idle"]
    /\ draft' = [draft EXCEPT ![e] = {}]
    /\ passed' = [f \in Checker |-> IF f = e THEN {} ELSE passed[f]]
    /\ UNCHANGED <<price, enabled, proven, clashed, collectVars>>

RunOnce(c) ==
    \/ LoadConfig(c) \/ ReadSource(c) \/ SaveResults(c)
    \/ OpenPayload(c) \/ WritePayload(c) \/ RunEnds(c)

MarketNext ==
    \/ \E s \in Source : PriceMoves(s)
    \/ \E c \in Collector : RunOnce(c)
    \/ \E e \in Checker : CheckPending(e) \/ EnablePassed(e)
    \/ \E e \in Disabler : DisableUnstable(e)
    \/ \E e \in Editor : WriteConfig(e) \/ EditEnds(e)

MarketSpec == MarketInit /\ [][MarketNext]_marketVars

-----------------------------------------------------------------------------
(* Properties.                                                             *)

\* The dashboard's prices do not go back: in whatever order the sources
\* answer and however far apart they are, the snapshot of a run is worth no
\* less than the one it replaces while every price only rises, if the same
\* sources answered both times and no other run saved in between.  (With
\* others answering, the median moves by their levels.)
SnapshotsAdvance ==
    [][\A c \in Collector :
         /\ phase[c] = "read" /\ phase'[c] = "saved"
         /\ c \notin outrun /\ Good(readings[c]) = Good(stored)
         => latest'.value >= latest.value]_marketVars

\* Once every run that saved has written or died, the payload file is the
\* newest snapshot, unless a run died with its own unwritten, or the last to
\* write was outrun by another's save or wrote over another's payload.  And a
\* source that was turned off comes back only after it answered a check,
\* unless two editors were at work together.
FilesFollow ==
    /\ MarketTypeOK
    /\ ~cut /\ ~astray /\ (\A c \in Collector : phase[c] \notin {"saved", "payload"})
        => payload = latest
    /\ ~clashed /\ enabled # Torn => enabled \subseteq proven

\* What is stored, what is shown and what is collected stay one story across
\* runs and the tools that edit the configuration between them.
MarketIsTold == []FilesFollow /\ SnapshotsAdvance
=============================================================================
