-------------------------- MODULE SessionProfiles --------------------------
(***************************************************************************)
(* The browser profiles of the Divar workers                               *)
(* (divar/session_persistence.py): a manager in every process holds a copy *)
(* of each profile's reputation, hands out the best one and writes the     *)
(* copy to the profile's metadata.json after every change.  The files are  *)
(* shared, the copies are read once, and write_text truncates the file     *)
(* before it writes.  A manager is used by one thread of its process.      *)
(*                                                                         *)
(* Scores count twentieths: Best is 20 (1.0), Gain 1 (0.05), Loss 4 (0.2)  *)
(* and Limit 3 (0.15).  last_used_at only breaks ties and is left out.     *)
(***************************************************************************)
EXTENDS Naturals

CONSTANTS
    Manager,        \* processes that may run a manager
    Profile,        \* profile_count profiles
    Best,           \* the reputation of a new profile
    Gain,           \* what a success adds
    Loss,           \* what a failure takes away
    Limit,          \* a profile at or below it is not available
    Cooldown,       \* how long a failed profile rests
    MaxNow,         \* bound: the end of time
    MaxReports      \* bound: reports of sessions

ASSUME ProfileAssumption ==
    /\ Best \in Nat
    /\ Gain \in Nat
    /\ Loss \in Nat
    /\ Limit \in 0 .. Best - 1
    /\ Cooldown \in Nat
    /\ MaxNow \in Nat
    /\ MaxReports \in Nat

VARIABLES
    now,            \* the time
    managers,       \* managers that run
    copy,           \* Manager -> Profile -> its copy
    saving,         \* Manager -> the profile, if any, whose file it has truncated
    file,           \* Profile -> its metadata.json
    record,         \* Profile -> what all reports amount to (history)
    blurred,        \* profiles whose reports a crash or a second manager lost (history)
    reports         \* reports so far

profileVars == <<now, managers, copy, saving, file, record, blurred, reports>>

Reputation == [score : 0 .. Best, until : 0 .. MaxNow + Cooldown]
New == [score |-> Best, until |-> 0]
Torn == [score |-> 0, until |-> MaxNow + Cooldown + 1]

ProfileTypeOK ==
    /\ now \in 0 .. MaxNow
    /\ managers \subseteq Manager
    /\ copy \in [Manager -> [Profile -> Reputation]]
    /\ saving \in [Manager -> SUBSET Profile]
    /\ file \in [Profile -> Reputation \cup {Torn}]
    /\ record \in [Profile -> Reputation]
    /\ blurred \subseteq Profile
    /\ reports \in 0 .. MaxReports

\* An empty profile directory.
ProfileInit ==
    /\ now = 0
    /\ managers = {}
    /\ copy = [m \in Manager |-> [p \in Profile |-> New]]
    /\ saving = [m \in Manager |-> {}]
    /\ file = [p \in Profile |-> New]
    /\ record = [p \in Profile |-> New]
    /\ blurred = {}
    /\ reports = 0

-----------------------------------------------------------------------------

Idle(m) == m \in managers /\ saving[m] = {}

\* Available, by a copy of its reputation.
Fit(r) == now >= r.until /\ r.score > Limit

Rewarded(r) ==
    [r EXCEPT !.score = IF @ + Gain < Best THEN @ + Gain ELSE Best]
Punished(r) ==
    [score |-> IF r.score > Loss THEN r.score - Loss ELSE 0, until |-> now + Cooldown]

\* The profiles allocate may answer with: the best of those available.
Choice(m) ==
    {p \in Profile : /\ Fit(copy[m][p])
                     /\ \A q \in Profile :
                            Fit(copy[m][q]) => copy[m][q].score <= copy[m][p].score}

\* _save_metadata, as far as the truncation of the file.
Save(m, p) ==
    /\ saving' = [saving EXCEPT ![m] = {p}]
    /\ file' = [file EXCEPT ![p] = Torn]
    /\ blurred' = blurred \cup (IF managers # {m} THEN {p} ELSE {})

\* A metadata.json that cannot be read gives a new profile, which is saved.
Loaded(p) == IF file[p] = Torn THEN New ELSE file[p]

-----------------------------------------------------------------------------

\* A process creates its manager, and _load_or_create_profiles reads the files.
StartManager(m) ==
    /\ m \notin managers
    /\ managers' = managers \cup {m}
    /\ copy' = [copy EXCEPT ![m] = [p \in Profile |-> Loaded(p)]]
    /\ file' = [p \in Profile |-> Loaded(p)]
    /\ blurred' = blurred \cup {p \in Profile : file[p] = Torn}
    /\ UNCHANGED <<now, saving, record, reports>>

\* allocate saves the profile it hands out: its copy of it, as old as it may be.
Allocate(m) ==
    /\ Idle(m)
    /\ \E p \in Choice(m) : Save(m, p)
    /\ UNCHANGED <<now, managers, copy, record, reports>>

Report(m, p, Changed(_)) ==
    /\ Idle(m)
    /\ reports < MaxReports
    /\ reports' = reports + 1
    /\ copy' = [copy EXCEPT ![m][p] = Changed(@)]
    /\ record' = [record EXCEPT ![p] = Changed(@)]
    /\ Save(m, p)
    /\ UNCHANGED <<now, managers>>

\* Mutant: the report stays in memory until the profile is next allocated.
ReportFailureUnsaved(m, p) ==
    /\ Idle(m)
    /\ reports < MaxReports
    /\ reports' = reports + 1
    /\ copy' = [copy EXCEPT ![m][p] = Punished(@)]
    /\ record' = [record EXCEPT ![p] = Punished(@)]
    /\ UNCHANGED <<now, managers, saving, file, blurred>>

ReportSuccess(m, p) == Report(m, p, Rewarded)
ReportFailure(m, p) == Report(m, p, Punished)

\* The text is written.
Written(m) ==
    /\ saving[m] # {}
    /\ file' = [p \in Profile |-> IF p \in saving[m] THEN copy[m][p] ELSE file[p]]
    /\ saving' = [saving EXCEPT ![m] = {}]
    /\ UNCHANGED <<now, managers, copy, record, blurred, reports>>

\* The process ends or is killed, in the middle of a save perhaps.
EndManager(m) ==
    /\ m \in managers
    /\ managers' = managers \ {m}
    /\ saving' = [saving EXCEPT ![m] = {}]
    /\ UNCHANGED <<now, copy, file, record, blurred, reports>>

PassTime ==
    /\ now < MaxNow
    /\ now' = now + 1
    /\ UNCHANGED <<managers, copy, saving, file, record, blurred, reports>>

ProfileNext ==
    \/ PassTime
    \/ \E m \in Manager :
        \/ StartManager(m) \/ Allocate(m) \/ Written(m) \/ EndManager(m)
        \/ \E p \in Profile : ReportSuccess(m, p) \/ ReportFailure(m, p)

ProfileSpec == ProfileInit /\ [][ProfileNext]_profileVars

-----------------------------------------------------------------------------
(* Properties.                                                             *)

\* Through any number of restarts a manager hands out no profile that the
\* reports of all sessions retired or sent to rest, and prefers the one they
\* speak best of.  Only for a profile that two running managers wrote, or
\* whose file was cut short by a crash, it may forget.
HandedOutIsFit ==
    /\ ProfileTypeOK
    /\ \A m \in managers : \A p \in Choice(m) \ blurred :
        /\ Fit(record[p])
        /\ \A q \in Profile \ blurred :
               Fit(record[q]) => record[q].score <= record[p].score
=============================================================================
