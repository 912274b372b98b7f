------------------------------- MODULE AdRuns -------------------------------
(***************************************************************************)
(* The database of Divar runs (divar/storage.py) and the resume manager    *)
(* over it (divar/resume_state.py): runs, the ads they discovered, and     *)
(* what became of them.  Every method is one transaction.  No code of the  *)
(* repository calls them yet, so a worker here is any caller that handles  *)
(* the ads restore_pending_ads gave it, and several may have the same run. *)
(***************************************************************************)
EXTENDS Naturals

CONSTANTS
    Run,            \* run ids
    Url,            \* urls of ads
    Worker,         \* callers that work on a run
    NoRun,          \* the run of an ad that is not in the table
    MaxFailures     \* bound: rows of divar_failed_items

ASSUME RunAssumption == NoRun \notin Run /\ MaxFailures \in Nat

VARIABLES
    runStatus,      \* divar_runs: Run -> "absent", "running" or "completed"
    owner,          \* divar_discovered_ads: Url -> its run_id
    adStatus,       \* divar_discovered_ads: Url -> its status
    rawDetails,     \* divar_raw_details: the ads that have rows
    failures,       \* divar_failed_items: the number of rows
    at,             \* Worker -> the run it works on
    ads,            \* Worker -> the ads it has still to handle
    shared,         \* runs two workers worked on at once (history)
    settled         \* ads whose run said they are done (history)

runVars == <<runStatus, owner, adStatus, rawDetails, failures, at, ads, shared, settled>>
tables == <<runStatus, owner, adStatus, rawDetails, failures>>

RunTypeOK ==
    /\ runStatus \in [Run -> {"absent", "running", "completed"}]
    /\ owner \in [Url -> Run \cup {NoRun}]
    /\ adStatus \in [Url -> {"absent", "pending", "done", "failed"}]
    /\ \A u \in Url : adStatus[u] = "absent" <=> owner[u] = NoRun
    /\ rawDetails \subseteq Url
    /\ failures \in 0 .. MaxFailures
    /\ at \in [Worker -> Run \cup {NoRun}]
    /\ ads \in [Worker -> SUBSET Url]

RunInit ==
    /\ runStatus = [r \in Run |-> "absent"]
    /\ owner = [u \in Url |-> NoRun]
    /\ adStatus = [u \in Url |-> "absent"]
    /\ rawDetails = {}
    /\ failures = 0
    /\ at = [w \in Worker |-> NoRun]
    /\ ads = [w \in Worker |-> {}]
    /\ shared = {}
    /\ settled = {}

-----------------------------------------------------------------------------

\* pending_ads.
PendingAds(r) == {u \in Url : owner[u] = r /\ adStatus[u] \in {"pending", "failed"}}

ShouldResume(r) == PendingAds(r) # {}

\* UPDATE ... WHERE run_id=? AND url=?
Marked(r, u, status) ==
    IF owner[u] = r THEN [adStatus EXCEPT ![u] = status] ELSE adStatus

\* Mutant: INSERT OR REPLACE.
DiscoverReplaces(r) ==
    /\ runStatus[r] # "absent"
    /\ \E found \in SUBSET Url :
           /\ owner' = [u \in Url |-> IF u \in found THEN r ELSE owner[u]]
           /\ adStatus' = [u \in Url |-> IF u \in found THEN "pending" ELSE adStatus[u]]
    /\ UNCHANGED <<runStatus, rawDetails, failures, at, ads, shared, settled>>

\* start_run: also of a run that was completed.
StartRun(r) ==
    /\ runStatus' = [runStatus EXCEPT ![r] = "running"]
    /\ UNCHANGED <<owner, adStatus, rawDetails, failures, at, ads, shared, settled>>

\* finish_run, whether or not the run has pending ads.
FinishRun(r) ==
    /\ runStatus[r] # "absent"
    /\ runStatus' = [runStatus EXCEPT ![r] = "completed"]
    /\ UNCHANGED <<owner, adStatus, rawDetails, failures, at, ads, shared, settled>>

\* save_discovered_ads: a url that is in the table stays with its first run.
\* The foreign key wants the run to be there.
Discover(r) ==
    /\ runStatus[r] # "absent"
    /\ \E found \in SUBSET Url : LET fresh == {u \in found : owner[u] = NoRun} IN
           /\ owner' = [u \in Url |-> IF u \in fresh THEN r ELSE owner[u]]
           /\ adStatus' = [u \in Url |-> IF u \in fresh THEN "pending" ELSE adStatus[u]]
    /\ UNCHANGED <<runStatus, rawDetails, failures, at, ads, shared, settled>>

\* A worker asks should_resume and takes what restore_pending_ads answers.
Resume(w, r) ==
    /\ ads[w] = {}
    /\ ShouldResume(r)
    /\ at' = [at EXCEPT ![w] = r]
    /\ ads' = [ads EXCEPT ![w] = PendingAds(r)]
    /\ shared' = shared \cup
        (IF \E v \in Worker \ {w} : at[v] = r /\ ads[v] # {} THEN {r} ELSE {})
    /\ UNCHANGED <<tables, settled>>

\* save_raw_detail, ahead of the mark.
SaveDetail(w, u) ==
    /\ u \in ads[w]
    /\ rawDetails' = rawDetails \cup {u}
    /\ UNCHANGED <<runStatus, owner, adStatus, failures, at, ads, shared, settled>>

\* mark_ad_done.
MarkDone(w, u) ==
    /\ u \in ads[w] \cap rawDetails
    /\ adStatus' = Marked(at[w], u, "done")
    /\ settled' = settled \cup {u}
    /\ ads' = [ads EXCEPT ![w] = @ \ {u}]
    /\ UNCHANGED <<runStatus, owner, rawDetails, failures, at, shared>>

\* record_failure and mark_ad_failed, whatever the status was.
MarkFailed(w, u) ==
    /\ u \in ads[w]
    /\ failures < MaxFailures
    /\ failures' = failures + 1
    /\ adStatus' = Marked(at[w], u, "failed")
    /\ ads' = [ads EXCEPT ![w] = @ \ {u}]
    /\ UNCHANGED <<runStatus, owner, rawDetails, at, shared, settled>>

DieWorking(w) ==
    /\ ads[w] # {}
    /\ ads' = [ads EXCEPT ![w] = {}]
    /\ UNCHANGED <<tables, at, shared, settled>>

RunNext ==
    \/ \E r \in Run : StartRun(r) \/ FinishRun(r) \/ Discover(r)
    \/ \E w \in Worker : DieWorking(w) \/ \E r \in Run : Resume(w, r)
    \/ \E w \in Worker, u \in Url : SaveDetail(w, u) \/ MarkDone(w, u) \/ MarkFailed(w, u)

RunsSpec == RunInit /\ [][RunNext]_runVars

-----------------------------------------------------------------------------
(* Properties.                                                             *)

\* However often an ad is discovered again, by whatever run, and whoever
\* died: it is pending in exactly one run until that run says it is done, and
\* then in none, unless two workers resumed that run at the same time.
DiscoveredIsResumable ==
    /\ RunTypeOK
    /\ \A u \in Url : owner[u] # NoRun =>
        /\ u \notin settled => u \in PendingAds(owner[u])
        /\ u \in settled /\ owner[u] \notin shared => ~\E r \in Run : u \in PendingAds(r)
    /\ settled \subseteq rawDetails
=============================================================================
