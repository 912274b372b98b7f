---------------------------- MODULE PanelRunner ----------------------------
(***************************************************************************)
(* The operator's panel and its harvests (local_panel_app.py,              *)
(* panel_worker.py, run_panel_job.py).  The panel appends a request to a   *)
(* JSONL file; panel_worker.py makes a state file of the first request;    *)
(* run_panel_job.py starts the Google Maps harvest if the state says so    *)
(* and writes there how it ended.  Both scripts are started by hand, any   *)
(* number of times, and rewrite the state file in place.                   *)
(*                                                                         *)
(* The harvest is the child of a subprocess.run: killing the script need   *)
(* not end it.  Nobody waits for such an orphan and nobody writes how it   *)
(* ended.                                                                  *)
(***************************************************************************)
EXTENDS Naturals, FiniteSets

CONSTANTS
    Runner,         \* runs of run_panel_job.py
    Preparer,       \* runs of panel_worker.py
    MaxRequests,    \* bound: requests in the queue file
    MaxSlips        \* bound: slips of the two scripts

ASSUME PanelAssumption ==
    /\ Runner \cap Preparer = {}
    /\ MaxRequests \in Nat
    /\ MaxSlips \in Nat

VARIABLES
    queue,          \* requests in panel_job_requests.jsonl
    state,          \* the status in panel_worker_state.json, or "torn"
    runner,         \* Runner -> where it is
    verdict,        \* Runner -> what it is about to write
    preparing,      \* runs of panel_worker.py that have opened the file
    orphans,        \* harvests whose script was killed
    slips           \* states read by a runner while another was about to
                    \* rewrite them, or written for a new run while a runner
                    \* or an orphan was at work (history)

panelVars == <<queue, state, runner, verdict, preparing, orphans, slips>>

PanelTypeOK ==
    /\ queue \in 0 .. MaxRequests
    /\ state \in {"missing", "torn", "ready_to_run", "running", "completed", "failed"}
    /\ runner \in [Runner -> {"idle", "ready", "starting", "harvest", "over", "ending"}]
    /\ verdict \in [Runner -> {"completed", "failed"}]
    /\ preparing \subseteq Preparer
    /\ orphans \in Nat
    /\ slips \in 0 .. MaxSlips

PanelInit ==
    /\ queue = 0
    /\ state = "missing"
    /\ runner = [r \in Runner |-> "idle"]
    /\ verdict = [r \in Runner |-> "failed"]
    /\ preparing = {}
    /\ orphans = 0
    /\ slips = 0

Goes(r, from, to) == runner[r] = from /\ runner' = [runner EXCEPT ![r] = to]
Active == {r \in Runner : runner[r] # "idle"}
About == {r \in Runner : runner[r] = "ready"}

\* A slip is counted when its condition holds.
SlipsIf(condition) ==
    /\ condition => slips < MaxSlips
    /\ slips' = IF condition THEN slips + 1 ELSE slips

\* Mutant: a runner also starts while another is running or no file is there.
ReadyIfNotRunning == state \in {"ready_to_run", "running", "missing"}

\* The state file lets a runner start.  ("requested", which run_job accepts
\* too, is written by nobody.)
ReadyToRun == state = "ready_to_run"

-----------------------------------------------------------------------------

\* POST /api/google-maps/request-run: the queue is only ever appended to.
RequestRun ==
    /\ queue < MaxRequests
    /\ queue' = queue + 1
    /\ UNCHANGED <<state, runner, verdict, preparing, orphans, slips>>

\* prepare_first_job: jobs[0], whatever the state file says; it is truncated.
PrepareFirstJob(p) ==
    /\ queue > 0
    /\ p \notin preparing
    /\ preparing' = preparing \cup {p}
    /\ state' = "torn"
    /\ UNCHANGED <<queue, runner, verdict, orphans, slips>>

WriteReady(p) ==
    /\ p \in preparing
    /\ state' = "ready_to_run"
    /\ preparing' = preparing \ {p}
    /\ SlipsIf(Active # {} \/ orphans > 0)
    /\ UNCHANGED <<queue, runner, verdict, orphans>>

DiePreparing(p) ==
    /\ p \in preparing
    /\ preparing' = preparing \ {p}
    /\ UNCHANGED <<queue, state, runner, verdict, orphans, slips>>

\* run_job reads the state (a torn file raises, any other state is skipped).
ReadState(r) ==
    /\ Goes(r, "idle", "ready")
    /\ ReadyToRun
    /\ SlipsIf(About # {})
    /\ UNCHANGED <<queue, state, verdict, preparing, orphans>>

\* The file of run.py is not there.
MissingRunner(r) ==
    /\ Goes(r, "ready", "ending")
    /\ verdict' = [verdict EXCEPT ![r] = "failed"]
    /\ state' = "torn"
    /\ UNCHANGED <<queue, preparing, orphans, slips>>

\* write_state(running): truncated, then written; then the harvest starts.
OpenState(r) ==
    /\ Goes(r, "ready", "starting")
    /\ state' = "torn"
    /\ UNCHANGED <<queue, verdict, preparing, orphans, slips>>

StartHarvest(r) ==
    /\ Goes(r, "starting", "harvest")
    /\ state' = "running"
    /\ UNCHANGED <<queue, verdict, preparing, orphans, slips>>

\* The subprocess ends, well or badly.
HarvestOver(r) ==
    /\ Goes(r, "harvest", "over")
    /\ \E v \in {"completed", "failed"} : verdict' = [verdict EXCEPT ![r] = v]
    /\ UNCHANGED <<queue, state, preparing, orphans, slips>>

OpenResult(r) ==
    /\ Goes(r, "over", "ending")
    /\ state' = "torn"
    /\ UNCHANGED <<queue, verdict, preparing, orphans, slips>>

WriteResult(r) ==
    /\ Goes(r, "ending", "idle")
    /\ state' = verdict[r]
    /\ UNCHANGED <<queue, verdict, preparing, orphans, slips>>

\* The script is killed, and the harvest with it ...
DieRunning(r) ==
    /\ r \in Active
    /\ runner' = [runner EXCEPT ![r] = "idle"]
    /\ UNCHANGED <<queue, state, verdict, preparing, orphans, slips>>

\* ... or the harvest goes on without it ...
Orphan(r) ==
    /\ Goes(r, "harvest", "idle")
    /\ orphans' = orphans + 1
    /\ UNCHANGED <<queue, state, verdict, preparing, slips>>

\* ... until it is over.
OrphanOver ==
    /\ orphans > 0
    /\ orphans' = orphans - 1
    /\ UNCHANGED <<queue, state, runner, verdict, preparing, slips>>

PanelNext ==
    \/ RequestRun
    \/ OrphanOver
    \/ \E p \in Preparer : PrepareFirstJob(p) \/ WriteReady(p) \/ DiePreparing(p)
    \/ \E r \in Runner :
        \/ ReadState(r) \/ MissingRunner(r) \/ OpenState(r) \/ StartHarvest(r)
        \/ HarvestOver(r) \/ OpenResult(r) \/ WriteResult(r)
        \/ DieRunning(r) \/ Orphan(r)

PanelSpec == PanelInit /\ [][PanelNext]_panelVars

-----------------------------------------------------------------------------
(* Properties.                                                             *)

\* Harvests share one database, and the state file is all that keeps a second
\* one from starting.  Every harvest beyond the first, run by a script or
\* orphaned by one, was let in by a slip: a runner that read the state before
\* another had rewritten it, or a request prepared while a harvest ran.  A
\* death lets in none: what the dead runner wrote keeps others out.
HarvestsAreExplained ==
    /\ PanelTypeOK
    /\ Cardinality(Active) + orphans <= 1 + slips
=============================================================================
