----------------------------- MODULE MCRuntime -----------------------------
(***************************************************************************)
(* Model-checking instance of what one worker process runs: its jobs while *)
(* it drains, its cache of credentials, its probes and metrics, and the    *)
(* worker of divar_bot/core.  They share no state here: a behaviour        *)
(* follows one of them, its focus.                                         *)
(***************************************************************************)
EXTENDS DurableJobs, CredentialCache, RuntimeProbes, WorkerCore

VARIABLE focus

runtimeVars == <<vars, credentialVars, probeVars, workVars, focus>>

RuntimeInit ==
    /\ focus \in {"jobs", "credentials", "draining", "counting", "worker"}
    /\ Init /\ CredentialInit
    /\ ProbeInit /\ (focus # "draining" => marker = FALSE)
    /\ WorkerInit /\ (focus # "worker" => short = FALSE)

RuntimeNext ==
    \/ /\ focus = "jobs" /\ Next
       /\ UNCHANGED <<credentialVars, probeVars, workVars, focus>>
    \/ /\ focus = "credentials" /\ CredentialNext
       /\ UNCHANGED <<vars, probeVars, workVars, focus>>
    \/ /\ focus = "draining" /\ DrainNext
       /\ UNCHANGED <<vars, credentialVars, countVars, workVars, focus>>
    \/ /\ focus = "counting" /\ CountNext
       /\ UNCHANGED <<vars, credentialVars, drainVars, workVars, focus>>
    \/ /\ focus = "worker" /\ WorkerNext
       /\ UNCHANGED <<vars, credentialVars, probeVars, focus>>

RuntimeSpec == RuntimeInit /\ [][RuntimeNext]_runtimeVars

=============================================================================
