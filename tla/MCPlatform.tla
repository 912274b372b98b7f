----------------------------- MODULE MCPlatform -----------------------------
(***************************************************************************)
(* Model-checking instance of the loops that a deployment keeps going: the *)
(* plans of the orchestrator over a fleet, and the syncs of leads to the   *)
(* central server.  They share no state: a behaviour follows one of them,  *)
(* its focus.                                                              *)
(***************************************************************************)
EXTENDS Orchestration, LeadSync

VARIABLE focus

platformVars == <<fleetVars, leadVars, focus>>

MCDepths == {0, 3}
MCFirstReplicas == {4}

\* No worker is there, and no work for one.
FleetAtRest ==
    /\ nodes = [n \in Node |-> Absent] /\ owners = [s \in Partition |-> Unowned]
    /\ depths = [s \in Partition |-> 0] /\ failing = {} /\ replicas = MinReplicas
    /\ plan = NoPlan /\ changes = 0

Fleet(A) == focus = "fleet" /\ A /\ UNCHANGED <<leadVars, focus>>
Leads(A) == focus = "leads" /\ A /\ UNCHANGED <<fleetVars, focus>>

PlatformInit ==
    /\ focus \in {"fleet", "leads"}
    /\ IF focus = "fleet" THEN FleetInit ELSE FleetAtRest
    /\ LeadInit

PlatformNext == Fleet(FleetNext) \/ Leads(LeadNext)

\* The fairness of FleetSpec and of FairLeadSpec.
PlatformSpec ==
    /\ PlatformInit /\ [][PlatformNext]_platformVars
    /\ WF_platformVars(Fleet(BuildPlan)) /\ WF_platformVars(Fleet(ApplyPlan))
    /\ \A p \in Syncer :
           WF_platformVars(Leads(Begins(p))) /\ WF_platformVars(Leads(Sync(p)))

=============================================================================
