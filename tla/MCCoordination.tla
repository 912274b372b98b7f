--------------------------- MODULE MCCoordination ---------------------------
(***************************************************************************)
(* Model-checking instance of what one process takes over from another:    *)
(* the leader key of etcd, the pending rows of the job queue, and the      *)
(* checkpoint of a harvest that died.  They share no state: a behaviour    *)
(* follows one of them, its focus.                                         *)
(***************************************************************************)
EXTENDS JobQueue, LeaderLease, MapsHarvest, Functions

CONSTANTS j1, j2

VARIABLE focus

coordinationVars == <<vars, leaseVars, harvestVars, focus>>

UrgentJ1 == [j \in Job |-> IF j = j1 THEN 10 ELSE 5]

Queue(A) == focus = "queue" /\ A /\ UNCHANGED <<leaseVars, harvestVars, focus>>
Leadership(A) == focus = "leadership" /\ A /\ UNCHANGED <<vars, harvestVars, focus>>
Harvest(A) == focus = "harvest" /\ A /\ UNCHANGED <<vars, leaseVars, focus>>

\* Every process thinks that it leads, on a lease that ran out: nobody is left
\* to campaign.
LeadershipAtRest ==
    /\ where = [p \in Candidate |-> "leader"]
    /\ held = (CHOOSE f \in [Candidate -> Lease] : IsInjective(f))
    /\ displaced = Candidate
    /\ leaderKey = NoLease /\ remaining = [l \in Lease |-> 0]
    /\ asleep = [p \in Candidate |-> 0] /\ tardy = FALSE /\ deaths = 0

\* The last harvest ended, and every business is given up.
HarvestAtRest ==
    /\ order = (CHOOSE f \in Orders : TRUE) /\ checkpoint = 0 /\ at = "down" /\ idx = Total
    /\ state = [b \in Business |-> "failed"] /\ retries = [b \in Business |-> MaxRetries]
    /\ batch = {} /\ began = 0 /\ broken = FALSE /\ searched = {} /\ visits = 0
    /\ dirty = FALSE /\ crashes = 0

CoordinationInit ==
    /\ focus \in {"queue", "leadership", "harvest"}
    /\ Init
    /\ IF focus = "leadership" THEN LeaseInit ELSE LeadershipAtRest
    /\ IF focus = "harvest" THEN HarvestInit ELSE HarvestAtRest
CoordinationNext == Queue(Next) \/ Leadership(LeaseNext) \/ Harvest(HarvestNext)

\* The fairness of FairSpec, FairLeaseSpec and FairHarvestSpec.
CoordinationSpec ==
    /\ CoordinationInit /\ [][CoordinationNext]_coordinationVars
    /\ \A w \in Worker : WF_coordinationVars(Queue(Step(w)))
    /\ WF_coordinationVars(Leadership(LeaseTick))
    /\ \A p \in Candidate :
        /\ WF_coordinationVars(Leadership(Elect(p))) /\ SF_coordinationVars(Leadership(Win(p)))
        /\ WF_coordinationVars(Leadership(Resign(p)))
    /\ WF_coordinationVars(Harvest(StartRun)) /\ WF_coordinationVars(Harvest(Run))

=============================================================================
