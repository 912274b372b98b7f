--------------------------- MODULE Orchestration ---------------------------
(***************************************************************************)
(* The control loop around RuntimeOrchestrator (divar_bot/orchestrator):   *)
(* plans for placement, scaling and rebalance are built from what was      *)
(* observed of workers and shards, and applied by an adapter.  The plans   *)
(* are the code's; the adapter, which the repository leaves to be written  *)
(* ("can be applied by a deployment adapter later"), is external and does  *)
(* what the plan says, perhaps after the fleet has changed.                *)
(*                                                                         *)
(* memory_percent and cpu_percent are 1 at or above their limit and 0      *)
(* below it.  The order of the lists passed to build_plan is any order.    *)
(***************************************************************************)
EXTENDS Naturals, Sequences, FiniteSets, SequencesExt

CONSTANTS
    Node,           \* workers
    Partition,      \* shards
    Unowned,        \* no owner_worker_id
    MinReplicas,    \* AFRA_ORCH_MIN_REPLICAS
    MaxReplicas,    \* AFRA_ORCH_MAX_REPLICAS
    QueueTarget,    \* AFRA_ORCH_TARGET_QUEUE_PER_WORKER
    NodeCapacity,   \* capacity of a worker
    Depths,         \* queue depths of a shard
    FirstReplicas,  \* replicas at the start
    MaxChanges      \* bound: changes of the fleet

ASSUME OrchestrationAssumption ==
    /\ IsFiniteSet(Node) /\ IsFiniteSet(Partition)
    /\ Unowned \notin Node
    /\ MinReplicas \in Nat \ {0}
    /\ MaxReplicas \in Nat
    /\ MinReplicas <= MaxReplicas
    /\ QueueTarget \in Nat \ {0}
    /\ NodeCapacity \in Nat \ {0}
    /\ Depths \subseteq Nat
    /\ FirstReplicas \subseteq Nat
    /\ MaxChanges \in Nat

VARIABLES
    nodes,          \* Node -> what is observed of it
    owners,         \* Partition -> owner_worker_id, or Unowned
    depths,         \* Partition -> queue_depth
    failing,        \* shards whose failure_rate is at or above the limit
    replicas,       \* current_replicas
    plan,           \* the plan not yet applied, or NoPlan
    changes         \* changes so far

fleetVars == <<nodes, owners, depths, failing, replicas, plan, changes>>

\* A worker that is not in the list has nothing else to show.
Absent == [status |-> "absent", memory |-> 0, cpu |-> 0, jobs |-> 0]
Observation ==
    [status : {"active", "draining"}, memory : 0 .. 1, cpu : 0 .. 1, jobs : 0 .. NodeCapacity]
        \cup {Absent}
NoPlan == [built |-> FALSE]

FleetInit ==
    /\ nodes = [n \in Node |-> [status |-> "active", memory |-> 0, cpu |-> 0, jobs |-> 0]]
    /\ owners = [s \in Partition |-> Unowned]
    /\ depths \in [Partition -> Depths]
    /\ failing = {}
    /\ replicas \in FirstReplicas
    /\ plan = NoPlan
    /\ changes = 0

-----------------------------------------------------------------------------
(* WorkerNode *)

Seen(n) == nodes[n].status # "absent"
IsActive(n) == nodes[n].status = "active"
IsHealthy(n) == IsActive(n) /\ nodes[n].jobs < NodeCapacity
Overloaded(n) == Seen(n) /\ (nodes[n].cpu = 1 \/ nodes[n].memory = 1)
Load(n) == 2 * nodes[n].memory + nodes[n].cpu

\* sorted() with the key of each worker: equal ones keep their order.
Sorted(list, key) ==
    LET place(n) == CHOOSE i \in DOMAIN list : list[i] = n
        precedes(m, n) == key[m] < key[n] \/ (key[m] = key[n] /\ place(m) < place(n))
    IN  CHOOSE q \in SetToSeqs(Range(list)) :
            \A i, j \in DOMAIN q : i < j => precedes(q[i], q[j])

-----------------------------------------------------------------------------
(* The plans *)

\* Mutant: the worker chosen for a shard stays first in line for the next.
NextInLineKept(list, selected) == list

\* After a placement the workers are sorted again, the one just chosen last.
NextInLine(list, selected) ==
    Sorted(list, [n \in Node |-> (IF n = selected THEN 4 ELSE 0) + Load(n)])

\* plan_placements, for the healthy workers and the shards without an owner in
\* the order of their lists: each such shard takes the first worker of the line
\* that the one before it left.  Any other stays where it is.
Placements(list, shards) ==
    LET next == [line \in SetToSeqs(Range(list)) |-> NextInLine(line, Head(line))]
        key == [n \in Node |-> Load(n) * NodeCapacity + nodes[n].jobs]
        line[k \in DOMAIN shards] == IF k = 1 THEN Sorted(list, key) ELSE next[line[k - 1]]
        turn(s) == CHOOSE k \in DOMAIN shards : shards[k] = s
    IN  [s \in Partition |->
            IF owners[s] # Unowned \/ list = <<>> THEN owners[s] ELSE Head(line[turn(s)])]

\* A queue_depth counts jobs: those that wait in all the shards.
TotalQueue == Cardinality(UNION {{s} \X (1 .. depths[s]) : s \in Partition})
AtLeast(a, b) == IF a < b THEN b ELSE a
AtMost(a, b) == IF a > b THEN b ELSE a

\* plan_autoscaling.  Unhealthy workers only change the reason.
DesiredReplicas ==
    LET busy == \E n \in Node : Overloaded(n)
        floor == AtLeast(MinReplicas, replicas)
        queueBased == AtLeast(MinReplicas, TotalQueue \div QueueTarget + 1)
        forQueue == IF TotalQueue > 0 THEN AtLeast(floor, queueBased) ELSE floor
        forLoad == IF busy THEN AtLeast(forQueue, replicas + 1) ELSE forQueue
        idle == TotalQueue = 0 /\ ~busy /\ replicas > MinReplicas
    IN  AtMost(IF idle THEN AtLeast(MinReplicas, replicas - 1) ELSE forLoad, MaxReplicas)

\* Mutant: a shard whose owner is not in the list is passed over.
OwnerBadIfListed(s) ==
    \/ Seen(owners[s]) /\ ~IsActive(owners[s])
    \/ Overloaded(owners[s])
    \/ s \in failing

OwnerBad(s) ==
    \/ ~Seen(owners[s])
    \/ ~IsActive(owners[s])
    \/ Overloaded(owners[s])
    \/ s \in failing

\* plan_rebalance: the first target that is not the owner itself.  Targets may
\* be overloaded, and all shards that move get the same one.
Moves(list) ==
    LET targets == Sorted(list, [n \in Node |-> nodes[n].jobs * 4 + Load(n)])
        others(s) == {i \in DOMAIN targets : targets[i] # owners[s]}
    IN  [s \in {s \in Partition : owners[s] # Unowned /\ OwnerBad(s)} |->
            IF others(s) = {} THEN Unowned ELSE targets[Min(others(s))]]

\* build_plan.  Workers are listed in any order, and so are the healthy ones
\* among them; `healthy` is kept for the properties.
BuildPlan ==
    /\ plan = NoPlan
    /\ \E list \in SetToSeqs({n \in Node : IsHealthy(n)}),
          shards \in SetToSeqs({s \in Partition : owners[s] = Unowned}) :
           plan' = [built |-> TRUE, placements |-> Placements(list, shards),
                    desired |-> DesiredReplicas, moves |-> Moves(list),
                    unowned |-> {s \in Partition : owners[s] = Unowned},
                    from |-> owners, healthy |-> {n \in Node : IsHealthy(n)}]
    /\ UNCHANGED <<nodes, owners, depths, failing, replicas, changes>>

-----------------------------------------------------------------------------
(* External: the adapter and the fleet *)

\* drain_only and no_healthy_worker leave a shard where it is.
ApplyPlan ==
    /\ plan # NoPlan
    /\ owners' = [s \in Partition |->
           IF s \in DOMAIN plan.moves /\ plan.moves[s] # Unowned THEN plan.moves[s]
           ELSE plan.placements[s]]
    /\ replicas' = plan.desired
    /\ plan' = NoPlan
    /\ UNCHANGED <<nodes, depths, failing, changes>>

Change == changes < MaxChanges /\ changes' = changes + 1

NodeChanges(n) ==
    /\ Change
    /\ \E seen \in Observation : nodes' = [nodes EXCEPT ![n] = seen]
    /\ UNCHANGED <<owners, depths, failing, replicas, plan>>

ShardChanges(s) ==
    /\ Change
    /\ \/ \E d \in Depths : depths' = [depths EXCEPT ![s] = d] /\ UNCHANGED failing
       \/ failing' = (failing \ {s}) \cup ({s} \ failing) /\ UNCHANGED depths
    /\ UNCHANGED <<nodes, owners, replicas, plan>>

FleetNext ==
    \/ BuildPlan
    \/ ApplyPlan
    \/ \E n \in Node : NodeChanges(n)
    \/ \E s \in Partition : ShardChanges(s)

\* The loop goes on and its plans are applied.
FleetSpec ==
    FleetInit /\ [][FleetNext]_fleetVars /\ WF_fleetVars(BuildPlan) /\ WF_fleetVars(ApplyPlan)

-----------------------------------------------------------------------------
(* Properties *)

\* A plan gives shards to workers that could take them when it was made, and
\* spreads them: with two healthy workers no worker gets more than half of the
\* shards that had no owner.  A shard never moves to the owner it leaves, and
\* the replicas stay within the policy.
PlansAreSafe ==
    plan # NoPlan =>
        LET placed == {s \in plan.unowned : plan.placements[s] # Unowned}
            share(n) == {s \in placed : plan.placements[s] = n}
        IN  /\ \A s \in placed : plan.placements[s] \in plan.healthy
            /\ \A s \in Partition \ plan.unowned : plan.placements[s] = plan.from[s]
            /\ plan.healthy # {} => placed = plan.unowned
            /\ Cardinality(plan.healthy) > 1 =>
                   \A n \in Node : 2 * Cardinality(share(n)) <= Cardinality(placed) + 1
            /\ \A s \in DOMAIN plan.moves :
                   plan.moves[s] \in (plan.healthy \ {plan.from[s]}) \cup {Unowned}
            /\ plan.desired \in MinReplicas .. MaxReplicas

Calm == failing = {} /\ ~\E n \in Node : Overloaded(n)

\* Once the fleet stops changing the loop comes to rest: with no shard failing,
\* no worker overloaded and some worker healthy every shard is at an active
\* worker, an idle fleet is down to its minimum, and a queue has its replicas.
FleetSettles ==
    <>[](Calm =>
        /\ (\E n \in Node : IsHealthy(n)) => \A s \in Partition : owners[s] \in Node /\ IsActive(owners[s])
        /\ TotalQueue = 0 => replicas = MinReplicas
        /\ TotalQueue > 0 => replicas >= AtMost(TotalQueue \div QueueTarget + 1, MaxReplicas))

=============================================================================
