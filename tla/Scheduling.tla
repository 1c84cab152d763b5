----------------------------- MODULE Scheduling -----------------------------
(***************************************************************************)
(* How the groups and the strategy of a PatchPlan become a rollout, which   *)
(* strategies the preflight refuses, and what the accepted ones then do.    *)
(* PatchPlan.tla takes the resolved groups as constants; here they are      *)
(* computed from the spec the user wrote, and a whole scheduling round is   *)
(* one step on current data.                                                *)
(***************************************************************************)
EXTENDS Integers, Sequences, FiniteSets

CONSTANTS
    Node,          \* the nodes of the cluster, named by numbers
    ControlPlane,  \* those with the control plane label
    CustomGroup,   \* names of groups that are not built in
    LabelValue,    \* the names that are usable as a label value
    SelectorName,  \* the valid selectors of custom groups
    Selects,       \* the nodes each of them matches
    Specs,         \* the plans a user may write
    MaxFailed,     \* bound: failed nodes
    MaxRetries     \* bound: failed PatchJobs a user deletes

Builtin   == {"controlPlane", "workers"}
Name      == Builtin \cup CustomGroup
Selector  == SelectorName \cup {"nil", "invalid"}
GroupSpec == [concurrency : Nat, selector : Selector]

\* order and groups are spec.strategy.order and spec.groups, nodes what the
\* nodeSelector matches, kubernetes whether target.kubernetesVersion is set.
IsSpec(s) ==
    /\ DOMAIN s = {"order", "groups", "nodes", "kubernetes"}
    /\ s.order \in Seq(Name)
    /\ DOMAIN s.groups \subseteq Name
    /\ \A g \in DOMAIN s.groups : s.groups[g] \in GroupSpec
    /\ s.nodes \subseteq Node
    /\ s.kubernetes \in BOOLEAN

ASSUME NodesAssumption ==
    Node \subseteq Nat /\ IsFiniteSet(Node) /\ ControlPlane \subseteq Node
ASSUME NamesAssumption == Builtin \cap CustomGroup = {} /\ Selects \in [SelectorName -> SUBSET Node]
ASSUME SpecsAssumption == \A s \in Specs : IsSpec(s)
ASSUME BoundsAssumption == MaxFailed \in Nat /\ MaxRetries \in Nat

VARIABLES
    spec,     \* the plan's spec
    phase,    \* "New", "Failed" by the strategy or the preflight, or "Passed"
    job,      \* the PatchJob of each node
    retries   \* failed PatchJobs deleted so far

vars == <<spec, phase, job, retries>>

Init ==
    /\ spec \in Specs
    /\ phase = "New"
    /\ job = [n \in Node |-> "none"]
    /\ retries = 0

-----------------------------------------------------------------------------
(* Resolving the groups.                                                    *)

Order == IF spec.order = <<>> THEN <<"controlPlane", "workers">> ELSE spec.order

GroupSpecOf(name) ==
    IF name \in DOMAIN spec.groups THEN spec.groups[name]
    ELSE [concurrency |-> 0, selector |-> "nil"]

\* A custom group has to be declared, with a valid selector and a usable name.
UnusableGroup(name) ==
    /\ name \notin Builtin
    /\ name \notin LabelValue \/ GroupSpecOf(name).selector \in {"nil", "invalid"}

InvalidStrategy ==
    \/ \E name \in Builtin \cap DOMAIN spec.groups : spec.groups[name].selector # "nil"
    \/ \E i, j \in DOMAIN Order : i # j /\ Order[i] = Order[j]
    \/ \E i \in DOMAIN Order : UnusableGroup(Order[i])

Matches(name, n) ==
    \/ name = "controlPlane" /\ n \in ControlPlane
    \/ name = "workers" /\ n \notin ControlPlane
    \/ name \notin Builtin /\ n \in Selects[spec.groups[name].selector]

Group == DOMAIN Order

Concurrency(g) ==
    LET c == GroupSpecOf(Order[g]).concurrency IN IF c > 1 THEN c ELSE 1

\* The selected nodes group g matches and no earlier group has claimed.
NodesOf_Last(g) ==
    {n \in spec.nodes : Matches(Order[g], n) /\ \A h \in Group : h > g => ~Matches(Order[h], n)}
NodesOf(g) ==
    {n \in spec.nodes : Matches(Order[g], n) /\ \A h \in 1..(g - 1) : ~Matches(Order[h], n)}

Covered == UNION {NodesOf(g) : g \in Group}

\* The order of the nodes within a group: the control plane, then by name.
Before(m, n) ==
    \/ m \in ControlPlane /\ n \notin ControlPlane
    \/ (m \in ControlPlane <=> n \in ControlPlane) /\ m < n

-----------------------------------------------------------------------------
(* The preflight's checks of the rollout.  Its checks of the cluster always *)
(* pass here: a plan that fails them schedules nothing.                     *)

\* How many control plane nodes of group g are taken down at once.
AtOnce(g) ==
    LET cp == Cardinality(NodesOf(g) \cap ControlPlane)
    IN  IF Concurrency(g) < cp THEN Concurrency(g) ELSE cp

QuorumLimit == (Cardinality(Covered \cap ControlPlane) + 1) \div 2

QuorumAtRisk_Late == \E g \in Group : AtOnce(g) > 1 /\ AtOnce(g) > QuorumLimit
QuorumAtRisk == \E g \in Group : AtOnce(g) > 1 /\ AtOnce(g) >= QuorumLimit

\* The first group with a worker is not after the last one with a control plane node.
WorkerTooEarly_Reversed ==
    \E g \in Group, h \in Group :
        h < g /\ NodesOf(g) \ ControlPlane # {} /\ NodesOf(h) \cap ControlPlane # {}
WorkerTooEarly ==
    \E g \in Group, h \in Group :
        g =< h /\ NodesOf(g) \ ControlPlane # {} /\ NodesOf(h) \cap ControlPlane # {}

PreflightFailure ==
    \/ Covered = {}
    \/ spec.kubernetes /\ WorkerTooEarly
    \/ QuorumAtRisk

-----------------------------------------------------------------------------
(* Rounds.                                                                  *)

Started == \E n \in Node : job[n] # "none"

\* A strategy that does not resolve fails the plan; nothing is scheduled.
FailInvalidStrategy ==
    /\ phase # "Failed"
    /\ InvalidStrategy
    /\ phase' = "Failed"
    /\ UNCHANGED <<spec, job, retries>>

\* The checks run until they pass, and never again once there are jobs.
RunPreflight_Running ==
    /\ phase = "New"
    /\ ~InvalidStrategy /\ ~Started
    /\ phase' = IF PreflightFailure THEN "Preflighting" ELSE "Passed"
    /\ UNCHANGED <<spec, job, retries>>
RunPreflight ==
    /\ phase = "New"
    /\ ~InvalidStrategy /\ ~Started
    /\ phase' = IF PreflightFailure THEN "Failed" ELSE "Passed"
    /\ UNCHANGED <<spec, job, retries>>

Pending(g)  == {n \in NodesOf(g) : job[n] = "none"}
Running(g)  == {n \in NodesOf(g) : job[n] = "running"}
Finished(g) == \A n \in NodesOf(g) : job[n] \in {"completed", "failed"}

IsCurrent(g) == ~Finished(g) /\ \A h \in 1..(g - 1) : Finished(h)

\* A worker of a Kubernetes upgrade waits for the whole control plane of the rollout.
Blocked(n) ==
    /\ spec.kubernetes /\ n \notin ControlPlane
    /\ \E c \in Covered \cap ControlPlane : job[c] # "completed"

\* The nodes a round creates jobs for: the first pending ones, as many as there
\* are free slots, up to the first that has to wait.
Batch(g) ==
    {n \in Pending(g) :
        /\ Cardinality({m \in Pending(g) : Before(m, n)}) + Cardinality(Running(g)) < Concurrency(g)
        /\ ~Blocked(n)
        /\ \A m \in Pending(g) : Before(m, n) => ~Blocked(m)}

ScheduleNodes(g) ==
    /\ phase = "Passed"
    /\ IsCurrent(g)
    /\ Batch(g) # {}
    /\ job' = [n \in Node |-> IF n \in Batch(g) THEN "running" ELSE job[n]]
    /\ UNCHANGED <<spec, phase, retries>>

-----------------------------------------------------------------------------
(* The environment.                                                         *)

JobFinishes(n) ==
    /\ job[n] = "running"
    /\ \/ job' = [job EXCEPT ![n] = "completed"]
       \/ /\ Cardinality({m \in Node : job[m] = "failed"}) < MaxFailed
          /\ job' = [job EXCEPT ![n] = "failed"]
    /\ UNCHANGED <<spec, phase, retries>>

UserRetriesNode(n) ==
    /\ job[n] = "failed"
    /\ retries < MaxRetries
    /\ retries' = retries + 1
    /\ job' = [job EXCEPT ![n] = "none"]
    /\ UNCHANGED <<spec, phase>>

Next ==
    \/ FailInvalidStrategy
    \/ RunPreflight
    \/ \E g \in Group : ScheduleNodes(g)
    \/ \E n \in Node : JobFinishes(n) \/ UserRetriesNode(n)

Spec == Init /\ [][Next]_vars

-----------------------------------------------------------------------------
(* Properties.                                                              *)

\* Every variable has its type, and only a plan that passed its checks has jobs
\* (Resolve, ensurePreflight).
TypeOK ==
    /\ IsSpec(spec)
    /\ phase \in {"New", "Failed", "Passed"}
    /\ job \in [Node -> {"none", "running", "completed", "failed"}]
    /\ retries \in 0..MaxRetries
    /\ Started => phase = "Passed"

Down(S) == Cardinality({n \in S \cap ControlPlane : job[n] = "running"})

\* CheckControlPlaneQuorum looks at one group at a time and at the nodes of the
\* rollout only.  That is enough: until a failed node is retried, an accepted
\* rollout of any groups leaves more than half of the CLUSTER's control plane up,
\* or takes its nodes down one by one; and each group always does.
QuorumKept ==
    LET Kept(d) == d =< 1 \/ 2 * d < Cardinality(ControlPlane)
    IN  phase = "Passed" =>
            /\ \A g \in Group : Kept(Down(NodesOf(g)))
            /\ retries = 0 => Kept(Down(Node))

\* waitForControlPlane can never wait for a node that is scheduled later:
\* checkUpgradeOrder has refused every such strategy.  While nothing runs and
\* nothing has failed, an accepted rollout with nodes left can go on.
NeverStuck ==
    /\ phase = "Passed"
    /\ \A n \in Node : job[n] \notin {"running", "failed"}
    /\ \E n \in Covered : job[n] = "none"
    => \E g \in Group : IsCurrent(g) /\ Batch(g) # {}

Listed(g, n) == n \in spec.nodes /\ Matches(Order[g], n)

\* "The first listed group a node matches schedules it": when a node starts, some
\* listed group matches it and every selected node that a group listed earlier
\* matches has finished, whatever other groups match that node (Resolve).
StartsInOrder ==
    [][\A n \in Node : job[n] = "none" /\ job'[n] = "running" =>
           \E g \in Group :
               /\ Listed(g, n)
               /\ \A h \in 1..(g - 1), m \in Node :
                      Listed(h, m) => job[m] \in {"completed", "failed"}]_vars
=============================================================================
