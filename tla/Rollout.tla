------------------------------- MODULE Rollout -------------------------------
(***************************************************************************)
(* What a PatchPlan promises about the nodes it patches, without caches,    *)
(* rounds, leases or status: a node is started at most once, only while its *)
(* group has a free slot, only after every earlier group has finished and,  *)
(* for a worker of a Kubernetes upgrade, only after the control plane.      *)
(* PatchPlan.tla is shown to implement this as long as no PatchJob is       *)
(* deleted.                                                                 *)
(***************************************************************************)
EXTENDS Integers, FiniteSets

CONSTANTS Node, Group, GroupOf, Concurrency, ControlPlane, KubernetesTarget

VARIABLE job    \* the outcome of each node so far

Init == job = [n \in Node |-> "none"]

Running(g) == {n \in Node : GroupOf[n] = g /\ job[n] = "running"}

MayStart(n) ==
    /\ job[n] = "none"
    /\ Cardinality(Running(GroupOf[n])) < Concurrency[GroupOf[n]]
    /\ \A m \in Node : GroupOf[m] < GroupOf[n] => job[m] \in {"completed", "failed"}
    /\ KubernetesTarget /\ n \notin ControlPlane =>
           \A c \in ControlPlane : job[c] = "completed"

Start(n) == MayStart(n) /\ job' = [job EXCEPT ![n] = "running"]

Finish(n) ==
    /\ job[n] = "running"
    /\ \E outcome \in {"completed", "failed"} : job' = [job EXCEPT ![n] = outcome]

Next == \E n \in Node : Start(n) \/ Finish(n)

Spec == Init /\ [][Next]_job
=============================================================================
