----------------------------- MODULE NodeUpgrade -----------------------------
(***************************************************************************)
(* What a PatchJob promises about its node, without phases, caches, calls   *)
(* or timeouts: the node is closed before it is emptied, empty when it is   *)
(* told to upgrade, opened again only when it is back with the Talos        *)
(* version it should have, and left alone once the job has ended.           *)
(* PatchJob.tla is shown to implement this as long as nobody interferes.    *)
(***************************************************************************)
CONSTANT MayForget   \* whether a job that fails before the upgrade may leave the node closed

VARIABLES
    outcome,  \* of the job
    life,     \* of the node: closed to pods, away for its upgrade, back, released
    versions, \* what the node runs: its Talos may be the target's, or all of it
    empty     \* whether the node has no pods to evict

Init ==
    /\ outcome = "open" /\ life = "serving"
    /\ versions \in {"old", "talos", "target"}
    /\ empty \in BOOLEAN

Close == life = "serving" /\ life' = "closed"
GiveUp == life = "closed" /\ life' = "serving"
Upgrade == life = "closed" /\ empty /\ life' = "away"
Release == life = "back" /\ versions # "old" /\ life' = "released"

Return == life = "away" /\ life' = "back" /\ UNCHANGED outcome

Complete ==
    /\ life \in {"serving", "released"} /\ versions = "target"
    /\ outcome' = "completed" /\ UNCHANGED life

Fail ==
    /\ life = "closed" => MayForget
    /\ outcome' = "failed" /\ UNCHANGED life

Course ==
    \/ outcome = "open" /\ (Close \/ GiveUp \/ Upgrade \/ Release) /\ UNCHANGED outcome
    \/ outcome = "open" /\ (Complete \/ Fail)
    \/ Return

\* Talos changes while the node is away; Kubernetes at any time after that.
Rises ==
    \/ versions = "old" /\ versions' \in {"talos", "target"} /\ life = "away"
    \/ versions = "talos" /\ versions' = "target"

\* No pod comes to a node that is closed.
Pods == empty => life \in {"serving", "released"}

Spec == Init /\ [][Course]_<<outcome, life>> /\ [][Rises]_versions /\ [][Pods]_empty
=============================================================================
