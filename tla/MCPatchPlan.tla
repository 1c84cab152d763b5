----------------------------- MODULE MCPatchPlan -----------------------------
(* Small rollouts for TLC: nodes are numbered in scheduling order.           *)
EXTENDS PatchPlan

\* One group.
OneGroup == [n \in 1..NodeCount |-> 1]
One      == <<1>>
Two      == <<2>>

\* The control plane, then workers in two groups, the first of them one at a time.
InThree  == <<1, 2, 2, 3>>
\* The control plane, then the workers one at a time.
InTwo    == <<1, 2, 2>>
OneEach  == [g \in 1..GroupCount |-> 1]
=============================================================================
