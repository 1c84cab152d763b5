---------------------------- MODULE MCPlanConflict ----------------------------
(* Two or three plans for TLC.                                               *)
EXTENDS PlanConflict

\* Every plan wants the same node.
OneNode == [p \in Plan |-> {"a"}]

\* The first and the last plan share no node, the one between shares with both.
Chain == [p \in Plan |-> {p, p + 1}]
=============================================================================
