-------------------------- MODULE Scheduling_proof ---------------------------
(***************************************************************************)
(* That an accepted strategy keeps its promises, for clusters of any size   *)
(* and any groups a user may write: the control plane keeps its quorum,     *)
(* nothing waits for what comes later, and the listed order is kept.        *)
(***************************************************************************)
EXTENDS Scheduling, FiniteSetTheorems, WellFoundedInduction, TLAPS

-----------------------------------------------------------------------------
(* Least numbers, and counting nodes.                                        *)

LEMMA Least ==
    ASSUME NEW T \in SUBSET Nat, T # {}
    PROVE  \E x \in T : \A y \in T : x =< y
<1> DEFINE R == OpToRel(<, Nat)
<1>1. IsWellFoundedOn(R, Nat)
  BY NatLessThanWellFounded
<1>2. \A x, y \in Nat : <<y, x>> \in R <=> y < x
  BY DEF OpToRel
<1> HIDE DEF R
<1>3. PICK x \in T : \A y \in T : ~ (<<y, x>> \in R)
  BY <1>1, WFMin
<1>4. ASSUME NEW y \in T PROVE x =< y
  <2>1. <<y, x>> \notin R /\ x \in Nat /\ y \in Nat
    BY <1>3
  <2>2. ~(y < x)
    BY <1>2, <2>1
  <2> QED
    BY <2>1, <2>2
<1> QED
  BY <1>4

LEMMA NodesFinite ==
    ASSUME NEW S \in SUBSET Node
    PROVE  IsFiniteSet(S) /\ Cardinality(S) \in Nat
BY NodesAssumption, FS_Subset, FS_CardinalityType

LEMMA Fewer ==
    ASSUME NEW S \in SUBSET Node, NEW T \in SUBSET S
    PROVE  Cardinality(T) =< Cardinality(S)
BY NodesFinite, FS_Subset

\* The order of the nodes within a group is a strict total order.
LEMMA BeforeOrder ==
    /\ \A n \in Node : ~Before(n, n)
    /\ \A m, n \in Node : m # n => Before(m, n) \/ Before(n, m)
    /\ \A l, m, n \in Node : Before(l, m) /\ Before(m, n) => Before(l, n)
BY NodesAssumption DEF Before

\* How many nodes of P come before n.
Rank(P, n) == Cardinality({m \in P : Before(m, n)})

LEMMA RankRises ==
    ASSUME NEW P \in SUBSET Node, NEW m \in P, NEW n \in P, Before(m, n)
    PROVE  Rank(P, m) < Rank(P, n)
<1> DEFINE M == {l \in P : Before(l, m)}
           N == {l \in P : Before(l, n)}
<1>1. M \subseteq N /\ N \subseteq Node /\ m \in N /\ m \notin M
  BY BeforeOrder
<1>2. IsFiniteSet(N) /\ Cardinality(M) \in Nat /\ Cardinality(N) \in Nat
  BY <1>1, NodesFinite
<1>3. Cardinality(M) =< Cardinality(N) /\ (Cardinality(M) = Cardinality(N) => M = N)
  BY <1>1, <1>2, FS_Subset
<1>4. M # N
  BY <1>1
<1>5. Rank(P, m) = Cardinality(M) /\ Rank(P, n) = Cardinality(N)
  BY DEF Rank
<1> HIDE DEF M, N
<1> QED
  BY <1>2, <1>3, <1>4, <1>5

\* No more than k nodes have fewer than k of their set before them.
LEMMA FirstFew ==
    ASSUME NEW P \in SUBSET Node, NEW B \in SUBSET P, NEW k \in Nat,
           \A n \in B : Rank(P, n) < k
    PROVE  Cardinality(B) =< k
<1> DEFINE f == [n \in B |-> Rank(P, n)]
<1>1. \A n \in B : Rank(P, n) \in 0..(k - 1)
  BY NodesFinite DEF Rank
<1>2. ASSUME NEW m \in B, NEW n \in B, m # n PROVE Rank(P, m) # Rank(P, n)
  <2>1. Before(m, n) \/ Before(n, m)
    BY <1>2, BeforeOrder
  <2>2. Rank(P, m) < Rank(P, n) \/ Rank(P, n) < Rank(P, m)
    BY <2>1, RankRises
  <2> QED
    BY <1>1, <2>2
<1>3. f \in Injection(B, 0..(k - 1))
  BY <1>1, <1>2 DEF Injection, IsInjective
<1>4. IsFiniteSet(0..(k - 1)) /\ Cardinality(0..(k - 1)) = k
  BY FS_Interval
<1>5. Cardinality(B) =< Cardinality(0..(k - 1))
  BY <1>3, <1>4, FS_Injection
<1> QED
  BY <1>4, <1>5

\* A set of nodes that is not empty has a first one.
LEMMA FirstNode ==
    ASSUME NEW P \in SUBSET Node, P # {}
    PROVE  \E n \in P : \A m \in P : ~Before(m, n)
<1> DEFINE T == {Rank(P, n) : n \in P}
<1>1. \A n \in P : Rank(P, n) \in Nat
  BY NodesFinite DEF Rank
<1>2. T \in SUBSET Nat /\ T # {}
  BY <1>1
<1>3. PICK x \in T : \A y \in T : x =< y
  BY <1>2, Least
<1>4. PICK n \in P : x = Rank(P, n)
  BY <1>3
<1>5. ASSUME NEW m \in P PROVE ~Before(m, n)
  <2>1. Rank(P, n) =< Rank(P, m)
    BY <1>3, <1>4
  <2> QED
    BY <1>1, <2>1, RankRises
<1> QED
  BY <1>5

-----------------------------------------------------------------------------
(* Groups.                                                                   *)

LEMMA GroupType ==
    ASSUME TypeOK
    PROVE  /\ Len(Order) \in Nat /\ Group = 1..Len(Order)
           /\ \A g \in Group : Concurrency(g) \in Nat \ {0}
           /\ \A g \in Group : NodesOf(g) \subseteq Node /\ NodesOf(g) \subseteq Covered
           /\ Covered \subseteq Node
<1>1. Order \in Seq(Name)
  <2>1. <<"controlPlane", "workers">> \in Seq(Name)
    BY DEF Name, Builtin
  <2> QED
    BY <2>1 DEF Order, TypeOK, IsSpec
<1>2. Len(Order) \in Nat /\ Group = 1..Len(Order)
  BY <1>1 DEF Group
<1>3. ASSUME NEW g \in Group PROVE Concurrency(g) \in Nat \ {0}
  <2>1. GroupSpecOf(Order[g]).concurrency \in Nat
    BY <1>1 DEF GroupSpecOf, TypeOK, IsSpec, GroupSpec
  <2> QED
    BY <2>1 DEF Concurrency
<1>4. \A g \in Group : NodesOf(g) \subseteq Node /\ NodesOf(g) \subseteq Covered
  BY DEF NodesOf, TypeOK, IsSpec, Covered
<1> QED
  BY <1>2, <1>3, <1>4 DEF Covered

\* A node is in one group.
LEMMA OneGroup ==
    ASSUME TypeOK, NEW g \in Group, NEW h \in Group, g # h
    PROVE  NodesOf(g) \cap NodesOf(h) = {}
BY GroupType DEF NodesOf

\* The groups are a matter of the spec alone.
LEMMA SameGroups ==
    ASSUME UNCHANGED spec
    PROVE  /\ Group' = Group /\ Covered' = Covered
           /\ \A g : NodesOf(g)' = NodesOf(g) /\ Concurrency(g)' = Concurrency(g)
           /\ InvalidStrategy' = InvalidStrategy /\ PreflightFailure' = PreflightFailure
BY DEF Group, Covered, NodesOf, Concurrency, InvalidStrategy, PreflightFailure, Order,
       GroupSpecOf, UnusableGroup, Matches, WorkerTooEarly, QuorumAtRisk, AtOnce, QuorumLimit

-----------------------------------------------------------------------------
(* The invariant.                                                            *)

\* What has passed its checks would pass them again.
Accepted == phase = "Passed" => ~InvalidStrategy /\ ~PreflightFailure

InRollout == \A n \in Node : job[n] # "none" => n \in Covered

WithinConcurrency == \A g \in Group : Cardinality(Running(g)) =< Concurrency(g)

\* A group has jobs only after the earlier ones have finished, until one is retried.
InOrder ==
    retries = 0 =>
        \A g, h \in Group :
            g < h /\ (\E n \in NodesOf(h) : job[n] # "none") => Finished(g)

IInv == TypeOK /\ Accepted /\ InRollout /\ WithinConcurrency /\ InOrder

LEMMA InitInv == Init => IInv
<1> SUFFICES ASSUME Init PROVE IInv
  OBVIOUS
<1>1. TypeOK
  BY SpecsAssumption, BoundsAssumption DEF Init, TypeOK, Started
<1>2. WithinConcurrency
  <2> SUFFICES ASSUME NEW g \in Group PROVE Cardinality(Running(g)) =< Concurrency(g)
    BY DEF WithinConcurrency
  <2>1. NodesOf(g) \subseteq Node /\ Concurrency(g) \in Nat
    BY <1>1, GroupType
  <2>2. Running(g) = {}
    BY <2>1 DEF Running, Init
  <2> QED
    BY <2>1, <2>2, FS_EmptySet
<1>3. InOrder
  <2>1. \A h \in Group : NodesOf(h) \subseteq Node
    BY <1>1, GroupType
  <2> QED
    BY <2>1 DEF InOrder, Init
<1> QED
  BY <1>1, <1>2, <1>3 DEF IInv, Accepted, InRollout, Init

\* The jobs of a group after a step that takes none of its nodes to "running".
LEMMA RunningFalls ==
    ASSUME TypeOK, UNCHANGED spec, NEW g \in Group,
           \A n \in NodesOf(g) : job'[n] = "running" => job[n] = "running",
           Cardinality(Running(g)) =< Concurrency(g)
    PROVE  (Cardinality(Running(g)) =< Concurrency(g))'
<1>1. Running(g)' \subseteq Running(g) /\ Running(g) \subseteq Node
  BY SameGroups, GroupType DEF Running
<1>2. Cardinality(Running(g)') =< Cardinality(Running(g))
  BY <1>1, Fewer
<1>3. Cardinality(Running(g)) \in Nat /\ Cardinality(Running(g)') \in Nat
  BY <1>1, NodesFinite
<1>4. Concurrency(g)' = Concurrency(g) /\ Concurrency(g) \in Nat
  BY SameGroups, GroupType
<1> QED
  BY <1>2, <1>3, <1>4

\* The strategy fails, or the preflight runs.
LEMMA CheckInv ==
    ASSUME IInv, FailInvalidStrategy \/ RunPreflight
    PROVE  IInv'
<1>1. UNCHANGED <<spec, job, retries>>
  BY DEF FailInvalidStrategy, RunPreflight
<1>2. Accepted'
  BY <1>1, SameGroups DEF IInv, Accepted, FailInvalidStrategy, RunPreflight
<1>3. TypeOK'
  <2>1. phase' \in {"New", "Failed", "Passed"}
    BY DEF FailInvalidStrategy, RunPreflight
  <2>2. ~Started
    BY DEF FailInvalidStrategy, RunPreflight, IInv, Accepted, TypeOK
  <2> QED
    BY <1>1, <2>1, <2>2 DEF IInv, TypeOK, IsSpec, Started
<1>4. InRollout'
  BY <1>1, SameGroups DEF IInv, InRollout
<1>5. WithinConcurrency'
  BY <1>1, SameGroups, RunningFalls DEF IInv, WithinConcurrency
<1>6. InOrder'
  BY <1>1, SameGroups DEF IInv, InOrder, Finished
<1> QED
  BY <1>2, <1>3, <1>4, <1>5, <1>6 DEF IInv

\* A round fills the free slots of the current group.
LEMMA ScheduleInv ==
    ASSUME IInv, NEW g \in Group, ScheduleNodes(g)
    PROVE  IInv'
<1> DEFINE batch == Batch(g)
<1>1. UNCHANGED <<spec, phase, retries>> /\ phase = "Passed" /\ IsCurrent(g)
  BY DEF ScheduleNodes
<1>2. /\ batch \subseteq Pending(g) /\ Pending(g) \subseteq NodesOf(g) /\ NodesOf(g) \subseteq Node
      /\ job' = [n \in Node |-> IF n \in batch THEN "running" ELSE job[n]]
  BY GroupType DEF Batch, Pending, ScheduleNodes, IInv
<1>3. TypeOK'
  BY <1>1, <1>2 DEF IInv, TypeOK, IsSpec, Started
<1>4. Accepted'
  BY <1>1, SameGroups DEF IInv, Accepted
<1>5. InRollout'
  BY <1>1, <1>2, SameGroups, GroupType DEF IInv, InRollout
<1>6. ASSUME NEW h \in Group, h # g PROVE \A n \in NodesOf(h) : job'[n] = job[n]
  <2>1. NodesOf(h) \subseteq Node /\ NodesOf(h) \cap NodesOf(g) = {}
    BY <1>6, OneGroup, GroupType DEF IInv
  <2> QED
    BY <1>2, <2>1
<1>7. WithinConcurrency'
  <2> SUFFICES ASSUME NEW h \in Group
               PROVE  (Cardinality(Running(h)) =< Concurrency(h))'
    BY <1>1, SameGroups DEF WithinConcurrency
  <2>1. CASE h # g
    BY <1>1, <1>6, <2>1, RunningFalls DEF IInv, WithinConcurrency
  <2>2. CASE h = g
    <3> DEFINE running == Cardinality(Running(g))
    <3>1. Running(g)' = Running(g) \cup batch
      BY <1>1, <1>2, SameGroups DEF Running
    <3>2. running \in Nat /\ Concurrency(g) \in Nat /\ running =< Concurrency(g)
      BY <1>2, NodesFinite, GroupType DEF Running, IInv, WithinConcurrency
    <3>3. \A n \in batch : Rank(Pending(g), n) < Concurrency(g) - running
      <4> SUFFICES ASSUME NEW n \in batch
                   PROVE  Rank(Pending(g), n) < Concurrency(g) - running
        OBVIOUS
      <4>1. Rank(Pending(g), n) + running < Concurrency(g)
        BY DEF Batch, Rank
      <4>2. Rank(Pending(g), n) \in Nat
        BY <1>2, NodesFinite DEF Rank
      <4> QED
        BY <3>2, <4>1, <4>2
    <3>4. Cardinality(batch) =< Concurrency(g) - running
      BY <1>2, <3>2, <3>3, FirstFew
    <3>5. Cardinality(Running(g) \cup batch) =< running + Cardinality(batch)
      <4>1. IsFiniteSet(Running(g)) /\ IsFiniteSet(batch) /\ Running(g) \cap batch = {}
        BY <1>2, NodesFinite DEF Running, Batch, Pending
      <4>2. /\ Cardinality(Running(g) \cap batch) = 0
            /\ Cardinality(Running(g) \cup batch) =
                 running + Cardinality(batch) - Cardinality(Running(g) \cap batch)
        BY <4>1, FS_EmptySet, FS_Union
      <4>3. Cardinality(batch) \in Nat
        BY <4>1, FS_CardinalityType
      <4> QED
        BY <3>2, <4>2, <4>3
    <3>6. Cardinality(batch) \in Nat /\ Cardinality(Running(g) \cup batch) \in Nat
      BY <1>2, NodesFinite DEF Running
    <3>7. Cardinality(Running(g) \cup batch) =< Concurrency(g)
      <4> HIDE DEF batch, running
      <4> QED
        BY <3>2, <3>4, <3>5, <3>6
    <3> QED
      BY <1>1, <2>2, <3>1, <3>7, SameGroups
  <2> QED
    BY <2>1, <2>2
<1>8. InOrder'
  <2> SUFFICES ASSUME retries = 0, NEW h \in Group, NEW k \in Group, h < k,
                      NEW n \in NodesOf(k), job'[n] # "none"
               PROVE  Finished(h)'
    BY <1>1, SameGroups DEF InOrder
  <2>1. Finished(h) /\ h # g
    <3>1. CASE k = g
      BY <1>1, <3>1, GroupType DEF IsCurrent, IInv
    <3>2. CASE k # g
      <4>1. job[n] # "none"
        BY <1>6, <3>2
      <4>2. Finished(h)
        BY <4>1 DEF IInv, InOrder
      <4> QED
        BY <1>1, <4>2 DEF IsCurrent
    <3> QED
      BY <3>1, <3>2
  <2> QED
    BY <1>1, <1>6, <2>1, SameGroups DEF Finished
<1> QED
  BY <1>3, <1>4, <1>5, <1>7, <1>8 DEF IInv

\* A job ends, or a user has its node retried.
LEMMA EnvironmentInv ==
    ASSUME IInv, NEW n \in Node, JobFinishes(n) \/ UserRetriesNode(n)
    PROVE  IInv'
<1>1. /\ UNCHANGED <<spec, phase>> /\ phase = "Passed" /\ job[n] \in {"running", "failed"}
      /\ job'[n] \in {"none", "completed", "failed"}
      /\ \A m \in Node \ {n} : job'[m] = job[m]
  BY DEF JobFinishes, UserRetriesNode, IInv, TypeOK, Started
<1>2. TypeOK'
  <2>1. job' \in [Node -> {"none", "running", "completed", "failed"}]
    BY DEF JobFinishes, UserRetriesNode, IInv, TypeOK
  <2>2. retries' \in 0..MaxRetries
    BY BoundsAssumption DEF JobFinishes, UserRetriesNode, IInv, TypeOK
  <2> QED
    BY <1>1, <2>1, <2>2 DEF IInv, TypeOK, IsSpec
<1>3. Accepted'
  BY <1>1, SameGroups DEF IInv, Accepted
<1>4. InRollout'
  BY <1>1, SameGroups DEF IInv, InRollout
<1>5. WithinConcurrency'
  <2> SUFFICES ASSUME NEW g \in Group
               PROVE  (Cardinality(Running(g)) =< Concurrency(g))'
    BY <1>1, SameGroups DEF WithinConcurrency
  <2>1. \A m \in NodesOf(g) : job'[m] = "running" => job[m] = "running"
    BY <1>1, GroupType DEF IInv
  <2> QED
    BY <1>1, <2>1, RunningFalls DEF IInv, WithinConcurrency
<1>6. InOrder'
  <2>1. CASE JobFinishes(n)
    <3> SUFFICES ASSUME retries = 0, NEW g \in Group, NEW h \in Group, g < h,
                        NEW m \in NodesOf(h), job'[m] # "none"
                 PROVE  Finished(g)'
      BY <1>1, <2>1, SameGroups DEF JobFinishes, InOrder
    <3>1. /\ \A l \in Node : job'[l] # "none" => job[l] # "none"
          /\ \A l \in Node : job[l] \in {"completed", "failed"}
                                => job'[l] \in {"completed", "failed"}
      BY <1>1, <2>1 DEF JobFinishes, IInv, TypeOK
    <3>2. Finished(g)
      BY <3>1, GroupType DEF IInv, InOrder
    <3> QED
      BY <1>1, <3>1, <3>2, SameGroups, GroupType DEF Finished, IInv
  <2>2. CASE UserRetriesNode(n)
    BY <2>2 DEF UserRetriesNode, InOrder, IInv, TypeOK
  <2> QED
    BY <2>1, <2>2
<1> QED
  BY <1>2, <1>3, <1>4, <1>5, <1>6 DEF IInv

LEMMA NextInv ==
    ASSUME IInv, [Next]_vars
    PROVE  IInv'
<1>1. CASE UNCHANGED vars
  <2>1. UNCHANGED <<spec, phase, job, retries>>
    BY <1>1 DEF vars
  <2>2. TypeOK'
    BY <2>1 DEF IInv, TypeOK, IsSpec, Started
  <2>3. Accepted' /\ InRollout'
    BY <2>1, SameGroups DEF IInv, Accepted, InRollout
  <2>4. WithinConcurrency'
    BY <2>1, SameGroups, RunningFalls DEF IInv, WithinConcurrency
  <2>5. InOrder'
    BY <2>1, SameGroups DEF IInv, InOrder, Finished
  <2> QED
    BY <2>2, <2>3, <2>4, <2>5 DEF IInv
<1> QED
  BY <1>1, CheckInv, ScheduleInv, EnvironmentInv DEF Next

\* What a rollout keeps to between its checks and its last job: it is one the preflight
\* would accept, a group holds no more nodes than its concurrency, and until a node is
\* retried no group has jobs before the earlier ones have finished (scheduleNodes).
THEOREM Invariance == Spec => []IInv
BY InitInv, NextInv, PTL DEF Spec

-----------------------------------------------------------------------------
(* What a strategy promises.                                                 *)

\* Every variable has its type, and only a plan that passed its checks has jobs, whatever
\* spec a user writes (Resolve, ensurePreflight).
THEOREM TypeCorrect == Spec => []TypeOK
<1>1. IInv => TypeOK
  BY DEF IInv
<1> QED
  BY <1>1, Invariance, PTL

Kept(d) == d =< 1 \/ 2 * d < Cardinality(ControlPlane)

\* What checkControlPlaneQuorum has computed for a group bounds what the group takes down.
LEMMA GroupKept ==
    ASSUME IInv, phase = "Passed", NEW g \in Group
    PROVE  Kept(Down(NodesOf(g)))
<1> DEFINE cp   == NodesOf(g) \cap ControlPlane
           down == {n \in cp : job[n] = "running"}
           all  == Covered \cap ControlPlane
<1>1. NodesOf(g) \subseteq Node /\ Covered \subseteq Node /\ Concurrency(g) \in Nat \ {0}
  BY GroupType DEF IInv
<1>2. down \subseteq cp /\ down \subseteq Running(g) /\ Running(g) \subseteq Node
  BY <1>1 DEF Running
<1>3. all \subseteq ControlPlane /\ ControlPlane \subseteq Node
  BY NodesAssumption
<1>4. /\ Cardinality(down) \in Nat /\ Cardinality(cp) \in Nat /\ Cardinality(all) \in Nat
      /\ Cardinality(Running(g)) \in Nat /\ Cardinality(ControlPlane) \in Nat
  BY <1>1, <1>2, <1>3, NodesFinite
<1>5. /\ Cardinality(down) =< Cardinality(cp)
      /\ Cardinality(down) =< Cardinality(Running(g))
      /\ Cardinality(all) =< Cardinality(ControlPlane)
  BY <1>1, <1>2, <1>3, Fewer
<1>6. Cardinality(Running(g)) =< Concurrency(g)
  BY DEF IInv, WithinConcurrency
<1>7. AtOnce(g) = IF Concurrency(g) < Cardinality(cp) THEN Concurrency(g) ELSE Cardinality(cp)
  BY DEF AtOnce
<1>8. AtOnce(g) =< 1 \/ ~(AtOnce(g) >= (Cardinality(all) + 1) \div 2)
  <2>1. AtOnce(g) \in Nat
    BY <1>1, <1>4, <1>7
  <2>2. ~QuorumAtRisk
    BY DEF IInv, Accepted, PreflightFailure
  <2> QED
    BY <2>1, <2>2 DEF QuorumAtRisk, QuorumLimit
<1>9. Down(NodesOf(g)) = Cardinality(down)
  BY DEF Down
<1> HIDE DEF cp, down, all
<1>10. Cardinality(down) =< AtOnce(g) /\ AtOnce(g) \in Nat
  BY <1>1, <1>4, <1>5, <1>6, <1>7
<1>11. CASE AtOnce(g) =< 1
  BY <1>4, <1>9, <1>10, <1>11 DEF Kept
<1>12. CASE AtOnce(g) < (Cardinality(all) + 1) \div 2
  <2>1. 2 * AtOnce(g) < Cardinality(all)
    BY <1>4, <1>10, <1>12
  <2> QED
    BY <1>4, <1>5, <1>9, <1>10, <2>1 DEF Kept
<1> QED
  BY <1>4, <1>8, <1>10, <1>11, <1>12

\* Without a retry the running nodes are those of one group.
LEMMA ClusterKept ==
    ASSUME IInv, phase = "Passed", retries = 0
    PROVE  Kept(Down(Node))
<1> DEFINE down == {n \in Node \cap ControlPlane : job[n] = "running"}
<1>1. Down(Node) = Cardinality(down)
  BY DEF Down
<1>2. CASE down = {}
  BY <1>1, <1>2, FS_EmptySet DEF Kept
<1>3. ASSUME NEW n \in down PROVE Kept(Down(Node))
  <2>1. PICK g \in Group : n \in NodesOf(g)
    BY DEF IInv, InRollout, Covered
  <2>2. ASSUME NEW m \in down PROVE m \in NodesOf(g)
    <3>1. PICK h \in Group : m \in NodesOf(h)
      BY DEF IInv, InRollout, Covered
    <3>2. ~Finished(g) /\ ~Finished(h)
      BY <2>1, <3>1 DEF Finished
    <3>3. ~(g < h) /\ ~(h < g)
      BY <2>1, <3>1, <3>2 DEF IInv, InOrder
    <3>4. g \in Int /\ h \in Int
      BY GroupType DEF IInv
    <3> QED
      BY <3>1, <3>3, <3>4
  <2>3. down = {m \in NodesOf(g) \cap ControlPlane : job[m] = "running"}
    BY <2>2, GroupType DEF IInv
  <2> QED
    BY <1>1, <2>3, GroupKept DEF Down
<1> QED
  BY <1>2, <1>3

\* The preflight looks at one group at a time, and at the nodes of the rollout only
\* (checkControlPlaneQuorum): this keeps the quorum of any cluster, for any groups.
THEOREM QuorumHolds == Spec => []QuorumKept
<1>1. IInv => QuorumKept
  BY GroupKept, ClusterKept DEF QuorumKept, Kept
<1> QED
  BY <1>1, Invariance, PTL

\* A group is current when it has work left and every earlier one has finished.
LEMMA CurrentGroup ==
    ASSUME IInv, \A n \in Node : job[n] \notin {"running", "failed"},
           NEW m \in Covered, job[m] = "none"
    PROVE  \E g \in Group : IsCurrent(g) /\ Pending(g) # {}
<1> DEFINE T == {g \in Group : Pending(g) # {}}
<1>1. T \in SUBSET Nat /\ T # {}
  BY GroupType DEF Covered, Pending, IInv
<1>2. PICK g \in T : \A h \in T : g =< h
  BY <1>1, Least
<1>3. ASSUME NEW h \in 1..(g - 1) PROVE Finished(h)
  <2>1. h \in Group /\ h \notin T
    BY <1>2, <1>3, GroupType DEF IInv
  <2>2. Pending(h) = {} /\ NodesOf(h) \subseteq Node
    BY <2>1, GroupType DEF IInv
  <2> QED
    BY <2>2 DEF Finished, Pending, IInv, TypeOK
<1>4. ~Finished(g)
  BY <1>2 DEF Finished, Pending
<1> QED
  BY <1>2, <1>3, <1>4 DEF IsCurrent

\* waitForControlPlane never waits for a node that is scheduled later (checkUpgradeOrder):
\* whatever groups were accepted, a rollout in which nothing runs or has failed goes on.
THEOREM NothingStuck == Spec => []NeverStuck
<1>1. ASSUME IInv, phase = "Passed", \A n \in Node : job[n] \notin {"running", "failed"},
             NEW m \in Covered, job[m] = "none"
      PROVE  \E g \in Group : IsCurrent(g) /\ Batch(g) # {}
  <2>1. PICK g \in Group : IsCurrent(g) /\ Pending(g) # {}
    BY <1>1, CurrentGroup
  <2>2. Pending(g) \subseteq NodesOf(g) /\ NodesOf(g) \subseteq Node /\ Concurrency(g) \in Nat \ {0}
    BY <1>1, GroupType DEF Pending, IInv
  <2>3. PICK n \in Pending(g) : \A l \in Pending(g) : ~Before(l, n)
    BY <2>1, <2>2, FirstNode
  <2>4. Cardinality({l \in Pending(g) : Before(l, n)}) + Cardinality(Running(g)) < Concurrency(g)
    <3>1. {l \in Pending(g) : Before(l, n)} = {} /\ Running(g) = {}
      BY <1>1, <2>2, <2>3 DEF Running
    <3> QED
      BY <2>2, <3>1, FS_EmptySet
  <2>5. ~Blocked(n)
    <3> SUFFICES ASSUME spec.kubernetes, n \notin ControlPlane, NEW c \in Covered \cap ControlPlane
                 PROVE  job[c] = "completed"
      BY DEF Blocked
    <3>1. PICK h \in Group : c \in NodesOf(h)
      BY DEF Covered
    <3>2. ~WorkerTooEarly
      BY <1>1 DEF IInv, Accepted, PreflightFailure
    <3>3. ~(g =< h)
      BY <2>2, <3>1, <3>2 DEF WorkerTooEarly
    <3>4. h \in 1..(g - 1)
      BY <1>1, <3>3, GroupType DEF IInv
    <3>5. job[c] \in {"completed", "failed"} /\ c \in Node
      BY <1>1, <2>1, <3>1, <3>4, GroupType DEF IsCurrent, Finished, IInv
    <3> QED
      BY <1>1, <3>5
  <2>6. n \in Batch(g)
    BY <2>3, <2>4, <2>5 DEF Batch
  <2> QED
    BY <2>1, <2>6
<1>2. IInv => NeverStuck
  BY <1>1 DEF NeverStuck
<1> QED
  BY <1>2, Invariance, PTL

\* A selected node that a listed group matches is in that group or in an earlier one.
LEMMA ListedEarly ==
    ASSUME IInv, NEW h \in Group, NEW m, Listed(h, m)
    PROVE  \E k \in Group : k =< h /\ m \in NodesOf(k)
<1> DEFINE T == {k \in Group : Matches(Order[k], m)}
<1>1. T \in SUBSET Nat /\ h \in T
  BY GroupType DEF IInv, Listed
<1>2. PICK k \in T : \A l \in T : k =< l
  BY <1>1, Least
<1>3. \A l \in 1..(k - 1) : ~Matches(Order[l], m)
  BY <1>2, GroupType DEF IInv
<1> QED
  BY <1>1, <1>2, <1>3 DEF NodesOf, Listed

\* "The first listed group a node matches schedules it" (Resolve): whatever groups overlap,
\* a node starts after all that an earlier listed group matches.
THEOREM OrderHolds == Spec => StartsInOrder
<1> DEFINE Step ==
      \A n \in Node : job[n] = "none" /\ job'[n] = "running" =>
          \E g \in Group :
              /\ Listed(g, n)
              /\ \A h \in 1..(g - 1), m \in Node :
                     Listed(h, m) => job[m] \in {"completed", "failed"}
<1>1. ASSUME IInv, Next PROVE Step
  <2> SUFFICES ASSUME NEW n \in Node, job[n] = "none", job'[n] = "running"
               PROVE  \E g \in Group :
                        /\ Listed(g, n)
                        /\ \A h \in 1..(g - 1), m \in Node :
                             Listed(h, m) => job[m] \in {"completed", "failed"}
    OBVIOUS
  <2>1. PICK g \in Group : ScheduleNodes(g)
    BY <1>1 DEF Next, FailInvalidStrategy, RunPreflight, JobFinishes, UserRetriesNode, IInv, TypeOK
  <2>2. Listed(g, n)
    BY <2>1 DEF ScheduleNodes, Batch, Pending, NodesOf, Listed
  <2>3. ASSUME NEW h \in 1..(g - 1), NEW m \in Node, Listed(h, m)
        PROVE  job[m] \in {"completed", "failed"}
    <3>1. h \in Group /\ g \in Nat
      BY <1>1, GroupType DEF IInv
    <3>2. PICK k \in Group : k =< h /\ m \in NodesOf(k)
      BY <1>1, <2>3, <3>1, ListedEarly
    <3>3. k \in 1..(g - 1)
      BY <1>1, <3>1, <3>2, GroupType DEF IInv
    <3>4. Finished(k)
      BY <2>1, <3>3 DEF ScheduleNodes, IsCurrent
    <3> QED
      BY <3>2, <3>4 DEF Finished
  <2> QED
    BY <2>2, <2>3
<1>2. IInv /\ [Next]_vars => [Step]_vars
  BY <1>1
<1> QED
  BY <1>2, Invariance, PTL DEF Spec, StartsInOrder
=============================================================================
