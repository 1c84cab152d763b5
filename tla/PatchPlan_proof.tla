--------------------------- MODULE PatchPlan_proof ---------------------------
(***************************************************************************)
(* Theorems about the PatchPlan controller, for every number of nodes, every *)
(* assignment to groups, every concurrency and every bound.                  *)
(***************************************************************************)
EXTENDS PatchPlan, FiniteSetTheorems, TLAPS

-----------------------------------------------------------------------------
(* Counting nodes.                                                           *)

\* Node is finite, and so is every set of nodes a round counts.
LEMMA NodesFinite ==
    ASSUME NEW S \in SUBSET Node
    PROVE  IsFiniteSet(S) /\ Cardinality(S) \in Nat
<1>1. IsFiniteSet(Node)
  BY FS_Interval, SizesAssumption DEF Node
<1>2. IsFiniteSet(S)
  BY <1>1, FS_Subset
<1> QED
  BY <1>2, FS_CardinalityType

\* summarize fills a tally of natural numbers for every group.
LEMMA SummaryType == Summary \in [Group -> Tally]
<1>1. ASSUME NEW g \in Group, NEW state PROVE CountIn(g, state) \in Nat
  BY NodesFinite DEF CountIn, NodesOf
<1> QED
  BY <1>1 DEF Summary, Tally

-----------------------------------------------------------------------------
(* Type correctness.                                                         *)

\* A merge patch of a well-formed status gives a well-formed plan.
LEMMA PatchStatusType ==
    ASSUME plan \in Plan, local \in Plan, NEW new \in Plan, PatchStatus(new)
    PROVE  plan' \in Plan
BY DEF PatchStatus, Merge, Plan

\* The plan as the API server stores it before the first round.
LEMMA NewPlanType == NewPlan \in Plan
BY DEF NewPlan, Plan, Tally, Phase, CompletionTime

LEMMA InitType == Init => TypeOK
<1> SUFFICES ASSUME Init PROVE TypeOK
  OBVIOUS
<1>1. plan \in Plan /\ seen \in Plan /\ local \in Plan
  BY NewPlanType DEF Init
<1> QED
  BY <1>1, BoundsAssumption DEF Init, TypeOK, JobState, LeaseState, Positions, Terminal

\* The rounds' copies and counters that several steps below need.
LEMMA AckAfterType == ASSUME local \in Plan PROVE AckAfter(local) \in Nat
BY NodesFinite DEF AckAfter, FailedNodes, Plan
\* What a step of the round leaves in pc, local and todo.
LEMMA EndRoundType ==
    ASSUME EndRound PROVE pc' \in Positions /\ local' \in Plan /\ todo' \in SUBSET Node
BY NewPlanType DEF EndRound, Positions

LEMMA EndInType ==
    ASSUME plan \in Plan, local \in Plan, NEW new \in Plan, NEW phase, EndIn(phase, new)
    PROVE  plan' \in Plan /\ pc' \in Positions /\ local' \in Plan /\ todo' \in SUBSET Node
BY PatchStatusType, EndRoundType DEF EndIn

LEMMA ContinueType ==
    ASSUME plan' \in Plan, todo \in SUBSET Node, NEW position \in Positions, Continue(position)
    PROVE  pc' \in Positions /\ local' \in Plan /\ todo' \in SUBSET Node
BY DEF Continue

\* The fields a round changes in its copy before it patches the difference.
LEMMA EditType ==
    ASSUME local \in Plan
    PROVE  /\ \A phase \in Phase : [local EXCEPT !.phase = phase] \in Plan
           /\ \A phase \in Phase, ct \in CompletionTime :
                 [local EXCEPT !.phase = phase, !.ct = ct] \in Plan
           /\ \A phase \in Phase, ack \in Nat :
                 [local EXCEPT !.phase = phase, !.ack = ack] \in Plan
           /\ \A phase \in Phase, checked \in Nat :
                 [local EXCEPT !.phase = phase, !.checked = checked] \in Plan
           /\ \A counts \in [Group -> Tally], ack \in Nat :
                 [local EXCEPT !.counts = counts, !.ack = ack] \in Plan
           /\ [local EXCEPT !.proxied = TRUE] \in Plan
           /\ [local EXCEPT !.purged = TRUE] \in Plan
BY DEF Plan

\* A step that writes the status and goes on, or ends the round.
LEMMA WriteType ==
    ASSUME TypeOK, NEW new \in Plan, PatchStatus(new),
           UNCHANGED <<seen, jobVars, leases, proxy, retries, aborts>>,
           accepted' \in SUBSET Node,
           EndRound \/ \E position \in Positions : Continue(position)
    PROVE  TypeOK'
<1>1. plan' \in Plan
  BY PatchStatusType DEF TypeOK
<1>2. pc' \in Positions /\ local' \in Plan /\ todo' \in SUBSET Node
  BY <1>1, EndRoundType, ContinueType DEF TypeOK
<1> QED
  BY <1>1, <1>2 DEF TypeOK, jobVars

\* A step that only ends the round.
LEMMA StopType ==
    ASSUME TypeOK, EndRound,
           UNCHANGED <<planVars, jobVars, leases, retries, accepted>>,
           proxy' \in {"old", "rolling", "ready", "absent"}, aborts' \in 0..MaxAborts
    PROVE  TypeOK'
BY EndRoundType DEF TypeOK, planVars, jobVars
\* A user, or the failure policy, changes the switches of the spec.
LEMMA SpecEditType ==
    ASSUME plan \in Plan
    PROVE  /\ \A b \in BOOLEAN : [plan EXCEPT !.paused = b, !.gen = @ + 1] \in Plan
           /\ \A b \in BOOLEAN : [plan EXCEPT !.cancelled = b, !.gen = @ + 1] \in Plan
           /\ [plan EXCEPT !.paused = TRUE, !.gen = IF plan.paused THEN @ ELSE @ + 1] \in Plan
<1>1. /\ plan.gen \in Nat /\ plan.gen + 1 \in Nat
      /\ (IF plan.paused THEN plan.gen ELSE plan.gen + 1) \in Nat
  BY DEF Plan
<1>2. \A b \in BOOLEAN, gen \in Nat :
        /\ [plan EXCEPT !.paused = b, !.gen = gen] \in Plan
        /\ [plan EXCEPT !.cancelled = b, !.gen = gen] \in Plan
  BY DEF Plan
<1> QED
  BY <1>1, <1>2

\* A job that is removed leaves a deletion event and an orphaned Lease.
LEMMA RemoveJobType ==
    ASSUME TypeOK, NEW n \in Node, RemoveJob(n)
    PROVE  /\ jobs' \in [Node -> JobState] /\ events' \in Seq(Event)
           /\ leases' \in [Node -> LeaseState]
<1>1. jobs' \in [Node -> JobState]
  BY DEF TypeOK, RemoveJob, JobState
<1>2. leases' \in [Node -> LeaseState]
  BY DEF TypeOK, RemoveJob, LeaseState
<1>3. [node |-> n, state |-> "none"] \in Event
  BY DEF Event, JobState
<1>4. events' \in Seq(Event)
  BY <1>3 DEF TypeOK, RemoveJob
<1> QED
  BY <1>1, <1>2, <1>4

\* Every step of a round keeps the types.
LEMMA RoundType == ASSUME TypeOK, Round PROVE TypeOK'
<1> USE DEF TypeOK, planVars, jobVars, roundVars
<1>0. local \in Plan /\ Cardinality(FailedNodes) \in Nat
  BY NodesFinite DEF FailedNodes
<1>e. /\ Phase = {"New", "Pending", "Preflighting", "InProgress", "Paused",
                  "Cancelled", "Completed", "Failed"}
      /\ CompletionTime = {"none", "recent", "due", "old"}
      /\ Positions = {"idle", "purge", "leases", "summary", "control", "preflight", "checks",
                      "proxy", "decide", "pause", "create", "lease"}
  BY DEF Phase, CompletionTime, Positions
<1>1. CASE PurgeJob
  <2>1. PICK n \in Node : RemoveJob(n) /\ todo' = todo \ {n}
    BY <1>1 DEF PurgeJob
  <2> QED
    BY <1>1, <2>1, RemoveJobType DEF PurgeJob
<1>2. CASE MarkPurged
  BY <1>0, <1>2, EditType, WriteType DEF MarkPurged
<1>3. CASE SyncLeases
  BY <1>3, <1>e DEF SyncLeases, Synced, Acquired, LeaseState
<1>4. CASE Summarize
  <2>1. [local EXCEPT !.counts = Summary, !.ack = AckAfter(local)] \in Plan
    BY <1>0, EditType, SummaryType, AckAfterType
  <2>2. CASE UNCHANGED <<plan, local, todo>> /\ pc' = "control"
    BY <1>4, <1>e, <2>2 DEF Summarize
  <2>3. CASE PatchStatus([local EXCEPT !.counts = Summary, !.ack = AckAfter(local)])
             /\ Continue("control")
    BY <1>4, <1>e, <2>1, <2>3, WriteType DEF Summarize
  <2> QED
    BY <1>4, <2>2, <2>3 DEF Summarize
<1>5. CASE Cancel
  BY <1>0, <1>5, <1>e, EditType, EndInType DEF Cancel
<1>6. CASE Pause
  BY <1>0, <1>6, <1>e, EditType, EndInType DEF Pause
<1>7. CASE Resume
  <2>1. /\ [local EXCEPT !.phase = "InProgress", !.ack = Cardinality(FailedNodes)] \in Plan
        /\ [local EXCEPT !.phase = "InProgress"] \in Plan
    BY <1>0, <1>e, EditType
  <2>2. accepted' \in SUBSET Node /\ "preflight" \in Positions
    BY <1>7, <1>e DEF Resume, FailedNodes
  <2> QED
    BY <1>7, <2>1, <2>2, WriteType DEF Resume
<1>8. CASE StartPreflight
  BY <1>0, <1>8, <1>e, EditType, WriteType DEF StartPreflight
<1>9. CASE PreflightPasses
  <2>1. local.gen \in Nat
    BY <1>0 DEF Plan
  <2>2. [local EXCEPT !.phase = "Pending", !.checked = local.gen] \in Plan
    BY <1>0, <1>e, <2>1, EditType
  <2> QED
    BY <1>9, <1>e, <2>2, WriteType DEF PreflightPasses
<1>10. CASE PreflightFails
  BY <1>0, <1>10, <1>e, EditType, WriteType DEF PreflightFails
<1>11. CASE PatchKubeProxy
  BY <1>11, StopType DEF PatchKubeProxy
<1>12. CASE WaitForKubeProxy
  BY <1>12, StopType DEF WaitForKubeProxy
<1>13. CASE KubeProxyUpgraded
  BY <1>0, <1>13, <1>e, EditType, WriteType DEF KubeProxyUpgraded
<1>14. CASE PauseOnFailures
  <2>1. plan' \in Plan
    BY <1>14, SpecEditType DEF PauseOnFailures
  <2> QED
    BY <1>14, <1>e, <2>1, ContinueType DEF PauseOnFailures
<1>15. CASE RecordPause
  BY <1>0, <1>15, <1>e, EditType, WriteType DEF RecordPause
<1>16. CASE Halt
  BY <1>0, <1>16, <1>e, EditType, EndInType DEF Halt
<1>17. CASE Complete
  BY <1>0, <1>17, <1>e, EditType, EndInType DEF Complete
<1>18. CASE HoldOff \/ WaitForSlot \/ StopAtWorker
  BY <1>18, StopType DEF HoldOff, WaitForSlot, StopAtWorker
<1>19. CASE MarkInProgress
  <2>1. todo' \in SUBSET Node /\ pc' \in Positions
    BY <1>19, <1>e DEF MarkInProgress, Batch, Pending, NodesOf
  <2>2. plan' \in Plan /\ local' \in Plan
    BY <1>0, <1>19, <1>e, EditType, PatchStatusType DEF MarkInProgress
  <2> QED
    BY <1>19, <2>1, <2>2 DEF MarkInProgress
<1>20. CASE JobAlreadyExists \/ AcquireLease
  <2>1. /\ pc' \in Positions /\ local' \in Plan /\ todo' \in SUBSET Node
        /\ leases' \in [Node -> LeaseState]
    BY <1>20, <1>e, EndRoundType
       DEF JobAlreadyExists, AcquireLease, DoneWith, Acquired, LeaseState
  <2> QED
    BY <1>20, <2>1 DEF JobAlreadyExists, AcquireLease
<1>21. CASE CreatePatchJob
  BY <1>21, <1>e DEF CreatePatchJob, JobState, Event
<1> QED
  BY <1>1, <1>2, <1>3, <1>4, <1>5, <1>6, <1>7, <1>8, <1>9, <1>10, <1>11, <1>12, <1>13,
     <1>14, <1>15, <1>16, <1>17, <1>18, <1>19, <1>20, <1>21 DEF Round

\* A round starts with the cached copy of the plan.
LEMMA CachedType == ASSUME TypeOK PROVE Cached \in Plan
BY DEF TypeOK, Cached

LEMMA ReconcileType == ASSUME TypeOK, Reconcile PROVE TypeOK'
<1>1. local' \in Plan
  BY CachedType DEF Reconcile
<1>2. pc' \in Positions /\ todo' \in SUBSET Node
  BY DEF Reconcile, Positions
<1> QED
  BY <1>1, <1>2 DEF TypeOK, Reconcile, planVars, jobVars

LEMMA FailureType == ASSUME TypeOK, Abort \/ SyncSomeLeases PROVE TypeOK'
<1>1. aborts' \in 0..MaxAborts
  BY BoundsAssumption DEF TypeOK, Abort, SyncSomeLeases
<1>2. CASE Abort
  BY <1>1, <1>2, StopType DEF Abort, TypeOK
<1>3. CASE SyncSomeLeases
  <2>1. leases' \in [Node -> LeaseState]
    BY <1>3 DEF TypeOK, SyncSomeLeases, Synced, Acquired, LeaseState
  <2>2. pc' \in Positions /\ local' \in Plan /\ todo' \in SUBSET Node
    BY <1>3, EndRoundType DEF SyncSomeLeases
  <2> QED
    BY <1>1, <1>3, <2>1, <2>2 DEF TypeOK, SyncSomeLeases, planVars, jobVars
<1> QED
  BY <1>2, <1>3

LEMMA EnvironmentType == ASSUME TypeOK, Environment PROVE TypeOK'
<1> USE DEF TypeOK, planVars, jobVars, roundVars
<1>1. ASSUME NEW n \in Node, JobFinishes(n) PROVE TypeOK'
  <2>1. PICK outcome \in Terminal :
          /\ jobs' = [jobs EXCEPT ![n] = outcome]
          /\ events' = Append(events, [node |-> n, state |-> outcome])
    BY <1>1 DEF JobFinishes
  <2>2. outcome \in JobState /\ [node |-> n, state |-> outcome] \in Event
    BY DEF JobState, Event
  <2> QED
    BY <1>1, <2>1, <2>2 DEF JobFinishes
<1>2. ASSUME NEW n \in Node, CollectLease(n) PROVE TypeOK'
  BY <1>2 DEF CollectLease, LeaseState
<1>3. ASSUME NEW n \in Node, UserRetriesNode(n) PROVE TypeOK'
  <2>1. retries' \in 0..MaxRetries
    BY <1>3, BoundsAssumption DEF UserRetriesNode
  <2> QED
    BY <1>3, <2>1, RemoveJobType DEF UserRetriesNode
<1>4. CASE DeliverJobEvent
  <2>1. Head(events) \in Event /\ Tail(events) \in Seq(Event)
    BY <1>4 DEF DeliverJobEvent
  <2>2. view' \in [Node -> JobState] /\ accepted' \in SUBSET Node
    BY <1>4, <2>1 DEF DeliverJobEvent, Event
  <2> QED
    BY <1>4, <2>1, <2>2 DEF DeliverJobEvent
<1>5. CASE DeliverPlan
  BY <1>5 DEF DeliverPlan
<1>6. CASE KubeProxyRollsOut
  BY <1>6 DEF KubeProxyRollsOut
<1>7. CASE UserEditsSpec
  <2>1. plan' \in Plan
    BY <1>7, SpecEditType DEF UserEditsSpec, Plan
  <2> QED
    BY <1>7, <2>1 DEF UserEditsSpec
<1>8. CASE RetentionNears
  <2>1. plan' \in Plan
    BY <1>8 DEF RetentionNears, Plan, CompletionTime
  <2> QED
    BY <1>8, <2>1 DEF RetentionNears
<1>9. CASE RetentionExpires
  <2>1. ASSUME NEW p \in Plan PROVE Expire(p) \in Plan
    BY DEF Expire, Plan, CompletionTime
  <2> QED
    BY <1>9, <2>1 DEF RetentionExpires
<1> QED
  BY <1>1, <1>2, <1>3, <1>4, <1>5, <1>6, <1>7, <1>8, <1>9 DEF Environment

\* Every step keeps the types, whoever takes it.
LEMMA StepType == ASSUME TypeOK, [Next]_vars PROVE TypeOK'
<1>1. CASE UNCHANGED vars
  BY <1>1 DEF TypeOK, vars
<1> QED
  BY <1>1, ReconcileType, RoundType, FailureType, EnvironmentType DEF Next

\* The variables keep their shape in every interleaving of the reconciler, the
\* informers, the PatchJobs and the user.
THEOREM TypeCorrect == Spec => []TypeOK
<1> QED
  BY InitType, StepType, PTL DEF Spec

-----------------------------------------------------------------------------
(* Concurrency and group order, as long as no PatchJob is deleted.           *)

\* Two sets of nodes together have at most as many as one after the other.
LEMMA CountUnion ==
    ASSUME NEW S \in SUBSET Node, NEW T \in SUBSET Node, NEW U \in SUBSET (S \cup T)
    PROVE  Cardinality(U) =< Cardinality(S) + Cardinality(T)
<1>1. IsFiniteSet(S) /\ IsFiniteSet(T) /\ IsFiniteSet(S \cup T) /\ IsFiniteSet(S \cap T)
  BY NodesFinite
<1>2. Cardinality(S \cup T) = Cardinality(S) + Cardinality(T) - Cardinality(S \cap T)
  BY <1>1, FS_Union
<1>3. Cardinality(U) =< Cardinality(S \cup T)
  BY <1>1, FS_Subset
<1> QED
  BY <1>2, <1>3, NodesFinite

\* A smaller set of nodes has no more of them.
LEMMA CountSubset ==
    ASSUME NEW S \in SUBSET Node, NEW T \in SUBSET S
    PROVE  Cardinality(T) =< Cardinality(S)
BY NodesFinite, FS_Subset

\* One more node counts one at most.
LEMMA CountOneMore ==
    ASSUME NEW S \in SUBSET Node, NEW n \in Node
    PROVE  Cardinality(S \cup {n}) =< Cardinality(S) + 1
<1>1. Cardinality({n}) = 1
  BY FS_Singleton
<1> QED
  BY <1>1, CountUnion

LEMMA InitRollout == Init => RolloutInv
<1> SUFFICES ASSUME Init PROVE RolloutInv
  OBVIOUS
<1>1. NeverDue
  BY DEF Init, NeverDue, NewPlan
<1>2. ViewSound /\ EventsSound /\ CreatedInOrder /\ GroupsInOrder
  BY GroupsAssumption DEF Init, ViewSound, EventsSound, Sound, CreatedInOrder, GroupsInOrder, Terminal
<1>3. BatchFits /\ JobBeforeLease
  BY DEF Init, BatchFits, JobBeforeLease
<1>4. ConcurrencyBound
  <2>1. ASSUME NEW g \in Group
        PROVE  Cardinality({n \in NodesOf(g) : jobs[n] = "running"}) =< Concurrency[g]
    <3>1. {n \in NodesOf(g) : jobs[n] = "running"} = {}
      BY DEF Init, NodesOf
    <3> QED
      BY <3>1, FS_EmptySet, GroupsAssumption
  <2> QED
    BY <2>1 DEF ConcurrencyBound
<1> QED
  BY <1>1, <1>2, <1>3, <1>4 DEF RolloutInv

\* Rollout counts with its own instance of FiniteSets.
LEMMA SameCardinality == \A S : R!Cardinality(S) = Cardinality(S)
BY DEF R!Cardinality, Cardinality

\* A round that is about to create a job does so where Rollout allows it: the
\* nodes that run are among those it counted and those it just created jobs for.
LEMMA Room ==
    ASSUME TypeOK, RolloutInv, pc = "create",
           NEW n \in Node, IsNext(n), ~Blocked(n), jobs[n] = "none"
    PROVE  R!MayStart(n)
<1>1. PICK g \in Group : BatchOf(g)
  BY DEF RolloutInv, BatchFits
<1>2. n \in Pending(g) /\ GroupOf[n] = g
  BY <1>1 DEF BatchOf, IsNext, Pending, NodesOf
<1>3. \A m \in Node : GroupOf[m] < g => jobs[m] \in Terminal
  BY <1>1, GroupsAssumption DEF BatchOf, Finished, NodesOf, RolloutInv, ViewSound, Sound, Group
<1>4. KubernetesTarget /\ n \notin ControlPlane => \A c \in ControlPlane : jobs[c] = "completed"
  BY TargetAssumption DEF Blocked, AllCompleted, RolloutInv, ViewSound, Sound, Terminal
<1>5. Cardinality(R!Running(g)) < Concurrency[g]
  <2> DEFINE before == {m \in Pending(g) : m < n}
  <2>1. ASSUME NEW m \in R!Running(g) PROVE m \in before \cup Active(g)
    <3>1. m \in Node /\ GroupOf[m] = g /\ jobs[m] = "running"
      BY <2>1 DEF R!Running
    <3>2. view[m] \notin Terminal
      BY <3>1 DEF RolloutInv, ViewSound, Sound, Terminal
    <3>3. m < n
      BY <1>2, <3>1 DEF RolloutInv, CreatedInOrder, Node
    <3> QED
      BY <3>1, <3>2, <3>3 DEF Active, Pending, NodesOf, TypeOK, JobState
  <2>2. before \in SUBSET Node /\ Active(g) \in SUBSET Node
    BY DEF Pending, Active, NodesOf
  <2>3. Cardinality(R!Running(g)) =< Cardinality(before) + Cardinality(Active(g))
    BY <2>1, <2>2, CountUnion
  <2>4. Cardinality(before) + Cardinality(Active(g)) < Concurrency[g]
    BY <1>1 DEF BatchOf, IsNext
  <2>5. R!Running(g) \in SUBSET Node
    BY DEF R!Running
  <2> QED
    BY <2>2, <2>3, <2>4, <2>5, NodesFinite, GroupsAssumption
<1> QED
  BY <1>2, <1>3, <1>4, <1>5, SameCardinality DEF R!MayStart, Terminal

\* The history of a plan never becomes due if nothing lets time pass that far.
LEMMA NeverDueStep ==
    ASSUME TypeOK, NeverDue, ~Retention, [Next]_vars
    PROVE  NeverDue'
<1> USE DEF NeverDue
<1> DEFINE Young == {"none", "recent"}
<1>1. ASSUME NEW new, PatchStatus(new), new.ct \in Young PROVE plan'.ct \in Young
  BY <1>1 DEF PatchStatus, Merge, TypeOK, Plan
<1>2. ASSUME EndRound PROVE pc' # "purge" /\ local'.ct \in Young
  BY <1>2 DEF EndRound, NewPlan
<1>3. ASSUME NEW phase, NEW new, EndIn(phase, new), new.ct \in Young
      PROVE  pc' # "purge" /\ local'.ct \in Young /\ plan'.ct \in Young
  BY <1>1, <1>2, <1>3 DEF EndIn
<1>4. ASSUME NEW position, Continue(position), position # "purge", plan'.ct \in Young
      PROVE  pc' # "purge" /\ local'.ct \in Young
  BY <1>4 DEF Continue
<1>5. /\ \A phase : [local EXCEPT !.phase = phase].ct = local.ct
      /\ \A phase, ack : [local EXCEPT !.phase = phase, !.ack = ack].ct = local.ct
      /\ \A phase, checked : [local EXCEPT !.phase = phase, !.checked = checked].ct = local.ct
      /\ \A counts, ack : [local EXCEPT !.counts = counts, !.ack = ack].ct = local.ct
      /\ [local EXCEPT !.proxied = TRUE].ct = local.ct
      /\ \A phase, ct : [local EXCEPT !.phase = phase, !.ct = ct].ct = ct
  BY DEF TypeOK, Plan
<1>0. ASSUME NEW position, position # "purge", NEW new, new.ct = local.ct,
              PatchStatus(new), Continue(position), seen' = seen
       PROVE  NeverDue'
  BY <1>1, <1>4, <1>0
<1>6. CASE Reconcile
  BY <1>6 DEF Reconcile, Cached, HistoryDue, planVars
<1>7. CASE PurgeJob \/ MarkPurged
  BY <1>7 DEF PurgeJob, MarkPurged
<1>8. CASE SyncLeases \/ SyncSomeLeases
  BY <1>2, <1>8 DEF SyncLeases, SyncSomeLeases, planVars
<1>9. CASE Summarize
  <2>1. CASE [local EXCEPT !.counts = Summary, !.ack = AckAfter(local)] = local
    BY <1>9, <2>1 DEF Summarize
  <2>2. CASE [local EXCEPT !.counts = Summary, !.ack = AckAfter(local)] # local
    <3>1. [local EXCEPT !.counts = Summary, !.ack = AckAfter(local)].ct = local.ct
      BY <1>5
    <3>2. /\ PatchStatus([local EXCEPT !.counts = Summary, !.ack = AckAfter(local)])
          /\ Continue("control") /\ seen' = seen
      BY <1>9, <2>2 DEF Summarize
    <3> QED
      BY <1>0, <3>1, <3>2
  <2> QED
    BY <2>1, <2>2
<1>10. CASE Cancel \/ Halt \/ Complete
  <2>1. PICK phase \in Phase :
            EndIn(phase, [local EXCEPT !.phase = phase, !.ct = "recent"]) /\ seen' = seen
    BY <1>10 DEF Cancel, Halt, Complete, Phase
  <2>2. [local EXCEPT !.phase = phase, !.ct = "recent"].ct = "recent"
    BY <1>5
  <2> QED
    BY <1>3, <2>1, <2>2
<1>11. CASE Pause
  <2>1. EndIn("Paused", [local EXCEPT !.phase = "Paused"]) /\ seen' = seen
    BY <1>11 DEF Pause
  <2>2. [local EXCEPT !.phase = "Paused"].ct = local.ct
    BY <1>5
  <2> QED
    BY <1>3, <2>1, <2>2
<1>12. CASE Resume
  <2>1. local.ct \in Young
    OBVIOUS
  <2>2. \/ PatchStatus([local EXCEPT !.phase = "InProgress", !.ack = Cardinality(FailedNodes)])
        \/ PatchStatus([local EXCEPT !.phase = "InProgress"])
    BY <1>12 DEF Resume
  <2>3. plan'.ct \in Young
    <3>1. CASE PatchStatus([local EXCEPT !.phase = "InProgress", !.ack = Cardinality(FailedNodes)])
      <4>1. [local EXCEPT !.phase = "InProgress", !.ack = Cardinality(FailedNodes)].ct = local.ct
        BY <1>5
      <4> QED
        BY <1>1, <2>1, <3>1, <4>1
    <3>2. CASE PatchStatus([local EXCEPT !.phase = "InProgress"])
      <4>1. [local EXCEPT !.phase = "InProgress"].ct = local.ct
        BY <1>5
      <4> QED
        BY <1>1, <2>1, <3>2, <4>1
    <3> QED
      BY <2>2, <3>1, <3>2
  <2> QED
    BY <1>4, <1>12, <2>3 DEF Resume
<1>13. CASE StartPreflight \/ PreflightPasses \/ KubeProxyUpgraded
  <2>1. CASE StartPreflight
    <3>1. [local EXCEPT !.phase = "Preflighting"].ct = local.ct
      BY <1>5
    <3>2. PatchStatus([local EXCEPT !.phase = "Preflighting"]) /\ Continue("checks") /\ seen' = seen
      BY <2>1 DEF StartPreflight
    <3> QED
      BY <1>0, <3>1, <3>2
  <2>2. CASE PreflightPasses
    <3>1. [local EXCEPT !.phase = "Pending", !.checked = local.gen].ct = local.ct
      BY <1>5
    <3>2. PatchStatus([local EXCEPT !.phase = "Pending", !.checked = local.gen]) /\ Continue("proxy") /\ seen' = seen
      BY <2>2 DEF PreflightPasses
    <3> QED
      BY <1>0, <3>1, <3>2
  <2>3. CASE KubeProxyUpgraded
    <3>1. [local EXCEPT !.proxied = TRUE].ct = local.ct
      BY <1>5
    <3>2. PatchStatus([local EXCEPT !.proxied = TRUE]) /\ Continue("decide") /\ seen' = seen
      BY <2>3 DEF KubeProxyUpgraded
    <3> QED
      BY <1>0, <3>1, <3>2
  <2> QED
    BY <1>13, <2>1, <2>2, <2>3
<1>14. CASE PreflightFails \/ RecordPause
  <2>1. CASE PreflightFails
    <3>1. [local EXCEPT !.phase = "Failed", !.checked = 0].ct = local.ct
      BY <1>5
    <3>2. PatchStatus([local EXCEPT !.phase = "Failed", !.checked = 0]) /\ EndRound /\ seen' = seen
      BY <2>1 DEF PreflightFails
    <3> QED
      BY <1>1, <1>2, <3>1, <3>2
  <2>2. CASE RecordPause
    <3>1. [local EXCEPT !.phase = "Paused"].ct = local.ct
      BY <1>5
    <3>2. PatchStatus([local EXCEPT !.phase = "Paused"]) /\ EndRound /\ seen' = seen
      BY <2>2 DEF RecordPause
    <3> QED
      BY <1>1, <1>2, <3>1, <3>2
  <2> QED
    BY <1>14, <2>1, <2>2
<1>15. CASE PatchKubeProxy \/ WaitForKubeProxy \/ HoldOff \/ WaitForSlot \/ StopAtWorker \/ Abort
  BY <1>2, <1>15
     DEF PatchKubeProxy, WaitForKubeProxy, HoldOff, WaitForSlot, StopAtWorker, Abort, planVars
<1>16. CASE PauseOnFailures
  <2>1. plan'.ct \in Young
    BY <1>16 DEF PauseOnFailures, TypeOK, Plan
  <2> QED
    BY <1>4, <1>16, <2>1 DEF PauseOnFailures
<1>17. CASE MarkInProgress
  BY <1>1, <1>5, <1>17 DEF MarkInProgress
<1>18. CASE JobAlreadyExists \/ AcquireLease
  BY <1>2, <1>18 DEF JobAlreadyExists, AcquireLease, DoneWith, planVars
<1>19. CASE CreatePatchJob
  BY <1>19 DEF CreatePatchJob, planVars
<1>20. CASE Environment
  <2>1. ASSUME NEW n \in Node, JobFinishes(n) \/ CollectLease(n) \/ UserRetriesNode(n)
        PROVE  NeverDue'
    BY <2>1 DEF JobFinishes, CollectLease, UserRetriesNode, planVars, roundVars
  <2>2. CASE DeliverJobEvent \/ DeliverPlan \/ KubeProxyRollsOut
    BY <2>2 DEF DeliverJobEvent, DeliverPlan, KubeProxyRollsOut, planVars, roundVars
  <2>3. CASE UserEditsSpec
    BY <2>3 DEF UserEditsSpec, roundVars, TypeOK, Plan
  <2>4. CASE RetentionNears \/ RetentionExpires
    BY <2>4 DEF RetentionNears, RetentionExpires
  <2> QED
    BY <1>20, <2>1, <2>2, <2>3, <2>4 DEF Environment
<1>21. CASE UNCHANGED vars
  BY <1>21 DEF vars
<1> QED
  BY <1>6, <1>7, <1>8, <1>9, <1>10, <1>11, <1>12, <1>13, <1>14, <1>15, <1>16, <1>17,
     <1>18, <1>19, <1>20, <1>21 DEF Next, Round

\* A step that leaves the jobs and what is known of them alone keeps the promises,
\* and the batch too if it goes on as it was or is given up.
LEMMA QuietStep ==
    ASSUME RolloutInv, NeverDue', UNCHANGED jobVars,
           pc' \notin {"create", "lease"} \/ UNCHANGED <<pc, todo>>
    PROVE  RolloutInv'
<1>1. ViewSound' /\ EventsSound' /\ CreatedInOrder' /\ GroupsInOrder' /\ ConcurrencyBound'
  BY DEF RolloutInv, jobVars, ViewSound, EventsSound, Sound, CreatedInOrder, GroupsInOrder,
         ConcurrencyBound
<1>2. JobBeforeLease'
  BY DEF RolloutInv, jobVars, JobBeforeLease, IsNext
<1>3. BatchFits'
  BY DEF RolloutInv, jobVars, BatchFits, BatchOf, Pending, Active, Finished, NodesOf
<1> QED
  BY <1>1, <1>2, <1>3 DEF RolloutInv
\* An event that is true of its job joins others that stay true.
LEMMA AppendKeepsSound ==
    ASSUME TypeOK, EventsSound, NEW n \in Node, NEW state \in JobState \ {"none"},
           events' = Append(events, [node |-> n, state |-> state]),
           Sound(n, state)',
           \A m \in Node, s \in JobState : Sound(m, s) => Sound(m, s)'
    PROVE  EventsSound'
<1>1. ASSUME NEW i \in DOMAIN events'
      PROVE  \E e \in Event : e = events'[i] /\ e.state # "none" /\ Sound(e.node, e.state)'
  <2>1. CASE i \in DOMAIN events
    <3>1. events'[i] = events[i] /\ events[i] \in Event
      BY <2>1 DEF TypeOK
    <3>2. events[i].state # "none" /\ Sound(events[i].node, events[i].state)
      BY <2>1 DEF EventsSound
    <3>3. PICK e \in Event : e = events[i]
      BY <3>1
    <3>4. e.node \in Node /\ e.state \in JobState
      BY DEF Event
    <3>5. Sound(e.node, e.state)'
      BY <3>2, <3>3, <3>4
    <3> QED
      BY <3>1, <3>2, <3>3, <3>5
  <2>2. CASE i \notin DOMAIN events
    <3>1. events'[i] = [node |-> n, state |-> state]
      BY <1>1, <2>2 DEF TypeOK
    <3>2. [node |-> n, state |-> state] \in Event
      BY DEF Event
    <3> QED
      BY <3>1, <3>2
  <2> QED
    BY <2>1, <2>2
<1> QED
  BY <1>1 DEF EventsSound, Sound

\* The slots left are enough for the batch markInProgress announces.
LEMMA BatchStart ==
    ASSUME TypeOK, RolloutInv, NeverDue', MarkInProgress
    PROVE  RolloutInv'
<1>1. PICK g \in Group : AtSchedule(g) /\ todo' = Batch(g)
  BY DEF MarkInProgress
<1>2. UNCHANGED jobVars /\ pc' = "create"
  BY DEF MarkInProgress
<1> DEFINE before(n) == {m \in Pending(g) : m < n}
<1>3. ASSUME NEW n \in Batch(g), NEW m \in Pending(g), m < n
      PROVE  m \in Batch(g)
  <2>1. n \in Node /\ m \in Node
    BY <1>3 DEF Batch, Pending, NodesOf
  <2>2. before(n) \in SUBSET Node /\ before(m) \in SUBSET before(n) /\ Active(g) \in SUBSET Node
    BY <1>3, <2>1 DEF Pending, Active, NodesOf, Node
  <2>3. Cardinality(before(m)) =< Cardinality(before(n))
    BY <2>2, CountSubset
  <2>4. /\ Cardinality(before(m)) \in Nat /\ Cardinality(before(n)) \in Nat
        /\ Cardinality(Active(g)) \in Nat /\ Concurrency[g] \in Nat
    BY <2>2, NodesFinite, GroupsAssumption
  <2>5. Cardinality(before(n)) + Cardinality(Active(g)) < Concurrency[g]
    BY <1>3 DEF Batch
  <2>6. Cardinality(before(m)) + Cardinality(Active(g)) < Concurrency[g]
    BY <2>3, <2>4, <2>5
  <2> QED
    BY <1>3, <2>6 DEF Batch
<1>4. BatchOf(g)'
  <2>1. Pending(g)' = Pending(g) /\ Active(g)' = Active(g) /\ jobs' = jobs
    BY <1>2 DEF Pending, Active, NodesOf, jobVars
  <2>2. \A h \in 1..(g - 1) : Finished(h)'
    BY <1>1, <1>2 DEF AtSchedule, IsCurrent, Finished, NodesOf, jobVars
  <2>3. todo' \subseteq Pending(g)
    BY <1>1 DEF Batch
  <2>4. \A n \in todo' : Cardinality(before(n)) + Cardinality(Active(g)) < Concurrency[g]
    BY <1>1 DEF Batch
  <2> QED
    BY <1>1, <1>3, <2>1, <2>2, <2>3, <2>4 DEF BatchOf
<1>5. ViewSound' /\ EventsSound' /\ CreatedInOrder' /\ GroupsInOrder' /\ ConcurrencyBound'
  BY <1>2 DEF RolloutInv, jobVars, ViewSound, EventsSound, Sound, CreatedInOrder, GroupsInOrder,
              ConcurrencyBound
<1> QED
  BY <1>2, <1>4, <1>5 DEF RolloutInv, BatchFits, JobBeforeLease

\* A node whose job exists leaves the batch.
LEMMA BatchShrinks ==
    ASSUME TypeOK, RolloutInv, NeverDue', UNCHANGED jobVars, pc \in {"create", "lease"},
           NEW n \in todo, jobs[n] # "none", DoneWith(n)
    PROVE  RolloutInv'
<1>1. PICK g \in Group : BatchOf(g)
  BY DEF RolloutInv, BatchFits
<1>2. CASE EndRound
  BY <1>2, QuietStep DEF EndRound
<1>3. CASE pc' = "create" /\ todo' = todo \ {n}
  <2>1. BatchOf(g)'
    BY <1>1, <1>3 DEF BatchOf, Pending, Active, Finished, NodesOf, jobVars
  <2>2. ViewSound' /\ EventsSound' /\ CreatedInOrder' /\ GroupsInOrder' /\ ConcurrencyBound'
    BY DEF RolloutInv, jobVars, ViewSound, EventsSound, Sound, CreatedInOrder, GroupsInOrder,
           ConcurrencyBound
  <2> QED
    BY <1>3, <2>1, <2>2 DEF RolloutInv, BatchFits, JobBeforeLease
<1> QED
  BY <1>2, <1>3 DEF DoneWith

\* Creating a job: there is room for it, and every earlier node has one.
LEMMA CreateStep ==
    ASSUME TypeOK, RolloutInv, NeverDue', CreatePatchJob
    PROVE  RolloutInv'
<1>1. PICK n \in Node : /\ n \in todo /\ IsNext(n) /\ ~Blocked(n) /\ jobs[n] = "none"
                        /\ jobs' = [jobs EXCEPT ![n] = "running"]
                        /\ events' = Append(events, [node |-> n, state |-> "running"])
  BY DEF CreatePatchJob, TypeOK
<1>2. pc = "create" /\ pc' = "lease" /\ todo' = todo /\ view' = view
  BY DEF CreatePatchJob
<1>3. PICK g \in Group : BatchOf(g)
  BY <1>2 DEF RolloutInv, BatchFits
<1>4. n \in Pending(g) /\ GroupOf[n] = g /\ view[n] = "none"
  BY <1>1, <1>3 DEF BatchOf, Pending, NodesOf
<1>5. R!MayStart(n)
  BY <1>1, <1>2, Room
<1>6. ASSUME NEW m \in Node, NEW state \in JobState, Sound(m, state) PROVE Sound(m, state)'
  BY <1>1, <1>6 DEF Sound, TypeOK, Terminal, JobState
<1>7. ViewSound'
  BY <1>2, <1>6 DEF RolloutInv, ViewSound, TypeOK
<1>8. EventsSound'
  <2>1. ASSUME NEW m \in Node, NEW state \in JobState, Sound(m, state) PROVE Sound(m, state)'
    BY <1>6, <2>1
  <2>2. Sound(n, "running")'
    BY <1>1 DEF Sound, TypeOK, Terminal
  <2>3. EventsSound /\ "running" \in JobState \ {"none"}
    BY DEF RolloutInv, JobState
  <2> QED
    BY <1>1, <2>1, <2>2, <2>3, AppendKeepsSound
<1>9. CreatedInOrder'
  <2>1. ASSUME NEW m \in Node, GroupOf[m] = g, m < n PROVE jobs[m] # "none"
    <3>1. m \notin todo
      BY <1>1, <2>1 DEF IsNext, Node
    <3>2. CASE m \in Pending(g)
      BY <1>1, <1>3, <2>1, <3>1, <3>2 DEF BatchOf
    <3>3. CASE m \notin Pending(g)
      BY <2>1, <3>3 DEF Pending, NodesOf, RolloutInv, ViewSound, Sound
    <3> QED
      BY <3>2, <3>3
  <2> QED
    BY <1>1, <1>4, <2>1 DEF RolloutInv, CreatedInOrder, TypeOK
<1>10. BatchFits'
  <2>1. BatchOf(g)'
    BY <1>1, <1>2, <1>3 DEF BatchOf, Pending, Active, Finished, NodesOf, TypeOK
  <2> QED
    BY <2>1 DEF BatchFits
<1>11. JobBeforeLease'
  BY <1>1, <1>2 DEF JobBeforeLease, IsNext, TypeOK, Node
<1>12. GroupsInOrder'
  <2>1. ASSUME NEW m \in Node, NEW k \in Node, jobs'[k] # "none", GroupOf[m] < GroupOf[k]
        PROVE  jobs'[m] \in Terminal
    <3>1. jobs[m] \in Terminal
      BY <1>1, <1>5, <2>1 DEF RolloutInv, GroupsInOrder, R!MayStart, TypeOK, Terminal
    <3> QED
      BY <1>1, <3>1 DEF TypeOK, Terminal
  <2> QED
    BY <2>1 DEF GroupsInOrder
<1>13. ConcurrencyBound'
  <2>1. ASSUME NEW h \in Group
        PROVE  Cardinality({m \in NodesOf(h) : jobs'[m] = "running"}) =< Concurrency[h]
    <3> DEFINE now == {m \in NodesOf(h) : jobs[m] = "running"}
    <3>1. CASE h # g
      <4>1. {m \in NodesOf(h) : jobs'[m] = "running"} = now
        BY <1>1, <1>4, <3>1 DEF NodesOf, TypeOK
      <4> QED
        BY <4>1 DEF RolloutInv, ConcurrencyBound
    <3>2. CASE h = g
      <4>1. {m \in NodesOf(h) : jobs'[m] = "running"} = now \cup {n}
        BY <1>1, <1>4, <3>2 DEF NodesOf, TypeOK
      <4>2. now = R!Running(g)
        BY <3>2 DEF R!Running, NodesOf
      <4>3. Cardinality(now) < Concurrency[g]
        BY <1>4, <1>5, <4>2, SameCardinality DEF R!MayStart
      <4>4. IsFiniteSet(now) /\ Cardinality(now) \in Nat
        BY NodesFinite DEF NodesOf
      <4>5. Cardinality(now \cup {n}) =< Cardinality(now) + 1
        BY CountOneMore DEF NodesOf
      <4>6. Cardinality(now \cup {n}) \in Nat
        BY NodesFinite DEF NodesOf
      <4> QED
        BY <3>2, <4>1, <4>3, <4>4, <4>5, <4>6, GroupsAssumption
    <3> QED
      BY <3>1, <3>2
  <2> QED
    BY <2>1 DEF ConcurrencyBound, NodesOf
<1> QED
  BY <1>7, <1>8, <1>9, <1>10, <1>11, <1>12, <1>13 DEF RolloutInv
\* A job that finishes frees a slot and can only make what was said of it come true.
LEMMA FinishStep ==
    ASSUME TypeOK, RolloutInv, NeverDue', NEW n \in Node, JobFinishes(n)
    PROVE  RolloutInv'
<1>1. PICK outcome \in Terminal :
        /\ jobs' = [jobs EXCEPT ![n] = outcome]
        /\ events' = Append(events, [node |-> n, state |-> outcome])
  BY DEF JobFinishes
<1>2. jobs[n] = "running" /\ UNCHANGED <<view, pc, todo>>
  BY DEF JobFinishes, roundVars
<1>3. \A m \in Node, state \in JobState : Sound(m, state) => Sound(m, state)'
  BY <1>1, <1>2 DEF Sound, TypeOK, Terminal, JobState
<1>4. ViewSound'
  BY <1>2, <1>3 DEF RolloutInv, ViewSound, TypeOK
<1>5. EventsSound'
  <2>1. Sound(n, outcome)'
    BY <1>1 DEF Sound, TypeOK, Terminal
  <2>2. outcome \in JobState \ {"none"} /\ EventsSound
    BY DEF JobState, Terminal, RolloutInv
  <2> QED
    BY <1>1, <1>3, <2>1, <2>2, AppendKeepsSound
<1>6. \A m \in Node : jobs'[m] # "none" <=> jobs[m] # "none"
  BY <1>1, <1>2 DEF TypeOK, Terminal
<1>7. \A m \in Node : jobs[m] \in Terminal => jobs'[m] \in Terminal
  BY <1>1 DEF TypeOK
<1>8. CreatedInOrder' /\ GroupsInOrder'
  BY <1>6, <1>7 DEF RolloutInv, CreatedInOrder, GroupsInOrder
<1>9. JobBeforeLease'
  BY <1>2, <1>6 DEF RolloutInv, JobBeforeLease, IsNext, TypeOK
<1>10. BatchFits'
  <2>1. ASSUME NEW g \in Group, BatchOf(g) PROVE BatchOf(g)'
    BY <1>2, <1>6, <2>1 DEF BatchOf, Pending, Active, Finished, NodesOf
  <2> QED
    BY <1>2, <2>1 DEF RolloutInv, BatchFits
<1>11. ConcurrencyBound'
  <2>1. ASSUME NEW g \in Group
        PROVE  Cardinality({m \in NodesOf(g) : jobs'[m] = "running"}) =< Concurrency[g]
    <3> DEFINE now   == {m \in NodesOf(g) : jobs[m] = "running"}
               after == {m \in NodesOf(g) : jobs'[m] = "running"}
    <3>1. now \in SUBSET Node /\ after \in SUBSET now
      BY <1>1, <1>2 DEF NodesOf, TypeOK, Terminal
    <3>2. Cardinality(after) =< Cardinality(now) /\ Cardinality(now) =< Concurrency[g]
      BY <3>1, CountSubset DEF RolloutInv, ConcurrencyBound
    <3>3. Cardinality(after) \in Nat /\ Cardinality(now) \in Nat /\ Concurrency[g] \in Nat
      BY <3>1, NodesFinite, GroupsAssumption
    <3> HIDE DEF now, after
    <3>4. Cardinality(after) =< Concurrency[g]
      BY <3>2, <3>3
    <3> QED
      BY <3>4 DEF after
  <2> QED
    BY <2>1 DEF ConcurrencyBound, NodesOf
<1> QED
  BY <1>4, <1>5, <1>8, <1>9, <1>10, <1>11 DEF RolloutInv

\* The informer applies an event between rounds: the view stays sound.
LEMMA DeliverStep ==
    ASSUME TypeOK, RolloutInv, NeverDue', DeliverJobEvent
    PROVE  RolloutInv'
<1>1. /\ events # <<>> /\ events' = Tail(events) /\ UNCHANGED <<jobs, pc, todo>> /\ pc = "idle"
      /\ view' = [view EXCEPT ![Head(events).node] = Head(events).state]
  BY DEF DeliverJobEvent, roundVars
<1>2. Sound(Head(events).node, Head(events).state) /\ Head(events) \in Event
  BY <1>1 DEF RolloutInv, EventsSound, TypeOK
<1>3. ViewSound'
  BY <1>1, <1>2 DEF RolloutInv, ViewSound, Sound, TypeOK, Event
<1>4. EventsSound'
  <2>1. ASSUME NEW i \in DOMAIN events' PROVE i + 1 \in DOMAIN events /\ events'[i] = events[i + 1]
    BY <1>1, <2>1 DEF TypeOK
  <2> QED
    BY <1>1, <2>1 DEF RolloutInv, EventsSound, Sound
<1>5. CreatedInOrder' /\ GroupsInOrder' /\ ConcurrencyBound'
  BY <1>1 DEF RolloutInv, CreatedInOrder, GroupsInOrder, ConcurrencyBound
<1> QED
  BY <1>1, <1>3, <1>4, <1>5 DEF RolloutInv, BatchFits, JobBeforeLease

\* The strengthening is inductive.
LEMMA RolloutStep ==
    ASSUME NoDeletion, TypeOK, RolloutInv, [Next]_vars
    PROVE  RolloutInv'
<1>0. ~Retention /\ NeverDue'
  BY NeverDueStep DEF NoDeletion, RolloutInv
<1>1. CASE Reconcile
  BY <1>0, <1>1, QuietStep DEF Reconcile
<1>2. CASE PurgeJob \/ MarkPurged
  BY <1>2 DEF PurgeJob, MarkPurged, RolloutInv, NeverDue
<1>3. CASE \/ SyncLeases \/ SyncSomeLeases \/ Summarize \/ Resume \/ StartPreflight
           \/ PreflightPasses \/ PreflightFails \/ KubeProxyUpgraded \/ PauseOnFailures
           \/ RecordPause
  <2>1. UNCHANGED jobVars /\ pc' \notin {"create", "lease"}
    BY <1>3 DEF SyncLeases, SyncSomeLeases, Summarize, Resume, StartPreflight, PreflightPasses,
                PreflightFails, KubeProxyUpgraded, PauseOnFailures, RecordPause, Continue, EndRound
  <2> QED
    BY <1>0, <2>1, QuietStep
<1>4. CASE \/ Cancel \/ Pause \/ Halt \/ Complete \/ PatchKubeProxy \/ WaitForKubeProxy
           \/ HoldOff \/ WaitForSlot \/ StopAtWorker \/ Abort
  <2>1. UNCHANGED jobVars /\ pc' \notin {"create", "lease"}
    BY <1>4 DEF Cancel, Pause, Halt, Complete, PatchKubeProxy, WaitForKubeProxy, HoldOff,
                WaitForSlot, StopAtWorker, Abort, EndIn, EndRound
  <2> QED
    BY <1>0, <2>1, QuietStep
<1>5. CASE MarkInProgress
  BY <1>0, <1>5, BatchStart
<1>6. CASE JobAlreadyExists
  BY <1>0, <1>6, BatchShrinks DEF JobAlreadyExists
<1>7. CASE AcquireLease
  <2>1. PICK n \in todo : IsNext(n) /\ DoneWith(n)
    BY <1>7 DEF AcquireLease
  <2>2. jobs[n] # "none" /\ UNCHANGED jobVars /\ pc = "lease"
    BY <1>7, <2>1 DEF AcquireLease, RolloutInv, JobBeforeLease
  <2> QED
    BY <1>0, <2>1, <2>2, BatchShrinks
<1>8. CASE CreatePatchJob
  BY <1>0, <1>8, CreateStep
<1>9. CASE Environment
  <2>1. ASSUME NEW n \in Node, JobFinishes(n) PROVE RolloutInv'
    BY <1>0, <2>1, FinishStep
  <2>2. ASSUME NEW n \in Node, UserRetriesNode(n) PROVE FALSE
    BY <2>2 DEF UserRetriesNode, NoDeletion, TypeOK
  <2>3. CASE DeliverJobEvent
    BY <1>0, <2>3, DeliverStep
  <2>4. CASE \/ \E n \in Node : CollectLease(n)
             \/ DeliverPlan \/ KubeProxyRollsOut \/ UserEditsSpec
    BY <1>0, <2>4, QuietStep
       DEF CollectLease, DeliverPlan, KubeProxyRollsOut, UserEditsSpec, roundVars
  <2>5. CASE RetentionNears \/ RetentionExpires
    BY <1>0, <2>5, QuietStep DEF RetentionNears, RetentionExpires, roundVars
  <2> QED
    BY <1>9, <2>1, <2>2, <2>3, <2>4, <2>5 DEF Environment
<1>10. CASE UNCHANGED vars
  BY <1>0, <1>10, QuietStep DEF vars, jobVars
<1> QED
  BY <1>1, <1>2, <1>3, <1>4, <1>5, <1>6, <1>7, <1>8, <1>9, <1>10 DEF Next, Round

\* What rounds believe and intend stays compatible with the jobs there are.
THEOREM RolloutInvariant == NoDeletion => (Spec => []RolloutInv)
<1> SUFFICES ASSUME NoDeletion PROVE Spec => []RolloutInv
  OBVIOUS
<1>1. TypeOK /\ RolloutInv /\ [Next]_vars => RolloutInv'
  BY RolloutStep
<1> QED
  BY <1>1, InitRollout, TypeCorrect, PTL DEF Spec

\* A group never has more unfinished PatchJobs than its concurrency, for every
\* rollout, every lag of the caches and every crash, until a PatchJob is deleted.
THEOREM ConcurrencyHolds == NoDeletion => (Spec => []ConcurrencyBound)
<1>1. RolloutInv => ConcurrencyBound
  BY DEF RolloutInv
<1> QED
  BY <1>1, RolloutInvariant, PTL

\* A group starts once every earlier group has finished.
THEOREM GroupOrderHolds == NoDeletion => (Spec => []GroupsInOrder)
<1>1. RolloutInv => GroupsInOrder
  BY DEF RolloutInv
<1> QED
  BY <1>1, RolloutInvariant, PTL
-----------------------------------------------------------------------------
(* The controller implements Rollout.                                        *)

LEMMA RefinesInit == Init => R!Init
BY DEF Init, R!Init

\* Creating a job starts its node, finishing it finishes the node; every other
\* step of the operator, the informers or the user leaves the rollout as it was.
LEMMA RefinesStep ==
    ASSUME NoDeletion, TypeOK, RolloutInv, [Next]_vars
    PROVE  [R!Next]_jobs
<1>1. CASE CreatePatchJob
  <2>1. PICK n \in Node : /\ IsNext(n) /\ ~Blocked(n) /\ jobs[n] = "none"
                          /\ jobs' = [jobs EXCEPT ![n] = "running"]
    BY <1>1 DEF CreatePatchJob, TypeOK
  <2>2. R!MayStart(n)
    BY <1>1, <2>1, Room DEF CreatePatchJob
  <2> QED
    BY <2>1, <2>2 DEF R!Next, R!Start
<1>2. ASSUME NEW n \in Node, JobFinishes(n) PROVE R!Next
  BY <1>2 DEF JobFinishes, Terminal, R!Next, R!Finish
<1>3. ~PurgeJob /\ \A n \in Node : ~UserRetriesNode(n)
  BY DEF PurgeJob, UserRetriesNode, NoDeletion, TypeOK, RolloutInv, NeverDue
<1>4. CASE Reconcile \/ SyncSomeLeases \/ Abort
  BY <1>4 DEF Reconcile, SyncSomeLeases, Abort, jobVars
<1>5. CASE Round /\ ~CreatePatchJob
  BY <1>3, <1>5
     DEF Round, MarkPurged, SyncLeases, Summarize, Cancel, Pause, Resume, StartPreflight,
         PreflightPasses, PreflightFails, PatchKubeProxy, WaitForKubeProxy, KubeProxyUpgraded,
         PauseOnFailures, RecordPause, Halt, Complete, HoldOff, WaitForSlot, MarkInProgress,
         StopAtWorker, JobAlreadyExists, AcquireLease, jobVars
<1>6. CASE Environment /\ ~\E n \in Node : JobFinishes(n)
  BY <1>3, <1>6
     DEF Environment, CollectLease, DeliverJobEvent, DeliverPlan, KubeProxyRollsOut,
         UserEditsSpec, RetentionNears, RetentionExpires, jobVars
<1>7. CASE UNCHANGED vars
  BY <1>7 DEF vars
<1> QED
  BY <1>1, <1>2, <1>4, <1>5, <1>6, <1>7 DEF Next

\* Without caches, rounds, leases and status, what the controller does to the nodes
\* is a rollout: every behaviour of PatchPlan is one of Rollout.
THEOREM RolloutImplemented == NoDeletion => (Spec => ImplementsRollout)
<1> SUFFICES ASSUME NoDeletion PROVE Spec => R!Spec
  BY DEF ImplementsRollout
<1>1. TypeOK /\ RolloutInv /\ [Next]_vars => [R!Next]_jobs
  BY RefinesStep
<1> QED
  BY <1>1, RefinesInit, TypeCorrect, RolloutInvariant, PTL DEF Spec, R!Spec

-----------------------------------------------------------------------------
(* What the status claims.                                                   *)

\* Only allNodesProcessed claims a plan to be Completed.
LEMMA OnlyCompleteCompletes ==
    ASSUME TypeOK, NoDeletion, NeverDue, [Next]_vars, plan.phase # "Completed", plan'.phase = "Completed"
    PROVE  Complete
<1> USE DEF TypeOK, planVars
<1>1. ASSUME NEW new, PatchStatus(new), new.phase # "Completed" PROVE FALSE
  BY <1>1 DEF PatchStatus, Merge, Plan
<1>2. ASSUME NEW new, PatchStatus(new), new.phase = local.phase PROVE FALSE
  BY <1>2 DEF PatchStatus, Merge, Plan
<1>3. /\ \A phase : [local EXCEPT !.phase = phase].phase = phase
      /\ \A phase, x : [local EXCEPT !.phase = phase, !.ack = x].phase = phase
      /\ \A phase, x : [local EXCEPT !.phase = phase, !.checked = x].phase = phase
      /\ \A phase, x : [local EXCEPT !.phase = phase, !.ct = x].phase = phase
      /\ \A counts, ack : [local EXCEPT !.counts = counts, !.ack = ack].phase = local.phase
      /\ [local EXCEPT !.proxied = TRUE].phase = local.phase
      /\ [local EXCEPT !.purged = TRUE].phase = local.phase
  BY DEF Plan
<1>4. ASSUME UNCHANGED plan PROVE FALSE
  BY <1>4
<1>5. ASSUME Resume PROVE FALSE
  <2>1. CASE PatchStatus([local EXCEPT !.phase = "InProgress", !.ack = Cardinality(FailedNodes)])
    <3>1. [local EXCEPT !.phase = "InProgress", !.ack = Cardinality(FailedNodes)].phase = "InProgress"
      BY <1>3
    <3> QED
      BY <1>1, <2>1, <3>1
  <2>2. CASE PatchStatus([local EXCEPT !.phase = "InProgress"])
    <3>1. [local EXCEPT !.phase = "InProgress"].phase = "InProgress"
      BY <1>3
    <3> QED
      BY <1>1, <2>2, <3>1
  <2> QED
    BY <1>5, <2>1, <2>2 DEF Resume
<1>6. ASSUME Cancel \/ Pause \/ Halt PROVE FALSE
  BY <1>1, <1>3, <1>4, <1>6 DEF Cancel, Pause, Halt, EndIn
<1>7. ASSUME StartPreflight \/ PreflightPasses \/ PreflightFails \/ RecordPause PROVE FALSE
  <2>1. /\ [local EXCEPT !.phase = "Preflighting"].phase = "Preflighting"
        /\ [local EXCEPT !.phase = "Paused"].phase = "Paused"
        /\ [local EXCEPT !.phase = "Pending", !.checked = local.gen].phase = "Pending"
        /\ [local EXCEPT !.phase = "Failed", !.checked = 0].phase = "Failed"
    BY <1>3
  <2>2. \/ PatchStatus([local EXCEPT !.phase = "Preflighting"])
        \/ PatchStatus([local EXCEPT !.phase = "Paused"])
        \/ PatchStatus([local EXCEPT !.phase = "Pending", !.checked = local.gen])
        \/ PatchStatus([local EXCEPT !.phase = "Failed", !.checked = 0])
    BY <1>7 DEF StartPreflight, PreflightPasses, PreflightFails, RecordPause
  <2> QED
    BY <1>1, <2>1, <2>2
<1>8. ASSUME MarkPurged \/ KubeProxyUpgraded PROVE FALSE
  <2>1. /\ [local EXCEPT !.proxied = TRUE].phase = local.phase
        /\ [local EXCEPT !.purged = TRUE].phase = local.phase
    BY <1>3
  <2>2. \/ PatchStatus([local EXCEPT !.proxied = TRUE])
        \/ PatchStatus([local EXCEPT !.purged = TRUE])
    BY <1>8 DEF MarkPurged, KubeProxyUpgraded
  <2> QED
    BY <1>2, <2>1, <2>2
<1>s. ASSUME Summarize PROVE FALSE
  <2>1. [local EXCEPT !.counts = Summary, !.ack = AckAfter(local)].phase = local.phase
    BY <1>3
  <2>2. \/ UNCHANGED plan
        \/ PatchStatus([local EXCEPT !.counts = Summary, !.ack = AckAfter(local)])
    BY <1>s DEF Summarize
  <2> QED
    BY <1>2, <1>4, <2>1, <2>2
<1>9. ASSUME MarkInProgress PROVE FALSE
  <2>1. [local EXCEPT !.phase = "InProgress", !.ct = "none"].phase = "InProgress"
    BY <1>3
  <2>2. UNCHANGED plan \/ PatchStatus([local EXCEPT !.phase = "InProgress", !.ct = "none"])
    BY <1>9 DEF MarkInProgress
  <2> QED
    BY <1>1, <1>4, <2>1, <2>2
<1>10. ASSUME PauseOnFailures \/ UserEditsSpec PROVE FALSE
  <2>1. plan'.phase = plan.phase
    BY <1>10 DEF PauseOnFailures, UserEditsSpec, Plan
  <2> QED
    BY <2>1
<1>11. ASSUME RetentionNears \/ RetentionExpires PROVE FALSE
  BY <1>11 DEF RetentionNears, RetentionExpires, Expire, Plan
<1>12. ASSUME \/ PurgeJob \/ SyncLeases \/ PatchKubeProxy \/ WaitForKubeProxy \/ HoldOff
              \/ WaitForSlot \/ StopAtWorker \/ JobAlreadyExists \/ CreatePatchJob \/ AcquireLease
       PROVE  FALSE
  BY <1>4, <1>12
     DEF PurgeJob, SyncLeases, PatchKubeProxy, WaitForKubeProxy, HoldOff, WaitForSlot,
         StopAtWorker, JobAlreadyExists, CreatePatchJob, AcquireLease
<1>13. ASSUME Reconcile \/ SyncSomeLeases \/ Abort \/ DeliverJobEvent \/ DeliverPlan
              \/ KubeProxyRollsOut \/ UNCHANGED vars
       PROVE  FALSE
  BY <1>4, <1>13
     DEF Reconcile, SyncSomeLeases, Abort, DeliverJobEvent, DeliverPlan, KubeProxyRollsOut, vars
<1>14. ASSUME NEW n \in Node, JobFinishes(n) \/ CollectLease(n) \/ UserRetriesNode(n) PROVE FALSE
  BY <1>4, <1>14 DEF JobFinishes, CollectLease, UserRetriesNode
<1> QED
  BY <1>5, <1>6, <1>7, <1>8, <1>s, <1>9, <1>10, <1>11, <1>12, <1>13, <1>14
     DEF Next, Round, Environment

\* A Completed plan has no node unpatched or being patched, whatever order its
\* jobs and its rounds ran in, until a PatchJob is deleted.
THEOREM CompletedHolds == NoDeletion => (Spec => []CompletedIsTrue)
<1> SUFFICES ASSUME NoDeletion PROVE Spec => []CompletedIsTrue
  OBVIOUS
<1>1. Init => CompletedIsTrue
  BY DEF Init, NewPlan, CompletedIsTrue
<1>2. ASSUME TypeOK, RolloutInv, CompletedIsTrue, [Next]_vars PROVE CompletedIsTrue'
  <2>1. [R!Next]_jobs
    BY <1>2, RefinesStep
  <2>2. \A n \in Node : jobs[n] \in Terminal => jobs'[n] = jobs[n]
    BY <1>2, <2>1 DEF R!Next, R!Start, R!MayStart, R!Finish, TypeOK, Terminal
  <2>3. CASE Complete
    BY <1>2, <2>2, <2>3 DEF Complete, Processed, RolloutInv, ViewSound, Sound, CompletedIsTrue
  <2>4. CASE ~Complete
    BY <1>2, <2>2, <2>4, OnlyCompleteCompletes DEF RolloutInv, CompletedIsTrue
  <2> QED
    BY <2>3, <2>4
<1> QED
  BY <1>1, <1>2, TypeCorrect, RolloutInvariant, PTL DEF Spec

-----------------------------------------------------------------------------
(* Workers of a Kubernetes upgrade.                                          *)

\* The control plane the round sees has the target version.
ControlPlaneDone == KubernetesTarget /\ ControlPlane # {} /\ AllCompleted(ControlPlane)

\* Every copy of kubeProxyUpgraded is behind the server's, the server's is behind
\* the DaemonSet, and a round that goes on after the control plane knows of it.
ProxyInv ==
    /\ seen.proxied \/ local.proxied => plan.proxied
    /\ plan.proxied => proxy \in {"ready", "absent"}
    /\ pc \in {"decide", "create", "lease"} /\ ControlPlaneDone => local.proxied

\* The edits of the round's copy that leave kubeProxyUpgraded and
\* failuresAcknowledged alone.
LEMMA EditKeeps ==
    ASSUME local \in Plan
    PROVE  /\ \A phase : [local EXCEPT !.phase = phase].proxied = local.proxied
           /\ \A phase : [local EXCEPT !.phase = phase].ack = local.ack
           /\ \A phase, x : [local EXCEPT !.phase = phase, !.checked = x].proxied = local.proxied
           /\ \A phase, x : [local EXCEPT !.phase = phase, !.checked = x].ack = local.ack
           /\ \A phase, x : [local EXCEPT !.phase = phase, !.ct = x].proxied = local.proxied
           /\ \A phase, x : [local EXCEPT !.phase = phase, !.ct = x].ack = local.ack
           /\ \A counts, x : [local EXCEPT !.counts = counts, !.ack = x].proxied = local.proxied
           /\ \A counts, x : [local EXCEPT !.counts = counts, !.ack = x].ack = x
           /\ \A phase, x : [local EXCEPT !.phase = phase, !.ack = x].proxied = local.proxied
           /\ \A phase, x : [local EXCEPT !.phase = phase, !.ack = x].ack = x
           /\ [local EXCEPT !.purged = TRUE].proxied = local.proxied
           /\ [local EXCEPT !.purged = TRUE].ack = local.ack
           /\ [local EXCEPT !.proxied = TRUE].proxied = TRUE
           /\ [local EXCEPT !.proxied = TRUE].ack = local.ack
BY DEF Plan

\* What a merge patch makes of the two fields.
LEMMA PatchFields ==
    ASSUME plan \in Plan, NEW new, PatchStatus(new)
    PROVE  /\ new.proxied = local.proxied => plan'.proxied = plan.proxied
           /\ new.ack = local.ack => plan'.ack = plan.ack
           /\ plan'.ack \in {new.ack, plan.ack}
BY DEF PatchStatus, Merge, Plan

\* In a round, KubeProxyUpgraded alone writes kubeProxyUpgraded, and Resume alone
\* failuresAcknowledged unless Summarize lowers it.
LEMMA RoundKeeps ==
    ASSUME TypeOK, Round
    PROVE  /\ ~KubeProxyUpgraded => plan'.proxied = plan.proxied
           /\ ~Resume /\ (Summarize => AckAfter(local) = local.ack) => plan'.ack = plan.ack
           /\ Resume => plan'.ack \in {plan.ack, Cardinality(FailedNodes)}
<1> DEFINE Kept == plan'.proxied = plan.proxied /\ plan'.ack = plan.ack
<1>0. plan \in Plan /\ local \in Plan
  BY DEF TypeOK
<1>1. ASSUME NEW new, PatchStatus(new) \/ UNCHANGED plan,
             new.proxied = local.proxied, new.ack = local.ack
      PROVE  Kept
  BY <1>0, <1>1, PatchFields
<1>2. CASE MarkPurged
  <2>1. /\ [local EXCEPT !.purged = TRUE].proxied = local.proxied
        /\ [local EXCEPT !.purged = TRUE].ack = local.ack
    BY <1>0, EditKeeps
  <2>2. PatchStatus([local EXCEPT !.purged = TRUE])
    BY <1>2 DEF MarkPurged
  <2>3. Kept
    BY <1>1, <2>1, <2>2
  <2>4. ~Resume
    BY <1>2 DEF MarkPurged, Resume
  <2> QED
    BY <2>3, <2>4
<1>3. CASE Summarize
  <2> DEFINE new == [local EXCEPT !.counts = Summary, !.ack = AckAfter(local)]
  <2>1. new.proxied = local.proxied /\ new.ack = AckAfter(local)
    BY <1>0, EditKeeps
  <2>2. UNCHANGED plan \/ PatchStatus(new)
    BY <1>3 DEF Summarize
  <2>3. ~Resume
    BY <1>3 DEF Summarize, Resume
  <2> HIDE DEF new
  <2>4. /\ plan'.proxied = plan.proxied
        /\ AckAfter(local) = local.ack => plan'.ack = plan.ack
    BY <1>0, <2>1, <2>2, PatchFields
  <2> QED
    BY <1>3, <2>3, <2>4, Zenon
<1>4. CASE Cancel \/ Halt \/ Complete
  <2>1. PICK phase \in Phase :
            \/ PatchStatus([local EXCEPT !.phase = phase, !.ct = "recent"])
            \/ UNCHANGED plan
    BY <1>4 DEF Cancel, Halt, Complete, EndIn, Phase
  <2>2. /\ [local EXCEPT !.phase = phase, !.ct = "recent"].proxied = local.proxied
        /\ [local EXCEPT !.phase = phase, !.ct = "recent"].ack = local.ack
    BY <1>0, EditKeeps
  <2>3. Kept
    BY <1>1, <2>1, <2>2
  <2> QED
    BY <2>3
<1>5. CASE Pause \/ RecordPause \/ StartPreflight
  <2>1. PICK phase \in Phase : PatchStatus([local EXCEPT !.phase = phase]) \/ UNCHANGED plan
    BY <1>5 DEF Pause, RecordPause, StartPreflight, EndIn, Phase
  <2>2. /\ [local EXCEPT !.phase = phase].proxied = local.proxied
        /\ [local EXCEPT !.phase = phase].ack = local.ack
    BY <1>0, EditKeeps
  <2>3. Kept
    BY <1>1, <2>1, <2>2
  <2> QED
    BY <2>3
<1>6. CASE Resume
  <2>1. CASE PatchStatus([local EXCEPT !.phase = "InProgress", !.ack = Cardinality(FailedNodes)])
    <3> DEFINE new == [local EXCEPT !.phase = "InProgress", !.ack = Cardinality(FailedNodes)]
    <3>1. new.proxied = local.proxied /\ new.ack = Cardinality(FailedNodes)
      BY <1>0, EditKeeps
    <3>2. PatchStatus(new)
      BY <2>1
    <3> HIDE DEF new
    <3> QED
      BY <1>0, <1>6, <3>1, <3>2, PatchFields
  <2>2. CASE PatchStatus([local EXCEPT !.phase = "InProgress"])
    <3>1. /\ [local EXCEPT !.phase = "InProgress"].proxied = local.proxied
          /\ [local EXCEPT !.phase = "InProgress"].ack = local.ack
      BY <1>0, EditKeeps
    <3>2. Kept
      BY <1>1, <2>2, <3>1
    <3> QED
      BY <3>2
  <2> QED
    BY <1>6, <2>1, <2>2 DEF Resume
<1>7. CASE PreflightPasses \/ PreflightFails
  <2>1. /\ [local EXCEPT !.phase = "Pending", !.checked = local.gen].proxied = local.proxied
        /\ [local EXCEPT !.phase = "Pending", !.checked = local.gen].ack = local.ack
        /\ [local EXCEPT !.phase = "Failed", !.checked = 0].proxied = local.proxied
        /\ [local EXCEPT !.phase = "Failed", !.checked = 0].ack = local.ack
    BY <1>0, EditKeeps
  <2>2. \/ PatchStatus([local EXCEPT !.phase = "Pending", !.checked = local.gen])
        \/ PatchStatus([local EXCEPT !.phase = "Failed", !.checked = 0])
    BY <1>7 DEF PreflightPasses, PreflightFails
  <2>3. Kept
    BY <1>1, <2>1, <2>2
  <2> QED
    BY <2>3
<1>8. CASE MarkInProgress
  <2>1. /\ [local EXCEPT !.phase = "InProgress", !.ct = "none"].proxied = local.proxied
        /\ [local EXCEPT !.phase = "InProgress", !.ct = "none"].ack = local.ack
    BY <1>0, EditKeeps
  <2>2. UNCHANGED plan \/ PatchStatus([local EXCEPT !.phase = "InProgress", !.ct = "none"])
    BY <1>8 DEF MarkInProgress
  <2>3. Kept
    BY <1>1, <2>1, <2>2
  <2> QED
    BY <2>3
<1>9. CASE PauseOnFailures
  <2>1. Kept
    BY <1>0, <1>9 DEF PauseOnFailures, Plan
  <2> QED
    BY <2>1
<1>10. CASE \/ PurgeJob \/ SyncLeases \/ PatchKubeProxy \/ WaitForKubeProxy \/ HoldOff
            \/ WaitForSlot \/ StopAtWorker \/ JobAlreadyExists \/ CreatePatchJob \/ AcquireLease
  <2>1. Kept
    BY <1>10
       DEF PurgeJob, SyncLeases, PatchKubeProxy, WaitForKubeProxy, HoldOff, WaitForSlot,
           StopAtWorker, JobAlreadyExists, CreatePatchJob, AcquireLease, planVars
  <2> QED
    BY <2>1
<1>11. CASE KubeProxyUpgraded
  <2>1. PatchStatus([local EXCEPT !.proxied = TRUE])
    BY <1>11 DEF KubeProxyUpgraded
  <2>2. [local EXCEPT !.proxied = TRUE].ack = local.ack
    BY <1>0, EditKeeps
  <2>3. plan'.ack = plan.ack
    BY <1>0, <2>1, <2>2, PatchFields
  <2> QED
    BY <1>11, <2>3
<1> QED
  BY <1>2, <1>3, <1>4, <1>5, <1>6, <1>7, <1>8, <1>9, <1>10, <1>11 DEF Round

\* Where a round stands after a step, and the copy it goes on with.
LEMMA RoundLocal ==
    ASSUME TypeOK, Round
    PROVE  /\ local' \in {local, plan', NewPlan}
           /\ seen' = seen
           /\ pc' \in {"decide", "create", "lease"} =>
                 KubeProxyUpgraded \/ MarkInProgress \/ (UNCHANGED local /\ pc \in {"create", "lease"})
<1> USE DEF Continue, EndRound, EndIn, DoneWith, planVars
<1>1. CASE \/ PurgeJob \/ MarkPurged \/ SyncLeases \/ Summarize \/ Cancel \/ Pause \/ Resume
  BY <1>1 DEF PurgeJob, MarkPurged, SyncLeases, Summarize, Cancel, Pause, Resume
<1>2. CASE \/ StartPreflight \/ PreflightPasses \/ PreflightFails \/ PatchKubeProxy
           \/ WaitForKubeProxy
  BY <1>2 DEF StartPreflight, PreflightPasses, PreflightFails, PatchKubeProxy, WaitForKubeProxy
<1>6. CASE KubeProxyUpgraded
  <2>1. local' = plan' /\ seen' = seen
    BY <1>6 DEF KubeProxyUpgraded
  <2> QED
    BY <1>6, <2>1, Zenon
<1>3. CASE PauseOnFailures \/ RecordPause \/ Halt \/ Complete \/ HoldOff \/ WaitForSlot
  BY <1>3 DEF PauseOnFailures, RecordPause, Halt, Complete, HoldOff, WaitForSlot
<1>4. CASE MarkInProgress
  <2>1. local' \in {local, plan'} /\ seen' = seen
    BY <1>4 DEF MarkInProgress
  <2> QED
    BY <1>4, <2>1, Zenon
<1>5. CASE StopAtWorker \/ JobAlreadyExists \/ CreatePatchJob \/ AcquireLease
  BY <1>5 DEF StopAtWorker, JobAlreadyExists, CreatePatchJob, AcquireLease
<1> QED
  BY <1>1, <1>2, <1>6, <1>3, <1>4, <1>5 DEF Round

LEMMA InitProxy == Init => ProxyInv
BY DEF Init, NewPlan, ProxyInv

\* kubeProxyUpgraded is written by KubeProxyUpgraded, which has seen the rollout.
LEMMA RoundProxy ==
    ASSUME TypeOK, NeverDue, ProxyInv, Round
    PROVE  ProxyInv'
<1> DEFINE At == {"decide", "create", "lease"}
<1>0. plan \in Plan /\ local \in Plan /\ seen \in Plan
  BY DEF TypeOK
<1>1. NewPlan.proxied = FALSE
  BY DEF NewPlan
<1>2. view' = view
  BY DEF Round, NeverDue, PurgeJob, MarkPurged, SyncLeases, Summarize, Cancel, Pause, Resume,
         StartPreflight, PreflightPasses, PreflightFails, PatchKubeProxy, WaitForKubeProxy,
         KubeProxyUpgraded, PauseOnFailures, RecordPause, Halt, Complete, HoldOff, WaitForSlot,
         MarkInProgress, StopAtWorker, JobAlreadyExists, CreatePatchJob, AcquireLease, jobVars
<1>3. ControlPlaneDone' <=> ControlPlaneDone
  BY <1>2 DEF ControlPlaneDone, AllCompleted
<1>4. CASE KubeProxyUpgraded
  <2>1. PatchStatus([local EXCEPT !.proxied = TRUE]) /\ ~local.proxied
    BY <1>4 DEF KubeProxyUpgraded, KubeProxyPending
  <2>2. [local EXCEPT !.proxied = TRUE].proxied = TRUE
    BY <1>0 DEF Plan
  <2>3. plan'.proxied = TRUE
    <3> HIDE DEF At
    <3>1. plan'.proxied = Merge([local EXCEPT !.proxied = TRUE].proxied, local.proxied, plan.proxied)
      BY <1>0, <2>1 DEF PatchStatus, Plan
    <3> QED
      BY <2>1, <2>2, <3>1 DEF Merge
  <2>4. local' = plan' /\ UNCHANGED proxy /\ proxy \in {"ready", "absent"}
    BY <1>4 DEF KubeProxyUpgraded, Continue
  <2> QED
    BY <2>3, <2>4 DEF ProxyInv
<1>5. CASE ~KubeProxyUpgraded
  <2>1. plan'.proxied = plan.proxied
    BY <1>5, RoundKeeps
  <2>2. local' \in {local, plan', NewPlan} /\ seen' = seen
    BY RoundLocal
  <2>3. seen'.proxied \/ local'.proxied => plan'.proxied
    BY <1>1, <2>1, <2>2 DEF ProxyInv
  <2>4. proxy' = proxy \/ (PatchKubeProxy /\ proxy = "old")
    BY <1>5 DEF Round, NeverDue, PurgeJob, MarkPurged, SyncLeases, Summarize, Cancel, Pause, Resume,
         StartPreflight, PreflightPasses, PreflightFails, PatchKubeProxy, WaitForKubeProxy,
         PauseOnFailures, RecordPause, Halt, Complete, HoldOff, WaitForSlot,
         MarkInProgress, StopAtWorker, JobAlreadyExists, CreatePatchJob, AcquireLease
  <2>5. plan'.proxied => proxy' \in {"ready", "absent"}
    BY <2>1, <2>4 DEF ProxyInv
  <2>6. ASSUME pc' \in At, ControlPlaneDone PROVE local'.proxied
    <3>1. CASE MarkInProgress
      <4>1. AtDecide /\ (local' = plan' \/ local' = local)
        BY <3>1 DEF MarkInProgress, AtSchedule
      <4>2. local.proxied
        BY <2>6, <4>1 DEF AtDecide, KubeProxyPending, ControlPlaneDone, ProxyInv
      <4> QED
        BY <2>1, <4>1, <4>2 DEF ProxyInv
    <3>2. CASE UNCHANGED local /\ pc \in {"create", "lease"}
      BY <2>6, <3>2 DEF ProxyInv
    <3> QED
      BY <1>5, <2>6, <3>1, <3>2, RoundLocal
  <2> QED
    BY <1>3, <2>3, <2>5, <2>6 DEF ProxyInv
<1> QED
  BY <1>4, <1>5

\* Nobody else writes it; the informers and new rounds only copy it.
LEMMA ProxyStep ==
    ASSUME TypeOK, NeverDue, ProxyInv, [Next]_vars
    PROVE  ProxyInv'
<1> USE DEF ProxyInv
<1>0. plan \in Plan /\ local \in Plan /\ seen \in Plan /\ NewPlan.proxied = FALSE
  BY DEF TypeOK, NewPlan
<1>1. CASE Reconcile
  BY <1>1 DEF Reconcile, Cached, planVars
<1>2. CASE SyncSomeLeases \/ Abort
  BY <1>0, <1>2 DEF SyncSomeLeases, Abort, EndRound, planVars
<1>3. CASE Round
  BY <1>3, RoundProxy
<1>4. ASSUME NEW n \in Node, JobFinishes(n) \/ CollectLease(n) \/ UserRetriesNode(n)
      PROVE  ProxyInv'
  <2>1. UNCHANGED <<plan, seen, local, proxy, pc, view>>
    BY <1>4 DEF JobFinishes, CollectLease, UserRetriesNode, planVars, roundVars, jobVars
  <2> QED
    BY <2>1 DEF ControlPlaneDone, AllCompleted
<1>5. CASE DeliverJobEvent
  BY <1>5 DEF DeliverJobEvent, planVars, roundVars
<1>6. CASE DeliverPlan
  BY <1>6 DEF DeliverPlan, roundVars, jobVars, ControlPlaneDone, AllCompleted
<1>7. CASE KubeProxyRollsOut
  BY <1>7 DEF KubeProxyRollsOut, roundVars, planVars, jobVars, ControlPlaneDone, AllCompleted
<1>8. CASE UserEditsSpec
  <2>1. plan'.proxied = plan.proxied
    BY <1>0, <1>8 DEF UserEditsSpec, Plan
  <2>2. UNCHANGED <<seen, local, proxy, pc, view>>
    BY <1>8 DEF UserEditsSpec, roundVars, jobVars
  <2> QED
    BY <2>1, <2>2 DEF ControlPlaneDone, AllCompleted
<1>9. CASE RetentionNears
  <2>1. plan'.proxied = plan.proxied /\ seen' \in {seen, plan'}
    BY <1>0, <1>9 DEF RetentionNears, Plan
  <2>2. UNCHANGED <<local, proxy, pc, view>>
    BY <1>9 DEF RetentionNears, roundVars, jobVars
  <2> QED
    BY <2>1, <2>2 DEF ControlPlaneDone, AllCompleted
<1>10. CASE RetentionExpires
  <2>1. \A p \in Plan : Expire(p).proxied = p.proxied
    BY DEF Expire, Plan
  <2>2. plan'.proxied = plan.proxied /\ seen'.proxied = seen.proxied /\ local'.proxied = local.proxied
    BY <1>0, <1>10, <2>1 DEF RetentionExpires
  <2>3. UNCHANGED <<proxy, pc, view>>
    BY <1>10 DEF RetentionExpires, jobVars
  <2> QED
    BY <2>2, <2>3 DEF ControlPlaneDone, AllCompleted
<1>11. CASE UNCHANGED vars
  BY <1>11 DEF vars, ControlPlaneDone, AllCompleted
<1> QED
  BY <1>1, <1>2, <1>3, <1>4, <1>5, <1>6, <1>7, <1>8, <1>9, <1>10, <1>11 DEF Next, Environment

\* A worker gets its job after the control plane and kube-proxy, although the round
\* that creates it may have read both long before.
LEMMA WorkersStep ==
    ASSUME NoDeletion, TypeOK, RolloutInv, ProxyInv, ProxyInv', WorkersLast, [Next]_vars
    PROVE  WorkersLast'
<1>1. [R!Next]_jobs
  BY RefinesStep
<1>2. \A c \in Node : jobs[c] = "completed" => jobs'[c] = "completed"
  BY <1>1 DEF R!Next, R!Start, R!MayStart, R!Finish, TypeOK, Terminal
<1>3. plan.proxied => plan'.proxied
  <2>1. CASE KubeProxyUpgraded
    BY <2>1 DEF KubeProxyUpgraded, KubeProxyPending, PatchStatus, Merge, TypeOK, Plan
  <2>2. CASE Round /\ ~KubeProxyUpgraded
    BY <2>2, RoundKeeps
  <2>3. CASE UserEditsSpec \/ RetentionNears \/ RetentionExpires
    BY <2>3 DEF UserEditsSpec, RetentionNears, RetentionExpires, Expire, TypeOK, Plan
  <2>4. CASE \/ Reconcile \/ SyncSomeLeases \/ Abort \/ DeliverJobEvent \/ DeliverPlan
             \/ KubeProxyRollsOut \/ UNCHANGED vars
             \/ \E n \in Node : JobFinishes(n) \/ CollectLease(n) \/ UserRetriesNode(n)
    BY <2>4 DEF Reconcile, SyncSomeLeases, Abort, DeliverJobEvent, DeliverPlan, KubeProxyRollsOut,
                JobFinishes, CollectLease, UserRetriesNode, planVars, vars
  <2> QED
    BY <2>1, <2>2, <2>3, <2>4 DEF Next, Environment
<1>4. SUFFICES ASSUME NEW n \in Node \ ControlPlane, KubernetesTarget, ControlPlane # {},
                      jobs'[n] # "none"
               PROVE  (\A c \in ControlPlane : jobs[c] = "completed") /\ plan.proxied
  BY <1>2, <1>3, TargetAssumption DEF WorkersLast, ProxyInv
<1>5. CASE jobs[n] # "none"
  BY <1>4, <1>5 DEF WorkersLast
<1>6. CASE jobs[n] = "none"
  <2>1. CreatePatchJob
    BY <1>4, <1>6
       DEF Next, Round, Environment, Reconcile, SyncSomeLeases, Abort,
           PurgeJob, RemoveJob, MarkPurged, SyncLeases, Summarize, Cancel, Pause, Resume,
           StartPreflight, PreflightPasses, PreflightFails, PatchKubeProxy, WaitForKubeProxy,
           KubeProxyUpgraded, PauseOnFailures, RecordPause, Halt, Complete, HoldOff, WaitForSlot,
           MarkInProgress, StopAtWorker, JobAlreadyExists, AcquireLease, JobFinishes,
           CollectLease, UserRetriesNode, DeliverJobEvent, DeliverPlan, KubeProxyRollsOut,
           UserEditsSpec, RetentionNears, RetentionExpires, TypeOK, jobVars, vars
  <2>2. ~Blocked(n) /\ pc = "create"
    BY <1>4, <1>6, <2>1 DEF CreatePatchJob, TypeOK
  <2>3. AllCompleted(ControlPlane)
    BY <1>4, <2>2 DEF Blocked
  <2>4. plan.proxied
    BY <1>4, <2>2, <2>3 DEF ProxyInv, ControlPlaneDone
  <2>5. \A c \in ControlPlane : jobs[c] = "completed"
    BY <2>3, TargetAssumption DEF AllCompleted, RolloutInv, ViewSound, Sound, Terminal
  <2> QED
    BY <2>4, <2>5
<1> QED
  BY <1>5, <1>6

\* No worker is given a job of a Kubernetes upgrade before every control plane node
\* has completed and kube-proxy has followed, whatever lags, until a job is deleted.
THEOREM WorkersFollow == NoDeletion => (Spec => []WorkersLast)
<1> SUFFICES ASSUME NoDeletion PROVE Spec => []WorkersLast
  OBVIOUS
<1>1. Init => WorkersLast
  BY DEF Init, WorkersLast
<1>2. TypeOK /\ RolloutInv /\ ProxyInv /\ [Next]_vars => ProxyInv'
  BY ProxyStep DEF RolloutInv
<1>3. TypeOK /\ RolloutInv /\ ProxyInv /\ ProxyInv' /\ WorkersLast /\ [Next]_vars => WorkersLast'
  BY WorkersStep
<1> QED
  BY <1>1, <1>2, <1>3, InitProxy, TypeCorrect, RolloutInvariant, PTL DEF Spec

-----------------------------------------------------------------------------
(* Leases.                                                                   *)

\* The nodes that take a slot of their group: those with a Lease, and those whose
\* job is not known to have finished.
Claimed(g) ==
    {n \in NodesOf(g) : leases[n] = "held" \/ (jobs[n] # "none" /\ view[n] \notin Terminal)}

\* The first event of a node is the creation of its job.
EventsFresh ==
    \A j \in DOMAIN events : events[j].state = "running" =>
        /\ view[events[j].node] = "none"
        /\ \A i \in DOMAIN events : i < j => events[i].node # events[j].node

\* The Leases of the jobs a round saw finish are gone once syncLeases is over.
Synchronized ==
    pc \notin {"idle", "leases", "purge"} =>
        \A n \in Node : view[n] \in Terminal => leases[n] # "held"

LeaseInv ==
    /\ \A n \in Node : leases[n] = "held" => jobs[n] # "none"
    /\ EventsFresh
    /\ Synchronized
    /\ \A g \in Group : Cardinality(Claimed(g)) =< Concurrency[g]

\* Slots that are only given back are still enough.
LEMMA ClaimsShrink ==
    ASSUME LeaseInv, \A g \in Group : Claimed(g)' \subseteq Claimed(g)
    PROVE  \A g \in Group : Cardinality(Claimed(g)') =< Concurrency[g]
<1> SUFFICES ASSUME NEW g \in Group PROVE Cardinality(Claimed(g)') =< Concurrency[g]
  OBVIOUS
<1>1. Claimed(g) \in SUBSET Node /\ Claimed(g)' \in SUBSET Claimed(g)
  BY DEF Claimed, NodesOf
<1>2. Cardinality(Claimed(g)') =< Cardinality(Claimed(g))
  BY <1>1, CountSubset
<1>3. /\ Cardinality(Claimed(g)) \in Nat /\ Cardinality(Claimed(g)') \in Nat
      /\ Concurrency[g] \in Nat
  BY <1>1, NodesFinite, GroupsAssumption
<1> QED
  BY <1>2, <1>3 DEF LeaseInv

\* The round that creates a job has a slot of the group for it: whoever takes one
\* is a node it counted as running, or one before it in its batch.
LEMMA SlotLeft ==
    ASSUME TypeOK, RolloutInv, LeaseInv, pc = "create",
           NEW n \in todo, IsNext(n), jobs[n] = "none", NEW g \in Group, BatchOf(g)
    PROVE  Cardinality(Claimed(g) \cup {n}) =< Concurrency[g]
<1> DEFINE before == {m \in Pending(g) : m < n}
<1>1. n \in Node /\ GroupOf[n] = g
  BY DEF BatchOf, Pending, NodesOf
<1>2. ASSUME NEW m \in Claimed(g) PROVE m \in before \cup Active(g)
  <2>1. m \in Node /\ GroupOf[m] = g /\ jobs[m] # "none"
    BY <1>2 DEF Claimed, NodesOf, LeaseInv
  <2>2. view[m] \notin Terminal
    BY <1>2, <2>1 DEF Claimed, LeaseInv, Synchronized
  <2>3. m < n
    BY <1>1, <2>1 DEF RolloutInv, CreatedInOrder, Node
  <2> QED
    BY <2>1, <2>2, <2>3 DEF Active, Pending, NodesOf, TypeOK, JobState
<1>3. before \in SUBSET Node /\ Active(g) \in SUBSET Node /\ Claimed(g) \in SUBSET Node
  BY DEF Pending, Active, Claimed, NodesOf
<1>4. Cardinality(Claimed(g)) =< Cardinality(before) + Cardinality(Active(g))
  BY <1>2, <1>3, CountUnion
<1>5. Cardinality(before) + Cardinality(Active(g)) < Concurrency[g]
  BY DEF BatchOf
<1>6. Cardinality(Claimed(g) \cup {n}) =< Cardinality(Claimed(g)) + 1
  BY <1>1, <1>3, CountOneMore
<1>7. /\ Cardinality(before) \in Nat /\ Cardinality(Active(g)) \in Nat /\ Concurrency[g] \in Nat
      /\ Cardinality(Claimed(g)) \in Nat /\ Cardinality(Claimed(g) \cup {n}) \in Nat
  BY <1>1, <1>3, NodesFinite, GroupsAssumption
<1> QED
  BY <1>4, <1>5, <1>6, <1>7

LEMMA InitLeases == Init => LeaseInv
<1> SUFFICES ASSUME Init PROVE LeaseInv
  OBVIOUS
<1>1. \A g \in Group : Claimed(g) = {}
  BY DEF Init, Claimed, NodesOf
<1>2. \A g \in Group : Cardinality(Claimed(g)) =< Concurrency[g]
  BY <1>1, FS_EmptySet, GroupsAssumption
<1> QED
  BY <1>2 DEF Init, LeaseInv, EventsFresh, Synchronized

\* A step that moves no job, event or Lease and does not skip syncLeases.
LEMMA LeaseFrame ==
    ASSUME LeaseInv, UNCHANGED <<jobs, view, events, leases>>,
           \/ pc' \in {"idle", "leases", "purge"}
           \/ pc \notin {"idle", "leases", "purge"}
    PROVE  LeaseInv'
<1>1. EventsFresh' /\ Synchronized'
  BY DEF LeaseInv, EventsFresh, Synchronized
<1>2. \A g \in Group : Claimed(g)' \subseteq Claimed(g)
  BY DEF Claimed, NodesOf
<1> QED
  BY <1>1, <1>2, ClaimsShrink DEF LeaseInv

\* An event joins the others at the end.
LEMMA AppendFresh ==
    ASSUME TypeOK, EventsFresh, NEW e \in Event, events' = Append(events, e), view' = view,
           e.state = "running" =>
               view[e.node] = "none" /\ \A i \in DOMAIN events : events[i].node # e.node
    PROVE  EventsFresh'
<1> SUFFICES ASSUME NEW j \in DOMAIN events', events'[j].state = "running"
             PROVE  /\ view[events'[j].node] = "none"
                    /\ \A i \in DOMAIN events' : i < j => events'[i].node # events'[j].node
  BY DEF EventsFresh
<1>1. /\ events \in Seq(Event) /\ Len(events) \in Nat /\ DOMAIN events = 1..Len(events)
      /\ DOMAIN events' = 1..(Len(events) + 1)
      /\ events'[Len(events) + 1] = e
      /\ \A i \in 1..Len(events) : events'[i] = events[i]
  BY DEF TypeOK
<1>2. CASE j = Len(events) + 1
  BY <1>1, <1>2
<1>3. CASE j \in 1..Len(events)
  BY <1>1, <1>3 DEF EventsFresh
<1> QED
  BY <1>1, <1>2, <1>3

\* Delivering an event never takes a slot: a job is seen to exist before it is seen
\* to have finished, so one that is seen to have finished stays so.
LEMMA LeaseDeliver ==
    ASSUME TypeOK, RolloutInv, LeaseInv, DeliverJobEvent
    PROVE  LeaseInv' /\ \A n \in Node : view[n] \in Terminal => view'[n] = view[n]
<1> DEFINE e == Head(events)
<1>1. /\ events # <<>> /\ events' = Tail(events) /\ pc' = "idle" /\ UNCHANGED <<jobs, leases>>
      /\ view' = [view EXCEPT ![e.node] = e.state]
  BY DEF DeliverJobEvent, roundVars
<1>2. /\ events \in Seq(Event) /\ Len(events) \in Nat /\ DOMAIN events = 1..Len(events)
      /\ Len(events) > 0 /\ e = events[1] /\ DOMAIN events' = 1..(Len(events) - 1)
      /\ \A i \in DOMAIN events' : i + 1 \in DOMAIN events /\ events'[i] = events[i + 1]
  BY <1>1 DEF TypeOK
<1>3. e \in Event /\ e.node \in Node /\ e.state \in JobState
  <2>1. events[1] \in Event
    BY <1>2
  <2>2. e \in Event
    BY <1>2, <2>1
  <2> HIDE DEF e
  <2> QED
    BY <2>2 DEF Event
<1>4. e.state # "none" /\ Sound(e.node, e.state)
  BY <1>2 DEF RolloutInv, EventsSound
<1>5. e.state = "running" => view[e.node] = "none"
  BY <1>2 DEF LeaseInv, EventsFresh
<1> HIDE DEF e
<1>6. ASSUME NEW n \in Node, view[n] \in Terminal PROVE view'[n] = view[n]
  <2>1. CASE n # e.node
    BY <1>1, <2>1 DEF TypeOK
  <2>2. CASE n = e.node
    <3>1. jobs[n] = view[n]
      BY <1>6 DEF RolloutInv, ViewSound, Sound
    <3>2. e.state \in Terminal
      BY <1>3, <1>4, <1>5, <1>6, <2>2 DEF JobState, Terminal
    <3> QED
      BY <1>1, <1>3, <1>4, <2>2, <3>1, <3>2 DEF Sound, TypeOK
  <2> QED
    BY <2>1, <2>2
<1>7. EventsFresh'
  <2> SUFFICES ASSUME NEW j \in DOMAIN events', events'[j].state = "running"
               PROVE  /\ view'[events'[j].node] = "none"
                      /\ \A i \in DOMAIN events' : i < j => events'[i].node # events'[j].node
    BY DEF EventsFresh
  <2>1. j + 1 \in DOMAIN events /\ events'[j] = events[j + 1] /\ 1 < j + 1 /\ 1 \in DOMAIN events
    BY <1>2
  <2>2. /\ view[events'[j].node] = "none"
        /\ \A i \in DOMAIN events : i < j + 1 => events[i].node # events'[j].node
    BY <2>1 DEF LeaseInv, EventsFresh
  <2>3. e.node # events'[j].node
    BY <1>2, <2>1, <2>2
  <2>4. events'[j].node \in Node
    <3>1. events[j + 1] \in Event
      BY <1>2, <2>1
    <3> QED
      BY <2>1, <3>1 DEF Event
  <2>5. view'[events'[j].node] = "none"
    BY <1>1, <2>2, <2>3, <2>4 DEF TypeOK
  <2>6. ASSUME NEW i \in DOMAIN events', i < j PROVE events'[i].node # events'[j].node
    <3>1. i + 1 \in DOMAIN events /\ events'[i] = events[i + 1] /\ i + 1 < j + 1
      BY <1>2, <2>6
    <3> QED
      BY <2>2, <3>1
  <2> QED
    BY <2>5, <2>6
<1>8. \A g \in Group : Claimed(g)' \subseteq Claimed(g)
  BY <1>1, <1>6 DEF Claimed, NodesOf
<1>9. Synchronized'
  BY <1>1 DEF Synchronized
<1>10. \A n \in Node : leases'[n] = "held" => jobs'[n] # "none"
  BY <1>1 DEF LeaseInv
<1> QED
  BY <1>6, <1>7, <1>8, <1>9, <1>10, ClaimsShrink DEF LeaseInv

\* syncLeases gives a Lease to jobs it saw running, which take a slot already.
LEMMA LeaseSync ==
    ASSUME TypeOK, RolloutInv, LeaseInv, SyncLeases \/ SyncSomeLeases
    PROVE  LeaseInv'
<1>1. UNCHANGED <<jobs, view, events>>
  BY DEF SyncLeases, SyncSomeLeases, jobVars
<1>2. \A n \in Node : leases'[n] \in {leases[n], Synced(n)}
  BY DEF SyncLeases, SyncSomeLeases
<1>3. ASSUME NEW n \in Node, leases'[n] = "held"
      PROVE  leases[n] = "held" \/ (view[n] = "running" /\ jobs[n] # "none")
  BY <1>2, <1>3 DEF Synced, RolloutInv, ViewSound, Sound
<1>4. \A n \in Node : leases'[n] = "held" => jobs'[n] # "none"
  BY <1>1, <1>3 DEF LeaseInv
<1>5. Synchronized'
  <2>1. CASE SyncLeases
    <3>1. ASSUME NEW n \in Node, view[n] \in Terminal PROVE leases'[n] # "held"
      <4>1. leases'[n] = Synced(n)
        BY <2>1 DEF SyncLeases
      <4>2. Synced(n) = "none"
        BY <3>1 DEF Synced, Terminal
      <4> QED
        BY <4>1, <4>2
    <3> QED
      BY <1>1, <3>1 DEF Synchronized
  <2>2. CASE SyncSomeLeases
    BY <2>2 DEF SyncSomeLeases, EndRound, Synchronized
  <2> QED
    BY <2>1, <2>2
<1>6. EventsFresh'
  BY <1>1 DEF LeaseInv, EventsFresh
<1>7. \A g \in Group : Claimed(g)' \subseteq Claimed(g)
  BY <1>1, <1>3 DEF Claimed, NodesOf, Terminal
<1> QED
  BY <1>4, <1>5, <1>6, <1>7, ClaimsShrink DEF LeaseInv

\* The slot of a new job is taken when the job is created.
LEMMA LeaseCreate ==
    ASSUME TypeOK, RolloutInv, LeaseInv, CreatePatchJob
    PROVE  LeaseInv'
<1>1. PICK n \in todo : /\ IsNext(n) /\ jobs[n] = "none"
                        /\ jobs' = [jobs EXCEPT ![n] = "running"]
                        /\ events' = Append(events, [node |-> n, state |-> "running"])
  BY DEF CreatePatchJob
<1>2. pc = "create" /\ pc' = "lease" /\ UNCHANGED <<view, leases, todo>>
  BY DEF CreatePatchJob
<1>3. PICK g \in Group : BatchOf(g)
  BY <1>2 DEF RolloutInv, BatchFits
<1>4. n \in Node /\ GroupOf[n] = g /\ view[n] = "none"
  BY <1>3 DEF BatchOf, Pending, NodesOf
<1>5. \A m \in Node : jobs'[m] # "none" <=> jobs[m] # "none" \/ m = n
  BY <1>1, <1>4 DEF TypeOK
<1>6. \A m \in Node : leases'[m] = "held" => jobs'[m] # "none"
  BY <1>2, <1>5 DEF LeaseInv
<1>7. EventsFresh'
  <2> DEFINE e == [node |-> n, state |-> "running"]
  <2>1. e \in Event /\ e.node = n
    BY <1>4 DEF Event, JobState
  <2>2. \A i \in DOMAIN events : events[i].node # n
    BY <1>1 DEF RolloutInv, EventsSound, Sound
  <2>3. EventsFresh /\ events' = Append(events, e) /\ view' = view
    BY <1>1, <1>2 DEF LeaseInv
  <2> HIDE DEF e
  <2> QED
    BY <1>4, <2>1, <2>2, <2>3, AppendFresh
<1>8. Synchronized'
  BY <1>2 DEF LeaseInv, Synchronized
<1>9. ASSUME NEW h \in Group PROVE Cardinality(Claimed(h)') =< Concurrency[h]
  <2>1. CASE h # g
    <3>1. Claimed(h)' = Claimed(h)
      BY <1>2, <1>4, <1>5, <2>1 DEF Claimed, NodesOf
    <3> QED
      BY <3>1 DEF LeaseInv
  <2>2. CASE h = g
    <3>1. Claimed(h)' \in SUBSET (Claimed(g) \cup {n})
      BY <1>2, <1>5, <2>2 DEF Claimed, NodesOf
    <3>2. Claimed(g) \cup {n} \in SUBSET Node
      BY <1>4 DEF Claimed, NodesOf
    <3>3. Cardinality(Claimed(g) \cup {n}) =< Concurrency[g]
      BY <1>1, <1>2, <1>3, SlotLeft
    <3>4. Cardinality(Claimed(h)') =< Cardinality(Claimed(g) \cup {n})
      BY <3>1, <3>2, CountSubset
    <3>5. /\ Cardinality(Claimed(h)') \in Nat /\ Cardinality(Claimed(g) \cup {n}) \in Nat
          /\ Concurrency[g] \in Nat
      BY <3>1, <3>2, NodesFinite, GroupsAssumption
    <3> QED
      BY <2>2, <3>3, <3>4, <3>5
  <2> QED
    BY <2>1, <2>2
<1> QED
  BY <1>6, <1>7, <1>8, <1>9 DEF LeaseInv

\* The Lease is taken by a job that has its slot.
LEMMA LeaseAcquire ==
    ASSUME TypeOK, RolloutInv, LeaseInv, AcquireLease
    PROVE  LeaseInv'
<1>1. PICK n \in todo : /\ IsNext(n) /\ leases' = [leases EXCEPT ![n] = Acquired(n)]
                        /\ DoneWith(n)
  BY DEF AcquireLease
<1>2. pc = "lease" /\ UNCHANGED <<jobs, view, events>>
  BY DEF AcquireLease, jobVars
<1>3. n \in Node /\ view[n] = "none" /\ jobs[n] # "none"
  BY <1>1, <1>2 DEF RolloutInv, BatchFits, BatchOf, Pending, NodesOf, JobBeforeLease
<1>4. \A m \in Node : leases'[m] = "held" => leases[m] = "held" \/ m = n
  BY <1>1 DEF TypeOK
<1>5. \A m \in Node : leases'[m] = "held" => jobs'[m] # "none"
  BY <1>2, <1>3, <1>4 DEF LeaseInv
<1>6. EventsFresh'
  BY <1>2 DEF LeaseInv, EventsFresh
<1>7. Synchronized'
  BY <1>2, <1>3, <1>4 DEF LeaseInv, Synchronized, Terminal
<1>8. \A g \in Group : Claimed(g)' \subseteq Claimed(g)
  BY <1>2, <1>3, <1>4 DEF Claimed, NodesOf, Terminal
<1> QED
  BY <1>5, <1>6, <1>7, <1>8, ClaimsShrink DEF LeaseInv

\* A job that finishes keeps its slot until the operator has seen it.
LEMMA LeaseFinish ==
    ASSUME TypeOK, LeaseInv, NEW n \in Node, JobFinishes(n)
    PROVE  LeaseInv'
<1>1. PICK outcome \in Terminal :
        /\ jobs' = [jobs EXCEPT ![n] = outcome]
        /\ events' = Append(events, [node |-> n, state |-> outcome])
  BY DEF JobFinishes
<1>2. jobs[n] = "running" /\ UNCHANGED <<view, leases, pc>>
  BY DEF JobFinishes, roundVars
<1>3. \A m \in Node : jobs'[m] # "none" <=> jobs[m] # "none"
  BY <1>1, <1>2 DEF TypeOK, Terminal
<1>4. EventsFresh'
  <2> DEFINE e == [node |-> n, state |-> outcome]
  <2>1. e \in Event /\ e.state # "running"
    BY DEF Event, JobState, Terminal
  <2>2. EventsFresh /\ events' = Append(events, e) /\ view' = view
    BY <1>1, <1>2 DEF LeaseInv
  <2> HIDE DEF e
  <2> QED
    BY <2>1, <2>2, AppendFresh
<1>5. Synchronized'
  BY <1>2 DEF LeaseInv, Synchronized
<1>6. \A g \in Group : Claimed(g)' \subseteq Claimed(g)
  BY <1>2, <1>3 DEF Claimed, NodesOf
<1>7. \A m \in Node : leases'[m] = "held" => jobs'[m] # "none"
  BY <1>2, <1>3 DEF LeaseInv
<1> QED
  BY <1>4, <1>5, <1>6, <1>7, ClaimsShrink DEF LeaseInv

LEMMA LeaseStep ==
    ASSUME NoDeletion, TypeOK, RolloutInv, LeaseInv, [Next]_vars
    PROVE  LeaseInv'
<1>0. pc # "purge" /\ ~Retention
  BY DEF RolloutInv, NeverDue, NoDeletion
<1>1. CASE Reconcile
  BY <1>1, LeaseFrame DEF Reconcile, jobVars
<1>2. CASE SyncLeases \/ SyncSomeLeases
  BY <1>2, LeaseSync
<1>3. CASE \/ Summarize \/ Cancel \/ Pause \/ Resume \/ StartPreflight \/ PreflightPasses
           \/ PreflightFails \/ PatchKubeProxy \/ WaitForKubeProxy \/ KubeProxyUpgraded
  <2>1. UNCHANGED <<jobs, view, events, leases>>
    BY <1>3 DEF Summarize, Cancel, Pause, Resume, StartPreflight, PreflightPasses, PreflightFails,
                PatchKubeProxy, WaitForKubeProxy, KubeProxyUpgraded, jobVars
  <2>2. pc \notin {"idle", "leases", "purge"}
    BY <1>3 DEF Summarize, Cancel, Pause, Resume, StartPreflight, PreflightPasses, PreflightFails,
                PatchKubeProxy, WaitForKubeProxy, KubeProxyUpgraded, AtPreflight, AtChecks, AtProxy
  <2> QED
    BY <2>1, <2>2, LeaseFrame
<1>4. CASE \/ PauseOnFailures \/ RecordPause \/ Halt \/ Complete \/ HoldOff \/ WaitForSlot
           \/ MarkInProgress \/ StopAtWorker \/ JobAlreadyExists
  <2>1. UNCHANGED <<jobs, view, events, leases>>
    BY <1>4 DEF PauseOnFailures, RecordPause, Halt, Complete, HoldOff, WaitForSlot, MarkInProgress,
                StopAtWorker, JobAlreadyExists, jobVars
  <2>2. pc \notin {"idle", "leases", "purge"}
    BY <1>4 DEF PauseOnFailures, RecordPause, Halt, Complete, HoldOff, WaitForSlot, MarkInProgress,
                StopAtWorker, JobAlreadyExists, AtSchedule, AtDecide, AtProxy, AtPreflight
  <2> QED
    BY <2>1, <2>2, LeaseFrame
<1>5. CASE CreatePatchJob
  BY <1>5, LeaseCreate
<1>6. CASE AcquireLease
  BY <1>6, LeaseAcquire
<1>7. CASE Abort
  BY <1>7, LeaseFrame DEF Abort, EndRound, jobVars
<1>8. ASSUME NEW n \in Node, JobFinishes(n) PROVE LeaseInv'
  BY <1>8, LeaseFinish
<1>9. ASSUME NEW n \in Node, CollectLease(n) PROVE LeaseInv'
  <2>1. UNCHANGED <<jobs, view, events, pc>> /\ \A m \in Node : leases'[m] \in {leases[m], "none"}
    BY <1>9 DEF CollectLease, TypeOK, jobVars, roundVars
  <2>2. EventsFresh' /\ Synchronized' /\ \A m \in Node : leases'[m] = "held" => jobs'[m] # "none"
    BY <2>1 DEF LeaseInv, EventsFresh, Synchronized
  <2>3. \A g \in Group : Claimed(g)' \subseteq Claimed(g)
    BY <2>1 DEF Claimed, NodesOf
  <2> QED
    BY <2>2, <2>3, ClaimsShrink DEF LeaseInv
<1>10. \A n \in Node : ~UserRetriesNode(n)
  BY DEF UserRetriesNode, NoDeletion, TypeOK
<1>11. CASE DeliverJobEvent
  BY <1>11, LeaseDeliver
<1>12. CASE \/ DeliverPlan \/ KubeProxyRollsOut \/ UserEditsSpec \/ RetentionNears
            \/ RetentionExpires \/ UNCHANGED vars
  <2>1. UNCHANGED <<jobs, view, events, leases, pc>>
    BY <1>12 DEF DeliverPlan, KubeProxyRollsOut, UserEditsSpec, RetentionNears, RetentionExpires,
                 vars, jobVars, roundVars
  <2> QED
    BY <2>1, LeaseFrame
<1>13. ~PurgeJob /\ ~MarkPurged
  BY <1>0 DEF PurgeJob, MarkPurged
<1> QED
  BY <1>1, <1>2, <1>3, <1>4, <1>5, <1>6, <1>7, <1>8, <1>9, <1>10, <1>11, <1>12, <1>13
     DEF Next, Round, Environment

\* Every slot of a group is taken at most once.
THEOREM LeaseInvariant == NoDeletion => (Spec => []LeaseInv)
<1> SUFFICES ASSUME NoDeletion PROVE Spec => []LeaseInv
  OBVIOUS
<1>1. TypeOK /\ RolloutInv /\ LeaseInv /\ [Next]_vars => LeaseInv'
  BY LeaseStep
<1> QED
  BY <1>1, InitLeases, TypeCorrect, RolloutInvariant, PTL DEF Spec

\* A group never holds more Leases than its concurrency, although the Lease of a
\* finished job is released rounds after the job, until a PatchJob is deleted.
THEOREM LeasesBounded == NoDeletion => (Spec => []LeaseBound)
<1>1. ASSUME LeaseInv PROVE LeaseBound
  <2> SUFFICES ASSUME NEW g \in Group
               PROVE  Cardinality({n \in NodesOf(g) : leases[n] = "held"}) =< Concurrency[g]
    BY DEF LeaseBound
  <2> DEFINE held == {n \in NodesOf(g) : leases[n] = "held"}
  <2>1. Claimed(g) \in SUBSET Node /\ held \in SUBSET Claimed(g)
    BY DEF Claimed, NodesOf
  <2>2. Cardinality(held) =< Cardinality(Claimed(g)) /\ Cardinality(Claimed(g)) =< Concurrency[g]
    BY <1>1, <2>1, CountSubset DEF LeaseInv
  <2>3. Cardinality(held) \in Nat /\ Cardinality(Claimed(g)) \in Nat /\ Concurrency[g] \in Nat
    BY <2>1, NodesFinite, GroupsAssumption
  <2> HIDE DEF held
  <2>4. Cardinality(held) =< Concurrency[g]
    BY <2>2, <2>3
  <2> QED
    BY <2>4 DEF held
<1> QED
  BY <1>1, LeaseInvariant, PTL

-----------------------------------------------------------------------------
(* Failures.                                                                 *)

\* The jobs that have failed or still may.
Exposed == {n \in Node : jobs[n] \in {"running", "failed"}}

\* Copies of failuresAcknowledged are behind the server's, which is behind the
\* failures seen; and jobs are only created by rounds that were within the budget.
FailureInv ==
    /\ seen.ack =< plan.ack /\ local.ack =< plan.ack
    /\ plan.ack =< Cardinality(FailedNodes)
    /\ pc \in {"create", "lease"} => ~Exceeded
    /\ Exposed # {} =>
          \E g \in Group : Cardinality(Exposed) < plan.ack + Threshold + Concurrency[g]

LEMMA InitFailures == Init => FailureInv
<1> SUFFICES ASSUME Init PROVE FailureInv
  OBVIOUS
<1>1. Exposed = {} /\ FailedNodes = {}
  BY DEF Init, Exposed, FailedNodes
<1>2. Cardinality(FailedNodes) = 0
  BY <1>1, FS_EmptySet
<1> QED
  BY <1>1, <1>2 DEF Init, NewPlan, FailureInv

\* The numbers compared.
LEMMA FailureTypes ==
    ASSUME TypeOK
    PROVE  /\ plan.ack \in Nat /\ seen.ack \in Nat /\ local.ack \in Nat
           /\ Cardinality(FailedNodes) \in Nat /\ Threshold \in Nat
           /\ Cardinality(Exposed) \in Nat /\ \A g \in Group : Concurrency[g] \in Nat
<1>1. FailedNodes \in SUBSET Node /\ Exposed \in SUBSET Node
  BY DEF FailedNodes, Exposed
<1>2. Threshold \in Nat
  BY PolicyAssumption DEF Threshold
<1> QED
  BY <1>1, <1>2, NodesFinite, GroupsAssumption DEF TypeOK, Plan

\* The exposure is bounded by what it was, or by the slots of one group on top of
\* the failures a round has accounted for.
LEMMA ExposureKept ==
    ASSUME TypeOK, TypeOK', FailureInv, Exposed' \subseteq Exposed, plan'.ack >= plan.ack
    PROVE  Exposed' # {} =>
              \E g \in Group : Cardinality(Exposed') < plan'.ack + Threshold + Concurrency[g]
<1> SUFFICES ASSUME Exposed' # {}
             PROVE  \E g \in Group :
                       Cardinality(Exposed') < plan'.ack + Threshold + Concurrency[g]
  OBVIOUS
<1>1. PICK g \in Group : Cardinality(Exposed) < plan.ack + Threshold + Concurrency[g]
  BY DEF FailureInv
<1>2. Exposed \in SUBSET Node /\ Exposed' \in SUBSET Exposed
  BY DEF Exposed
<1>3. Cardinality(Exposed') =< Cardinality(Exposed)
  BY <1>2, CountSubset
<1>4. Cardinality(Exposed') \in Nat
  BY <1>2, NodesFinite
<1>5. plan'.ack \in Nat
  BY DEF TypeOK, Plan
<1>6. Cardinality(Exposed') < plan'.ack + Threshold + Concurrency[g]
  BY <1>1, <1>3, <1>4, <1>5, FailureTypes
<1> QED
  BY <1>6

\* A new job in group g: every other job that has failed or may fail was seen to
\* have failed, or takes a slot of g.
LEMMA ExposureGrows ==
    ASSUME TypeOK, RolloutInv, LeaseInv, FailureInv, CreatePatchJob
    PROVE  \E g \in Group : Cardinality(Exposed') < plan'.ack + Threshold + Concurrency[g]
<1>1. PICK n \in todo : /\ IsNext(n) /\ jobs[n] = "none"
                        /\ jobs' = [jobs EXCEPT ![n] = "running"]
  BY DEF CreatePatchJob
<1>2. pc = "create" /\ plan' = plan
  BY DEF CreatePatchJob, planVars
<1>3. PICK g \in Group : BatchOf(g)
  BY <1>2 DEF RolloutInv, BatchFits
<1>4. n \in Node /\ GroupOf[n] = g
  BY <1>3 DEF BatchOf, Pending, NodesOf
<1> DEFINE slots == Claimed(g) \cup {n}
<1>5. ASSUME NEW m \in Exposed' PROVE m \in FailedNodes \cup slots
  <2>1. m \in Node /\ (m = n \/ jobs[m] \in {"running", "failed"})
    BY <1>1, <1>4, <1>5 DEF Exposed, TypeOK
  <2>2. CASE m = n
    BY <2>2
  <2>3. CASE m # n
    <3>1. jobs[m] \in {"running", "failed"} /\ GroupOf[m] \in Group
      BY <2>1, <2>3, GroupsAssumption
    <3>2. view[m] \in Terminal => m \in FailedNodes
      BY <2>1, <3>1 DEF RolloutInv, ViewSound, Sound, FailedNodes, Terminal
    <3>3. CASE GroupOf[m] = g
      BY <2>1, <3>1, <3>2, <3>3 DEF Claimed, NodesOf
    <3>4. CASE GroupOf[m] < g
      <4>1. GroupOf[m] \in 1..(g - 1)
        BY <3>1, <3>4, SizesAssumption DEF Group
      <4>2. view[m] \in Terminal
        BY <1>3, <2>1, <4>1 DEF BatchOf, Finished, NodesOf
      <4> QED
        BY <3>2, <4>2
    <3>5. CASE GroupOf[m] > g
      <4>1. jobs[n] \in Terminal
        BY <1>4, <2>1, <3>1, <3>5, SizesAssumption DEF RolloutInv, GroupsInOrder, Group
      <4> QED
        BY <1>1, <4>1 DEF Terminal
    <3> QED
      BY <3>1, <3>3, <3>4, <3>5, SizesAssumption DEF Group
  <2> QED
    BY <2>2, <2>3
<1>6. FailedNodes \in SUBSET Node /\ slots \in SUBSET Node
  BY <1>4 DEF FailedNodes, Claimed, NodesOf
<1>7. Exposed' \in SUBSET (FailedNodes \cup slots)
  BY <1>5
<1>8. Cardinality(slots) =< Concurrency[g]
  BY <1>1, <1>2, <1>3, SlotLeft
<1> HIDE DEF slots
<1>9. Cardinality(Exposed') =< Cardinality(FailedNodes) + Cardinality(slots)
  BY <1>6, <1>7, CountUnion
<1>10. Cardinality(FailedNodes) - local.ack < Threshold /\ local.ack =< plan.ack
  BY <1>2, FailureTypes DEF FailureInv, Exceeded
<1>11. Cardinality(slots) \in Nat /\ Cardinality(Exposed') \in Nat
  BY <1>6, <1>7, NodesFinite
<1>12. Cardinality(Exposed') < plan.ack + Threshold + Concurrency[g]
  BY <1>8, <1>9, <1>10, <1>11, FailureTypes
<1> QED
  BY <1>2, <1>12

\* Failures that were seen are seen for good, and so more and more of them.
LEMMA FailuresSeen ==
    ASSUME TypeOK, \A n \in Node : view[n] \in Terminal => view'[n] = view[n]
    PROVE  Cardinality(FailedNodes) =< Cardinality(FailedNodes')
<1>1. FailedNodes' \in SUBSET Node /\ FailedNodes \in SUBSET FailedNodes'
  BY DEF FailedNodes, Terminal
<1> QED
  BY <1>1, CountSubset

\* Rounds: only Resume accepts failures, all those it has seen.
LEMMA FailureRound ==
    ASSUME TypeOK, TypeOK', RolloutInv, LeaseInv, FailureInv, Round
    PROVE  FailureInv'
<1> DEFINE failed == Cardinality(FailedNodes)
<1>0. pc # "purge"
  BY DEF RolloutInv, NeverDue
<1>1. view' = view
  BY <1>0 DEF Round, PurgeJob, MarkPurged, SyncLeases, Summarize, Cancel, Pause, Resume,
         StartPreflight, PreflightPasses, PreflightFails, PatchKubeProxy, WaitForKubeProxy,
         KubeProxyUpgraded, PauseOnFailures, RecordPause, Halt, Complete, HoldOff, WaitForSlot,
         MarkInProgress, StopAtWorker, JobAlreadyExists, CreatePatchJob, AcquireLease, jobVars
<1>2. FailedNodes' = FailedNodes
  BY <1>1 DEF FailedNodes
<1>3. AckAfter(local) = local.ack
  BY FailureTypes DEF FailureInv, AckAfter
<1>4. plan'.ack \in {plan.ack, failed} /\ (~Resume => plan'.ack = plan.ack)
  BY <1>3, RoundKeeps
<1>5. plan'.ack >= plan.ack /\ plan'.ack =< failed
  BY <1>4, FailureTypes DEF FailureInv
<1>6. seen' = seen /\ local' \in {local, plan', NewPlan} /\ NewPlan.ack = 0
  BY RoundLocal DEF NewPlan
<1>7. plan'.ack \in Nat
  BY DEF TypeOK, Plan
<1>8. seen'.ack =< plan'.ack /\ local'.ack =< plan'.ack
  BY <1>5, <1>6, <1>7, FailureTypes DEF FailureInv
<1>9. pc' \in {"create", "lease"} => ~Exceeded'
  <2> SUFFICES ASSUME pc' \in {"create", "lease"} PROVE ~Exceeded'
    OBVIOUS
  <2>1. CASE MarkInProgress
    <3>1. ~Exceeded /\ (local' = plan' \/ local' = local)
      BY <2>1 DEF MarkInProgress, AtSchedule
    <3>2. plan'.ack = plan.ack
      <4>1. ~Resume
        BY <2>1 DEF MarkInProgress, Resume, Continue
      <4> QED
        BY <1>4, <4>1
    <3>3. local'.ack >= local.ack /\ local'.ack \in Nat
      BY <1>7, <3>1, <3>2, FailureTypes DEF FailureInv
    <3> QED
      BY <1>2, <3>1, <3>3, FailureTypes DEF Exceeded
  <2>2. CASE UNCHANGED local /\ pc \in {"create", "lease"}
    BY <1>2, <2>2 DEF FailureInv, Exceeded
  <2>3. ~KubeProxyUpgraded
    BY DEF KubeProxyUpgraded, Continue
  <2> QED
    BY <2>1, <2>2, <2>3, RoundLocal
<1>10. Exposed' # {} =>
         \E g \in Group : Cardinality(Exposed') < plan'.ack + Threshold + Concurrency[g]
  <2>1. CASE CreatePatchJob
    BY <2>1, ExposureGrows
  <2>2. CASE ~CreatePatchJob
    <3>1. jobs' = jobs
      BY <1>0, <2>2 DEF Round, PurgeJob, MarkPurged, SyncLeases, Summarize, Cancel, Pause, Resume,
         StartPreflight, PreflightPasses, PreflightFails, PatchKubeProxy, WaitForKubeProxy,
         KubeProxyUpgraded, PauseOnFailures, RecordPause, Halt, Complete, HoldOff, WaitForSlot,
         MarkInProgress, StopAtWorker, JobAlreadyExists, AcquireLease, jobVars
    <3>2. Exposed' \subseteq Exposed
      BY <3>1 DEF Exposed
    <3> QED
      BY <1>5, <3>2, ExposureKept
  <2> QED
    BY <2>1, <2>2
<1> QED
  BY <1>2, <1>5, <1>8, <1>9, <1>10 DEF FailureInv

\* Between rounds: jobs finish, failures are seen, copies are made.
LEMMA FailureElse ==
    ASSUME TypeOK, TypeOK', FailureInv,
           seen'.ack \in {seen.ack, plan.ack}, plan'.ack = plan.ack,
           local'.ack \in {local.ack, seen.ack, plan.ack, 0},
           pc' \in {"create", "lease"} =>
               pc \in {"create", "lease"} /\ local'.ack = local.ack /\ UNCHANGED view,
           Cardinality(FailedNodes) =< Cardinality(FailedNodes'),
           Exposed' \subseteq Exposed
    PROVE  FailureInv'
<1>1. Cardinality(FailedNodes') \in Nat
  BY NodesFinite DEF FailedNodes
<1>2. /\ seen'.ack =< plan'.ack /\ local'.ack =< plan'.ack
      /\ plan'.ack =< Cardinality(FailedNodes')
  BY <1>1, FailureTypes DEF FailureInv
<1>3. pc' \in {"create", "lease"} => ~Exceeded'
  BY DEF FailureInv, Exceeded, FailedNodes
<1>4. plan'.ack >= plan.ack
  BY FailureTypes
<1> QED
  BY <1>2, <1>3, <1>4, ExposureKept DEF FailureInv
LEMMA FailureStep ==
    ASSUME NoDeletion, TypeOK, TypeOK', RolloutInv, LeaseInv, FailureInv, [Next]_vars
    PROVE  FailureInv'
<1> USE DEF planVars, jobVars, roundVars
<1>0. NewPlan.ack = 0 /\ ~Retention
  BY DEF NewPlan, NoDeletion
<1>1. CASE Round
  BY <1>1, FailureRound
<1>2. CASE UNCHANGED <<plan, seen, jobs, view>> /\ (Reconcile \/ SyncSomeLeases \/ Abort)
  <2>1. local'.ack \in {seen.ack, plan.ack, 0} /\ pc' \notin {"create", "lease"}
    BY <1>0, <1>2 DEF Reconcile, SyncSomeLeases, Abort, EndRound, Cached
  <2>2. FailedNodes' = FailedNodes /\ Exposed' = Exposed
    BY <1>2 DEF FailedNodes, Exposed
  <2> QED
    BY <1>2, <2>1, <2>2, FailureElse, FailureTypes
<1>3. ASSUME NEW n \in Node, JobFinishes(n) PROVE FailureInv'
  <2>1. UNCHANGED <<plan, seen, local, pc, view>> /\ FailedNodes' = FailedNodes
    BY <1>3 DEF JobFinishes, FailedNodes
  <2>2. Exposed' \subseteq Exposed
    BY <1>3 DEF JobFinishes, Exposed, TypeOK
  <2> QED
    BY <2>1, <2>2, FailureElse, FailureTypes
<1>4. CASE DeliverJobEvent
  <2>1. UNCHANGED <<plan, seen, local, jobs>> /\ pc' = "idle"
    BY <1>4 DEF DeliverJobEvent
  <2>2. Cardinality(FailedNodes) =< Cardinality(FailedNodes')
    BY <1>4, LeaseDeliver, FailuresSeen
  <2>3. Exposed' = Exposed
    BY <2>1 DEF Exposed
  <2> QED
    BY <2>1, <2>2, <2>3, FailureElse
<1>5. CASE DeliverPlan
  <2>1. seen' = plan /\ UNCHANGED <<plan, local, pc, view, jobs>>
    BY <1>5 DEF DeliverPlan
  <2>2. FailedNodes' = FailedNodes /\ Exposed' = Exposed
    BY <2>1 DEF FailedNodes, Exposed
  <2> QED
    BY <2>1, <2>2, FailureElse, FailureTypes
<1>6. CASE UserEditsSpec
  <2>1. plan'.ack = plan.ack
    BY <1>6 DEF UserEditsSpec, TypeOK, Plan
  <2>2. UNCHANGED <<seen, local, pc, view, jobs>>
    BY <1>6 DEF UserEditsSpec
  <2>3. FailedNodes' = FailedNodes /\ Exposed' = Exposed
    BY <2>2 DEF FailedNodes, Exposed
  <2> QED
    BY <2>1, <2>2, <2>3, FailureElse, FailureTypes
<1>7. CASE RetentionExpires
  <2>1. \A p \in Plan : Expire(p).ack = p.ack
    BY DEF Expire, Plan
  <2>2. plan'.ack = plan.ack /\ seen'.ack = seen.ack /\ local'.ack = local.ack
    BY <1>7, <2>1 DEF RetentionExpires, TypeOK
  <2>3. UNCHANGED <<pc, view, jobs>>
    BY <1>7 DEF RetentionExpires
  <2>4. FailedNodes' = FailedNodes /\ Exposed' = Exposed
    BY <2>3 DEF FailedNodes, Exposed
  <2> QED
    BY <2>2, <2>3, <2>4, FailureElse, FailureTypes
<1>8. CASE UNCHANGED <<plan, seen, local, pc, view, jobs>>
  <2>1. FailedNodes' = FailedNodes /\ Exposed' = Exposed
    BY <1>8 DEF FailedNodes, Exposed
  <2> QED
    BY <1>8, <2>1, FailureElse, FailureTypes
<1>9. ASSUME NEW n \in Node, CollectLease(n) PROVE UNCHANGED <<plan, seen, local, pc, view, jobs>>
  BY <1>9 DEF CollectLease
<1>10. KubeProxyRollsOut \/ UNCHANGED vars => UNCHANGED <<plan, seen, local, pc, view, jobs>>
  BY DEF KubeProxyRollsOut, vars
<1>11. Reconcile \/ SyncSomeLeases \/ Abort => UNCHANGED <<plan, seen, jobs, view>>
  BY DEF Reconcile, SyncSomeLeases, Abort
<1>12. ~RetentionNears /\ \A n \in Node : ~UserRetriesNode(n)
  BY <1>0 DEF RetentionNears, UserRetriesNode, NoDeletion, TypeOK
<1> QED
  BY <1>1, <1>2, <1>3, <1>4, <1>5, <1>6, <1>7, <1>8, <1>9, <1>10, <1>11, <1>12
     DEF Next, Environment

\* The accounts of failures hold in every interleaving.
THEOREM FailureInvariant == NoDeletion => (Spec => []FailureInv)
<1> SUFFICES ASSUME NoDeletion PROVE Spec => []FailureInv
  OBVIOUS
<1>1. /\ TypeOK /\ TypeOK' /\ RolloutInv /\ LeaseInv /\ FailureInv /\ [Next]_vars
      => FailureInv'
  BY FailureStep
<1> QED
  BY <1>1, InitFailures, TypeCorrect, RolloutInvariant, LeaseInvariant, PTL DEF Spec

\* The failure budget is overshot by at most one group's concurrency: what a round
\* has not seen fail yet are jobs that still take a slot of the group it works on.
\* For both policies, whatever lags, until a PatchJob is deleted.
THEOREM BudgetHolds == NoDeletion => (Spec => []FailuresBounded)
<1>1. ASSUME TypeOK, FailureInv PROVE FailuresBounded
  <2> DEFINE failed == {n \in Node : jobs[n] = "failed"}
  <2>1. SUFFICES ASSUME Cardinality(failed) > 0
                 PROVE  \E g \in Group : Cardinality(failed) < plan.ack + Threshold + Concurrency[g]
    BY DEF FailuresBounded
  <2>2. Exposed \in SUBSET Node /\ failed \in SUBSET Exposed
    BY DEF Exposed
  <2>3. Cardinality(failed) =< Cardinality(Exposed) /\ Cardinality(failed) \in Nat
    BY <2>2, CountSubset, NodesFinite
  <2>4. Exposed # {}
    BY <2>1, <2>2, FS_EmptySet
  <2> HIDE DEF failed
  <2>5. PICK g \in Group : Cardinality(Exposed) < plan.ack + Threshold + Concurrency[g]
    BY <1>1, <2>4 DEF FailureInv
  <2>6. Cardinality(failed) < plan.ack + Threshold + Concurrency[g]
    BY <1>1, <2>3, <2>5, FailureTypes
  <2> QED
    BY <2>6
<1> QED
  BY <1>1, TypeCorrect, FailureInvariant, PTL
=============================================================================
