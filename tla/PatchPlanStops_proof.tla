------------------------- MODULE PatchPlanStops_proof -------------------------
(***************************************************************************)
(* What makes a PatchPlan stop: a rollout halted by its failures, failures a *)
(* user accepts by resuming, a history that is purged.  Each is decided on a *)
(* copy of the status and written by a merge patch, so the question is what  *)
(* a copy still says of the plan when it is acted upon.                      *)
(***************************************************************************)
EXTENDS PatchPlan_proof

-----------------------------------------------------------------------------
(* What a round writes.                                                      *)

\* A merge patch, field by field.
LEMMA PatchEach ==
    ASSUME plan \in Plan, NEW new, PatchStatus(new)
    PROVE  /\ plan'.phase = Merge(new.phase, local.phase, plan.phase)
           /\ plan'.ct = Merge(new.ct, local.ct, plan.ct)
           /\ plan'.ack = Merge(new.ack, local.ack, plan.ack)
           /\ plan'.purged = Merge(new.purged, local.purged, plan.purged)
           /\ plan'.counts = Merge(new.counts, local.counts, plan.counts)
           /\ plan'.paused = plan.paused /\ plan'.cancelled = plan.cancelled
           /\ plan'.gen = plan.gen
BY DEF PatchStatus, Plan

\* The fields a round leaves alone in the copy it edits.
LEMMA EditEach ==
    ASSUME local \in Plan
    PROVE  /\ \A phase : LET new == [local EXCEPT !.phase = phase] IN
                /\ new.phase = phase /\ new.ct = local.ct
                /\ new.purged = local.purged /\ new.counts = local.counts
           /\ \A phase, ct : LET new == [local EXCEPT !.phase = phase, !.ct = ct] IN
                /\ new.phase = phase /\ new.ct = ct
                /\ new.purged = local.purged /\ new.counts = local.counts
           /\ \A phase, ack : LET new == [local EXCEPT !.phase = phase, !.ack = ack] IN
                /\ new.phase = phase /\ new.ct = local.ct /\ new.ack = ack
                /\ new.purged = local.purged /\ new.counts = local.counts
           /\ \A phase, x : LET new == [local EXCEPT !.phase = phase, !.checked = x] IN
                /\ new.phase = phase /\ new.ct = local.ct
                /\ new.purged = local.purged /\ new.counts = local.counts
           /\ \A counts, ack : LET new == [local EXCEPT !.counts = counts, !.ack = ack] IN
                /\ new.phase = local.phase /\ new.ct = local.ct /\ new.ack = ack
                /\ new.purged = local.purged /\ new.counts = counts
           /\ LET new == [local EXCEPT !.proxied = TRUE] IN
                /\ new.phase = local.phase /\ new.ct = local.ct
                /\ new.purged = local.purged /\ new.counts = local.counts
           /\ LET new == [local EXCEPT !.purged = TRUE] IN
                /\ new.phase = local.phase /\ new.ct = local.ct
                /\ new.purged = TRUE /\ new.counts = local.counts
BY DEF Plan

\* Who writes the phase and the completion time, and what becomes of them.
LEMMA RoundStatus ==
    ASSUME TypeOK, Round
    PROVE  \/ plan'.phase = plan.phase /\ plan'.ct = plan.ct
           \/ Cancel /\ plan'.phase = "Cancelled" /\ plan'.ct \in {plan.ct, "recent"}
           \/ (Pause \/ RecordPause) /\ plan'.phase = "Paused" /\ plan'.ct = plan.ct
           \/ Resume /\ plan'.phase = "InProgress" /\ plan'.ct = plan.ct
           \/ StartPreflight /\ plan'.phase = "Preflighting" /\ plan'.ct = plan.ct
           \/ PreflightPasses /\ plan'.phase \in {plan.phase, "Pending"} /\ plan'.ct = plan.ct
           \/ PreflightFails /\ plan'.phase \in {plan.phase, "Failed"} /\ plan'.ct = plan.ct
           \/ Halt /\ plan'.phase = "Failed" /\ plan'.ct \in {plan.ct, "recent"}
           \/ Complete /\ plan'.phase = "Completed" /\ plan'.ct \in {plan.ct, "recent"}
           \/ MarkInProgress /\ plan'.phase = "InProgress" /\ plan'.ct \in {plan.ct, "none"}
<1> DEFINE Same == plan'.phase = plan.phase /\ plan'.ct = plan.ct
<1>0. plan \in Plan /\ local \in Plan
  BY DEF TypeOK
<1>1. ASSUME NEW phase, PatchStatus([local EXCEPT !.phase = phase])
      PROVE  /\ plan'.ct = plan.ct /\ plan'.phase \in {plan.phase, phase}
             /\ local.phase # phase => plan'.phase = phase
  <2> DEFINE new == [local EXCEPT !.phase = phase]
  <2>1. new.phase = phase /\ new.ct = local.ct /\ PatchStatus(new)
    BY <1>0, <1>1, EditEach
  <2> HIDE DEF new
  <2> QED
    BY <1>0, <2>1, PatchEach DEF Merge
<1>2. ASSUME NEW phase, NEW ct, PatchStatus([local EXCEPT !.phase = phase, !.ct = ct])
      PROVE  /\ plan'.ct \in {plan.ct, ct} /\ plan'.phase \in {plan.phase, phase}
             /\ local.phase # phase => plan'.phase = phase
  <2> DEFINE new == [local EXCEPT !.phase = phase, !.ct = ct]
  <2>1. new.phase = phase /\ new.ct = ct /\ PatchStatus(new)
    BY <1>0, <1>2, EditEach
  <2> HIDE DEF new
  <2> QED
    BY <1>0, <2>1, PatchEach DEF Merge
<1>3. ASSUME NEW phase, NEW ack, PatchStatus([local EXCEPT !.phase = phase, !.ack = ack])
      PROVE  /\ plan'.ct = plan.ct
             /\ local.phase # phase => plan'.phase = phase
  <2> DEFINE new == [local EXCEPT !.phase = phase, !.ack = ack]
  <2>1. new.phase = phase /\ new.ct = local.ct /\ PatchStatus(new)
    BY <1>0, <1>3, EditEach
  <2> HIDE DEF new
  <2> QED
    BY <1>0, <2>1, PatchEach DEF Merge
<1>4. ASSUME NEW phase, NEW x, PatchStatus([local EXCEPT !.phase = phase, !.checked = x])
      PROVE  plan'.ct = plan.ct /\ plan'.phase \in {plan.phase, phase}
  <2> DEFINE new == [local EXCEPT !.phase = phase, !.checked = x]
  <2>1. new.phase = phase /\ new.ct = local.ct /\ PatchStatus(new)
    BY <1>0, <1>4, EditEach
  <2> HIDE DEF new
  <2> QED
    BY <1>0, <2>1, PatchEach DEF Merge
<1>5. CASE Cancel
  <2>1. \/ UNCHANGED plan
        \/ /\ local.phase # "Cancelled"
           /\ PatchStatus([local EXCEPT !.phase = "Cancelled", !.ct = "recent"])
    BY <1>5 DEF Cancel, EndIn
  <2>2. \/ plan'.phase = plan.phase /\ plan'.ct = plan.ct
        \/ plan'.phase = "Cancelled" /\ plan'.ct \in {plan.ct, "recent"}
    BY <1>2, <2>1, Zenon
  <2> QED
    BY <1>5, <2>2
<1>6. CASE Pause
  BY <1>1, <1>6 DEF Pause, EndIn
<1>7. CASE RecordPause
  BY <1>1, <1>7 DEF RecordPause
<1>8. CASE Resume
  <2>1. local.phase = "Paused"
    BY <1>8 DEF Resume
  <2>2. \/ PatchStatus([local EXCEPT !.phase = "InProgress", !.ack = Cardinality(FailedNodes)])
        \/ PatchStatus([local EXCEPT !.phase = "InProgress"])
    BY <1>8 DEF Resume
  <2>3. plan'.phase = "InProgress" /\ plan'.ct = plan.ct
    <3>1. CASE PatchStatus([local EXCEPT !.phase = "InProgress", !.ack = Cardinality(FailedNodes)])
      BY <1>3, <2>1, <3>1, Zenon
    <3>2. CASE PatchStatus([local EXCEPT !.phase = "InProgress"])
      BY <1>1, <2>1, <3>2, Zenon
    <3> QED
      BY <2>2, <3>1, <3>2
  <2> QED
    BY <1>8, <2>3
<1>9. CASE StartPreflight
  BY <1>1, <1>9 DEF StartPreflight
<1>10. CASE PreflightPasses
  <2>1. PatchStatus([local EXCEPT !.phase = "Pending", !.checked = local.gen])
    BY <1>10 DEF PreflightPasses
  <2>2. plan'.phase \in {plan.phase, "Pending"} /\ plan'.ct = plan.ct
    BY <1>4, <2>1, Zenon
  <2> QED
    BY <1>10, <2>2
<1>11. CASE PreflightFails
  <2>1. PatchStatus([local EXCEPT !.phase = "Failed", !.checked = 0])
    BY <1>11 DEF PreflightFails
  <2>2. plan'.phase \in {plan.phase, "Failed"} /\ plan'.ct = plan.ct
    BY <1>4, <2>1, Zenon
  <2> QED
    BY <1>11, <2>2
<1>12. CASE Halt
  <2>1. \/ UNCHANGED plan
        \/ /\ local.phase # "Failed"
           /\ PatchStatus([local EXCEPT !.phase = "Failed", !.ct = "recent"])
    BY <1>12 DEF Halt, EndIn
  <2>2. \/ plan'.phase = plan.phase /\ plan'.ct = plan.ct
        \/ plan'.phase = "Failed" /\ plan'.ct \in {plan.ct, "recent"}
    BY <1>2, <2>1, Zenon
  <2> QED
    BY <1>12, <2>2
<1>13. CASE Complete
  <2>1. \/ UNCHANGED plan
        \/ /\ local.phase # "Completed"
           /\ PatchStatus([local EXCEPT !.phase = "Completed", !.ct = "recent"])
    BY <1>13 DEF Complete, EndIn
  <2>2. \/ plan'.phase = plan.phase /\ plan'.ct = plan.ct
        \/ plan'.phase = "Completed" /\ plan'.ct \in {plan.ct, "recent"}
    BY <1>2, <2>1, Zenon
  <2> QED
    BY <1>13, <2>2
<1>14. CASE MarkInProgress
  <2>1. \/ UNCHANGED plan
        \/ /\ local.phase # "InProgress"
           /\ PatchStatus([local EXCEPT !.phase = "InProgress", !.ct = "none"])
    BY <1>14 DEF MarkInProgress, FinishedPhase
  <2>2. \/ plan'.phase = plan.phase /\ plan'.ct = plan.ct
        \/ plan'.phase = "InProgress" /\ plan'.ct \in {plan.ct, "none"}
    BY <1>2, <2>1, Zenon
  <2> QED
    BY <1>14, <2>2
<1>15. CASE Summarize
  <2> DEFINE new == [local EXCEPT !.counts = Summary, !.ack = AckAfter(local)]
  <2>1. new.phase = local.phase /\ new.ct = local.ct
    BY <1>0, EditEach
  <2>2. UNCHANGED plan \/ PatchStatus(new)
    BY <1>15 DEF Summarize
  <2> HIDE DEF new
  <2> QED
    BY <1>0, <2>1, <2>2, PatchEach DEF Merge
<1>16. CASE KubeProxyUpgraded
  <2> DEFINE new == [local EXCEPT !.proxied = TRUE]
  <2>1. new.phase = local.phase /\ new.ct = local.ct
    BY <1>0, EditEach
  <2>2. PatchStatus(new)
    BY <1>16 DEF KubeProxyUpgraded
  <2> HIDE DEF new
  <2> QED
    BY <1>0, <2>1, <2>2, PatchEach DEF Merge
<1>17. CASE MarkPurged
  <2> DEFINE new == [local EXCEPT !.purged = TRUE]
  <2>1. new.phase = local.phase /\ new.ct = local.ct
    BY <1>0, EditEach
  <2>2. PatchStatus(new)
    BY <1>17 DEF MarkPurged
  <2> HIDE DEF new
  <2> QED
    BY <1>0, <2>1, <2>2, PatchEach DEF Merge
<1>18. CASE PauseOnFailures
  BY <1>0, <1>18 DEF PauseOnFailures, Plan
<1>19. CASE \/ PurgeJob \/ SyncLeases \/ PatchKubeProxy \/ WaitForKubeProxy \/ HoldOff
            \/ WaitForSlot \/ StopAtWorker \/ JobAlreadyExists \/ CreatePatchJob \/ AcquireLease
  <2>1. plan' = plan
    BY <1>19
       DEF PurgeJob, SyncLeases, PatchKubeProxy, WaitForKubeProxy, HoldOff, WaitForSlot,
           StopAtWorker, JobAlreadyExists, CreatePatchJob, AcquireLease, planVars
  <2> QED
    BY <2>1
<1> QED
  BY <1>5, <1>6, <1>7, <1>8, <1>9, <1>10, <1>11, <1>12, <1>13, <1>14, <1>15, <1>16, <1>17,
     <1>18, <1>19 DEF Round

\* The counts are those of the list of jobs the round read, or what they were; and
\* only MarkPurged says that the history is purged.
LEMMA RoundFields ==
    ASSUME TypeOK, Round
    PROVE  /\ plan'.counts \in {plan.counts, Summary}
           /\ plan'.purged = plan.purged \/ MarkPurged
           /\ plan'.cancelled = plan.cancelled
           /\ PauseOnFailures \/ (plan'.paused = plan.paused /\ plan'.gen = plan.gen)
<1> DEFINE Spec_ == /\ plan'.paused = plan.paused /\ plan'.cancelled = plan.cancelled
                    /\ plan'.gen = plan.gen
           Kept == plan'.counts = plan.counts /\ plan'.purged = plan.purged /\ Spec_
<1>0. plan \in Plan /\ local \in Plan
  BY DEF TypeOK
<1>1. ASSUME NEW new, PatchStatus(new) \/ UNCHANGED plan,
             new.counts = local.counts, new.purged = local.purged
      PROVE  Kept
  BY <1>0, <1>1, PatchEach DEF Merge
<1>2. CASE MarkPurged
  <2> DEFINE new == [local EXCEPT !.purged = TRUE]
  <2>1. new.counts = local.counts /\ PatchStatus(new)
    BY <1>0, <1>2, EditEach DEF MarkPurged
  <2> HIDE DEF new
  <2>2. plan'.counts = plan.counts /\ Spec_
    BY <1>0, <2>1, PatchEach DEF Merge
  <2> QED
    BY <1>2, <2>2
<1>3. CASE Summarize
  <2> DEFINE new == [local EXCEPT !.counts = Summary, !.ack = AckAfter(local)]
  <2>1. new.counts = Summary /\ new.purged = local.purged
    BY <1>0, EditEach
  <2>2. UNCHANGED plan \/ PatchStatus(new)
    BY <1>3 DEF Summarize
  <2> HIDE DEF new
  <2> QED
    BY <1>0, <2>1, <2>2, PatchEach DEF Merge
<1>4. CASE Cancel \/ Halt \/ Complete
  <2>1. PICK phase \in Phase :
            \/ PatchStatus([local EXCEPT !.phase = phase, !.ct = "recent"])
            \/ UNCHANGED plan
    BY <1>4 DEF Cancel, Halt, Complete, EndIn, Phase
  <2> DEFINE new == [local EXCEPT !.phase = phase, !.ct = "recent"]
  <2>2. new.counts = local.counts /\ new.purged = local.purged
    BY <1>0, EditEach
  <2>3. PatchStatus(new) \/ UNCHANGED plan
    BY <2>1
  <2> HIDE DEF new
  <2>4. Kept
    BY <1>1, <2>2, <2>3
  <2> QED
    BY <2>4
<1>5. CASE Pause \/ RecordPause \/ StartPreflight
  <2>1. PICK phase \in Phase : PatchStatus([local EXCEPT !.phase = phase]) \/ UNCHANGED plan
    BY <1>5 DEF Pause, RecordPause, StartPreflight, EndIn, Phase
  <2> DEFINE new == [local EXCEPT !.phase = phase]
  <2>2. new.counts = local.counts /\ new.purged = local.purged
    BY <1>0, EditEach
  <2>3. PatchStatus(new) \/ UNCHANGED plan
    BY <2>1
  <2> HIDE DEF new
  <2>4. Kept
    BY <1>1, <2>2, <2>3
  <2> QED
    BY <2>4
<1>6. CASE Resume
  <2>1. CASE PatchStatus([local EXCEPT !.phase = "InProgress", !.ack = Cardinality(FailedNodes)])
    <3> DEFINE new == [local EXCEPT !.phase = "InProgress", !.ack = Cardinality(FailedNodes)]
    <3>1. new.counts = local.counts /\ new.purged = local.purged /\ PatchStatus(new)
      BY <1>0, <2>1, EditEach
    <3> HIDE DEF new
    <3>2. Kept
      BY <1>1, <3>1
    <3> QED
      BY <3>2
  <2>2. CASE PatchStatus([local EXCEPT !.phase = "InProgress"])
    <3> DEFINE new == [local EXCEPT !.phase = "InProgress"]
    <3>1. new.counts = local.counts /\ new.purged = local.purged /\ PatchStatus(new)
      BY <1>0, <2>2, EditEach
    <3> HIDE DEF new
    <3>2. Kept
      BY <1>1, <3>1
    <3> QED
      BY <3>2
  <2> QED
    BY <1>6, <2>1, <2>2 DEF Resume
<1>7. CASE PreflightPasses
  <2> DEFINE new == [local EXCEPT !.phase = "Pending", !.checked = local.gen]
  <2>1. new.counts = local.counts /\ new.purged = local.purged
    BY <1>0, EditEach
  <2>2. PatchStatus(new) \/ UNCHANGED plan
    BY <1>7 DEF PreflightPasses
  <2> HIDE DEF new
  <2>3. Kept
    BY <1>1, <2>1, <2>2
  <2> QED
    BY <2>3
<1>11. CASE PreflightFails
  <2> DEFINE new == [local EXCEPT !.phase = "Failed", !.checked = 0]
  <2>1. new.counts = local.counts /\ new.purged = local.purged
    BY <1>0, EditEach
  <2>2. PatchStatus(new) \/ UNCHANGED plan
    BY <1>11 DEF PreflightFails
  <2> HIDE DEF new
  <2>3. Kept
    BY <1>1, <2>1, <2>2
  <2> QED
    BY <2>3
<1>12. CASE MarkInProgress
  <2> DEFINE new == [local EXCEPT !.phase = "InProgress", !.ct = "none"]
  <2>1. new.counts = local.counts /\ new.purged = local.purged
    BY <1>0, EditEach
  <2>2. PatchStatus(new) \/ UNCHANGED plan
    BY <1>12 DEF MarkInProgress
  <2> HIDE DEF new
  <2>3. Kept
    BY <1>1, <2>1, <2>2
  <2> QED
    BY <2>3
<1>8. CASE KubeProxyUpgraded
  <2> DEFINE new == [local EXCEPT !.proxied = TRUE]
  <2>1. new.counts = local.counts /\ new.purged = local.purged /\ PatchStatus(new)
    BY <1>0, <1>8, EditEach DEF KubeProxyUpgraded
  <2> HIDE DEF new
  <2>2. Kept
    BY <1>1, <2>1
  <2> QED
    BY <2>2
<1>9. CASE PauseOnFailures
  <2>1. /\ plan'.counts = plan.counts /\ plan'.purged = plan.purged
        /\ plan'.cancelled = plan.cancelled
    BY <1>0, <1>9 DEF PauseOnFailures, Plan
  <2> QED
    BY <1>9, <2>1
<1>10. CASE \/ PurgeJob \/ SyncLeases \/ PatchKubeProxy \/ WaitForKubeProxy \/ HoldOff
            \/ WaitForSlot \/ StopAtWorker \/ JobAlreadyExists \/ CreatePatchJob \/ AcquireLease
  <2>1. plan' = plan
    BY <1>10
       DEF PurgeJob, SyncLeases, PatchKubeProxy, WaitForKubeProxy, HoldOff, WaitForSlot,
           StopAtWorker, JobAlreadyExists, CreatePatchJob, AcquireLease, planVars
  <2> QED
    BY <2>1
<1> QED
  BY <1>2, <1>3, <1>4, <1>5, <1>6, <1>7, <1>8, <1>9, <1>10, <1>11, <1>12
  DEF Round

\* A round reads the list of jobs once.
LEMMA RoundView == Round => view' = view
BY DEF Round, PurgeJob, MarkPurged, SyncLeases, Summarize, Cancel, Pause, Resume,
       StartPreflight, PreflightPasses, PreflightFails, PatchKubeProxy, WaitForKubeProxy,
       KubeProxyUpgraded, PauseOnFailures, RecordPause, Halt, Complete, HoldOff, WaitForSlot,
       MarkInProgress, StopAtWorker, JobAlreadyExists, CreatePatchJob, AcquireLease, jobVars

\* The step that brings a round to the positions the invariants speak of.
LEMMA RoundGoes ==
    ASSUME Round
    PROVE  /\ pc' # "leases" /\ pc # "idle"
           /\ pc' = "purge" => PurgeJob
           /\ pc' = "summary" => SyncLeases
           /\ pc' = "control" => Summarize
           /\ pc' = "checks" => StartPreflight
           /\ pc' = "pause" => PauseOnFailures
<1> USE DEF Continue, EndRound, EndIn, DoneWith
<1>1. CASE PurgeJob \/ MarkPurged \/ SyncLeases \/ Summarize \/ Cancel \/ Pause \/ Resume
  BY <1>1 DEF PurgeJob, MarkPurged, SyncLeases, Summarize, Cancel, Pause, Resume
<1>2. CASE StartPreflight
  <2>1. pc' = "checks" /\ pc # "idle"
    BY <1>2 DEF StartPreflight, AtPreflight
  <2> QED
    BY <1>2, <2>1
<1>3. CASE PauseOnFailures
  <2>1. pc' = "pause" /\ pc # "idle"
    BY <1>3 DEF PauseOnFailures, AtDecide, AtProxy, AtPreflight
  <2> QED
    BY <1>3, <2>1
<1>4. CASE \/ PreflightPasses \/ PreflightFails \/ PatchKubeProxy \/ WaitForKubeProxy
           \/ KubeProxyUpgraded \/ RecordPause \/ Halt \/ Complete \/ HoldOff \/ WaitForSlot
           \/ MarkInProgress \/ StopAtWorker \/ JobAlreadyExists \/ CreatePatchJob \/ AcquireLease
  <2>1. pc' \in {"idle", "proxy", "decide", "create", "lease"} /\ pc # "idle"
    BY <1>4
       DEF PreflightPasses, PreflightFails, PatchKubeProxy, WaitForKubeProxy, KubeProxyUpgraded,
           RecordPause, Halt, Complete, HoldOff, WaitForSlot, MarkInProgress, StopAtWorker,
           JobAlreadyExists, CreatePatchJob, AcquireLease, AtChecks, AtDecide, AtProxy,
           AtPreflight, AtSchedule
  <2> QED
    BY <2>1
<1> QED
  BY <1>1, <1>2, <1>3, <1>4 DEF Round

\* Jobs come into being in one place.
LEMMA OnlyCreateCreates ==
    ASSUME TypeOK, [Next]_vars, JobCreated PROVE CreatePatchJob
BY DEF Next, Round, Environment, Reconcile, SyncSomeLeases, Abort,
       PurgeJob, RemoveJob, MarkPurged, SyncLeases, Summarize, Cancel, Pause, Resume,
       StartPreflight, PreflightPasses, PreflightFails, PatchKubeProxy, WaitForKubeProxy,
       KubeProxyUpgraded, PauseOnFailures, RecordPause, Halt, Complete, HoldOff, WaitForSlot,
       MarkInProgress, StopAtWorker, JobAlreadyExists, AcquireLease, JobFinishes,
       CollectLease, UserRetriesNode, DeliverJobEvent, DeliverPlan, KubeProxyRollsOut,
       UserEditsSpec, RetentionNears, RetentionExpires, JobCreated, TypeOK, jobVars, vars

\* Between the writes of a round nobody writes the status, copies are made when a
\* round starts or the cache catches up, and what was seen of a job stays seen.
LEMMA ElseStep ==
    ASSUME NoDeletion, TypeOK, RolloutInv, LeaseInv, [Next]_vars, ~Round
    PROVE  /\ plan' = plan \/ UserEditsSpec
           /\ seen' \in {seen, plan}
           /\ local' \in {local, seen, plan, NewPlan}
           /\ pc' \notin {"idle", "leases"} => UNCHANGED <<pc, local, view>>
           /\ pc' = "leases" => local' \in {seen, plan} \/ UNCHANGED <<pc, local>>
           /\ \A n \in Node : view[n] # "none" => view'[n] # "none"
           /\ \A n \in Node : view[n] \in Terminal => view'[n] = view[n]
<1> USE DEF planVars, jobVars, roundVars
<1>0. NeverDue /\ ~Retention
  BY DEF RolloutInv, NoDeletion
<1>1. CASE Reconcile
  <2>1. Cached \in {seen, plan} /\ ~HistoryDue(Cached)
    BY <1>0 DEF Cached, HistoryDue, NeverDue
  <2> QED
    BY <1>1, <2>1 DEF Reconcile
<1>2. CASE SyncSomeLeases \/ Abort
  BY <1>2 DEF SyncSomeLeases, Abort, EndRound
<1>3. ASSUME NEW n \in Node, JobFinishes(n) \/ CollectLease(n)
      PROVE  UNCHANGED <<plan, seen, local, pc, view>>
  BY <1>3 DEF JobFinishes, CollectLease
<1>4. \A n \in Node : ~UserRetriesNode(n)
  BY DEF UserRetriesNode, NoDeletion, TypeOK
<1>5. CASE DeliverJobEvent
  <2>1. UNCHANGED <<plan, seen, local, pc>> /\ pc = "idle"
    BY <1>5 DEF DeliverJobEvent
  <2>2. \A n \in Node : view[n] \in Terminal => view'[n] = view[n]
    BY <1>5, LeaseDeliver
  <2>3. Head(events).state # "none"
    BY <1>5 DEF DeliverJobEvent, RolloutInv, EventsSound, TypeOK
  <2>4. \A n \in Node : view'[n] \in {view[n], Head(events).state}
    BY <1>5 DEF DeliverJobEvent, TypeOK
  <2> QED
    BY <2>1, <2>2, <2>3, <2>4
<1>6. CASE DeliverPlan
  BY <1>6 DEF DeliverPlan
<1>7. CASE UserEditsSpec
  BY <1>7 DEF UserEditsSpec
<1>8. ~RetentionNears /\ ~RetentionExpires
  BY <1>0 DEF RetentionNears, RetentionExpires, NeverDue
<1>9. KubeProxyRollsOut \/ UNCHANGED vars => UNCHANGED <<plan, seen, local, pc, view>>
  BY DEF KubeProxyRollsOut, vars
<1>10. CASE UNCHANGED <<plan, seen, local, pc, view>>
  BY <1>10
<1> QED
  BY <1>1, <1>2, <1>3, <1>4, <1>5, <1>6, <1>7, <1>8, <1>9, <1>10 DEF Next, Environment

-----------------------------------------------------------------------------
(* Halt.                                                                     *)

\* The rollout has begun, as far as the operator knows.
Begun == \E n \in Node : view[n] # "none"

\* Halt has failed a running rollout.
Stopped == plan.phase = "Failed" /\ plan.ct # "none"

\* A copy of a plan no user touches: it was never paused, no failure was accepted,
\* and if it ended once the rollout had begun.
Untouched(p) ==
    /\ ~p.paused /\ ~p.cancelled /\ p.phase \notin {"Paused", "Cancelled"} /\ p.ack = 0
    /\ p.ct # "none" => Begun

\* A halted rollout has used up its budget, so no round can take another way.
HaltInv ==
    /\ Untouched(plan) /\ Untouched(seen) /\ Untouched(local)
    /\ plan.gen = 1
    /\ pc # "pause"
    /\ pc = "checks" => ~Begun
    /\ Stopped => Cardinality(FailedNodes) >= Threshold

\* Nobody edits the spec, and there is a node to patch.
Unattended == Policy = "Halt" /\ MaxGen =< 1 /\ NoDeletion /\ Node # {}

LEMMA InitHalt == Init => HaltInv
BY DEF Init, NewPlan, HaltInv, Untouched, Stopped

\* The checks come before the first job.
LEMMA ChecksComeFirst ==
    ASSUME pc = "checks" => ~Begun, StartPreflight \/ PreflightPasses \/ PreflightFails
    PROVE  ~Begun
BY DEF StartPreflight, PreflightPasses, PreflightFails, AtChecks, PreflightSettled, Begun

\* A round of such a plan.
LEMMA HaltRound ==
    ASSUME Unattended, TypeOK, RolloutInv, HaltInv, Round
    PROVE  HaltInv'
<1> DEFINE failed == Cardinality(FailedNodes)
<1>0. pc # "purge" /\ Policy = "Halt"
  BY DEF RolloutInv, NeverDue, Unattended
<1>1. view' = view /\ FailedNodes' = FailedNodes /\ (Begun' <=> Begun)
  BY RoundView DEF FailedNodes, Begun
<1>2. ~Cancel /\ ~Pause /\ ~Resume /\ ~PauseOnFailures /\ ~RecordPause /\ ~MarkPurged /\ ~PurgeJob
  BY <1>0 DEF HaltInv, Untouched, Cancel, Pause, Resume, PauseOnFailures, RecordPause,
              MarkPurged, PurgeJob
<1>3. plan'.paused = plan.paused /\ plan'.cancelled = plan.cancelled /\ plan'.gen = plan.gen
  BY <1>2, RoundFields
<1>4. plan'.ack = plan.ack
  <2>1. AckAfter(local) = local.ack
    BY FailureTypes DEF HaltInv, Untouched, AckAfter
  <2> QED
    BY <1>2, <2>1, RoundKeeps
<1>5. Exceeded <=> failed >= Threshold
  BY FailureTypes DEF Exceeded, HaltInv, Untouched
<1>6. Threshold >= 1 /\ Threshold \in Nat /\ failed \in Nat
  BY FailureTypes, PolicyAssumption DEF Threshold
<1>7. Halt => failed >= Threshold /\ Begun
  <2>1. ASSUME Halt PROVE failed >= Threshold
    BY <1>5, <2>1 DEF Halt
  <2>2. ASSUME failed >= Threshold PROVE FailedNodes # {}
    BY <1>6, <2>2, FS_EmptySet
  <2>3. FailedNodes # {} => Begun
    BY DEF FailedNodes, Begun
  <2> QED
    BY <2>1, <2>2, <2>3
<1>8. Complete => Begun
  BY DEF Complete, Processed, Begun, Unattended, Terminal
<1>9. PreflightFails => ~Begun
  BY ChecksComeFirst DEF HaltInv
<1>10. plan'.phase \notin {"Paused", "Cancelled"} /\ (plan'.ct # "none" => Begun)
  BY <1>2, <1>7, <1>8, RoundStatus DEF HaltInv, Untouched
<1>11. Untouched(plan)'
  BY <1>1, <1>3, <1>4, <1>10 DEF HaltInv, Untouched
<1>12. Untouched(seen)' /\ Untouched(local)'
  <2>1. seen' = seen /\ local' \in {local, plan', NewPlan}
    BY RoundLocal
  <2>2. Untouched(seen)'
    BY <1>1, <2>1 DEF HaltInv, Untouched
  <2>3. \A p \in {plan', local, NewPlan} :
           /\ ~p.paused /\ ~p.cancelled /\ p.phase \notin {"Paused", "Cancelled"} /\ p.ack = 0
           /\ p.ct # "none" => Begun
    BY <1>3, <1>4, <1>10 DEF HaltInv, Untouched, NewPlan
  <2>4. Untouched(local)'
    BY <1>1, <2>1, <2>3 DEF Untouched
  <2> QED
    BY <2>2, <2>4
<1>13. pc' # "pause" /\ (pc' = "checks" => ~Begun')
  BY <1>1, <1>2, RoundGoes, ChecksComeFirst DEF HaltInv
<1>14. Stopped' => failed >= Threshold
  <2> SUFFICES ASSUME Stopped' PROVE failed >= Threshold
    OBVIOUS
  <2>1. plan'.phase = "Failed" /\ plan'.ct # "none"
    BY DEF Stopped
  <2>2. (plan'.phase = plan.phase /\ plan'.ct = plan.ct) \/ Halt \/ PreflightFails
    BY <2>1, RoundStatus
  <2>3. CASE plan'.phase = plan.phase /\ plan'.ct = plan.ct
    BY <2>1, <2>3 DEF HaltInv, Stopped
  <2>4. ~PreflightFails
    BY <1>9, <1>10, <2>1
  <2> QED
    BY <1>7, <2>2, <2>3, <2>4
<1> QED
  BY <1>1, <1>3, <1>11, <1>12, <1>13, <1>14 DEF HaltInv, Threshold

\* Everybody else.
LEMMA HaltStep ==
    ASSUME Unattended, TypeOK, RolloutInv, LeaseInv, HaltInv, [Next]_vars
    PROVE  HaltInv'
<1>1. CASE Round
  BY <1>1, HaltRound
<1>2. CASE ~Round
  <2>1. plan' = plan
    <3>1. ~UserEditsSpec
      BY BoundsAssumption DEF UserEditsSpec, Unattended, HaltInv
    <3> QED
      BY <1>2, <3>1, ElseStep DEF Unattended
  <2>2. seen' \in {seen, plan} /\ local' \in {local, seen, plan, NewPlan}
    BY <1>2, ElseStep DEF Unattended
  <2>3. Begun => Begun'
    BY <1>2, ElseStep DEF Unattended, Begun
  <2>4. Cardinality(FailedNodes) =< Cardinality(FailedNodes')
    BY <1>2, ElseStep, FailuresSeen DEF Unattended
  <2>5. Untouched(plan)' /\ Untouched(seen)' /\ Untouched(local)'
    <3>1. \A p \in {plan, seen, local, NewPlan} :
             /\ ~p.paused /\ ~p.cancelled /\ p.phase \notin {"Paused", "Cancelled"} /\ p.ack = 0
             /\ p.ct # "none" => Begun
      BY DEF HaltInv, Untouched, NewPlan
    <3> QED
      BY <2>1, <2>2, <2>3, <3>1 DEF Untouched
  <2>6. pc' # "pause" /\ (pc' = "checks" => ~Begun')
    <3>1. pc' \in {"pause", "checks"} => pc' = pc /\ view' = view
      BY <1>2, ElseStep DEF Unattended
    <3> QED
      BY <3>1 DEF HaltInv, Begun
  <2>7. Stopped' => Cardinality(FailedNodes') >= Threshold
    <3>1. Cardinality(FailedNodes') \in Nat
      BY NodesFinite DEF FailedNodes
    <3>2. Stopped' => Stopped
      BY <2>1 DEF Stopped
    <3> QED
      BY <2>4, <3>1, <3>2, FailureTypes DEF HaltInv
  <2> QED
    BY <2>1, <2>5, <2>6, <2>7 DEF HaltInv, Threshold
<1> QED
  BY <1>1, <1>2

\* What a halted plan does not do.
LEMMA HaltIsFinal ==
    ASSUME Unattended, TypeOK, RolloutInv, LeaseInv, FailureInv, HaltInv, [Next]_vars, Stopped
    PROVE  plan'.phase = "Failed" /\ ~JobCreated
<1>1. Begun /\ Cardinality(FailedNodes) >= Threshold
  BY DEF HaltInv, Untouched, Stopped
<1>2. Exceeded
  BY <1>1, FailureTypes DEF Exceeded, HaltInv, Untouched
<1>3. ~JobCreated
  <2>1. ~CreatePatchJob
    BY <1>2 DEF CreatePatchJob, FailureInv
  <2> QED
    BY <2>1, OnlyCreateCreates
<1>4. CASE Round
  <2>1. ~Cancel /\ ~Pause /\ ~Resume /\ ~RecordPause
    BY DEF HaltInv, Untouched, Unattended, Cancel, Pause, Resume, RecordPause
  <2>2. ~Complete /\ ~MarkInProgress
    BY <1>2 DEF Complete, MarkInProgress, AtSchedule
  <2>3. ~StartPreflight /\ ~PreflightPasses
    BY <1>1, ChecksComeFirst DEF HaltInv
  <2>4. plan'.phase = plan.phase \/ plan'.phase = "Failed"
    BY <1>4, <2>1, <2>2, <2>3, RoundStatus
  <2> QED
    BY <1>3, <2>4 DEF Stopped
<1>5. CASE ~Round
  <2>1. ~UserEditsSpec
    BY BoundsAssumption DEF UserEditsSpec, Unattended, HaltInv
  <2>2. plan' = plan
    BY <1>5, <2>1, ElseStep DEF Unattended
  <2> QED
    BY <1>3, <2>2 DEF Stopped
<1> QED
  BY <1>4, <1>5

\* A rollout halted by its failures stays halted and creates no more jobs, although
\* rounds start from older copies of the plan in which it still runs.
THEOREM HaltIsObeyed == Unattended => (Spec => HaltStops)
<1> SUFFICES ASSUME Unattended PROVE Spec => HaltStops
  OBVIOUS
<1>0. NoDeletion
  BY DEF Unattended
<1>1. TypeOK /\ RolloutInv /\ LeaseInv /\ HaltInv /\ [Next]_vars => HaltInv'
  BY HaltStep
<1>2. TypeOK /\ RolloutInv /\ LeaseInv /\ FailureInv /\ HaltInv /\ [Next]_vars =>
         [(plan.phase = "Failed" /\ plan.ct # "none") =>
              (plan'.phase = "Failed" /\ ~JobCreated)]_vars
  BY HaltIsFinal DEF Stopped
<1> QED
  BY <1>0, <1>1, <1>2, InitHalt, TypeCorrect, RolloutInvariant, LeaseInvariant, FailureInvariant, PTL
     DEF Spec, HaltStops

-----------------------------------------------------------------------------
(* Retention, with a current plan.                                           *)

\* What is about to be purged has ended, and nothing moves once it is.
PurgeInv ==
    /\ pc = "purge" \/ plan.purged => plan.phase \in FinishedPhase /\ plan.ct # "none"
    /\ plan.purged => pc = "idle"

LEMMA InitPurge == Init => PurgeInv
BY DEF Init, NewPlan, PurgeInv

LEMMA PurgeStep ==
    ASSUME ~PlanLag, TypeOK, PurgeInv, [Next]_vars
    PROVE  PurgeInv'
<1> USE DEF planVars, jobVars, roundVars
<1>0. plan \in Plan /\ local \in Plan
  BY DEF TypeOK
<1>1. CASE Reconcile
  <2>1. ~plan.purged
    BY <1>1 DEF Reconcile, Cached, Frozen, PurgeInv
  <2>2. pc' = "purge" => plan.phase \in FinishedPhase /\ plan.ct # "none"
    BY <1>1 DEF Reconcile, Cached, HistoryDue
  <2> QED
    BY <1>1, <2>1, <2>2 DEF Reconcile, PurgeInv
<1>2. CASE MarkPurged
  <2>1. pc = "purge" /\ pc' = "idle"
    BY <1>2 DEF MarkPurged, EndRound
  <2>2. plan'.phase = plan.phase /\ plan'.ct = plan.ct
    <3> DEFINE new == [local EXCEPT !.purged = TRUE]
    <3>1. new.phase = local.phase /\ new.ct = local.ct /\ PatchStatus(new)
      BY <1>0, <1>2, EditEach DEF MarkPurged
    <3> HIDE DEF new
    <3> QED
      BY <1>0, <3>1, PatchEach DEF Merge
  <2> QED
    BY <2>1, <2>2 DEF PurgeInv
<1>3. CASE Round /\ ~MarkPurged
  <2>1. pc # "idle" /\ (pc' = "purge" => PurgeJob)
    BY <1>3, RoundGoes
  <2>2. ~plan.purged /\ ~plan'.purged
    BY <1>0, <1>3, <2>1, RoundFields DEF PurgeInv
  <2>3. PurgeJob => pc = "purge" /\ plan' = plan
    BY DEF PurgeJob
  <2> QED
    BY <2>1, <2>2, <2>3 DEF PurgeInv
<1>4. CASE SyncSomeLeases \/ Abort
  <2>1. pc # "idle" /\ pc' = "idle" /\ plan' = plan
    BY <1>4 DEF SyncSomeLeases, Abort, EndRound
  <2> QED
    BY <2>1 DEF PurgeInv
<1>5. CASE UNCHANGED <<plan, pc>>
  BY <1>5 DEF PurgeInv
<1>6. ASSUME NEW n \in Node, JobFinishes(n) \/ CollectLease(n) \/ UserRetriesNode(n)
      PROVE  UNCHANGED <<plan, pc>>
  BY <1>6 DEF JobFinishes, CollectLease, UserRetriesNode
<1>7. DeliverJobEvent \/ DeliverPlan \/ KubeProxyRollsOut \/ UNCHANGED vars => UNCHANGED <<plan, pc>>
  BY DEF DeliverJobEvent, DeliverPlan, KubeProxyRollsOut, vars
<1>8. CASE UserEditsSpec \/ RetentionNears \/ RetentionExpires
  <2>1. /\ pc' = pc /\ plan'.phase = plan.phase /\ plan'.purged = plan.purged
        /\ plan.ct # "none" => plan'.ct # "none"
    BY <1>0, <1>8 DEF UserEditsSpec, RetentionNears, RetentionExpires, Expire, Plan
  <2> QED
    BY <2>1 DEF PurgeInv
<1> QED
  BY <1>1, <1>2, <1>3, <1>4, <1>5, <1>6, <1>7, <1>8 DEF Next, Environment

\* Once its history is purged a plan patches nothing, whatever users do to it, to its
\* jobs and to its spec, and wherever a round is cut short.  The plan must be current:
\* see "Divergences" in the README for an old copy that reopens it.
THEOREM PurgeIsFinal == ~PlanLag => (Spec => PurgedIsFrozen)
<1> SUFFICES ASSUME ~PlanLag PROVE Spec => PurgedIsFrozen
  OBVIOUS
<1>1. TypeOK /\ PurgeInv /\ [Next]_vars => PurgeInv'
  BY PurgeStep
<1>2. ASSUME TypeOK, PurgeInv, [Next]_vars PROVE [plan.purged => ~JobCreated]_vars
  <2>1. plan.purged => ~CreatePatchJob
    BY <1>2 DEF PurgeInv, CreatePatchJob
  <2> QED
    BY <1>2, <2>1, OnlyCreateCreates
<1> QED
  BY <1>1, <1>2, InitPurge, TypeCorrect, PTL DEF Spec, PurgedIsFrozen

-----------------------------------------------------------------------------
(* Failures accepted by resuming.                                            *)

\* The copy's counts are those of the jobs the operator sees now, as to failures.
Counted(p) == \A g \in Group : p.counts[g].failed = CountIn(g, "failed")

\* Copies no later than the jobs the operator sees never count more failures.
Behind(p) == \A g \in Group : p.counts[g].failed =< CountIn(g, "failed")

\* Every failure the operator sees has been accepted.
AllAccepted == plan.ack >= Cardinality(FailedNodes)

\* A copy that counts the failures seen now, but not all that was accepted since, is
\* older than a Resume that accepted them all; and if it is paused and over its
\* budget, the plan has been resumed since, is still paused, or was cancelled.
Dated(p) ==
    Counted(p) =>
        /\ plan.ack > p.ack => AllAccepted
        /\ p.phase = "Paused" /\ Cardinality(FailedNodes) - p.ack >= Threshold =>
               AllAccepted \/ plan.phase \in {"Paused", "Cancelled"}

PauseInv ==
    /\ Behind(plan) /\ Behind(seen) /\ Behind(local)
    /\ Dated(seen)
    /\ pc \in {"leases", "summary", "control"} => Dated(local)
    /\ pc = "control" => Counted(local)
    /\ pc = "checks" => ~Begun

LEMMA InitPause == Init => PauseInv
<1> SUFFICES ASSUME Init PROVE PauseInv
  OBVIOUS
<1>1. \A g \in Group : CountIn(g, "failed") \in Nat
  BY NodesFinite DEF CountIn, NodesOf
<1>2. FailedNodes = {}
  BY DEF Init, FailedNodes
<1>3. Cardinality(FailedNodes) = 0
  BY <1>2, FS_EmptySet
<1>4. Behind(plan) /\ Behind(seen) /\ Behind(local)
  BY <1>1 DEF Init, NewPlan, Behind
<1>5. Dated(seen)
  BY <1>3 DEF Init, NewPlan, Dated, AllAccepted
<1> QED
  BY <1>4, <1>5 DEF Init, PauseInv

\* More failures are seen, in every group; if none of the counts has grown, none was.
LEMMA CountsGrow ==
    ASSUME TypeOK, \A n \in Node : view[n] \in Terminal => view'[n] = view[n]
    PROVE  /\ \A g \in Group : /\ CountIn(g, "failed") =< CountIn(g, "failed")'
                               /\ CountIn(g, "failed") \in Nat /\ CountIn(g, "failed")' \in Nat
           /\ (\A g \in Group : CountIn(g, "failed")' = CountIn(g, "failed"))
                 => FailedNodes' = FailedNodes
<1> DEFINE failed(g) == {n \in NodesOf(g) : view[n] = "failed"}
           failedNow(g) == {n \in NodesOf(g) : view'[n] = "failed"}
<1>1. ASSUME NEW g \in Group
      PROVE  /\ failed(g) \in SUBSET failedNow(g) /\ failedNow(g) \in SUBSET Node
             /\ CountIn(g, "failed") = Cardinality(failed(g))
             /\ CountIn(g, "failed")' = Cardinality(failedNow(g))
  BY DEF NodesOf, CountIn, Terminal
<1> HIDE DEF failed, failedNow
<1>2. ASSUME NEW g \in Group
      PROVE  /\ CountIn(g, "failed") =< CountIn(g, "failed")'
             /\ CountIn(g, "failed") \in Nat /\ CountIn(g, "failed")' \in Nat
  BY <1>1, CountSubset, NodesFinite
<1>3. ASSUME \A g \in Group : CountIn(g, "failed")' = CountIn(g, "failed")
      PROVE  FailedNodes' = FailedNodes
  <2>1. \A g \in Group : failed(g) = failedNow(g)
    BY <1>1, <1>3, NodesFinite, FS_Subset
  <2>2. ASSUME NEW n \in Node PROVE view'[n] = "failed" <=> view[n] = "failed"
    BY <2>1, GroupsAssumption DEF failed, failedNow, NodesOf
  <2> QED
    BY <2>2 DEF FailedNodes
<1> QED
  BY <1>2, <1>3

\* A copy stays dated while the status stands and failures only come to be seen.
LEMMA DatedStays ==
    ASSUME TypeOK, \A n \in Node : view[n] \in Terminal => view'[n] = view[n],
           plan'.ack = plan.ack, plan'.phase = plan.phase,
           NEW p \in Plan, Behind(p), Dated(p)
    PROVE  /\ Behind(p)'
           /\ Counted(p)' =>
                /\ plan'.ack > p.ack => AllAccepted'
                /\ p.phase = "Paused" /\ Cardinality(FailedNodes') - p.ack >= Threshold =>
                       AllAccepted' \/ plan'.phase \in {"Paused", "Cancelled"}
<1>0. \A g \in Group : p.counts[g].failed \in Nat
  BY DEF Plan, Tally
<1>1. Behind(p)'
  <2>1. \A g \in Group : p.counts[g].failed =< CountIn(g, "failed")'
    BY <1>0, CountsGrow DEF Behind
  <2> QED
    BY <2>1 DEF Behind
<1>2. ASSUME Counted(p)' PROVE Counted(p) /\ FailedNodes' = FailedNodes
  <2>1. \A g \in Group : p.counts[g].failed = CountIn(g, "failed")'
    BY <1>2 DEF Counted
  <2>2. \A g \in Group : CountIn(g, "failed")' = CountIn(g, "failed")
    BY <1>0, <2>1, CountsGrow DEF Behind
  <2> QED
    BY <2>1, <2>2, CountsGrow DEF Counted
<1> QED
  BY <1>1, <1>2 DEF Dated, AllAccepted

\* A copy of the plan as it is.
LEMMA DatedNow == ASSUME plan.ack \in Nat PROVE Dated(plan)
BY DEF Dated

\* A copy that has fewer failures left in its budget than the round's is older than a
\* Resume that accepted them all.
LEMMA NewerCopy ==
    ASSUME TypeOK, FailureInv, NEW p \in Plan, Dated(p), Counted(p),
           Cardinality(FailedNodes) - p.ack >= Threshold, ~Exceeded
    PROVE  AllAccepted
<1>1. p.ack \in Nat
  BY DEF Plan
<1>2. local.ack > p.ack
  BY <1>1, FailureTypes DEF Exceeded
<1>3. plan.ack > p.ack
  BY <1>1, <1>2, FailureTypes DEF FailureInv
<1> QED
  BY <1>3 DEF Dated

\* A write of the round leaves a copy dated.
LEMMA DatedRound ==
    ASSUME TypeOK, TypeOK', RolloutInv, FailureInv, Policy = "Pause",
           pc = "checks" => ~Begun, Round, NEW p \in Plan, Dated(p), Counted(p)
    PROVE  /\ plan'.ack > p.ack => plan'.ack >= Cardinality(FailedNodes)
           /\ p.phase = "Paused" /\ Cardinality(FailedNodes) - p.ack >= Threshold =>
                  \/ plan'.ack >= Cardinality(FailedNodes)
                  \/ plan'.phase \in {"Paused", "Cancelled"}
<1> DEFINE failed == Cardinality(FailedNodes)
<1>0. /\ p.ack \in Nat /\ plan.ack \in Nat /\ plan'.ack \in Nat /\ failed \in Nat
      /\ Threshold \in Nat /\ Threshold >= 1 /\ local \in Plan /\ plan \in Plan
  <2>1. Threshold \in Nat /\ Threshold >= 1
    BY PolicyAssumption DEF Threshold
  <2> QED
    BY <2>1, FailureTypes DEF TypeOK, Plan
<1>1. plan'.ack \in {plan.ack, failed} /\ (~Resume => plan'.ack = plan.ack)
  <2>1. AckAfter(local) = local.ack
    BY FailureTypes DEF FailureInv, AckAfter
  <2> QED
    BY <2>1, RoundKeeps
<1>2. plan'.ack > p.ack => plan'.ack >= failed
  BY <1>0, <1>1 DEF Dated, AllAccepted
<1>3. ASSUME p.phase = "Paused", failed - p.ack >= Threshold
      PROVE  plan'.ack >= failed \/ plan'.phase \in {"Paused", "Cancelled"}
  <2>1. CASE AllAccepted
    BY <1>0, <1>1, <2>1 DEF AllAccepted
  <2>2. CASE ~AllAccepted
    <3>1. plan.phase \in {"Paused", "Cancelled"}
      BY <1>3, <2>2 DEF Dated
    <3>2. Exceeded
      BY <1>3, <2>2, NewerCopy
    <3>3. ~Halt /\ ~Complete /\ ~MarkInProgress
      BY <3>2 DEF Halt, Complete, MarkInProgress, AtSchedule
    <3>4. ~StartPreflight /\ ~PreflightPasses /\ ~PreflightFails
      <4>1. ASSUME ~Begun PROVE FailedNodes = {}
        BY <4>1 DEF Begun, FailedNodes
      <4>2. FailedNodes # {}
        BY <1>0, <1>3, FS_EmptySet
      <4> QED
        BY <4>1, <4>2, ChecksComeFirst
    <3>5. Resume => plan'.ack >= failed
      <4> SUFFICES ASSUME Resume PROVE plan'.ack >= failed
        OBVIOUS
      <4> DEFINE new == [local EXCEPT !.phase = "InProgress", !.ack = failed]
      <4>1. PatchStatus(new)
        BY <3>2 DEF Resume
      <4>2. new.ack = failed
        BY <1>0, EditEach
      <4> HIDE DEF new
      <4>3. plan'.ack = Merge(new.ack, local.ack, plan.ack)
        BY <1>0, <4>1, PatchEach
      <4>4. local.ack # failed
        BY <1>0, <3>2 DEF Exceeded
      <4> QED
        BY <1>0, <4>2, <4>3, <4>4 DEF Merge
    <3> QED
      BY <3>1, <3>3, <3>4, <3>5, RoundStatus
  <2> QED
    BY <2>1, <2>2
<1> QED
  BY <1>2, <1>3

\* Where a round decides whether to resume it has counted the failures it sees.
LEMMA SummaryCounts ==
    ASSUME TypeOK, FailureInv, Summarize
    PROVE  /\ local' = local \/ local' = plan'
           /\ \A g \in Group : local'.counts[g].failed = CountIn(g, "failed")
<1> DEFINE new == [local EXCEPT !.counts = Summary, !.ack = AckAfter(local)]
<1>0. plan \in Plan /\ local \in Plan
  BY DEF TypeOK
<1>1. AckAfter(local) = local.ack
  BY FailureTypes DEF FailureInv, AckAfter
<1>2. new.counts = Summary /\ (local.counts = Summary => new = local)
  BY <1>0, <1>1 DEF Plan
<1>3. \A g \in Group : Summary[g].failed = CountIn(g, "failed")
  BY DEF Summary
<1>4. CASE new = local
  <2>1. local' = local /\ local.counts = Summary
    BY <1>2, <1>4 DEF Summarize
  <2> QED
    BY <1>3, <2>1
<1>5. CASE new # local
  <2>1. local' = plan' /\ PatchStatus(new)
    BY <1>5 DEF Summarize, Continue
  <2>2. local.counts # Summary
    BY <1>2, <1>5
  <2> HIDE DEF new
  <2>3. plan'.counts = Summary
    BY <1>0, <1>2, <2>1, <2>2, PatchEach DEF Merge
  <2> QED
    BY <1>3, <2>1, <2>3
<1> QED
  BY <1>4, <1>5

LEMMA PauseRound ==
    ASSUME Policy = "Pause", TypeOK, TypeOK', RolloutInv, FailureInv, PauseInv, Round
    PROVE  PauseInv'
<1> DEFINE Old(p) == Behind(p) /\ Dated(p)
<1>0. pc # "purge"
  BY DEF RolloutInv, NeverDue
<1>1. view' = view /\ (Begun' <=> Begun) /\ FailedNodes' = FailedNodes
  BY RoundView DEF Begun, FailedNodes
<1>2. \A g \in Group : CountIn(g, "failed")' = CountIn(g, "failed") /\ CountIn(g, "failed") \in Nat
  BY <1>1, NodesFinite DEF CountIn, NodesOf
<1>3. seen' = seen /\ local' \in {local, plan', NewPlan}
  BY RoundLocal
<1>4. \A g \in Group : plan'.counts[g].failed =< CountIn(g, "failed")
  <2>1. plan'.counts \in {plan.counts, Summary}
    BY RoundFields
  <2>2. \A g \in Group : Summary[g].failed = CountIn(g, "failed")
    BY DEF Summary
  <2> QED
    BY <1>2, <2>1, <2>2 DEF PauseInv, Behind
<1>5. Behind(plan)' /\ Behind(seen)' /\ Behind(local)'
  <2>1. \A q \in {local, plan', NewPlan}, g \in Group : q.counts[g].failed =< CountIn(g, "failed")
    BY <1>2, <1>4 DEF NewPlan, PauseInv, Behind
  <2>2. \A g \in Group : local'.counts[g].failed =< CountIn(g, "failed")'
    BY <1>2, <1>3, <2>1
  <2>3. \A g \in Group : seen'.counts[g].failed =< CountIn(g, "failed")'
    BY <1>2, <1>3 DEF PauseInv, Behind
  <2> QED
    BY <1>2, <1>4, <2>2, <2>3 DEF Behind
<1>6. ASSUME NEW p \in Plan, Dated(p)
      PROVE  Counted(p) =>
                /\ plan'.ack > p.ack => plan'.ack >= Cardinality(FailedNodes)
                /\ p.phase = "Paused" /\ Cardinality(FailedNodes) - p.ack >= Threshold =>
                       \/ plan'.ack >= Cardinality(FailedNodes)
                       \/ plan'.phase \in {"Paused", "Cancelled"}
  BY <1>6, DatedRound DEF PauseInv
<1>7. Dated(seen)'
  <2>1. seen \in Plan /\ Dated(seen)
    BY DEF TypeOK, PauseInv
  <2>2. Counted(seen)' => Counted(seen)
    BY <1>2, <1>3 DEF Counted
  <2> QED
    BY <1>1, <1>3, <1>6, <2>1, <2>2 DEF Dated, AllAccepted, Threshold
<1>8. pc' \in {"leases", "summary", "control"} => Dated(local)'
  <2> SUFFICES ASSUME pc' \in {"leases", "summary", "control"} PROVE Dated(local)'
    OBVIOUS
  <2>1. SyncLeases \/ Summarize
    BY RoundGoes
  <2>2. local \in Plan /\ Dated(local)
    BY <2>1 DEF TypeOK, PauseInv, SyncLeases, Summarize
  <2>3. CASE local' = local
    <3>1. Counted(local)' => Counted(local)
      BY <1>2, <2>3 DEF Counted
    <3> QED
      BY <1>1, <1>6, <2>2, <2>3, <3>1 DEF Dated, AllAccepted, Threshold
  <2>4. CASE local' = plan'
    <3>1. plan'.ack \in Nat
      BY DEF TypeOK, Plan
    <3> QED
      BY <2>4, <3>1 DEF Dated
  <2>5. local' = local \/ local' = plan'
    BY <2>1, SummaryCounts DEF SyncLeases
  <2> QED
    BY <2>3, <2>4, <2>5
<1>9. pc' = "control" => Counted(local)'
  <2> SUFFICES ASSUME pc' = "control" PROVE Counted(local)'
    OBVIOUS
  <2>1. \A g \in Group : local'.counts[g].failed = CountIn(g, "failed")
    BY RoundGoes, SummaryCounts
  <2> QED
    BY <1>2, <2>1 DEF Counted
<1>10. pc' = "checks" => ~Begun'
  BY <1>1, RoundGoes, ChecksComeFirst DEF PauseInv
<1> QED
  BY <1>5, <1>7, <1>8, <1>9, <1>10 DEF PauseInv

LEMMA PauseElse ==
    ASSUME NoDeletion, TypeOK, TypeOK', RolloutInv, LeaseInv, PauseInv, [Next]_vars, ~Round
    PROVE  PauseInv'
<1>0. plan \in Plan /\ seen \in Plan /\ local \in Plan
  BY DEF TypeOK
<1>1. \A n \in Node : view[n] \in Terminal => view'[n] = view[n]
  BY ElseStep
<1>2. plan' = plan \/ UserEditsSpec
  BY ElseStep
<1>3. plan'.ack = plan.ack /\ plan'.phase = plan.phase /\ plan'.counts = plan.counts
  BY <1>0, <1>2 DEF UserEditsSpec, Plan
<1>4. \A g \in Group : /\ CountIn(g, "failed") =< CountIn(g, "failed")'
                       /\ CountIn(g, "failed") \in Nat /\ CountIn(g, "failed")' \in Nat
  BY <1>1, CountsGrow
<1>5. \A q \in {plan, seen, local, NewPlan}, g \in Group :
         q.counts[g].failed =< CountIn(g, "failed")'
  <2>1. \A q \in {plan, seen, local}, g \in Group :
           q.counts[g].failed \in Nat /\ q.counts[g].failed =< CountIn(g, "failed")
    BY <1>0 DEF PauseInv, Behind, Plan, Tally
  <2>2. \A g \in Group : NewPlan.counts[g].failed = 0
    BY DEF NewPlan
  <2> QED
    BY <1>4, <2>1, <2>2
<1>6. seen' \in {seen, plan} /\ local' \in {local, seen, plan, NewPlan}
  BY ElseStep
<1>7. Behind(plan)' /\ Behind(seen)' /\ Behind(local)'
  BY <1>3, <1>5, <1>6 DEF Behind
<1>8. ASSUME NEW q \in {seen, plan, local}, Dated(q)
      PROVE  (\A g \in Group : q.counts[g].failed = CountIn(g, "failed")') =>
                /\ plan'.ack > q.ack => AllAccepted'
                /\ q.phase = "Paused" /\ Cardinality(FailedNodes') - q.ack >= Threshold =>
                       AllAccepted' \/ plan'.phase \in {"Paused", "Cancelled"}
  <2>1. PICK p \in Plan : p = q
    BY <1>0
  <2>2. Dated(p) /\ Behind(p)
    BY <1>8, <2>1 DEF PauseInv
  <2>3. Counted(p)' =>
           /\ plan'.ack > p.ack => AllAccepted'
           /\ p.phase = "Paused" /\ Cardinality(FailedNodes') - p.ack >= Threshold =>
                  AllAccepted' \/ plan'.phase \in {"Paused", "Cancelled"}
    BY <1>1, <1>3, <2>2, DatedStays
  <2> QED
    BY <2>1, <2>3 DEF Counted
<1>9. Dated(seen)'
  <2> DEFINE Fresh(q) ==
        (\A g \in Group : q.counts[g].failed = CountIn(g, "failed")') =>
            /\ plan'.ack > q.ack => AllAccepted'
            /\ q.phase = "Paused" /\ Cardinality(FailedNodes') - q.ack >= Threshold =>
                   AllAccepted' \/ plan'.phase \in {"Paused", "Cancelled"}
  <2>1. Fresh(seen) /\ Fresh(plan)
    BY <1>8, DatedNow, FailureTypes DEF PauseInv
  <2> QED
    BY <1>6, <2>1 DEF Dated, Counted, Threshold
<1>10. pc' \in {"leases", "summary", "control"} => Dated(local)'
  <2> SUFFICES ASSUME pc' \in {"leases", "summary", "control"} PROVE Dated(local)'
    OBVIOUS
  <2>1. local' \in {seen, plan} \/ (local' = local /\ Dated(local))
    BY ElseStep DEF PauseInv
  <2>2. PICK q \in {seen, plan, local} : local' = q /\ Dated(q)
    BY <2>1, DatedNow, FailureTypes DEF PauseInv
  <2> QED
    BY <1>8, <2>2 DEF Dated, Counted, Threshold
<1>11. pc' \in {"control", "checks"} => UNCHANGED <<pc, local, view>>
  BY ElseStep
<1>12. pc' = "control" => Counted(local)'
  BY <1>11 DEF PauseInv, Counted, CountIn, NodesOf
<1>13. pc' = "checks" => ~Begun'
  BY <1>11 DEF PauseInv, Begun
<1> QED
  BY <1>7, <1>9, <1>10, <1>12, <1>13 DEF PauseInv

\* Who raises failuresAcknowledged resumes a plan that is paused, by its own copy.
LEMMA OnlyResumeAccepts ==
    ASSUME TypeOK, AckAfter(local) = local.ack \/ local.ack = plan.ack, Round,
           plan'.ack > plan.ack
    PROVE  /\ Resume /\ Policy = "Pause" /\ Exceeded
           /\ plan'.ack = Cardinality(FailedNodes)
<1>0. plan \in Plan /\ local \in Plan /\ plan.ack \in Nat /\ Cardinality(FailedNodes) \in Nat
  BY FailureTypes DEF TypeOK
<1>1. ~Summarize
  <2> SUFFICES ASSUME Summarize PROVE FALSE
    OBVIOUS
  <2> DEFINE new == [local EXCEPT !.counts = Summary, !.ack = AckAfter(local)]
  <2>1. UNCHANGED plan \/ PatchStatus(new)
    BY DEF Summarize
  <2>2. new.ack = AckAfter(local) /\ AckAfter(local) =< local.ack
    BY <1>0, EditEach, FailureTypes DEF AckAfter
  <2> HIDE DEF new
  <2>3. plan'.ack \in {plan.ack, Merge(new.ack, local.ack, plan.ack)}
    BY <1>0, <2>1, PatchEach
  <2>4. AckAfter(local) \in Nat /\ local.ack \in Nat
    BY <1>0, AckAfterType, FailureTypes
  <2> QED
    BY <1>0, <2>2, <2>3, <2>4 DEF Merge
<1>2. Resume
  <2>1. ASSUME ~Summarize, ~Resume PROVE plan'.ack = plan.ack
    BY <2>1, RoundKeeps
  <2> QED
    BY <1>0, <1>1, <2>1
<1>3. plan'.ack = Cardinality(FailedNodes)
  BY <1>0, <1>2, RoundKeeps
<1>4. Policy = "Pause" /\ Exceeded
  <2> SUFFICES ASSUME ~(Policy = "Pause" /\ Exceeded) PROVE FALSE
    OBVIOUS
  <2> DEFINE new == [local EXCEPT !.phase = "InProgress"]
  <2>1. PatchStatus(new) /\ new.ack = local.ack
    BY <1>0, <1>2, EditKeeps DEF Resume
  <2> HIDE DEF new
  <2> QED
    BY <1>0, <2>1, PatchEach DEF Merge
<1> QED
  BY <1>2, <1>3, <1>4

\* A round goes on with the copy it had, as long as it wrote nothing, or with the
\* server's answer.
LEMMA RoundCopy ==
    ASSUME Round
    PROVE  pc' = "idle" \/ local' = plan' \/ UNCHANGED <<plan, local>>
<1> USE DEF Continue, EndRound, EndIn, DoneWith, planVars
<1>1. CASE \/ PurgeJob \/ MarkPurged \/ SyncLeases \/ Summarize \/ Cancel \/ Pause \/ Resume
  BY <1>1 DEF PurgeJob, MarkPurged, SyncLeases, Summarize, Cancel, Pause, Resume
<1>2. CASE \/ StartPreflight \/ PreflightPasses \/ PreflightFails \/ PatchKubeProxy
           \/ WaitForKubeProxy \/ KubeProxyUpgraded
  BY <1>2 DEF StartPreflight, PreflightPasses, PreflightFails, PatchKubeProxy, WaitForKubeProxy,
              KubeProxyUpgraded
<1>3. CASE PauseOnFailures \/ RecordPause \/ Halt \/ Complete \/ HoldOff \/ WaitForSlot
  BY <1>3 DEF PauseOnFailures, RecordPause, Halt, Complete, HoldOff, WaitForSlot
<1>4. CASE MarkInProgress \/ StopAtWorker \/ JobAlreadyExists \/ CreatePatchJob \/ AcquireLease
  BY <1>4 DEF MarkInProgress, StopAtWorker, JobAlreadyExists, CreatePatchJob, AcquireLease
<1> QED
  BY <1>1, <1>2, <1>3, <1>4 DEF Round

\* With a current cache a round's copy has the plan's phase and failuresAcknowledged.
CopyCurrent == pc # "idle" => local.phase = plan.phase /\ local.ack = plan.ack

LEMMA CopyStep ==
    ASSUME ~PlanLag, TypeOK, CopyCurrent, [Next]_vars
    PROVE  CopyCurrent'
<1> USE DEF planVars, jobVars, roundVars, CopyCurrent
<1>0. plan \in Plan /\ local \in Plan
  BY DEF TypeOK
<1>1. CASE Reconcile
  BY <1>1 DEF Reconcile, Cached
<1>2. CASE Round
  <2>1. pc # "idle"
    BY <1>2, RoundGoes
  <2> QED
    BY <1>2, <2>1, RoundCopy
<1>3. CASE SyncSomeLeases \/ Abort
  BY <1>3 DEF SyncSomeLeases, Abort, EndRound
<1>4. ASSUME NEW n \in Node, JobFinishes(n) \/ CollectLease(n) \/ UserRetriesNode(n)
      PROVE  UNCHANGED <<plan, local, pc>>
  BY <1>4 DEF JobFinishes, CollectLease, UserRetriesNode
<1>5. \/ DeliverJobEvent \/ DeliverPlan \/ KubeProxyRollsOut \/ UNCHANGED vars
      => UNCHANGED <<plan, local, pc>>
  BY DEF DeliverJobEvent, DeliverPlan, KubeProxyRollsOut, vars
<1>6. CASE UserEditsSpec \/ RetentionNears \/ RetentionExpires
  <2>1. /\ pc' = pc /\ plan'.phase = plan.phase /\ plan'.ack = plan.ack
        /\ local'.phase = local.phase /\ local'.ack = local.ack
    BY <1>0, <1>6 DEF UserEditsSpec, RetentionNears, RetentionExpires, Expire, Plan
  <2> QED
    BY <2>1
<1>7. CASE UNCHANGED <<plan, local, pc>>
  BY <1>7
<1> QED
  BY <1>1, <1>2, <1>3, <1>4, <1>5, <1>6, <1>7 DEF Next, Environment

\* Nobody but a round touches failuresAcknowledged.
LEMMA ElseAck ==
    ASSUME TypeOK, [Next]_vars, ~Round PROVE plan'.ack = plan.ack
<1> USE DEF planVars
<1>0. plan \in Plan
  BY DEF TypeOK
<1>1. CASE UserEditsSpec \/ RetentionNears \/ RetentionExpires
  BY <1>0, <1>1 DEF UserEditsSpec, RetentionNears, RetentionExpires, Expire, Plan
<1>2. CASE \/ Reconcile \/ SyncSomeLeases \/ Abort \/ DeliverJobEvent \/ DeliverPlan
           \/ KubeProxyRollsOut \/ UNCHANGED vars
           \/ \E n \in Node : JobFinishes(n) \/ CollectLease(n) \/ UserRetriesNode(n)
  BY <1>2 DEF Reconcile, SyncSomeLeases, Abort, DeliverJobEvent, DeliverPlan, KubeProxyRollsOut,
              JobFinishes, CollectLease, UserRetriesNode, vars
<1> QED
  BY <1>1, <1>2 DEF Next, Environment

\* Failures are accepted only by resuming a plan that is paused, or cancelled since it
\* was resumed: if the plan's cache is current, whatever users delete and edit.
LEMMA AcceptedCurrent == ~PlanLag => (Spec => AcceptedByResuming)
<1> SUFFICES ASSUME ~PlanLag PROVE Spec => AcceptedByResuming
  OBVIOUS
<1>1. Init => CopyCurrent
  BY DEF Init, CopyCurrent
<1>2. TypeOK /\ CopyCurrent /\ [Next]_vars => CopyCurrent'
  BY CopyStep
<1>3. ASSUME TypeOK, CopyCurrent, [Next]_vars
      PROVE  [plan'.ack > plan.ack => plan.phase \in {"Paused", "Cancelled"}]_vars
  <2> SUFFICES ASSUME plan'.ack > plan.ack PROVE plan.phase \in {"Paused", "Cancelled"}
    OBVIOUS
  <2>1. Round
    BY <1>3, ElseAck, FailureTypes
  <2>2. local.ack = plan.ack /\ local.phase = plan.phase
    BY <1>3, <2>1, RoundGoes DEF CopyCurrent
  <2>3. Resume
    BY <1>3, <2>1, <2>2, OnlyResumeAccepts
  <2> QED
    BY <2>2, <2>3 DEF Resume
<1> QED
  BY <1>1, <1>2, <1>3, TypeCorrect, PTL DEF Spec, AcceptedByResuming

\* The same with any lag, until a PatchJob is deleted.
LEMMA AcceptedLagging == NoDeletion => (Spec => AcceptedByResuming)
<1> SUFFICES ASSUME NoDeletion PROVE Spec => AcceptedByResuming
  OBVIOUS
<1> DEFINE Inv == Policy = "Pause" => PauseInv
<1>1. Init => Inv
  BY InitPause
<1>2. TypeOK /\ TypeOK' /\ RolloutInv /\ LeaseInv /\ FailureInv /\ Inv /\ [Next]_vars => Inv'
  BY PauseRound, PauseElse
<1>3. ASSUME TypeOK, RolloutInv, FailureInv, Inv, [Next]_vars
      PROVE  [plan'.ack > plan.ack => plan.phase \in {"Paused", "Cancelled"}]_vars
  <2> SUFFICES ASSUME plan'.ack > plan.ack PROVE plan.phase \in {"Paused", "Cancelled"}
    OBVIOUS
  <2>1. Round
    BY <1>3, ElseAck, FailureTypes
  <2>2. AckAfter(local) = local.ack
    BY <1>3, FailureTypes DEF FailureInv, AckAfter
  <2>3. /\ Resume /\ Policy = "Pause" /\ Exceeded
        /\ plan'.ack = Cardinality(FailedNodes)
    BY <1>3, <2>1, <2>2, OnlyResumeAccepts
  <2>4. pc = "control" /\ local.phase = "Paused"
    BY <2>3 DEF Resume
  <2>5. Dated(local) /\ Counted(local)
    BY <1>3, <2>3, <2>4 DEF PauseInv
  <2>6. ~AllAccepted /\ Cardinality(FailedNodes) - local.ack >= Threshold
    BY <1>3, <2>3, FailureTypes DEF AllAccepted, Exceeded
  <2> QED
    BY <2>4, <2>5, <2>6 DEF Dated
<1> HIDE DEF Inv
<1> QED
  BY <1>1, <1>2, <1>3, TypeCorrect, RolloutInvariant, LeaseInvariant, FailureInvariant, PTL
     DEF Spec, AcceptedByResuming

\* failuresAcknowledged rises only by resuming, never by a second look at an old copy
\* of a plan that has been resumed already: a plan whose cache lags counts failures
\* as they are before it decides, so an old copy that says "Paused" counts fewer.
THEOREM AcceptanceHolds == (NoDeletion \/ ~PlanLag) => (Spec => AcceptedByResuming)
BY AcceptedCurrent, AcceptedLagging
=============================================================================
