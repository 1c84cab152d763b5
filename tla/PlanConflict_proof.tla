-------------------------- MODULE PlanConflict_proof --------------------------
(***************************************************************************)
(* That the variables of PlanConflict keep their types, and that plans are  *)
(* served in the order of their creation, for any number of plans on any    *)
(* nodes, whatever the informer cache lags and the users edit.              *)
(*                                                                          *)
(* EarlierFirst alone is not inductive: it says nothing of a round that is  *)
(* under way, of the condition PreflightPassed that lets a later round skip *)
(* the check, or of what the cached list contains.                          *)
(***************************************************************************)
EXTENDS PlanConflict, TLAPS

\* A plan that may schedule without another look at the other plans.
Passed(q) ==
    \/ pc[q] \in {"clear", "schedule", "create"}
    \/ plan[q].checked # 0 \/ seen[q].checked # 0 \/ local[q].checked # 0
    \/ jobs[q] # "none"

OlderStepped(q) ==
    \A p \in Plan : (Exists(p) /\ stamp[p] < stamp[q] /\ Overlap(p, q)) => p \in stepped

Known ==
    \A p \in Plan :
      /\ Exists(p) <=> plan[p].phase # "Absent"
      /\ plan[p].phase # "Absent" => plan[p].gen # 0
      /\ seen[p].phase # "Absent" => Exists(p) /\ seen[p].gen # 0
      /\ pc[p] # "idle" => Cached[p].phase # "Absent" /\ local[p].gen # 0
      /\ Passed(p) => Exists(p)

\* The list of a round has every plan created before the round's own.
SeenInOrder ==
    \A p, q \in Plan :
      (Exists(p) /\ stamp[p] < stamp[q] /\ seen[q].phase # "Absent")
         => seen[p].phase # "Absent"

FinishedStepped ==
    \A p \in Plan :
      /\ plan[p].phase \in Finished => p \in stepped
      /\ seen[p].phase \in Finished => p \in stepped

PassedInOrder == \A q \in Plan : Passed(q) => OlderStepped(q)

IInv == TypeOK /\ Known /\ SeenInOrder /\ FinishedStepped /\ PassedInOrder

-----------------------------------------------------------------------------
(* Facts about the operators.                                                *)

\* What a round starts from is a well-formed plan.
LEMMA CopyType ==
    ASSUME TypeOK, NEW p \in Plan
    PROVE  Copy(p) \in PatchPlan /\ Cached \in [Plan -> PatchPlan]
BY DEF TypeOK, Copy, Cached

\* A round at its first step, or later, is the round of a plan that exists.
LEMMA RoundKnown ==
    ASSUME TypeOK, Known, NEW p \in Plan, pc[p] # "idle" \/ AtControl(p)
    PROVE  /\ Exists(p) /\ Cached[p].phase # "Absent" /\ plan[p].phase # "Absent"
           /\ Copy(p).gen # 0
<1>1. Cached[p].phase # "Absent"
  BY DEF Known, AtControl
<1>2. Exists(p) /\ plan[p].phase # "Absent" /\ Cached[p].gen # 0
  BY <1>1 DEF Known, Cached
<1>3. Copy(p).gen # 0
  BY <1>2 DEF Copy, Known
<1> QED
  BY <1>1, <1>2, <1>3

\* What a round starts from is marked as checked only if the plan passed.
LEMMA CopyPassed ==
    ASSUME NEW p \in Plan, Copy(p).checked # 0
    PROVE  Passed(p)
BY DEF Copy, Cached, Passed

\* A settled preflight was passed.
LEMMA SettledPassed ==
    ASSUME TypeOK, Known, NEW p \in Plan, pc[p] # "idle" \/ AtControl(p), PreflightSettled(p)
    PROVE  Passed(p)
<1>1. CASE jobs[p] # "none"
  BY <1>1 DEF Passed
<1>2. CASE Copy(p).checked = Copy(p).gen
  <2>1. Copy(p).checked # 0
    BY <1>2, RoundKnown
  <2> QED
    BY <2>1, CopyPassed
<1> QED
  BY <1>1, <1>2 DEF PreflightSettled

\* The check lets a plan pass only when all that came before have stepped aside.
LEMMA CheckInOrder ==
    ASSUME IInv, NEW p \in Plan, pc[p] # "idle" \/ AtControl(p), NoConflict(p)
    PROVE  OlderStepped(p)
<1> SUFFICES ASSUME NEW q \in Plan, Exists(q), stamp[q] < stamp[p], Overlap(q, p)
             PROVE  q \in stepped
  BY DEF OlderStepped
<1>1. stamp[p] \in Nat /\ stamp[q] \in Nat /\ q # p
  BY DEF IInv, TypeOK
<1>2. Overlap(p, q)
  BY DEF Overlap
<1>3. ~BlocksPlan(q, p)
  BY <1>1, <1>2 DEF NoConflict
<1>4. Cached[p].phase # "Absent"
  BY RoundKnown DEF IInv
<1>5. Cached[q].phase # "Absent"
  BY <1>4 DEF Cached, IInv, SeenInOrder, Known
<1>6. Cached[q].phase \in Phase
  BY CopyType DEF IInv, PatchPlan
<1>7. Cached[q].phase \in Finished
  BY <1>3, <1>5, <1>6 DEF BlocksPlan, Before, Phase
<1> QED
  BY <1>7 DEF Cached, IInv, FinishedStepped

\* What a merge patch leaves.
LEMMA PatchStatusKeeps ==
    ASSUME TypeOK, NEW p \in Plan, NEW new \in PatchPlan, PatchStatus(p, new)
    PROVE  /\ plan' \in [Plan -> PatchPlan]
           /\ \A q \in Plan \ {p} : plan'[q] = plan[q]
           /\ plan'[p].phase \in {new.phase, plan[p].phase}
           /\ plan'[p].checked \in {new.checked, plan[p].checked}
           /\ plan'[p].gen = plan[p].gen
<1> DEFINE phase == Merge(new.phase, Copy(p).phase, plan[p].phase)
           checked == Merge(new.checked, Copy(p).checked, plan[p].checked)
<1>1. plan' = [plan EXCEPT ![p].phase = phase, ![p].checked = checked]
  BY DEF PatchStatus
<1>2. phase \in {new.phase, plan[p].phase} /\ checked \in {new.checked, plan[p].checked}
  BY DEF Merge
<1>3. plan \in [Plan -> PatchPlan]
  BY DEF TypeOK
<1> HIDE DEF phase, checked
<1>4. phase \in Phase /\ checked \in Nat
  BY <1>2, <1>3 DEF PatchPlan
<1>5. plan' = [plan EXCEPT ![p] = [plan[p] EXCEPT !.phase = phase, !.checked = checked]]
  BY <1>1
<1>6. [plan[p] EXCEPT !.phase = phase, !.checked = checked] \in PatchPlan
  BY <1>3, <1>4 DEF PatchPlan
<1>7. /\ [plan[p] EXCEPT !.phase = phase, !.checked = checked].phase = phase
      /\ [plan[p] EXCEPT !.phase = phase, !.checked = checked].checked = checked
      /\ [plan[p] EXCEPT !.phase = phase, !.checked = checked].gen = plan[p].gen
  BY <1>3 DEF PatchPlan
<1> QED
  BY <1>2, <1>3, <1>5, <1>6, <1>7

-----------------------------------------------------------------------------
(* The steps of a round that write the status, as one: they differ in what   *)
(* they write and in where the round goes on, and all that matters of that   *)
(* is that a plan which is marked as checked, or may schedule, has passed.   *)

Writes(p, new, position) ==
    /\ PatchStatus(p, new) /\ Remember
    /\ Goto(p, position, IF position = "idle" THEN NoPlan ELSE plan'[p])
    /\ UNCHANGED <<seen, stamp, jobs, edits>>
    /\ delays' \in Nat

StatusStep(p) ==
    \E new \in PatchPlan, position \in Position :
      /\ Writes(p, new, position)
      /\ new.phase # "Absent"
      /\ new.checked # 0 \/ position \in {"clear", "schedule", "create"} => Passed(p)
      /\ pc[p] # "idle" \/ AtControl(p)

LEMMA WriteAndGotoWrites ==
    ASSUME NEW p, NEW new, NEW position \in Position, position # "idle", TypeOK,
           WriteAndGoto(p, new, position)
    PROVE  Writes(p, new, position)
BY DEF WriteAndGoto, Writes, TypeOK

LEMMA WriteAndEndWrites ==
    ASSUME NEW p, NEW new, TypeOK, WriteAndEnd(p, new), delays' \in Nat
    PROVE  Writes(p, new, "idle")
BY DEF WriteAndEnd, Writes

\* A copy with another phase is as well-formed and as checked as the copy.
LEMMA CopyWithPhase ==
    ASSUME TypeOK, NEW p \in Plan, NEW phase \in Phase
    PROVE  /\ [Copy(p) EXCEPT !.phase = phase] \in PatchPlan
           /\ [Copy(p) EXCEPT !.phase = phase].phase = phase
           /\ [Copy(p) EXCEPT !.phase = phase].checked = Copy(p).checked
BY CopyType DEF PatchPlan

LEMMA WriteStepsAreStatusSteps ==
    ASSUME TypeOK, Known, NEW p \in Plan,
           \/ Cancel(p) \/ Pause(p) \/ Resume(p) \/ StartPreflight(p)
           \/ PreflightPasses(p) \/ PreflightFails(p)
           \/ Halt(p) \/ Complete(p) \/ MarkInProgress(p)
    PROVE  StatusStep(p)
<1> DEFINE With(phase) == [Copy(p) EXCEPT !.phase = phase]
<1>a. delays \in Nat /\ "idle" \in Position
  BY DEF TypeOK, Position
<1>1. ASSUME NEW phase \in Phase \ {"Absent"}, WriteAndEnd(p, With(phase)),
             UNCHANGED delays, pc[p] # "idle" \/ AtControl(p)
      PROVE  StatusStep(p)
  <2>1. Writes(p, With(phase), "idle")
    BY <1>1, <1>a, WriteAndEndWrites
  <2>2. With(phase) \in PatchPlan /\ With(phase).phase # "Absent"
    BY <1>1, CopyWithPhase
  <2>3. With(phase).checked # 0 => Passed(p)
    BY <1>1, CopyWithPhase, CopyPassed
  <2> HIDE DEF With
  <2> QED
    BY <1>1, <1>a, <2>1, <2>2, <2>3 DEF StatusStep
<1>2. ASSUME NEW phase \in Phase \ {"Absent"}, NEW position \in Position \ {"idle"},
             WriteAndGoto(p, With(phase), position),
             position \in {"clear", "schedule", "create"} => Passed(p),
             pc[p] # "idle" \/ AtControl(p)
      PROVE  StatusStep(p)
  <2>1. Writes(p, With(phase), position)
    BY <1>2, WriteAndGotoWrites
  <2>2. With(phase) \in PatchPlan /\ With(phase).phase # "Absent"
    BY <1>2, CopyWithPhase
  <2>3. With(phase).checked # 0 => Passed(p)
    BY <1>2, CopyWithPhase, CopyPassed
  <2> HIDE DEF With
  <2> QED
    BY <1>2, <2>1, <2>2, <2>3 DEF StatusStep
<1>b. AtPreflight(p) => pc[p] # "idle" \/ AtControl(p)
  BY DEF AtPreflight
<1>3. CASE Cancel(p)
  BY <1>1, <1>3 DEF Cancel, Phase, Finished
<1>4. CASE Pause(p)
  BY <1>1, <1>4 DEF Pause, Phase, Working
<1>5. CASE Resume(p)
  BY <1>2, <1>5 DEF Resume, Phase, Working, Position
<1>6. CASE StartPreflight(p)
  BY <1>2, <1>6, <1>b DEF StartPreflight, Phase, NotStarted, Position
<1>7. CASE PreflightPasses(p)
  <2> DEFINE new == [local[p] EXCEPT !.phase = "Pending", !.checked = local[p].gen]
  <2>1. pc[p] = "clear" /\ WriteAndGoto(p, new, "schedule")
    BY <1>7 DEF PreflightPasses
  <2>2. Writes(p, new, "schedule")
    BY <2>1, WriteAndGotoWrites DEF Position
  <2>3. new \in PatchPlan /\ new.phase # "Absent"
    BY DEF TypeOK, PatchPlan, Phase, NotStarted
  <2>4. Passed(p)
    BY <2>1 DEF Passed
  <2> HIDE DEF new
  <2> QED
    BY <2>1, <2>2, <2>3, <2>4 DEF StatusStep, Position
<1>8. CASE PreflightFails(p)
  <2> DEFINE new == [local[p] EXCEPT !.phase = "Failed", !.checked = 0]
  <2>1. pc[p] # "idle" /\ WriteAndEnd(p, new) /\ delays' \in Nat
    BY <1>8, <1>a DEF PreflightFails, Delay
  <2>2. Writes(p, new, "idle")
    BY <2>1, WriteAndEndWrites
  <2>3. new \in PatchPlan /\ new.phase # "Absent" /\ new.checked = 0
    BY DEF TypeOK, PatchPlan, Phase, Finished
  <2> HIDE DEF new
  <2> QED
    BY <1>a, <2>1, <2>2, <2>3 DEF StatusStep
<1>9. AtSchedule(p) => pc[p] # "idle" \/ AtControl(p)
  BY <1>b DEF AtSchedule
<1>10. CASE Halt(p)
  BY <1>1, <1>9, <1>10 DEF Halt, Phase, Finished
<1>11. CASE Complete(p)
  BY <1>1, <1>9, <1>11 DEF Complete, Phase, Finished
<1>12. CASE MarkInProgress(p)
  <2>1. Passed(p)
    <3>1. CASE pc[p] = "schedule"
      BY <3>1 DEF Passed
    <3>2. CASE AtPreflight(p) /\ PreflightSettled(p)
      BY <3>2, <1>b, SettledPassed
    <3> QED
      BY <1>12, <3>1, <3>2 DEF MarkInProgress, AtSchedule
  <2> QED
    BY <1>2, <1>9, <1>12, <2>1 DEF MarkInProgress, Phase, Working, Position
<1> QED
  BY <1>3, <1>4, <1>5, <1>6, <1>7, <1>8, <1>10, <1>11, <1>12

-----------------------------------------------------------------------------
(* Every step keeps the invariant.                                           *)

LEMMA InitIInv == Init => IInv
<1> SUFFICES ASSUME Init PROVE IInv
  OBVIOUS
<1>1. NoPlan \in PatchPlan /\ NoPlan.phase = "Absent" /\ NoPlan.checked = 0
  BY DEF NoPlan, PatchPlan, Phase
<1>2. TypeOK
  BY <1>1 DEF Init, TypeOK, JobState, Position
<1>3. \A p \in Plan : ~Exists(p) /\ ~Passed(p) /\ plan[p].phase = "Absent"
                       /\ seen[p].phase = "Absent" /\ pc[p] = "idle"
  BY <1>1 DEF Init, Exists, Passed
<1> QED
  BY <1>2, <1>3 DEF IInv, Known, SeenInOrder, FinishedStepped, PassedInOrder, Finished

\* A plan's round leaves the other plans as they were.
LEMMA GotoKeeps ==
    ASSUME TypeOK, NEW p \in Plan, NEW position \in Position, NEW copy \in PatchPlan,
           Goto(p, position, copy)
    PROVE  /\ pc' \in [Plan -> Position] /\ local' \in [Plan -> PatchPlan]
           /\ pc'[p] = position /\ local'[p] = copy
           /\ \A q \in Plan \ {p} : pc'[q] = pc[q] /\ local'[q] = local[q]
BY DEF TypeOK, Goto

LEMMA NoPlanType ==
    NoPlan \in PatchPlan /\ NoPlan.phase = "Absent" /\ NoPlan.checked = 0
BY DEF NoPlan, PatchPlan, Phase

\* Plans are not forgotten and step aside for good: what came before a plan and has
\* stepped aside still does so after a step that creates no plan.
LEMMA OrderKept ==
    ASSUME NEW p \in Plan, OlderStepped(p), UNCHANGED stamp, stepped \subseteq stepped'
    PROVE  OlderStepped(p)'
BY DEF OlderStepped, Exists

LEMMA StatusStepIInv == ASSUME IInv, NEW p \in Plan, StatusStep(p) PROVE IInv'
<1>1. PICK new \in PatchPlan, position \in Position :
        /\ Writes(p, new, position)
        /\ new.phase # "Absent"
        /\ new.checked # 0 \/ position \in {"clear", "schedule", "create"} => Passed(p)
        /\ pc[p] # "idle" \/ AtControl(p)
  BY DEF StatusStep
<1> DEFINE copy == IF position = "idle" THEN NoPlan ELSE plan'[p]
<1>2. TypeOK /\ PatchStatus(p, new) /\ Remember /\ Goto(p, position, copy)
      /\ UNCHANGED <<seen, stamp, jobs, edits>> /\ delays' \in Nat
  BY <1>1 DEF Writes, IInv
<1>3. /\ plan' \in [Plan -> PatchPlan]
      /\ \A q \in Plan \ {p} : plan'[q] = plan[q]
      /\ plan'[p].phase \in {new.phase, plan[p].phase}
      /\ plan'[p].checked \in {new.checked, plan[p].checked}
      /\ plan'[p].gen = plan[p].gen
  BY <1>2, PatchStatusKeeps
<1>4. copy \in PatchPlan /\ copy.checked \in {0, plan'[p].checked}
      /\ (position # "idle" => copy = plan'[p])
  BY <1>3, NoPlanType
<1> HIDE DEF copy
<1>5. /\ pc' \in [Plan -> Position] /\ local' \in [Plan -> PatchPlan]
      /\ pc'[p] = position /\ local'[p] = copy
      /\ \A q \in Plan \ {p} : pc'[q] = pc[q] /\ local'[q] = local[q]
  BY <1>2, <1>4, GotoKeeps
<1>6. stepped' = stepped \cup {q \in Plan : plan'[q].phase \in Finished}
  BY <1>2 DEF Remember
<1>7. TypeOK'
  BY <1>2, <1>3, <1>5, <1>6 DEF TypeOK
<1>8. /\ Exists(p) /\ Cached[p].phase # "Absent" /\ plan[p].phase # "Absent"
      /\ plan'[p].phase # "Absent" /\ plan[p].gen # 0
  BY <1>1, <1>3, RoundKnown DEF IInv, Known
<1>9. \A q \in Plan : Passed(q)' => Passed(q)
  <2> SUFFICES ASSUME NEW q \in Plan, Passed(q)' PROVE Passed(q)
    OBVIOUS
  <2>1. CASE q # p
    BY <1>2, <1>3, <1>5, <2>1 DEF Passed
  <2>2. CASE q = p
    <3>1. CASE pc'[p] \in {"clear", "schedule", "create"}
      BY <1>1, <1>5, <2>2, <3>1
    <3>2. CASE plan'[p].checked # 0
      BY <1>1, <1>3, <2>2, <3>2 DEF Passed
    <3>3. CASE local'[p].checked # 0
      BY <1>4, <1>5, <3>2, <3>3
    <3>4. CASE seen'[p].checked # 0 \/ jobs'[p] # "none"
      BY <1>2, <2>2, <3>4 DEF Passed
    <3> QED
      BY <2>2, <3>1, <3>2, <3>3, <3>4 DEF Passed
  <2> QED
    BY <2>1, <2>2
<1>10. \A q \in Plan : Exists(q)' <=> Exists(q)
  BY <1>2 DEF Exists
<1>11. \A q \in Plan : Cached'[q].phase # "Absent" <=> Cached[q].phase # "Absent"
  BY <1>2, <1>3, <1>8 DEF Cached
<1>12. Known'
  <2> SUFFICES ASSUME NEW q \in Plan
               PROVE  /\ Exists(q)' <=> plan'[q].phase # "Absent"
                      /\ plan'[q].phase # "Absent" => plan'[q].gen # 0
                      /\ seen'[q].phase # "Absent" => Exists(q)' /\ seen'[q].gen # 0
                      /\ pc'[q] # "idle" => Cached'[q].phase # "Absent" /\ local'[q].gen # 0
                      /\ Passed(q)' => Exists(q)'
    BY DEF Known
  <2>1. Exists(q)' <=> plan'[q].phase # "Absent"
    BY <1>3, <1>8, <1>10 DEF IInv, Known
  <2>2. plan'[q].phase # "Absent" => plan'[q].gen # 0
    BY <1>3, <1>8 DEF IInv, Known
  <2>3. seen'[q].phase # "Absent" => Exists(q)' /\ seen'[q].gen # 0
    BY <1>2, <1>10 DEF IInv, Known
  <2>4. pc'[q] # "idle" => Cached'[q].phase # "Absent" /\ local'[q].gen # 0
    BY <1>3, <1>4, <1>5, <1>8, <1>11 DEF IInv, Known
  <2>5. Passed(q)' => Exists(q)'
    BY <1>9, <1>10 DEF IInv, Known
  <2> QED
    BY <2>1, <2>2, <2>3, <2>4, <2>5
<1>13. SeenInOrder'
  BY <1>2 DEF IInv, SeenInOrder, Exists
<1>14. FinishedStepped'
  BY <1>2, <1>6 DEF IInv, FinishedStepped
<1>15. PassedInOrder'
  BY <1>2, <1>6, <1>9, OrderKept DEF IInv, PassedInOrder
<1> QED
  BY <1>7, <1>12, <1>13, <1>14, <1>15 DEF IInv
\* A step that touches only the jobs, the rounds and the counters.
LEMMA LocalStepIInv ==
    ASSUME IInv, UNCHANGED planVars, TypeOK',
           \A q \in Plan : (pc[q] # "idle" => Cached[q].phase # "Absent" /\ local[q].gen # 0)
                             => (pc'[q] # "idle" => Cached[q].phase # "Absent" /\ local'[q].gen # 0),
           \A q \in Plan : Passed(q)' => Exists(q) /\ OlderStepped(q)
    PROVE  IInv'
<1>1. Cached' = Cached /\ plan' = plan /\ seen' = seen /\ stamp' = stamp /\ stepped' = stepped
  BY DEF planVars, Cached
<1>2. \A q \in Plan : Exists(q)' <=> Exists(q)
  BY <1>1 DEF Exists
<1>3. Known'
  BY <1>1, <1>2 DEF IInv, Known
<1>4. SeenInOrder' /\ FinishedStepped'
  BY <1>1, <1>2 DEF IInv, SeenInOrder, FinishedStepped
<1>5. PassedInOrder'
  BY <1>1, OrderKept DEF PassedInOrder
<1> QED
  BY <1>3, <1>4, <1>5 DEF IInv

\* A round that ends leaves no more than it had.
LEMMA EndIInv ==
    ASSUME IInv, NEW p \in Plan, Goto(p, "idle", NoPlan), UNCHANGED planVars, TypeOK',
           \A q \in Plan : jobs'[q] # "none" => jobs[q] # "none" \/ (q = p /\ Passed(p))
    PROVE  IInv'
<1>1. /\ pc'[p] = "idle" /\ local'[p] = NoPlan
      /\ \A q \in Plan \ {p} : pc'[q] = pc[q] /\ local'[q] = local[q]
  BY GotoKeeps, NoPlanType DEF IInv, Position
<1>2. \A q \in Plan : Passed(q)' => Passed(q)
  BY <1>1, NoPlanType DEF Passed, planVars
<1>3. \A q \in Plan : Passed(q)' => Exists(q) /\ OlderStepped(q)
  BY <1>2 DEF IInv, Known, PassedInOrder
<1> QED
  BY <1>1, <1>3, LocalStepIInv

LEMMA CheckIInv == ASSUME IInv, NEW p \in Plan, CheckConflictingPlans(p) PROVE IInv'
<1> DEFINE position == IF NoConflict(p) THEN "clear" ELSE "conflict"
<1>1. Goto(p, position, Copy(p)) /\ UNCHANGED <<planVars, jobs, edits, delays>> /\ TypeOK
  BY DEF CheckConflictingPlans, IInv
<1>2. pc[p] # "idle" \/ AtControl(p)
  BY DEF CheckConflictingPlans, AtList, AtPreflight
<1>3. position \in Position /\ Copy(p) \in PatchPlan /\ (position = "clear" => NoConflict(p))
      /\ position \notin {"schedule", "create"}
  BY <1>1, CopyType DEF Position
<1> HIDE DEF position
<1>4. /\ pc' \in [Plan -> Position] /\ local' \in [Plan -> PatchPlan]
      /\ pc'[p] = position /\ local'[p] = Copy(p)
      /\ \A q \in Plan \ {p} : pc'[q] = pc[q] /\ local'[q] = local[q]
  BY <1>1, <1>3, GotoKeeps
<1>5. TypeOK'
  BY <1>1, <1>4 DEF TypeOK, planVars
<1>6. Exists(p) /\ Cached[p].phase # "Absent" /\ Copy(p).gen # 0
  BY <1>2, RoundKnown DEF IInv
<1>7. Passed(p)' => Passed(p) \/ NoConflict(p)
  BY <1>1, <1>3, <1>4, CopyPassed DEF Passed, planVars
<1>8. Passed(p)' => Exists(p) /\ OlderStepped(p)
  BY <1>2, <1>6, <1>7, CheckInOrder DEF IInv, PassedInOrder
<1>9. \A q \in Plan \ {p} : Passed(q)' => Exists(q) /\ OlderStepped(q)
  BY <1>1, <1>4 DEF Passed, planVars, IInv, Known, PassedInOrder
<1> QED
  BY <1>1, <1>4, <1>5, <1>6, <1>8, <1>9, LocalStepIInv

LEMMA CreatePatchJobsIInv == ASSUME IInv, NEW p \in Plan, CreatePatchJobs(p) PROVE IInv'
<1>1. /\ jobs' = [jobs EXCEPT ![p] = "running"] /\ Goto(p, "idle", NoPlan)
      /\ UNCHANGED <<planVars, edits, delays>> /\ TypeOK /\ Known
  BY DEF CreatePatchJobs, IInv
<1>2. Passed(p)
  <2>1. CASE pc[p] \in {"create", "schedule"}
    BY <2>1 DEF Passed
  <2>2. CASE AtPreflight(p) /\ PreflightSettled(p)
    BY <1>1, <2>2, SettledPassed DEF AtPreflight
  <2> QED
    BY <2>1, <2>2 DEF CreatePatchJobs, AtCreate, AtSchedule
<1>3. TypeOK'
  BY <1>1, GotoKeeps, NoPlanType DEF TypeOK, planVars, Position, JobState
<1>4. \A q \in Plan : jobs'[q] # "none" => jobs[q] # "none" \/ (q = p /\ Passed(p))
  BY <1>1, <1>2 DEF TypeOK
<1> QED
  BY <1>1, <1>3, <1>4, EndIInv

\* Jobs that end or are deleted, and rounds that end early.
LEMMA JobsFinishIInv ==
    ASSUME IInv, NEW p \in Plan, JobsFinish(p) \/ DeleteFailedJobs(p) PROVE IInv'
<1>1. PICK left \in JobState : jobs' = [jobs EXCEPT ![p] = left]
  BY DEF JobsFinish, DeleteFailedJobs, JobState
<1>2. jobs[p] # "none" /\ UNCHANGED <<planVars, pc, local>> /\ edits' \in Nat /\ delays' \in Nat
  BY DEF JobsFinish, DeleteFailedJobs, IInv, TypeOK
<1>3. TypeOK'
  BY <1>1, <1>2 DEF IInv, TypeOK, planVars
<1>4. \A q \in Plan : Passed(q)' => Passed(q)
  BY <1>1, <1>2 DEF Passed, planVars, IInv, TypeOK
<1>5. \A q \in Plan : Passed(q)' => Exists(q) /\ OlderStepped(q)
  BY <1>4 DEF IInv, Known, PassedInOrder
<1> QED
  BY <1>2, <1>3, <1>5, LocalStepIInv

LEMMA EndsEarlyIInv ==
    ASSUME IInv, NEW p \in Plan, HoldOff(p) \/ Abort(p) \/ WaitForControlPlane(p)
    PROVE  IInv'
<1>1. /\ Goto(p, "idle", NoPlan) /\ UNCHANGED <<planVars, jobs, edits>> /\ TypeOK
      /\ delays' \in Nat
  BY DEF HoldOff, Abort, WaitForControlPlane, Delay, IInv, TypeOK
<1>2. TypeOK'
  BY <1>1, GotoKeeps, NoPlanType DEF TypeOK, planVars, Position
<1> QED
  BY <1>1, <1>2, EndIInv

LEMMA SyncIInv == ASSUME IInv, Sync PROVE IInv'
<1>1. seen' = plan /\ UNCHANGED <<plan, stamp, stepped, jobs, pc, local, edits, delays>>
      /\ TypeOK
  BY DEF Sync, IInv
<1>2. TypeOK'
  BY <1>1 DEF TypeOK
<1>3. \A q \in Plan : (Exists(q)' <=> Exists(q)) /\ (Passed(q)' => Passed(q))
  BY <1>1 DEF Exists, Passed
<1>4. \A q \in Plan : Cached[q].phase # "Absent" => Cached'[q].phase # "Absent"
  BY <1>1 DEF Cached, IInv, Known
<1>5. Known'
  BY <1>1, <1>3, <1>4 DEF IInv, Known
<1>6. SeenInOrder' /\ FinishedStepped'
  BY <1>1, <1>3 DEF IInv, Known, SeenInOrder, FinishedStepped
<1>7. PassedInOrder'
  BY <1>1, <1>3, OrderKept DEF IInv, PassedInOrder
<1> QED
  BY <1>2, <1>5, <1>6, <1>7 DEF IInv

LEMMA EditPlanIInv == ASSUME IInv, NEW p \in Plan, EditPlan(p) PROVE IInv'
<1>1. /\ plan' = [plan EXCEPT ![p].paused = ~@, ![p].gen = @ + 1]
         \/ plan' = [plan EXCEPT ![p].cancelled = ~@, ![p].gen = @ + 1]
      /\ UNCHANGED <<seen, stamp, jobs, pc, local, stepped, delays>> /\ edits' \in Nat
      /\ TypeOK
  BY DEF EditPlan, IInv, TypeOK
<1>2. /\ plan' \in [Plan -> PatchPlan]
      /\ \A q \in Plan : /\ plan'[q].phase = plan[q].phase /\ plan'[q].checked = plan[q].checked
                          /\ plan'[q].gen \in {plan[q].gen, plan[q].gen + 1}
  BY <1>1 DEF TypeOK, PatchPlan
<1>3. TypeOK'
  BY <1>1, <1>2 DEF TypeOK
<1>4. \A q \in Plan : (Exists(q)' <=> Exists(q)) /\ (Passed(q)' => Passed(q))
                       /\ Cached'[q].phase = Cached[q].phase
  BY <1>1, <1>2 DEF Exists, Passed, Cached
<1>5. \A q \in Plan : plan[q].gen # 0 => plan'[q].gen # 0
  BY <1>1, <1>2 DEF TypeOK, PatchPlan
<1>6. Known'
  BY <1>1, <1>2, <1>4, <1>5 DEF IInv, Known
<1>7. SeenInOrder' /\ FinishedStepped'
  BY <1>1, <1>2, <1>4 DEF IInv, SeenInOrder, FinishedStepped
<1>8. PassedInOrder'
  BY <1>1, <1>4, OrderKept DEF IInv, PassedInOrder
<1> QED
  BY <1>3, <1>6, <1>7, <1>8 DEF IInv

\* A new plan is created no earlier than any other and is in nobody's way.
LEMMA CreatePlanIInv == ASSUME IInv, NEW p \in Plan, CreatePlan(p) PROVE IInv'
<1>1. PICK last \in Latest, paused \in BOOLEAN :
        /\ plan' = [plan EXCEPT ![p] = [NoPlan EXCEPT !.phase = "New", !.gen = 1,
                                                      !.paused = paused]]
        /\ \/ stamp' = [stamp EXCEPT ![p] = last + 1]
           \/ SameSecond /\ last # 0 /\ stamp' = [stamp EXCEPT ![p] = last]
  BY DEF CreatePlan
<1>2. TypeOK /\ ~Exists(p) /\ UNCHANGED <<seen, jobs, pc, local, stepped, edits, delays>>
  BY DEF CreatePlan, IInv
<1>3. last \in Nat /\ \A q \in Plan : stamp[q] \in Nat /\ stamp[q] =< last
  BY <1>2 DEF Latest, TypeOK
<1>4. PICK time \in Nat \ {0} : time >= last /\ stamp' = [stamp EXCEPT ![p] = time]
  BY <1>1, <1>3
<1>5. /\ plan' \in [Plan -> PatchPlan]
      /\ plan'[p].phase = "New" /\ plan'[p].gen = 1 /\ plan'[p].checked = 0
      /\ \A q \in Plan \ {p} : plan'[q] = plan[q]
  BY <1>1, <1>2 DEF TypeOK, PatchPlan, NoPlan, Phase, NotStarted
<1>6. /\ stamp' \in [Plan -> Nat] /\ stamp'[p] = time
      /\ \A q \in Plan \ {p} : stamp'[q] = stamp[q]
  BY <1>2, <1>4 DEF TypeOK
<1>7. TypeOK'
  BY <1>1, <1>2, <1>5, <1>6 DEF TypeOK
<1>8. Exists(p)' /\ \A q \in Plan \ {p} : Exists(q)' <=> Exists(q)
  BY <1>6 DEF Exists
<1>9. /\ ~Passed(p) /\ seen[p].phase = "Absent" /\ pc[p] = "idle"
  <2>1. ~Passed(p) /\ plan[p].phase = "Absent" /\ seen[p].phase = "Absent"
    BY <1>2 DEF IInv, Known
  <2>2. Cached[p].phase = "Absent"
    BY <2>1 DEF Cached
  <2> QED
    BY <2>1, <2>2 DEF IInv, Known
<1>10. ~Passed(p)' /\ \A q \in Plan \ {p} : Passed(q)' => Passed(q)
  BY <1>2, <1>5, <1>9 DEF Passed
<1>11. \A q \in Plan \ {p} : Cached'[q] = Cached[q]
  BY <1>2, <1>5 DEF Cached
<1>12. Known'
  <2>1. ASSUME NEW q \in Plan
        PROVE  /\ Exists(q)' <=> plan'[q].phase # "Absent"
               /\ plan'[q].phase # "Absent" => plan'[q].gen # 0
               /\ seen'[q].phase # "Absent" => Exists(q)' /\ seen'[q].gen # 0
               /\ pc'[q] # "idle" => Cached'[q].phase # "Absent" /\ local'[q].gen # 0
               /\ Passed(q)' => Exists(q)'
    <3>1. CASE q = p
      BY <1>2, <1>5, <1>8, <1>9, <1>10, <3>1
    <3>2. CASE q # p
      BY <1>2, <1>5, <1>8, <1>10, <1>11, <3>2 DEF IInv, Known
    <3> QED
      BY <3>1, <3>2
  <2> QED
    BY <2>1 DEF Known
<1>13. SeenInOrder'
  <2> SUFFICES ASSUME NEW o \in Plan, NEW q \in Plan,
                      Exists(o)', stamp'[o] < stamp'[q], seen'[q].phase # "Absent"
               PROVE  seen'[o].phase # "Absent"
    BY DEF SeenInOrder
  <2>1. q # p /\ seen[q].phase # "Absent"
    BY <1>2, <1>9
  <2>2. o # p
    BY <1>3, <1>4, <1>6, <2>1
  <2> QED
    BY <1>2, <1>6, <1>8, <2>1, <2>2 DEF IInv, SeenInOrder
<1>14. FinishedStepped'
  BY <1>2, <1>5 DEF IInv, FinishedStepped, Finished
<1>15. PassedInOrder'
  <2> SUFFICES ASSUME NEW q \in Plan, Passed(q)', NEW o \in Plan,
                      Exists(o)', stamp'[o] < stamp'[q], Overlap(o, q)
               PROVE  o \in stepped'
    BY DEF PassedInOrder, OlderStepped, Overlap
  <2>1. q # p /\ Passed(q)
    BY <1>10
  <2>2. o # p
    BY <1>3, <1>4, <1>6, <2>1
  <2> QED
    BY <1>2, <1>6, <1>8, <2>1, <2>2 DEF IInv, PassedInOrder, OlderStepped
<1> QED
  BY <1>7, <1>12, <1>13, <1>14, <1>15 DEF IInv

LEMMA NextIInv == IInv /\ [Next]_vars => IInv'
<1> SUFFICES ASSUME IInv, [Next]_vars PROVE IInv'
  OBVIOUS
<1>1. CASE UNCHANGED vars
  <2>1. /\ UNCHANGED planVars /\ pc' = pc /\ local' = local /\ jobs' = jobs
        /\ edits' = edits /\ delays' = delays
    BY <1>1 DEF vars, planVars
  <2>2. TypeOK'
    BY <2>1 DEF IInv, TypeOK, planVars
  <2>3. \A q \in Plan : Passed(q)' => Exists(q) /\ OlderStepped(q)
    BY <2>1 DEF Passed, planVars, IInv, Known, PassedInOrder
  <2> QED
    BY <2>1, <2>2, <2>3, LocalStepIInv
<1>2. CASE Sync
  BY <1>2, SyncIInv
<1>3. ASSUME NEW p \in Plan,
             \/ CreatePlan(p) \/ EditPlan(p) \/ DeleteFailedJobs(p)
             \/ CheckConflictingPlans(p) \/ HoldOff(p) \/ WaitForControlPlane(p)
             \/ CreatePatchJobs(p) \/ Abort(p) \/ JobsFinish(p)
      PROVE  IInv'
  BY <1>3, CreatePlanIInv, EditPlanIInv, CheckIInv, CreatePatchJobsIInv, JobsFinishIInv,
     EndsEarlyIInv
<1>4. ASSUME NEW p \in Plan,
             \/ Cancel(p) \/ Pause(p) \/ Resume(p) \/ StartPreflight(p)
             \/ PreflightPasses(p) \/ PreflightFails(p)
             \/ Halt(p) \/ Complete(p) \/ MarkInProgress(p)
      PROVE  IInv'
  BY <1>4, WriteStepsAreStatusSteps, StatusStepIInv DEF IInv
<1> QED
  BY <1>1, <1>2, <1>3, <1>4 DEF Next

LEMMA AlwaysIInv == Spec => []IInv
BY InitIInv, NextIInv, PTL DEF Spec

\* Every variable keeps its type, for any number of plans and users' edits: what a
\* merge patch, an edit or a creation leaves is a status the controller can read.
THEOREM TypeCorrect == Spec => []TypeOK
<1>1. IInv => TypeOK
  BY DEF IInv
<1> QED
  BY <1>1, AlwaysIInv, PTL

\* First come, first served, for any number of plans on any nodes, with a cache that
\* lags and rounds that fail or crash at any step: a plan creates PatchJobs only after
\* every overlapping plan created in an earlier second has stepped aside once.
THEOREM ServedInOrder == Spec => []EarlierFirst
<1>1. IInv => EarlierFirst
  BY DEF IInv, PassedInOrder, OlderStepped, EarlierFirst, Passed
<1> QED
  BY <1>1, AlwaysIInv, PTL
=============================================================================
