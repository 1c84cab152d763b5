----------------------------- MODULE PlanConflict -----------------------------
(***************************************************************************)
(* Several PatchPlans on the same nodes.                                    *)
(*                                                                          *)
(* Before its first PatchJob a plan runs its preflight, and one of the      *)
(* checks refuses it while another plan works, or is about to work, on one  *)
(* of its nodes.  Nothing is locked: a round reads the list of plans from   *)
(* the informer cache, probes machines for a while, and only then writes    *)
(* what it found; the other plans do the same at the same time.             *)
(*                                                                          *)
(* PatchPlan looks into the round of one plan.  Here a round has the steps  *)
(* other plans can see, and a plan's PatchJobs are one value.               *)
(***************************************************************************)
EXTENDS Integers, FiniteSets

CONSTANTS
    PlanCount,     \* the plans, numbered in the order of their names
    Targets,       \* the nodes of each plan's rollout
    SameSecond,    \* whether two plans may be created within one second
    PlanLag,       \* whether the informer cache of the plans may lag
    MaxEdits,      \* bound: edits of users after the creation of a plan
    MaxDelays      \* bound: rounds cut short by an error, a crash, another check of the
                   \* preflight, or a hold-off in the schedule

Plan == 1..PlanCount

ASSUME PlansAssumption == PlanCount \in Nat
ASSUME SwitchesAssumption ==
    SameSecond \in BOOLEAN /\ PlanLag \in BOOLEAN
ASSUME BoundsAssumption == MaxEdits \in Nat /\ MaxDelays \in Nat

VARIABLES
    plan,    \* the PatchPlans in the API server
    seen,    \* the informer's copy of them
    stamp,   \* creationTimestamp of each plan, in seconds, 0 before its creation
    jobs,    \* the PatchJobs of each plan, as a whole
    pc,      \* where the round of each plan is
    local,   \* the round's copy of the plan
    stepped, \* history: plans that were Failed, Cancelled or Completed once
    edits, delays

planVars == <<plan, seen, stamp, stepped>>
vars == <<plan, seen, stamp, jobs, pc, local, stepped, edits, delays>>

NotStarted == {"New", "Pending", "Preflighting"}
Working    == {"InProgress", "Paused"}
Finished   == {"Completed", "Failed", "Cancelled"}
Phase == {"Absent"} \cup NotStarted \cup Working \cup Finished

\* checked: the generation the PreflightPassed condition is True for, 0 if none.
PatchPlan == [phase : Phase, paused : BOOLEAN, cancelled : BOOLEAN,
              gen : Nat, checked : Nat]
NoPlan == [phase |-> "Absent", paused |-> FALSE, cancelled |-> FALSE,
           gen |-> 0, checked |-> 0]

\* running: jobs exist, and jobs are unfinished or nodes left; done: no node is left;
\* failed: more failed jobs than failurePolicy allows, others may be unfinished; blocked:
\* no job is unfinished, and those of the workers wait for a failed control plane node.
JobState == {"none", "running", "blocked", "done", "failed"}
Position == {"idle", "preflight", "list", "clear", "conflict", "schedule", "create"}

Init ==
    /\ plan = [p \in Plan |-> NoPlan]
    /\ seen = [p \in Plan |-> NoPlan]
    /\ stamp = [p \in Plan |-> 0]
    /\ jobs = [p \in Plan |-> "none"]
    /\ pc = [p \in Plan |-> "idle"]
    /\ local = [p \in Plan |-> NoPlan]
    /\ stepped = {}
    /\ edits = 0 /\ delays = 0

-----------------------------------------------------------------------------
(* Users.                                                                    *)

Exists(p) == stamp[p] # 0
Latest == {s \in {stamp[p] : p \in Plan} : \A p \in Plan : stamp[p] =< s}

\* A plan may be created paused.
CreatePlan(p) ==
    /\ ~Exists(p)
    /\ \E last \in Latest, paused \in BOOLEAN :
         /\ plan' = [plan EXCEPT ![p] = [NoPlan EXCEPT !.phase = "New", !.gen = 1,
                                                       !.paused = paused]]
         /\ \/ stamp' = [stamp EXCEPT ![p] = last + 1]
            \/ SameSecond /\ last # 0 /\ stamp' = [stamp EXCEPT ![p] = last]
    /\ UNCHANGED <<seen, jobs, pc, local, stepped, edits, delays>>

\* Pause, resume, cancel or take a cancellation back.
EditPlan(p) ==
    /\ Exists(p) /\ edits < MaxEdits
    /\ edits' = edits + 1
    /\ \/ plan' = [plan EXCEPT ![p].paused = ~@, ![p].gen = @ + 1]
       \/ plan' = [plan EXCEPT ![p].cancelled = ~@, ![p].gen = @ + 1]
    /\ UNCHANGED <<seen, stamp, jobs, pc, local, stepped, delays>>

\* Deletes failed PatchJobs, possibly all there are, to have their nodes retried.
DeleteFailedJobs(p) ==
    /\ jobs[p] # "none" /\ edits < MaxEdits
    /\ edits' = edits + 1
    /\ \E left \in {"none", "running"} : jobs' = [jobs EXCEPT ![p] = left]
    /\ UNCHANGED <<planVars, pc, local, delays>>

-----------------------------------------------------------------------------
(* The round of a plan.  Its first step reads the cache and goes as far as   *)
(* the first write: a later look at a cache that lags shows nothing else.    *)

Cached == IF PlanLag THEN seen ELSE plan
Copy(p) == IF pc[p] = "idle" THEN Cached[p] ELSE local[p]

\* The informer applies events in their order: its list is a past state of all plans.
Sync ==
    /\ seen # plan
    /\ seen' = plan
    /\ UNCHANGED <<plan, stamp, stepped, jobs, pc, local, edits, delays>>

Merge(new, old, current) == IF new # old THEN new ELSE current

\* A merge patch carries what the round changed in its copy.
PatchStatus_NoMerge(p, new) ==
    plan' = [plan EXCEPT ![p].phase = Merge(new.phase, Copy(p).phase, "Unchanged"),
                         ![p].checked = Merge(new.checked, Copy(p).checked, @)]
PatchStatus(p, new) ==
    plan' = [plan EXCEPT ![p].phase = Merge(new.phase, Copy(p).phase, @),
                         ![p].checked = Merge(new.checked, Copy(p).checked, @)]

\* History: who has been in a finished phase.
Remember ==
    stepped' = stepped \cup {p \in Plan : plan'[p].phase \in Finished}

Goto(p, position, copy) ==
    /\ pc' = [pc EXCEPT ![p] = position]
    /\ local' = [local EXCEPT ![p] = copy]

\* Steps that write the status: the round goes on with the server's answer, or ends.
WriteAndGoto(p, new, position) ==
    /\ PatchStatus(p, new) /\ Remember /\ Goto(p, position, plan'[p])
    /\ UNCHANGED <<seen, stamp, jobs, edits, delays>>
WriteAndEnd(p, new) ==
    /\ PatchStatus(p, new) /\ Remember /\ Goto(p, "idle", NoPlan)
    /\ UNCHANGED <<seen, stamp, jobs, edits>>

Delay == delays < MaxDelays /\ delays' = delays + 1

AtControl(p) == pc[p] = "idle" /\ Cached[p].phase # "Absent"

Cancel(p) ==
    /\ AtControl(p) /\ Copy(p).cancelled
    /\ WriteAndEnd(p, [Copy(p) EXCEPT !.phase = "Cancelled"])
    /\ UNCHANGED delays

Pause(p) ==
    /\ AtControl(p) /\ ~Copy(p).cancelled /\ Copy(p).paused
    /\ WriteAndEnd(p, [Copy(p) EXCEPT !.phase = "Paused"])
    /\ UNCHANGED delays

\* A plan that was paused before it started is InProgress before its preflight.
Resume(p) ==
    /\ AtControl(p) /\ ~Copy(p).cancelled /\ ~Copy(p).paused
    /\ Copy(p).phase = "Paused"
    /\ WriteAndGoto(p, [Copy(p) EXCEPT !.phase = "InProgress"], "preflight")

AtPreflight(p) ==
    \/ pc[p] = "preflight"
    \/ AtControl(p) /\ ~Copy(p).cancelled /\ ~Copy(p).paused /\ Copy(p).phase # "Paused"

\* No preflight once a job exists or the condition is True for this generation.
PreflightSettled(p) == jobs[p] # "none" \/ Copy(p).checked = Copy(p).gen

StartPreflight(p) ==
    /\ AtPreflight(p) /\ ~PreflightSettled(p)
    /\ Copy(p).phase \in {"New", "Pending"}
    /\ WriteAndGoto(p, [Copy(p) EXCEPT !.phase = "Preflighting"], "list")

AtList_Once(p) ==
    \/ pc[p] = "list"
    \/ AtPreflight(p) /\ ~PreflightSettled(p) /\ Copy(p).phase = "Preflighting"
AtList(p) ==
    \/ pc[p] = "list"
    \/ AtPreflight(p) /\ ~PreflightSettled(p) /\ Copy(p).phase \notin {"New", "Pending"}

\* Of plans that have not started the one created first goes first, then by name.
Before(q, p) == stamp[q] < stamp[p] \/ (stamp[q] = stamp[p] /\ q < p)

BlocksPlan_Started(q, p) == Cached[q].phase \in Working
BlocksPlan(q, p) ==
    \/ Cached[q].phase \in Working
    \/ Cached[q].phase \in NotStarted /\ Before(q, p)

Overlap(p, q) == Targets[p] \cap Targets[q] # {}

NoConflict(p) == \A q \in Plan \ {p} : BlocksPlan(q, p) => ~Overlap(p, q)

\* The list of plans is read; probing the machines comes after it.
CheckConflictingPlans(p) ==
    /\ AtList(p)
    /\ Goto(p, IF NoConflict(p) THEN "clear" ELSE "conflict", Copy(p))
    /\ UNCHANGED <<planVars, jobs, edits, delays>>

PreflightPasses(p) ==
    /\ pc[p] = "clear"
    /\ WriteAndGoto(p, [local[p] EXCEPT !.phase = "Pending", !.checked = local[p].gen],
                    "schedule")

PreflightFails(p) ==
    /\ \/ pc[p] = "conflict" /\ UNCHANGED delays
       \/ pc[p] = "clear" /\ Delay
    /\ WriteAndEnd(p, [local[p] EXCEPT !.phase = "Failed", !.checked = 0])

AtSchedule(p) == pc[p] = "schedule" \/ (AtPreflight(p) /\ PreflightSettled(p))

\* failureBudgetExceeded, policy Halt.
Halt(p) ==
    /\ AtSchedule(p) /\ jobs[p] = "failed"
    /\ WriteAndEnd(p, [Copy(p) EXCEPT !.phase = "Failed"])
    /\ UNCHANGED delays

Complete(p) ==
    /\ AtSchedule(p) /\ jobs[p] = "done"
    /\ WriteAndEnd(p, [Copy(p) EXCEPT !.phase = "Completed"])
    /\ UNCHANGED delays

\* Outside a maintenance window, within delayBetweenNodes, or at the concurrency.
HoldOff(p) ==
    /\ pc[p] # "idle" /\ AtSchedule(p) /\ jobs[p] \notin {"done", "failed"}
    /\ Delay
    /\ Goto(p, "idle", NoPlan)
    /\ UNCHANGED <<planVars, jobs, edits>>

MarksInProgress(phase) == phase \in {"New", "Pending"} \cup Finished

MarkInProgress(p) ==
    /\ AtSchedule(p) /\ jobs[p] \notin {"done", "failed"} /\ MarksInProgress(Copy(p).phase)
    /\ WriteAndGoto(p, [Copy(p) EXCEPT !.phase = "InProgress"], "create")

AtCreate(p) ==
    \/ pc[p] = "create"
    \/ /\ AtSchedule(p) /\ jobs[p] \notin {"done", "failed"}
       /\ ~MarksInProgress(Copy(p).phase)

\* A Kubernetes upgrade with a control plane node that failed within the budget: the
\* plan stays InProgress and creates no job any more.
WaitForControlPlane(p) ==
    /\ AtCreate(p) /\ jobs[p] = "blocked"
    /\ Goto(p, "idle", NoPlan)
    /\ UNCHANGED <<planVars, jobs, edits, delays>>

CreatePatchJobs(p) ==
    /\ AtCreate(p) /\ jobs[p] # "blocked"
    /\ jobs' = [jobs EXCEPT ![p] = "running"]
    /\ Goto(p, "idle", NoPlan)
    /\ UNCHANGED <<planVars, edits, delays>>

\* A write is refused, or the operator crashes.
Abort(p) ==
    /\ pc[p] # "idle" /\ Delay
    /\ Goto(p, "idle", NoPlan)
    /\ UNCHANGED <<planVars, jobs, edits>>

\* A round that is about to create jobs is read as the earlier of the two.
JobsFinish(p) ==
    /\ jobs[p] = "running" /\ pc[p] # "create"
    /\ \E left \in {"blocked", "done", "failed"} : jobs' = [jobs EXCEPT ![p] = left]
    /\ UNCHANGED <<planVars, pc, local, edits, delays>>

-----------------------------------------------------------------------------
Round(p) ==
    \/ Cancel(p) \/ Pause(p) \/ Resume(p)
    \/ StartPreflight(p) \/ CheckConflictingPlans(p)
    \/ PreflightPasses(p) \/ PreflightFails(p)
    \/ Halt(p) \/ Complete(p) \/ HoldOff(p) \/ MarkInProgress(p)
    \/ WaitForControlPlane(p) \/ CreatePatchJobs(p)

Next ==
    \/ Sync
    \/ \E p \in Plan :
         \/ CreatePlan(p) \/ EditPlan(p) \/ DeleteFailedJobs(p)
         \/ Cancel(p) \/ Pause(p) \/ Resume(p)
         \/ StartPreflight(p) \/ CheckConflictingPlans(p)
         \/ PreflightPasses(p) \/ PreflightFails(p)
         \/ Halt(p) \/ Complete(p) \/ HoldOff(p) \/ MarkInProgress(p)
         \/ WaitForControlPlane(p) \/ CreatePatchJobs(p)
         \/ Abort(p) \/ JobsFinish(p)

Spec == Init /\ [][Next]_vars

\* Rounds come back (a refused plan is retried every minute) and end, and no more than
\* MaxDelays of them are cut short; jobs end, and a rollout has finitely many nodes, but
\* may come to rest before the last of them; the informer delivers.
FairSpec ==
    /\ Spec
    /\ WF_vars(Sync)
    /\ \A p \in Plan : WF_vars(Round(p)) /\ WF_vars(JobsFinish(p))

-----------------------------------------------------------------------------
(* Correctness.                                                              *)

\* The shape of every variable; only a plan that was created has a status.
TypeOK ==
    /\ plan \in [Plan -> PatchPlan] /\ seen \in [Plan -> PatchPlan]
    /\ local \in [Plan -> PatchPlan]
    /\ stamp \in [Plan -> Nat]
    /\ jobs \in [Plan -> JobState]
    /\ pc \in [Plan -> Position]
    /\ stepped \subseteq Plan
    /\ edits \in Nat /\ delays \in Nat

\* First come, first served: a plan creates PatchJobs only after every plan that was
\* created in an earlier second and shares a node with it has stepped aside once
\* (completed, failed or was cancelled), although both ran their preflight at the
\* same time and neither saw the other's latest status (blocksPlan).
EarlierFirst ==
    \A p, q \in Plan :
        (Exists(p) /\ stamp[p] < stamp[q] /\ Overlap(p, q) /\ jobs[q] # "none")
            => p \in stepped

\* A plan that goes on only when a user does something about it.
Held(p) == plan[p].paused \/ plan[p].cancelled \/ jobs[p] = "blocked"

\* No two plans hold each other up for ever: every plan gets to its first PatchJobs, unless
\* again and again some plan is paused or cancelled, or waits for a failed control plane
\* node (waitForControlPlane); a hold that ends leaves the promise standing.
EveryPlanStarts ==
    \A p \in Plan :
        <>Exists(p) => <>(jobs[p] # "none") \/ []<>(\E q \in Plan : Held(q))

\* Two plans that share a node are never under way together: "exactly one of two
\* simultaneously applied plans proceeds" (blocksPlan).
UnderWay(p) == jobs[p] # "none" /\ plan[p].phase \in Working
OneProceeds ==
    \A p, q \in Plan : (p # q /\ Overlap(p, q)) => ~(UnderWay(p) /\ UnderWay(q))
=============================================================================
