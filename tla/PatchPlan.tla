------------------------------ MODULE PatchPlan ------------------------------
(***************************************************************************)
(* The PatchPlan controller: one plan, its PatchJobs and their Leases, seen *)
(* by one reconciler.                                                       *)
(*                                                                          *)
(* A call of Reconcile is a ROUND: it reads the plan and the list of jobs   *)
(* from informer caches that may lag the API server, and then makes a few   *)
(* API writes, each of which is a step here.  Between two writes everybody  *)
(* else may move (jobs finish, the user edits the plan or deletes a failed  *)
(* job), and the round may end early: the write fails, or the operator      *)
(* crashes.  controller-runtime never runs two rounds of one plan at once.  *)
(*                                                                          *)
(* Time is abstracted to choices: a maintenance window that is closed, a    *)
(* delayBetweenNodes that is not over, a history retention that expires.    *)
(***************************************************************************)
EXTENDS Integers, Sequences, FiniteSets

CONSTANTS
    NodeCount,        \* nodes of the rollout, numbered in scheduling order
    GroupCount,       \* groups, numbered in strategy.order
    GroupOf,          \* the group that schedules each node
    Concurrency,      \* concurrency of each group, at least 1
    ControlPlane,     \* the control plane nodes of the rollout
    KubernetesTarget, \* whether target.kubernetesVersion is set
    Policy,           \* failurePolicy.type
    MaxFailures,      \* failurePolicy.maxFailures
    Waits,            \* whether a window or delayBetweenNodes is configured
    Retention,        \* whether the history retention may expire
    PlanLag,          \* whether the informer cache of the plan may lag
    MaxLag,           \* bound: job events in flight when a job changes
    MaxGen,           \* bound: generations of the plan's spec
    MaxRetries,       \* bound: failed PatchJobs a user deletes
    MaxAborts         \* bound: rounds cut short by an error or a crash

Node  == 1..NodeCount
Group == 1..GroupCount

ASSUME SizesAssumption == NodeCount \in Nat /\ GroupCount \in Nat
ASSUME GroupsAssumption ==
    /\ GroupOf \in [Node -> Group]
    /\ Concurrency \in [Group -> Nat \ {0}]
ASSUME TargetAssumption == ControlPlane \subseteq Node /\ KubernetesTarget \in BOOLEAN
ASSUME PolicyAssumption == Policy \in {"Halt", "Pause"} /\ MaxFailures \in Nat
ASSUME SwitchesAssumption ==
    Waits \in BOOLEAN /\ Retention \in BOOLEAN /\ PlanLag \in BOOLEAN
ASSUME BoundsAssumption ==
    MaxLag \in Nat /\ MaxGen \in Nat /\ MaxRetries \in Nat /\ MaxAborts \in Nat

VARIABLES
    plan,     \* the PatchPlan in the API server: the spec's switches and the status
    seen,     \* the informer's copy of the plan
    jobs,     \* the PatchJob of each node in the API server
    view,     \* the informer's copy of the jobs
    events,   \* watch events of jobs the informer has not applied yet, oldest first
    leases,   \* the Lease of each node's job
    proxy,    \* the kube-proxy DaemonSet
    pc,       \* where the round is, "idle" between rounds
    local,    \* the round's copy of the plan
    todo,     \* nodes the round still has to create a job for
    accepted, \* history: failed jobs the user accepted by resuming the plan
    retries, aborts

planVars  == <<plan, seen>>
jobVars   == <<jobs, view, events>>
roundVars == <<pc, local, todo>>
vars == <<plan, seen, jobs, view, events, leases, proxy, pc, local, todo,
          accepted, retries, aborts>>

Phase == {"New", "Pending", "Preflighting", "InProgress", "Paused",
          "Cancelled", "Completed", "Failed"}
Terminal == {"completed", "failed"}
JobState == {"none", "running"} \cup Terminal
LeaseState == {"none", "held", "orphan"}    \* orphan: its owner is deleted
CompletionTime == {"none", "recent", "due", "old"}

Tally == [pending : Nat, running : Nat, completed : Nat, failed : Nat]
Plan == [paused : BOOLEAN, cancelled : BOOLEAN, gen : Nat,
         phase : Phase, ct : CompletionTime, ack : Nat, proxied : BOOLEAN,
         purged : BOOLEAN, checked : Nat, counts : [Group -> Tally]]

NewPlan == [paused |-> FALSE, cancelled |-> FALSE, gen |-> 1,
            phase |-> "New", ct |-> "none", ack |-> 0, proxied |-> FALSE,
            purged |-> FALSE, checked |-> 0,
            counts |-> [g \in Group |->
                [pending |-> 0, running |-> 0, completed |-> 0, failed |-> 0]]]

Positions == {"idle", "purge", "leases", "summary", "control", "preflight", "checks",
              "proxy", "decide", "pause", "create", "lease"}

Init ==
    /\ plan = NewPlan
    /\ seen = NewPlan
    /\ jobs = [n \in Node |-> "none"]
    /\ view = [n \in Node |-> "none"]
    /\ events = <<>>
    /\ leases = [n \in Node |-> "none"]
    /\ proxy \in (IF KubernetesTarget THEN {"old", "ready", "absent"} ELSE {"absent"})
    /\ pc = "idle"
    /\ local = NewPlan
    /\ todo = {}
    /\ accepted = {}
    /\ retries = 0
    /\ aborts = 0

-----------------------------------------------------------------------------
(* What a round computes from the job list it read.  The informer applies   *)
(* events between rounds only, which loses nothing: a round reads the list  *)
(* once, at its start, so during a round view IS that list.                 *)

NodesOf(g)  == {n \in Node : GroupOf[n] = g}
Pending_NextNode(g) == {n + 1 : n \in {m \in NodesOf(g) : view[m] = "none"}}
Pending(g)  == {n \in NodesOf(g) : view[n] = "none"}
Active(g)   == {n \in NodesOf(g) : view[n] = "running"}
Finished(g) == \A n \in NodesOf(g) : view[n] \in Terminal
FailedNodes == {n \in Node : view[n] = "failed"}

Processed_WhenScheduled == \A n \in Node : view[n] # "none"
Processed == \A n \in Node : view[n] \in Terminal

\* The slots left are given to the first pending nodes of the group.
Batch_NeverFreed(g) ==
    {n \in Pending(g) : Cardinality({m \in NodesOf(g) : m < n \/ view[m] # "none"}) < Concurrency[g]}
Batch_NoActive(g) ==
    {n \in Pending(g) :
        Cardinality({m \in Pending(g) : m < n}) < Concurrency[g]}
Batch_OneMore(g) ==
    {n \in Pending(g) :
        Cardinality({m \in Pending(g) : m < n}) + Cardinality(Active(g)) =< Concurrency[g]}
Batch(g) ==
    {n \in Pending(g) :
        Cardinality({m \in Pending(g) : m < n}) + Cardinality(Active(g)) < Concurrency[g]}

\* The first group in strategy.order that still has work.
IsCurrent_AnyGroup(g) == ~Finished(g)
IsCurrent(g) == ~Finished(g) /\ \A h \in 1..(g - 1) : Finished(h)

AllCompleted_OrFailed(S) == \A n \in S : view[n] \in Terminal
AllCompleted(S) == \A n \in S : view[n] = "completed"

\* A worker waits for every control plane node of a Kubernetes upgrade.
Blocked(n) ==
    KubernetesTarget /\ n \notin ControlPlane /\ ControlPlane # {} /\ ~AllCompleted(ControlPlane)

Threshold == IF MaxFailures = 0 THEN 1 ELSE MaxFailures
Exceeded_Late == Cardinality(FailedNodes) - local.ack > Threshold
Exceeded_Once == local.phase # "Failed" /\ Cardinality(FailedNodes) - local.ack >= Threshold
Exceeded == Cardinality(FailedNodes) - local.ack >= Threshold

CountIn(g, state) == Cardinality({n \in NodesOf(g) : view[n] = state})
Summary == [g \in Group |-> [pending   |-> CountIn(g, "none"),
                             running   |-> CountIn(g, "running"),
                             completed |-> CountIn(g, "completed"),
                             failed    |-> CountIn(g, "failed")]]

\* strategy.order carries a Kubernetes upgrade: control plane groups strictly first.
UpgradeOrderOK ==
    KubernetesTarget =>
        \A c \in ControlPlane, w \in Node \ ControlPlane : GroupOf[c] < GroupOf[w]

FinishedPhase == {"Completed", "Failed", "Cancelled"}

-----------------------------------------------------------------------------
(* Writing the plan.  A status patch is a merge patch without optimistic     *)
(* locking: it sends the fields in which the round's copy was changed, and   *)
(* the server's answer replaces the round's copy.                            *)

Merge(new, old, current) == IF new # old THEN new ELSE current

PatchStatus(new) ==
    plan' = [plan EXCEPT !.phase   = Merge(new.phase, local.phase, @),
                         !.ct      = Merge(new.ct, local.ct, @),
                         !.ack     = Merge(new.ack, local.ack, @),
                         !.proxied = Merge(new.proxied, local.proxied, @),
                         !.purged  = Merge(new.purged, local.purged, @),
                         !.checked = Merge(new.checked, local.checked, @),
                         !.counts  = Merge(new.counts, local.counts, @)]

Continue(position) == pc' = position /\ local' = plan' /\ UNCHANGED todo
EndRound == pc' = "idle" /\ local' = NewPlan /\ todo' = {}

\* A write that ends the round, skipped if the copy is in that phase already.
EndIn(phase, new) ==
    /\ IF local.phase = phase THEN UNCHANGED plan ELSE PatchStatus(new)
    /\ EndRound

-----------------------------------------------------------------------------
(* The round, in the order of Reconcile.                                     *)

Cached == IF PlanLag THEN seen ELSE plan

\* applyRetention: due once the retention is over, blocked while a job still runs.
HistoryDue(p) == p.phase \in FinishedPhase /\ p.ct = "old" /\ ~p.purged
Purgeable == \A n \in Node : view[n] # "running"
Frozen_UntilResumed(p) == p.phase = "Failed" /\ p.ct # "none" /\ p.purged
Frozen(p) == p.phase \in FinishedPhase /\ p.ct # "none" /\ p.purged

\* Get, and the decision of applyRetention.  A frozen plan is left alone.
Reconcile ==
    /\ pc = "idle"
    /\ ~Frozen(Cached)
    /\ local' = Cached
    /\ IF HistoryDue(Cached) /\ Purgeable
         THEN pc' = "purge" /\ todo' = {n \in Node : view[n] # "none"}
         ELSE pc' = "leases" /\ todo' = {}
    /\ UNCHANGED <<planVars, jobVars, leases, proxy, accepted, retries, aborts>>

\* Deleting a job turns its Lease into garbage.
RemoveJob(n) ==
    /\ jobs' = [jobs EXCEPT ![n] = "none"]
    /\ events' = IF jobs[n] = "none"
                   THEN events ELSE Append(events, [node |-> n, state |-> "none"])
    /\ leases' = [leases EXCEPT ![n] = IF @ = "none" THEN "none" ELSE "orphan"]

\* applyRetention deletes the jobs it listed, one by one.
PurgeJob ==
    /\ pc = "purge"
    /\ \E n \in todo :
         /\ \A m \in todo : n =< m
         /\ RemoveJob(n)
         /\ todo' = todo \ {n}
    /\ UNCHANGED <<planVars, view, proxy, pc, local, accepted, retries, aborts>>

MarkPurged ==
    /\ pc = "purge" /\ todo = {}
    /\ PatchStatus([local EXCEPT !.purged = TRUE])
    /\ EndRound
    /\ UNCHANGED <<seen, jobVars, leases, proxy, accepted, retries, aborts>>

\* The Lease of a job that was deleted meanwhile is born an orphan.
Acquired(n) == IF leases[n] # "none" THEN leases[n]
               ELSE IF jobs[n] = "none" THEN "orphan" ELSE "held"

\* What syncLeases makes of the Lease of a node, by the job it saw.
Synced_NoRelease(n) == IF view[n] = "running" THEN Acquired(n) ELSE leases[n]
Synced_KeepsFailed(n) == CASE view[n] = "completed" -> "none"
                           [] view[n] = "running"   -> Acquired(n)
                           [] OTHER                 -> leases[n]
Synced(n) == CASE view[n] \in Terminal -> "none"
               [] view[n] = "running"  -> Acquired(n)
               [] OTHER                -> leases[n]

\* syncLeases; an error half way leaves some of the Leases as they were.
SyncLeases ==
    /\ pc = "leases"
    /\ leases' = [n \in Node |-> Synced(n)]
    /\ pc' = "summary"
    /\ UNCHANGED <<planVars, jobVars, proxy, local, todo, accepted, retries, aborts>>

SyncSomeLeases ==
    /\ pc = "leases"
    /\ aborts < MaxAborts /\ aborts' = aborts + 1
    /\ \E done \in SUBSET Node :
         leases' = [n \in Node |-> IF n \in done THEN Synced(n) ELSE leases[n]]
    /\ EndRound
    /\ UNCHANGED <<planVars, jobVars, proxy, accepted, retries>>

\* The failures accepted by the user never exceed the failures there are.
AckAfter_Max(p) ==
    LET failed == Cardinality(FailedNodes) IN IF p.ack > failed THEN p.ack ELSE failed
AckAfter(p) ==
    LET failed == Cardinality(FailedNodes) IN IF p.ack > failed THEN failed ELSE p.ack

\* Counts and failuresAcknowledged, patched only if they differ from the copy.
Summarize ==
    /\ pc = "summary"
    /\ LET new == [local EXCEPT !.counts = Summary, !.ack = AckAfter(local)] IN
         IF new = local
           THEN pc' = "control" /\ UNCHANGED <<plan, local, todo>>
           ELSE PatchStatus(new) /\ Continue("control")
    /\ UNCHANGED <<seen, jobVars, leases, proxy, accepted, retries, aborts>>

Cancel ==
    /\ pc = "control" /\ local.cancelled
    /\ EndIn("Cancelled", [local EXCEPT !.phase = "Cancelled", !.ct = "recent"])
    /\ UNCHANGED <<seen, jobVars, leases, proxy, accepted, retries, aborts>>

Pause ==
    /\ pc = "control" /\ ~local.cancelled /\ local.paused
    /\ EndIn("Paused", [local EXCEPT !.phase = "Paused"])
    /\ UNCHANGED <<seen, jobVars, leases, proxy, accepted, retries, aborts>>

\* Resuming a plan its failure policy paused accepts the failures seen so far.
Resume ==
    /\ pc = "control" /\ ~local.cancelled /\ ~local.paused /\ local.phase = "Paused"
    /\ IF Policy = "Pause" /\ Exceeded
         THEN /\ PatchStatus([local EXCEPT !.phase = "InProgress",
                                           !.ack = Cardinality(FailedNodes)])
              /\ accepted' = FailedNodes
         ELSE /\ PatchStatus([local EXCEPT !.phase = "InProgress"])
              /\ UNCHANGED accepted
    /\ Continue("preflight")
    /\ UNCHANGED <<seen, jobVars, leases, proxy, retries, aborts>>

\* Where a round stands that had nothing to write at the previous positions.
AtPreflight ==
    \/ pc = "preflight"
    \/ pc = "control" /\ ~local.cancelled /\ ~local.paused /\ local.phase # "Paused"

\* ensurePreflight is skipped once a job exists or the condition holds for this spec.
PreflightSettled == (\E n \in Node : view[n] # "none") \/ local.checked = local.gen

StartPreflight ==
    /\ AtPreflight /\ ~PreflightSettled
    /\ local.phase \in {"New", "Pending"}
    /\ PatchStatus([local EXCEPT !.phase = "Preflighting"])
    /\ Continue("checks")
    /\ UNCHANGED <<seen, jobVars, leases, proxy, accepted, retries, aborts>>

AtChecks ==
    \/ pc = "checks"
    \/ AtPreflight /\ ~PreflightSettled /\ local.phase \notin {"New", "Pending"}

\* The checks on the cluster and on other plans may go either way.
PreflightPasses ==
    /\ AtChecks
    /\ Node # {} /\ UpgradeOrderOK
    /\ PatchStatus([local EXCEPT !.phase = "Pending", !.checked = local.gen])
    /\ Continue("proxy")
    /\ UNCHANGED <<seen, jobVars, leases, proxy, accepted, retries, aborts>>

PreflightFails ==
    /\ AtChecks
    /\ PatchStatus([local EXCEPT !.phase = "Failed", !.checked = 0])
    /\ EndRound
    /\ UNCHANGED <<seen, jobVars, leases, proxy, accepted, retries, aborts>>

AtProxy == pc = "proxy" \/ (AtPreflight /\ PreflightSettled)

KubeProxyPending ==
    /\ KubernetesTarget /\ ~local.proxied
    /\ ControlPlane # {} /\ AllCompleted(ControlPlane)

\* ensureKubeProxy: patch the image, wait for the rollout, record it.
PatchKubeProxy ==
    /\ AtProxy /\ KubeProxyPending
    /\ proxy = "old" /\ proxy' = "rolling"
    /\ EndRound
    /\ UNCHANGED <<planVars, jobVars, leases, accepted, retries, aborts>>

WaitForKubeProxy ==
    /\ AtProxy /\ KubeProxyPending
    /\ proxy = "rolling"
    /\ EndRound
    /\ UNCHANGED <<planVars, jobVars, leases, proxy, accepted, retries, aborts>>

KubeProxyUpgraded ==
    /\ AtProxy /\ KubeProxyPending
    /\ proxy \in {"ready", "absent"}
    /\ PatchStatus([local EXCEPT !.proxied = TRUE])
    /\ Continue("decide")
    /\ UNCHANGED <<seen, jobVars, leases, proxy, accepted, retries, aborts>>

AtDecide == pc = "decide" \/ (AtProxy /\ ~KubeProxyPending)

\* failureBudgetExceeded.  Pause goes through spec.paused, so it takes two writes.
PauseOnFailures ==
    /\ AtDecide /\ Exceeded /\ Policy = "Pause" /\ ~local.paused
    /\ plan' = [plan EXCEPT !.paused = TRUE, !.gen = IF plan.paused THEN @ ELSE @ + 1]
    /\ Continue("pause")
    /\ UNCHANGED <<seen, jobVars, leases, proxy, accepted, retries, aborts>>

RecordPause ==
    /\ \/ pc = "pause"
       \/ AtDecide /\ Exceeded /\ Policy = "Pause" /\ local.paused
    /\ PatchStatus([local EXCEPT !.phase = "Paused"])
    /\ EndRound
    /\ UNCHANGED <<seen, jobVars, leases, proxy, accepted, retries, aborts>>

Halt ==
    /\ AtDecide /\ Exceeded /\ Policy = "Halt"
    /\ EndIn("Failed", [local EXCEPT !.phase = "Failed", !.ct = "recent"])
    /\ UNCHANGED <<seen, jobVars, leases, proxy, accepted, retries, aborts>>

\* allNodesProcessed.
Complete ==
    /\ AtDecide /\ ~Exceeded
    /\ Processed
    /\ EndIn("Completed", [local EXCEPT !.phase = "Completed", !.ct = "recent"])
    /\ UNCHANGED <<seen, jobVars, leases, proxy, accepted, retries, aborts>>

AtSchedule(g) == AtDecide /\ ~Exceeded /\ IsCurrent(g)

\* Outside the maintenance window, or delayBetweenNodes is not over.
HoldOff ==
    /\ Waits
    /\ \E g \in Group : AtSchedule(g)
    /\ EndRound
    /\ UNCHANGED <<planVars, jobVars, leases, proxy, accepted, retries, aborts>>

\* Every node of the group has a job, or no slot of the group is free.
WaitForSlot ==
    /\ \E g \in Group : AtSchedule(g) /\ Batch(g) = {}
    /\ EndRound
    /\ UNCHANGED <<planVars, jobVars, leases, proxy, accepted, retries, aborts>>

\* markInProgress, before the jobs of the batch are created.
MarkInProgress ==
    /\ \E g \in Group : AtSchedule(g) /\ Batch(g) # {} /\ todo' = Batch(g)
    /\ pc' = "create"
    /\ IF local.phase \in {"New", "Pending"} \cup FinishedPhase
         THEN /\ PatchStatus([local EXCEPT !.phase = "InProgress", !.ct = "none"])
              /\ local' = plan'
         ELSE UNCHANGED <<plan, local>>
    /\ UNCHANGED <<seen, jobVars, leases, proxy, accepted, retries, aborts>>

IsNext(n) == n \in todo /\ \A m \in todo : n =< m

DoneWith(n) ==
    IF todo = {n} THEN EndRound
    ELSE pc' = "create" /\ todo' = todo \ {n} /\ UNCHANGED local

\* waitForControlPlane stops the batch at its first worker.
StopAtWorker ==
    /\ pc = "create"
    /\ \E n \in todo : IsNext(n) /\ Blocked(n)
    /\ EndRound
    /\ UNCHANGED <<planVars, jobVars, leases, proxy, accepted, retries, aborts>>

\* The job is there already, missing from a lagging cache: its slot is used up.
JobAlreadyExists ==
    /\ pc = "create"
    /\ \E n \in todo : IsNext(n) /\ ~Blocked(n) /\ jobs[n] # "none" /\ DoneWith(n)
    /\ UNCHANGED <<planVars, jobVars, leases, proxy, accepted, retries, aborts>>

CreatePatchJob ==
    /\ pc = "create"
    /\ \E n \in todo :
         /\ IsNext(n) /\ ~Blocked(n) /\ jobs[n] = "none"
         /\ jobs' = [jobs EXCEPT ![n] = "running"]
         /\ events' = Append(events, [node |-> n, state |-> "running"])
    /\ pc' = "lease"
    /\ UNCHANGED <<planVars, view, leases, proxy, local, todo, accepted, retries, aborts>>

\* The Lease of the new job, then lastNodeScheduledAt, which only delays later rounds.
AcquireLease ==
    /\ pc = "lease"
    /\ \E n \in todo :
         /\ IsNext(n)
         /\ leases' = [leases EXCEPT ![n] = Acquired(n)]
         /\ DoneWith(n)
    /\ UNCHANGED <<planVars, jobVars, proxy, accepted, retries, aborts>>

\* A write or a check fails, or the operator crashes: the rest of the round is lost.
Abort ==
    /\ pc # "idle"
    /\ aborts < MaxAborts /\ aborts' = aborts + 1
    /\ EndRound
    /\ UNCHANGED <<planVars, jobVars, leases, proxy, accepted, retries>>

-----------------------------------------------------------------------------
(* Everybody else.                                                           *)

\* The PatchJob controller brings a job to a terminal phase.
JobFinishes(n) ==
    /\ jobs[n] = "running" /\ Len(events) < MaxLag
    /\ \E outcome \in Terminal :
         /\ jobs' = [jobs EXCEPT ![n] = outcome]
         /\ events' = Append(events, [node |-> n, state |-> outcome])
    /\ UNCHANGED <<planVars, view, leases, proxy, roundVars, accepted, retries, aborts>>

DeliverJobEvent ==
    /\ pc = "idle" /\ events # <<>>
    /\ view' = [view EXCEPT ![Head(events).node] = Head(events).state]
    /\ events' = Tail(events)
    /\ accepted' = IF Head(events).state = "none"
                     THEN accepted \ {Head(events).node} ELSE accepted
    /\ UNCHANGED <<planVars, jobs, leases, proxy, roundVars, retries, aborts>>

DeliverPlan ==
    /\ PlanLag /\ seen # plan
    /\ seen' = plan
    /\ UNCHANGED <<plan, jobVars, leases, proxy, roundVars, accepted, retries, aborts>>

CollectLease(n) ==
    /\ leases[n] = "orphan"
    /\ leases' = [leases EXCEPT ![n] = "none"]
    /\ UNCHANGED <<planVars, jobVars, proxy, roundVars, accepted, retries, aborts>>

KubeProxyRollsOut ==
    /\ proxy = "rolling" /\ proxy' = "ready"
    /\ UNCHANGED <<planVars, jobVars, leases, roundVars, accepted, retries, aborts>>

UserEditsSpec ==
    /\ plan.gen < MaxGen
    /\ \/ plan' = [plan EXCEPT !.paused = ~@, !.gen = @ + 1]
       \/ plan' = [plan EXCEPT !.cancelled = ~@, !.gen = @ + 1]
    /\ UNCHANGED <<seen, jobVars, leases, proxy, roundVars, accepted, retries, aborts>>

\* Deleting a failed PatchJob is how a user has its node retried.
UserRetriesNode(n) ==
    /\ jobs[n] = "failed" /\ Len(events) < MaxLag
    /\ retries < MaxRetries /\ retries' = retries + 1
    /\ RemoveJob(n)
    /\ UNCHANGED <<planVars, view, proxy, roundVars, accepted, aborts>>

\* Retention is far longer than any cache lags: the caches catch up with a
\* completion time well before it expires, but not with what happens just then.
RetentionNears ==
    /\ Retention /\ pc = "idle" /\ events = <<>> /\ (PlanLag => seen = plan)
    /\ plan.ct = "recent"
    /\ plan' = [plan EXCEPT !.ct = "due"]
    /\ seen' = IF PlanLag THEN plan' ELSE seen
    /\ UNCHANGED <<jobVars, leases, proxy, roundVars, accepted, retries, aborts>>

Expire(p) == [p EXCEPT !.ct = IF @ = "due" THEN "old" ELSE @]

RetentionExpires ==
    /\ \E p \in {plan, seen, local} : p.ct = "due"
    /\ plan' = Expire(plan) /\ seen' = Expire(seen) /\ local' = Expire(local)
    /\ UNCHANGED <<jobVars, leases, proxy, pc, todo, accepted, retries, aborts>>

-----------------------------------------------------------------------------
Round ==
    \/ PurgeJob \/ MarkPurged
    \/ SyncLeases \/ Summarize
    \/ Cancel \/ Pause \/ Resume
    \/ StartPreflight \/ PreflightPasses \/ PreflightFails
    \/ PatchKubeProxy \/ WaitForKubeProxy \/ KubeProxyUpgraded
    \/ PauseOnFailures \/ RecordPause \/ Halt
    \/ Complete \/ HoldOff \/ WaitForSlot
    \/ MarkInProgress \/ StopAtWorker \/ JobAlreadyExists
    \/ CreatePatchJob \/ AcquireLease

Environment ==
    \/ \E n \in Node : JobFinishes(n) \/ CollectLease(n) \/ UserRetriesNode(n)
    \/ DeliverJobEvent \/ DeliverPlan
    \/ KubeProxyRollsOut
    \/ UserEditsSpec
    \/ RetentionNears \/ RetentionExpires

Next == Reconcile \/ Round \/ SyncSomeLeases \/ Abort \/ Environment

Spec == Init /\ [][Next]_vars

\* Watches and requeues keep bringing rounds, informers deliver, jobs and the
\* kube-proxy rollout end, windows open and what preflight reported gets fixed.
Fairness ==
    /\ WF_vars(Reconcile) /\ WF_vars(Round)
    /\ SF_vars(PreflightPasses) /\ SF_vars(MarkInProgress)
    /\ SF_vars(DeliverJobEvent) /\ SF_vars(DeliverPlan)
    /\ WF_vars(KubeProxyRollsOut)
    /\ \A n \in Node : SF_vars(JobFinishes(n)) /\ WF_vars(CollectLease(n))

FairSpec == Spec /\ Fairness

-----------------------------------------------------------------------------
(* Correctness.                                                              *)

Event == [node : Node, state : JobState]

\* The shape of every variable, whatever the interleaving.
TypeOK ==
    /\ plan \in Plan /\ seen \in Plan /\ local \in Plan
    /\ jobs \in [Node -> JobState] /\ view \in [Node -> JobState]
    /\ events \in Seq(Event)
    /\ leases \in [Node -> LeaseState]
    /\ proxy \in {"old", "rolling", "ready", "absent"}
    /\ pc \in Positions /\ todo \in SUBSET Node /\ accepted \in SUBSET Node
    /\ retries \in 0..MaxRetries /\ aborts \in 0..MaxAborts

\* A group never has more unfinished PatchJobs than its concurrency, although
\* rounds count the jobs of a cache that lags behind the jobs they create.
ConcurrencyBound ==
    \A g \in Group :
        Cardinality({n \in NodesOf(g) : jobs[n] = "running"}) =< Concurrency[g]

\* A group never holds more Leases than its concurrency (scheduleNodes).
LeaseBound ==
    \A g \in Group :
        Cardinality({n \in NodesOf(g) : leases[n] = "held"}) =< Concurrency[g]

\* A group starts once every earlier group has finished (scheduleNodes).
GroupsInOrder ==
    \A m, n \in Node :
        (jobs[n] # "none" /\ GroupOf[m] < GroupOf[n]) => jobs[m] \in Terminal

\* No worker's kubelet is bumped before every control plane node has completed
\* and kube-proxy has followed (waitForControlPlane, ensureKubeProxy).
WorkersLast ==
    \A n \in Node \ ControlPlane :
        (KubernetesTarget /\ ControlPlane # {} /\ jobs[n] # "none") =>
            /\ \A c \in ControlPlane : jobs[c] = "completed"
            /\ proxy \in {"ready", "absent"} /\ plan.proxied

\* The failure budget is overshot by at most the jobs already under way, one
\* group's concurrency, however stale the failures are that a round counts.
FailuresBounded ==
    Cardinality({n \in Node : jobs[n] = "failed"}) > 0 =>
        \E g \in Group :
            Cardinality({n \in Node : jobs[n] = "failed"}) <
                plan.ack + Threshold + Concurrency[g]

JobCreated == \E n \in Node : jobs[n] = "none" /\ jobs'[n] # "none"

\* Once failurePolicy Halt has failed a running rollout it stays failed and creates
\* no more jobs, also when a later round starts from an older copy of the plan.
HaltStops ==
    [][(plan.phase = "Failed" /\ plan.ct # "none") =>
           (plan'.phase = "Failed" /\ ~JobCreated)]_vars

\* Failures are accepted only by resuming a plan that is paused, or that was cancelled
\* since it was resumed, never by a second look at an old copy (ensurePauseState).
AcceptedByResuming ==
    [][plan'.ack > plan.ack => plan.phase \in {"Paused", "Cancelled"}]_vars

\* Completed is never claimed while a node is unpatched or being patched.
CompletedIsTrue ==
    plan.phase = "Completed" => \A n \in Node : jobs[n] \in Terminal

\* Once its history is purged the plan is frozen: nothing is patched again.
PurgedIsFrozen == [][plan.purged => ~JobCreated]_vars

\* A plan paused by its failure policy and resumed goes on only while fewer than
\* maxFailures nodes have failed that the user did not accept (ensurePauseState).
\* Not so after an accepted job is deleted: see "Divergences" in the README.
NoCredit ==
    [][(todo = {} /\ todo' # {} /\ pc' = "create") =>
           Cardinality(FailedNodes \ accepted) < Threshold]_vars

\* A control plane node that failed holds back the workers of a Kubernetes upgrade.
HeldByControlPlane == KubernetesTarget /\ \E c \in ControlPlane : jobs[c] = "failed"

\* The rollout comes to an end of its own: all nodes processed, or stopped by the
\* failure policy, or waiting for the user because a control plane node failed.
RolloutEnds ==
    <>[]\/ plan.phase \in {"Completed", "Paused"}
        \/ plan.phase = "Failed" /\ plan.ct # "none"
        \/ HeldByControlPlane

\* The Lease of a finished PatchJob is released, also if the round that saw the
\* job finish was cut short (syncLeases).
LeasesReleased ==
    \A n \in Node : jobs[n] \in Terminal ~> (leases[n] = "none" \/ jobs[n] = "running")

-----------------------------------------------------------------------------
(* Why concurrency and group order hold although a round works on old copies,*)
(* as long as no PatchJob is deleted: the strengthening PatchPlan_proof uses.*)

NoDeletion == MaxRetries = 0 /\ ~Retention

\* The history never becomes due.
NeverDue ==
    /\ pc # "purge"
    /\ {plan.ct, seen.ct, local.ct} \subseteq {"none", "recent"}

\* What an observer knows of a job stays true: it exists, and it has that outcome.
Sound(n, state) ==
    /\ state # "none" => jobs[n] # "none"
    /\ state \in Terminal => jobs[n] = state

ViewSound == \A n \in Node : Sound(n, view[n])
EventsSound ==
    \A i \in DOMAIN events : events[i].state # "none" /\ Sound(events[i].node, events[i].state)

\* Jobs are created in scheduling order within a group.
CreatedInOrder ==
    \A m, n \in Node :
        (GroupOf[m] = GroupOf[n] /\ m < n /\ jobs[n] # "none") => jobs[m] # "none"

\* Every node a round has yet to create a job for fits in its group, even if all
\* the nodes before it that it believes to be pending turn out to be running.
BatchOf(g) ==
    /\ todo \subseteq Pending(g)
    /\ \A n \in todo :
         Cardinality({m \in Pending(g) : m < n}) + Cardinality(Active(g)) < Concurrency[g]
    /\ \A n \in todo, m \in Pending(g) : m < n => m \in todo \/ jobs[m] # "none"
    /\ \A h \in 1..(g - 1) : Finished(h)

BatchFits == pc \in {"create", "lease"} => \E g \in Group : BatchOf(g)
JobBeforeLease == pc = "lease" => \A n \in todo : IsNext(n) => jobs[n] # "none"

\* The strengthening: what rounds believe and still intend stays compatible with
\* the jobs there are, and with the two promises it is there to prove.
RolloutInv ==
    /\ NeverDue
    /\ ViewSound /\ EventsSound
    /\ CreatedInOrder
    /\ BatchFits /\ JobBeforeLease
    /\ GroupsInOrder /\ ConcurrencyBound

-----------------------------------------------------------------------------
(* The rollout the controller implements, whatever it is that lags.          *)

R == INSTANCE Rollout WITH job <- jobs

\* Every step starts or finishes a node the way Rollout allows, or none.
ImplementsRollout == R!Spec
=============================================================================
