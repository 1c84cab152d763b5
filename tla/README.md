# KangalPatch in TLA+

KangalPatch is a Kubernetes operator that upgrades Talos Linux nodes one batch at a time. This
directory keeps a formal model of it beside the code: TLA+ modules for its controllers, for the
strategy and the calendar that drive them and for plans that meet, the TLC configurations that check
them on small clusters, and TLAPS proofs of the main results for clusters, groups and rollouts of any
size. Paths such as `controllers/scheduler.go` are relative to the repository.

| File | What it is |
|---|---|
| `PatchPlan.tla` | the PatchPlan controller: rounds, jobs, Leases, caches, users |
| `Rollout.tla` | what a plan promises about its nodes, without the machinery |
| `MCPatchPlan.tla`, `PatchPlan_*.cfg` | small rollouts for TLC |
| `PatchPlan_proof.tla` | theorems about `PatchPlan`: nodes, groups, Leases, failures |
| `PatchPlanStops_proof.tla` | theorems about how a plan stops: Halt, pause and resume, retention |
| `PatchJob.tla`, `PatchJob_*.cfg` | the PatchJob controller, one node and its machine |
| `NodeUpgrade.tla` | what a job promises about its node, without the machinery |
| `PatchJob_proof.tla` | theorems about `PatchJob` |
| `PatchJobLife_proof.tla` | the theorem that `PatchJob` implements `NodeUpgrade` |
| `Scheduling.tla`, `MCScheduling.tla`, `Scheduling.cfg` | groups, strategy, the preflight's checks of the rollout |
| `Scheduling_proof.tla` | theorems about `Scheduling` |
| `PlanConflict.tla`, `MCPlanConflict.tla`, `PlanConflict*.cfg` | plans that target the same nodes |
| `PlanConflict_proof.tla` | theorems about `PlanConflict` |
| `Maintenance.tla`, `MCMaintenance.tla`, `Maintenance.cfg` | maintenance windows, and a plan that sleeps until one opens |
| `Maintenance_proof.tla` | theorems about `Maintenance` |
| `AutoUpdate.tla`, `MCAutoUpdate.tla`, `AutoUpdate.cfg` | an auto-update template, its children and their nodes |
| `AutoUpdate_proof.tla` | theorems about `AutoUpdate` |
| `PROJECT.json` | components, runs, source map, hazards, findings, theorems, in machine-readable form |

To check a run: `tlc -config PatchPlan_groups.cfg MCPatchPlan` (the module of each run is listed
below). To check the proofs: `tlapm PatchPlan_proof.tla`, and likewise the other `_proof` modules.

## 1. The system

### Components, their state, their operations

| Component | State it keeps | Operations | Correct when |
|---|---|---|---|
| PatchPlan controller (`controllers/patchplan_controller.go`, `scheduler.go`) | `PatchPlan.status`: phase, counts, `failuresAcknowledged`, `kubeProxyUpgraded`, conditions, times; `spec.paused` | one `Reconcile` per event or requeue: retention, leases, counts, cancel, pause, preflight, kube-proxy, failure budget, completion, window, scheduling | concurrency and group order hold; failures stay in the budget; a terminal phase is true and final |
| Leases (`controllers/leases.go`) | one `Lease` per unfinished job in the operator namespace | synchronise, acquire, release; the garbage collector | never more than `concurrency`, always released |
| Retention (`controllers/retention.go`) | `status.historyPurged` | delete finished jobs one by one, freeze the plan | a purged plan patches nothing |
| Preflight (`controllers/preflight.go`) | the `PreflightPassed` condition | checks before the first job | nothing is scheduled before they pass; of two plans for one node the earlier goes first and both get their turn |
| Strategy (`internal/scheduling`) | none: computed from spec and nodes in every round | resolve groups, validate, check quorum and order | each node once, in its first listed group; quorum kept; no self-blocking order |
| PatchJob controller (`controllers/patchjob_controller.go`) | `PatchJob.status`: phase, boot ID before the reboot, versions, times; `transientSince` in memory | one handler per phase: init, drain, wait, upgrade, reboot, Kubernetes upgrade, validate; fail | completed means upgraded; a rebooting node is cordoned; a node is released healthy |
| Drain (`internal/drain`) | the node's cordon and the operator's annotation on it | cordon, evict, look for pods left, uncordon | the administrator's cordon survives, the operator's does not |
| Talos client (`internal/talos`) | none | version, boot ID, upgrade, patch machine config | one call, one effect, or an error after the effect |
| Maintenance windows (`internal/maintenance`) | none | is a window open, when does the next open | sleeps through no open window |
| Auto-update (`controllers/autoupdate.go`, `internal/release`) | `status.autoUpdate`, child plans | look for a release, create one child plan | a release that is eligible is rolled out; no node skips a minor version or is lowered |
| Support matrix, registry, nodeutil, patchutil, credentials | none | parse, look up, fetch | (pure or I/O) |
| Manager (`cmd/manager`) | caches, work queues | wiring | see below |

### How they interact

Everything goes through the API server. `cmd/manager/main.go` settles three things the models rest
on:

* PatchPlans, PatchJobs, Nodes and Leases are read from **informer caches** that may lag the API
  server; Secrets, DaemonSets and Pods are read directly (`main.go:65-78`).
* Reconciles of different objects run concurrently (`MaxConcurrentReconciles`), those of **one
  object never do**.
* A status write is a **merge patch without optimistic locking** (`internal/patchutil/status.go`):
  it carries the fields in which the modified copy differs from the copy that was read, and what
  others wrote to these fields in between is overwritten.

The plan creates PatchJobs and Leases and reads back the jobs' phases. A job cordons and drains its
node, talks to the machine's Talos API, and reads the Node object the kubelet of that machine
updates. Users edit the spec (pause, cancel), delete a failed job to have its node retried, and
cordon nodes. The operator may crash between any two writes; what it then finds is what the API
server and the machines have.

### What is hard

Stale caches read while the state they mirror moves; one handler that makes several writes and may
end after each; a machine whose truth (what it runs), report (the Node) and cached report differ
across a reboot; a failure budget that is a difference of two counters read at different times;
jobs that come into being a second time under the same name; plans that look at each other through a
cache before either has started; a calendar that is asked twice, by two functions, at two instants.
`PROJECT.json` lists these hazards at
their lines, each with the properties that watch it, or with the reason why none does yet.

## 2. The models

### PatchPlan.tla: one plan, its jobs and its Leases

A call of `Reconcile` is a *round*. `Reconcile` starts one from the cached plan (`seen`) and the
cached jobs (`view`); the position `pc` then moves through the round in the order of the code
(`purge`, `leases`, `summary`, `control`, `preflight`, `checks`, `proxy`, `decide`, `pause`,
`create`, `lease`) and **every API write is a step of its own**. The stretches of code without a
write belong to the step before or after them: that is why a guard may read
`AtDecide == pc = "decide" \/ (AtProxy /\ ~KubeProxyPending)`. `local` is the round's copy of the
plan and `PatchStatus` is the merge patch against it. `Abort` ends a round anywhere (a refused write
or a crash: both lose the rest of it), `SyncSomeLeases` is a lease synchronisation that fails
half way.

| State | Code |
|---|---|
| `plan`, `seen`, `local` | the PatchPlan in the API server, in the cache, in the round |
| `jobs`, `events`, `view` | the phase of each node's PatchJob (`none`, `running`, `completed`, `failed`), the watch events under way, the cached list |
| `leases` | `none`, `held`, or `orphan` once its job is deleted and the garbage collector has not come by |
| `proxy` | the kube-proxy DaemonSet: old image, rolling out, ready, absent |
| `todo` | what the round still has to purge or create |
| `accepted` | a history variable: the failed jobs the user accepted by resuming |

Abstractions, all of them named:

* Job events are applied between rounds only. A round lists the jobs once, so nothing is lost.
* The plan's cache catches up in one step; `PlanLag` switches it off. The **Lease cache is taken to
  be current**; what it would add is a slot that is refused or freed later.
* Closed maintenance windows and `delayBetweenNodes` are one choice, `HoldOff`.
* Completion time is `recent`, `due` or `old`: retention (a week by default) cannot expire while a
  cache still lags behind the completion, but it can expire during a round.
* The preflight checks other than order and node count are one nondeterministic outcome.
* Groups, nodes and target are constants. The invalid-strategy path is in `Scheduling`; changes of
  the node set, the groups or the target, and the deletion of the plan, are not modelled. Users
  delete failed jobs only.

### Rollout.tla: the promise

One variable, the outcome of each node. A node is started at most once, only while its group has a
free slot, only after every earlier group has finished, and a worker of a Kubernetes upgrade only
after the whole control plane completed. `PatchPlan!ImplementsRollout` says that every step of the
controller is a step of this or a stutter. The mapping is the identity on the jobs: what differs is
that `Rollout` decides on the jobs there are, the controller on those it can see.

### PatchJob.tla: one job, one node, one machine

Three levels of truth: `machine` (what the Talos API tells: installed image, boot, kubelet and
static pod versions), `node` (the Node object and the statuses of the static pods, which follow when
the kubelet reports) and `nodeSeen` (the cached Node). A reconcile takes `base` and `copy`, makes its
calls one step at a time (`pc`: `run`, `drain`, `uncordon`, `kubelet`, `write`) and ends in a status
patch of `local` against `base`. Each phase handler of `reconcilePhase` is an action, with one more
for each way out that takes a call of its own: `DrainBlockedTooLong`, `DrainTimedOut`,
`RebootTimedOut`, `KubernetesTimedOut`, `UpgradeReplyLost` (accepted by the machine, an error for
the job), `UncordonFails`, `Misconfigured`, `Errs`.

The environment: the machine reboots into the new image, or rolls back, or gives up the install;
the Talos API answers before the kubelet starts; the kubelet reports, the static pods report, the
node controller marks a silent node not Ready; pods are scheduled onto an uncordoned node and end;
administrators cordon and uncordon; a failed job is deleted and comes back under the same name.

Abstractions: a timeout may have passed whenever it is looked at (`erring` stands for
`transientSince`); readiness does not flap within one boot; a job is cached at most one write
behind (`JobLag`); pods are one class that a drain has to evict; versions are old, target or newer,
with `styled` an image of the target version and another schematic; messages and `drainStartTime`
are stutters. Jobs written by an older operator (no `rebootStartTime`) are not modelled.

### NodeUpgrade.tla: the promise of a job

Four variables a user of the cluster would recognise: the outcome of the job, the life of the node
(serving, closed, away, back, released), whether its versions are the target's, and whether it is
empty. A node is closed before anything is done to it; it is told to upgrade when it is empty, and
once; no pod comes to it while it is closed; its Talos changes only while it is away; it is released
only when it is back with the Talos it should have; a job completes with its node open and at the
target; a job that fails before the upgrade opens the node again; and once a job has ended nobody
closes, upgrades or opens its node any more: it can only come back. `PatchJob!ImplementsNodeUpgrade`
maps to it the job's phase, what the reconcile has decided (`Current`), the cordon, and the machine
and its report (`Life`, `Away`). `MayForget` is the one thing a lagging cache costs: a job that fails
in the reconcile in which it has cordoned may not see its own cordon.

### Scheduling.tla: groups and strategy

The whole of `internal/scheduling`: `InvalidStrategy` is `compileGroups`, `NodesOf` what `Resolve`
assigns, `QuorumAtRisk` and `WorkerTooEarly` the two checks of the rollout, and `Batch` what
`scheduleNodes` then creates in a round. Label selectors are the sets of nodes they match. Where
`PatchPlan` takes resolved groups as given and studies interleavings, this module takes rounds as
atomic and current and studies every strategy a user may write.

### PlanConflict.tla: plans for the same nodes

Any number of plans, each with its own rounds, users who create, pause, cancel and resume them, and
one cache of all plans, which is a past state of all of them (`Sync`; one informer serves all
PatchPlans). A round is that of `PatchPlan` cut down to what decides about other plans: `Cancel`,
`Pause`, `Resume`, `StartPreflight`, the list of `AtList`, its verdict `CheckConflictingPlans`
(`BlocksPlan` orders plans by creation second, then by name), `PreflightPasses` or `PreflightFails`,
`Halt`, `Complete`, `HoldOff`, `MarkInProgress`, `WaitForControlPlane`, `CreatePatchJobs`. Status writes are merge patches
against the round's copy, as in `PatchPlan`. The jobs of a plan are one value: none, running,
done, failed beyond the budget, or blocked, when a control plane node failed within the budget of a
Kubernetes upgrade and the workers wait for it (`scheduler.go:147-158`).
`stepped` is a history variable: the plans that have stepped aside once, having been cancelled,
refused, halted or completed. Deleting a plan is not modelled.

### Maintenance.tla: windows, openings and a plan asleep

`IsInMaintenanceWindow` and `NextMaintenanceWindow` (`internal/maintenance`) as operators on instants
`[day, time]`, and the round of a plan that asks the first, then the second, and sleeps
(`patchplan_controller.go:191-211`): `Check`, `SleepUntilOpening`, `AskLater`. The clock moves while
the plan sleeps and, since each question reads it anew, within the round (`TickInRound`). Windows have
weekdays, start, end and a switch; times of day are instants of `DayLength`, the calendar is UTC.
The code takes weekdays and dates from the clock it is given, in that clock's zone; they are those of
UTC where no time zone is set, as in the distroless image.

### AutoUpdate.tla: a template, its children and their nodes

A round of the template is `BeginRound` (the template and the list of its children, from the cache),
`CheckForRelease` (the nodes' versions and the releases; `Lowest`, `Permitted`, `Eligible`, `Select`
are `lowestTalosVersion`, `permitted` and `Select`), `CreateChildPlan` and `RecordCheck`, and `Abort`
ends it anywhere. The children and their jobs are what the other modules model in full, cut down to
the steps that meet the template and the versions of the nodes: a preflight that passes or refuses
(a conflict, a downgrade), a job that looks at its node, refuses a downgrade and ends, a plan that
ends, a `Completed` plan that takes up a new node. Nodes join at any time; users stop the template,
delete children and have nodes retried. `probed`, `knew` and `met` are history. The phase and the
message of a template only report (`checkConflictingPlans` skips templates) and are left out; the
two cached reads of a round are one step. A child whose preflight has not passed is `Refused` and
tries again; one that stopped at failed jobs is `Failed` and goes on without a preflight once these are
deleted. A job that fails leaves its machine on the old version, on the new one or about to boot it
(`booting`); such a machine counts as being worked on.

### How the modules meet

`PatchPlan` is a plan alone, `PlanConflict` several plans with less of each, `AutoUpdate` plans that
come into being one after the other. `PatchPlan` takes from `PatchJob` that jobs end, from
`Scheduling` groups that are valid, from `Maintenance` a window that opens again and again, and from
`PlanConflict` a preflight that passes in the end; `AutoUpdate` takes from `PatchPlan` that a rollout
ends and from `PlanConflict` the conflict check, here without its races. Each of these is a property
or an assumption named in section 3 or 4.

## 3. The runs

| Run (module) | Question | Size |
|---|---|---|
| `PatchPlan_one_group` (`MCPatchPlan`) | Three nodes, one group of concurrency two, policy Halt, both caches lag, one failed write or crash: `ConcurrencyBound`, `LeaseBound`, `FailuresBounded`, `CompletedIsTrue`, `HaltStops` | 267 k states |
| `PatchPlan_groups` (`MCPatchPlan`) | A Kubernetes upgrade of four nodes in three groups, caches lag, a crash: `GroupsInOrder`, `WorkersLast`, the strengthening `RolloutInv`, the refinement `ImplementsRollout` | 124 k |
| `PatchPlan_pause` (`MCPatchPlan`) | Policy Pause, a user who pauses, resumes and cancels, a lagging plan: `FailuresBounded`, `AcceptedByResuming` | 893 k |
| `PatchPlan_lifecycle` (`MCPatchPlan`) | Liveness of a Kubernetes upgrade with a retried node, a crash and retention: `RolloutEnds`, `LeasesReleased`, and `PurgedIsFrozen` | 8 k |
| `PatchJob_upgrade` (`PatchJob`) | A control plane node to new Talos and Kubernetes versions, a lagging Node, rollbacks, failed installs, timeouts: `RebootsCordoned`, `CompletedIsUpgraded`, `UpgradesDrained`, and the refinement `ImplementsNodeUpgrade` | 16 k |
| `PatchJob_faults` (`PatchJob`) | The same upgrade with a lagging job, one lost reply, refused write or crash, and a retried job: `CompletedIsUpgraded`, `ReleasedHealthy` | 1.4 M |
| `PatchJob_release` (`PatchJob`) | Administrators and cordons, and liveness: `FailureReleases`, `AdminCordonKept`, `JobEnds` | 9 k |
| `Scheduling` (`MCScheduling`) | 6480 plans: overlapping, undeclared, misdeclared groups on five control plane nodes and a worker: `QuorumKept`, `NeverStuck`, `StartsInOrder` | 90 k |
| `PlanConflict` (`MCPlanConflict`) | Two plans on one node, created paused or not, a lagging cache, one edit, one round cut short: `EarlierFirst`, `EveryPlanStarts` | 263 k |
| `Maintenance` (`MCMaintenance`) | Every pair of 28 windows and every choice of two excluded dates, nine days in sixths: `OpenAsListed`, `NoOpeningMissed`, `WakesToOpen` | 686 k |
| `AutoUpdate` (`MCAutoUpdate`) | `allow: minor`, two releases of different minors, two nodes on mixed versions, one of which joins at any time, a lagging cache, one edit, failure or crash: `StepsOneMinor`, `NeverLowered`, `EventuallyCurrent` | 855 k |
| `PlanConflict_same_second` (`MCPlanConflict`) | finding, section 6 | |

**Bounds.** Overrunning a group takes a slot, a job that the cache does not show and a node that is
still pending: three nodes and concurrency two have all of these. Group order takes a control
plane, a group that is in progress and a group to come; the fourth node puts two nodes into the
middle group. `MaxLag = 2` lets a job's creation and its end be under way at once; it only holds
back jobs that would finish, never a round. `MaxAborts = 1` puts one crash at any step of any round.
`MaxGen = 4` is pause and resume, and a cancel after or between them. A machine boots once for
an accepted `Upgrade`, into the target or back: `PatchJob_upgrade` accepts one, so its `MaxBoots = 3` cuts
nothing off, and the `MaxBoots = 2` of `PatchJob_faults` cuts off the boot after a second one (section 6).
`MaxFaults`, `MaxAdmins` and `MaxRetries` count what goes wrong, and one of each is
what a handler can be expected to survive on its own. Runs that combine them grow a hundredfold and
were tried where the hazard list says so. Five control plane nodes are the fewest for which a
concurrency above one is accepted by the quorum check. Two plans are what the tie-break compares;
that the order of creation is enough for more of them is a theorem. A day of six instants has windows
that begin and end on three of them and instants between and on their borders; nine days hold every
weekday, the Monday of next week and both excluded dates with the days around them. The versions of
`MCAutoUpdate` are the smallest set with a permitted step within a minor, one to the next, one that
would skip, and a prerelease. `MaxUpsets` counts edits, failures and crashes together. In the proofs none of these bounds has a
value.

**Deadlock** is checked except in `PatchPlan_lifecycle`, where a purged plan is left alone for good,
and in `Scheduling`, where a rollout that is finished or refused has no more steps;
`NeverStuck` says there what deadlock freedom would.

**Fairness.** `PatchPlan!FairSpec`: requeues and watches keep bringing rounds, and a round runs to
its end (weak fairness of `Reconcile` and `Round`). Preflight passes if it is run again and again
(strong fairness: `README.md:429-432` leaves the plan retrying until its cause is fixed), and
scheduling finds the window open if it looks again and again. Informers deliver: strong fairness,
because a delivery is disabled while a round runs. Jobs end, which is what `PatchJob!JobEnds` says
of the other controller, and the kube-proxy rollout does. Users, crashes and retention are not fair.
`PatchJob!FairSpec`: the work queue comes back to a job that is not terminal; a call returns; a
timeout that is looked at again and again passes; errors that repeat outlast the retry window
(`transientErrorDeadline`). **Nothing is assumed of the machine, the kubelet or the pods**: jobs
end because the code times out. `PlanConflict!FairSpec`: rounds go on, the cache catches up and jobs
end, all by weak fairness, but a rollout whose jobs have ended may be blocked for good (`JobsFinish`,
as in `PatchPlan!RolloutEnds`); edits and cut rounds are bounded. That kube-proxy rolls out is taken
from `PatchPlan`. `AutoUpdate!FairSpec`: rounds of the
template and of its children go on, the interval passes, the cache catches up. Nothing wakes a
`Completed` child by fairness, no release has to come of age, no node has to join.

## 4. What the properties say

* `ConcurrencyBound`, `LeaseBound`: neither running jobs nor Leases exceed a group's concurrency,
  although rounds count jobs in a list that misses those they have just created. A round heals a
  missing Lease, so a crash between job and Lease leaks nothing; `LeasesReleased` says the same of
  the other end.
* `GroupsInOrder`, `WorkersLast`: a group starts after the earlier ones finished; no worker's
  kubelet goes ahead of the control plane and of kube-proxy.
* `FailuresBounded`: failures exceed the budget by no more than the jobs that were under way.
  `AcceptedByResuming`: the count of acknowledged failures rises only while the plan is paused, or
  cancelled while a round that resumes it is under way.
* `HaltStops`, `CompletedIsTrue`, `PurgedIsFrozen`: terminal means terminal, although a later round
  may start from an older copy of the plan.
* `RolloutEnds`: a rollout completes, or rests in one of the states the documentation names: failed
  or paused by policy, or workers held back by a control plane node that failed.
* `RebootsCordoned`, `UpgradesDrained`, `ReleasedHealthy`: the node's life around the reboot, on the
  machine's truth and not on what the controller believes.
* `CompletedIsUpgraded`: no combination of retried jobs and skipped phases completes a job whose
  node is not at the target. `FailureReleases`, `AdminCordonKept`: who may uncordon.
* `ImplementsNodeUpgrade`: the whole of it, in order and as a user would tell it, and nothing after the
  job has ended.
* `QuorumKept`: the preflight looks at one group at a time and at the plan's own nodes; this is
  enough for the cluster until a failed node is retried. `NeverStuck`: no accepted strategy makes a
  worker wait for a node scheduled later. `StartsInOrder`: first listed group, whatever overlaps.

* `EarlierFirst`: a plan creates jobs for a node only after the plan for that node created in an
  earlier second has stepped aside at least once, whatever the cache shows. `EveryPlanStarts`: two
  plans never wait for each other for ever, and one that was refused is looked at again, unless again
and again some plan is held: paused, cancelled, or `InProgress` for good because a control plane node
failed within the budget, which refuses every plan on the same nodes until a user acts. A hold that
ends does not excuse what follows it, and without the last of the three TLC finds the plan that waits
for ever.
* `OpenAsListed`: the test of a window, which sees the clock and two weekdays, says what the listed
  days say as intervals of time. `NoOpeningMissed`, `WakesToOpen`: the two functions agree as far as a
  sleeping plan can tell; the exceptions they name are all needed (section 6).
* `StepsOneMinor`, `NeverLowered`: what an auto-update may do to a node, over any sequence of children
  that fail, are deleted, retried or resumed. `EventuallyCurrent`: a release that is eligible, or a
  newer one, is rolled out, although younger ones keep appearing, unless a user has to act or its
  child is `Completed` already.

Each has a mutant: a definition named after the original with a suffix (`Batch_NoActive`,
`Fail_Releases`, ...) that changes the code the way a slip would, and breaks the property in its run.

## 5. What is proved

### A plan alone

`PatchPlan_proof.tla`, for every number of nodes and groups, every concurrency, any lag and any
number of crashes and edits:

| Theorem | States |
|---|---|
| `TypeCorrect` | `Spec => []TypeOK` |
| `RolloutInvariant` | `NoDeletion => (Spec => []RolloutInv)` |
| `ConcurrencyHolds` | `NoDeletion => (Spec => []ConcurrencyBound)` |
| `GroupOrderHolds` | `NoDeletion => (Spec => []GroupsInOrder)` |
| `RolloutImplemented` | `NoDeletion => (Spec => ImplementsRollout)` |
| `CompletedHolds` | `NoDeletion => (Spec => []CompletedIsTrue)` |
| `WorkersFollow` | `NoDeletion => (Spec => []WorkersLast)` |
| `LeasesBounded` | `NoDeletion => (Spec => []LeaseBound)` |
| `BudgetHolds` | `NoDeletion => (Spec => []FailuresBounded)` |
| `HaltIsObeyed` | `Unattended => (Spec => HaltStops)` |
| `PurgeIsFinal` | `~PlanLag => (Spec => PurgedIsFrozen)` |
| `AcceptanceHolds` | `(NoDeletion \/ ~PlanLag) => (Spec => AcceptedByResuming)` |

The last three are in `PatchPlanStops_proof.tla`. The assumptions on constants are the ones
`PatchPlan.tla` declares.

**Why concurrency is safe although the list is old.** `ConcurrencyBound` is not inductive: it says
nothing of what a round is about to do. `RolloutInv` adds
`ViewSound` and `EventsSound` (what the cache or an event says of a job stays true: it exists, and
a terminal phase is its phase), `CreatedInOrder` (jobs exist for a prefix of each group), and
`BatchFits`: for every node the round has still to start, the pending nodes *as the round sees them*
before it and the active ones together are fewer than the concurrency, and those before it either
are in the batch too or already have a job. So if the cache misses jobs, these jobs are among the
pending nodes the round has counted, and creating them again is refused by their name
(`JobAlreadyExists`). Counting does the rest (`Room`, `BatchStart`, `BatchShrinks`,
`CreateStep`). `GroupsInOrder` is part of the invariant because a batch is computed for one group;
`JobBeforeLease` because two steps make one creation; `NeverDue` because retention deletes jobs.
The refinement is the same argument read as steps: only `CreatePatchJob` starts a node and only
`JobFinishes` finishes one. `CompletedHolds` adds that only `Complete` writes that phase, and that a
list of terminal phases is true for good.

**Why workers come last.** `kubeProxyUpgraded` is read from a copy and written by a merge patch.
`ProxyInv` orders the four places that know of kube-proxy: no copy is ahead of the server, the server
is not ahead of the DaemonSet, and a round that goes on past `ensureKubeProxy` with the control plane
completed has it in its copy. The round that creates a worker's job sees the control plane completed,
which `ViewSound` makes true for good.

**Why Leases stay within the concurrency.** A Lease outlives its job until a round has seen the job
finish, so `LeaseInv` counts the nodes that take a slot (`Claimed`): those with a Lease and those
whose job is not known to have finished. Only `CreatePatchJob` takes a new slot; `SlotLeft` finds it
free, because behind `syncLeases` no job seen to have finished holds a Lease (`Synchronized`), and
everybody else in `Claimed` was counted when the batch was made. `EventsFresh` (a job is seen to exist
before it is seen to have finished) keeps a late event from taking a slot back.

**Why the failure budget is overshot by one group only.** `FailureInv` bounds not the failed jobs but
all that have failed or still may (`Exposed`), which grows only when a job is created. The round that
creates one was within the budget by the failures it saw; whatever else has failed or may fail takes a
slot of the same group, since earlier groups were seen finished and later ones have no jobs. The copies
of `failuresAcknowledged` are never ahead of the server's, which is never ahead of the failures seen.

**Why a halted plan stays halted although later rounds read older plans.** `HaltStops` speaks of the
plan in the API server; the round that could revive it has a copy from before. `HaltInv` says that a
halted plan has used up its budget by the failures *in the list of jobs*, which a round reads afresh
and which never shows fewer. So whatever the copy says, a later round finds the budget exceeded: it
cannot reach scheduling or completion, and the preflight writes nothing, as it comes before the first
job. That nobody accepts failures in between takes
`Unattended == Policy = "Halt" /\ MaxGen =< 1 /\ NoDeletion /\ Node # {}`: no edit after creation, as
in `PatchPlan_one_group`.

**Why a purge is final.** Retention deletes the finished jobs first and marks the plan last; that write
ends the round. A plan about to be purged, or purged, has ended and has a completion time, and no round
is under way once it is marked (`PurgeInv`): with the plan read as it is (`~PlanLag`) every later round
stops at the mark before it does anything, whatever is retried, edited or cut short. With a lagging
plan it is false (section 6), so the assumption is needed.

**Why only resuming accepts failures.** With a current plan a round that raises the count is one that
found the plan paused and not to be paused any more; the plan may have been cancelled since
(`AcceptedCurrent`). With a lagging plan (`AcceptedLagging`) a round may start from a copy that still
says Paused although the plan was resumed long ago. It counts the failures before it decides, and
`PauseInv` says of every copy that it never counts more failures than the operator sees (`Behind`),
and that one which counts just as many, but has not accepted as many as the plan, is older than a
`Resume` that accepted all of them (`Dated`): there is nothing left to accept. This needs that
failures are only ever added to the list.

**Why `NoDeletion`.** `NoDeletion == MaxRetries = 0 /\ ~Retention`. When a user deletes a failed job,
`ViewSound` is lost: the deletion and the next creation reach the cache one after the other, and
with `MaxRetries = 1` TLC does find a group above its concurrency. The assumption is needed, not
convenient; section 6 says more.

### Plans for the same nodes

`PlanConflict_proof.tla`, for any number of plans, any targets, any lag, edits and cut rounds:
`TypeCorrect` (`Spec => []TypeOK`) and `ServedInOrder` (`Spec => []EarlierFirst`). A plan passes its
check long before it creates jobs, on a list that may have been old even then, so `EarlierFirst` is
not inductive. The invariant ties a list to the plans there are: what the cache or a round's list
shows of a plan was once true of it, creation seconds never fall, so a list that holds a plan holds
every plan of an earlier second, and the phases in which a plan blocks nobody are reached only by
stepping aside; a plan that has passed, and every copy of it that says so, has therefore seen every
earlier plan step aside.

### The calendar

`Maintenance_proof.tla`, for days of any length, any windows, excluded dates and clock:
`TypeCorrect`, `WindowsAsListed` (`Spec => []OpenAsListed`), `NothingMissed`
(`Spec => []NoOpeningMissed`), `WakesWhenOpen` (`Spec => []WakesToOpen`). `OpenAsListed` is a fact
about `IsInWindow`, case by case over windows within a day and across midnight. `NoOpeningMissed`
needs to know what the plan looked at: the invariant says that no opening lies between the instant
at which the plan was found outside every window and its alarm, except those that slipped by between
the two readings; since a window that is open now opened at a listed instant, and instants between the
question and the alarm that open one would have been the answer, a sleeping plan is outside every
window or in one of the exceptions. TLC checks all of this for nine days; the theorems need no last
day.

### Auto-update

`AutoUpdate_proof.tla`, for any nodes, versions, releases, lag and number of upsets: `TypeCorrect`,
`Invariance`, `NoNodeLowered` (`Spec => []NeverLowered`), `NoMinorSkipped` (`Spec => []StepsOneMinor`).
Between the choice of a release and the job that installs it there are a round, a child, its preflight
and any number of failures. The invariant says what is still true at the end of that: a job
remembers that it looked at its node and would raise it (`Raises`), and a round and a child that the
release was within the permitted step of the nodes it was chosen for (`TargetWithin`,
`WithinSteps`). A job that failed with its machine about to boot relies on its look as a running one
does, and counts in `met`. Both stay true because no step lowers a node that is not excused; a
node is excused when `allowTalosDowngrade` is set or when two children have worked on it (`met`).

### Strategies

`Scheduling_proof.tla`, for any finite set of nodes, any groups, matches, order and concurrencies:
`TypeCorrect`, `Invariance`, `QuorumHolds` (`Spec => []QuorumKept`), `NothingStuck`
(`Spec => []NeverStuck`), `OrderHolds` (`Spec => []StartsInOrder`). The invariant says that a plan with
jobs passed its checks (`Accepted`), that jobs are the rollout's (`InRollout`), that a group's running
jobs stay within its concurrency (`WithinConcurrency`) and that until a retry a group has jobs only
when the earlier ones have finished (`InOrder`). The bound on a batch is a counting argument on the
rank of a node among the pending ones. The quorum of the whole cluster follows from a check that looks
at one group at a time because only one group can have running jobs, and of that one the preflight
has checked the concurrency. TLC checks the invariant on the plans that pass.

### A job alone

`PatchJob_proof.tla`, for any versions, images, boots and choices of the machine, the kubelet and the
clock:

| Theorem | States | Assuming |
|---|---|---|
| `TypeCorrect` | `Spec => []TypeOK` | |
| `CompletedHolds` | `Spec => []CompletedIsUpgraded` | `~JobLag`, `CleanStart` |
| `RebootsAreCordoned` | `Spec => []RebootsCordoned` | `Calm` |
| `ReleasesAreHealthy` | `Spec => ReleasedHealthy` | `Calm` |
| `UpgradesAreDrained` | `Spec => UpgradesDrained` | `Calm` |
| `FailuresRelease` | `Spec => []FailureReleases` | `Attended` |
| `AdminCordonsKept` | `Spec => AdminCordonKept` | `Heeded` |
| `NodeUpgradeImplemented` | `Spec => ImplementsNodeUpgrade` | `Calm`, `CleanStart` |

`CompletedHolds` allows any number of faults, retries, reboots and administrators and a Node that lags
without bound. The status of a job is a claim about the node, made at one time and relied upon at
another: past the Talos upgrade, the image is the target's; a `CurrentKubernetesVersion` at target,
so is the kubelet. `Sound` states these claims for the job in the API server and for what the reconcile
is about to write (`Current`); they stay true because versions that have reached the target stay there
and are seen, late, in the order they were reached in (`World`, `Stable`). `CleanStart` excludes the
nodes of which a claim is wrong when it is made, see "Static pods left behind" and the schematic
change in section 6.

The three `Calm` theorems rest on one invariant: until the Upgrade call the machine is in its first
boot and has not been told to reboot, the boot ID that the call records is therefore the first one,
and whoever sees another boot ID sees the second boot, whose Node was Ready at that time and has not
been lost since (`Course`, `Boots`, `Cordoned`). `Calm == ~JobLag`, no faults, retries or
administrators: each of them breaks one of the three (section 6). The Node may lag. `Attended` lets
administrators act, and has a current Node instead: a cordon of the operator carries its annotation
and belongs to a job that has still to release it, or has rebooted (`Held`).

`AdminCordonsKept` allows every fault, crash, retry and lag of the job's cache, and needs
`Heeded == ~NodeLag /\ MaxAdmins =< 1`. `AdminCordonKept` is not inductive, as `UncordonNode` trusts the
annotation alone. `Theirs` adds that a node with an administrator's cordon does not carry it, and that
a node that carries it is cordoned by the operator or has been uncordoned by an administrator, whose
one step is then spent. Both exceptions are real (section 6).

`NodeUpgradeImplemented` (`PatchJobLife_proof.tla`) puts these together. Its invariant is that of the
`Calm` theorems with `Sound` and two parts of its own. `Marked`: the annotation goes with the cordon, in
the cached Node as well, and whoever has seen the second boot has seen a cordon that is still there, so
the uncordon of `waitForReboot` is effective however late the Node is (`ReleaseOpens`). `Opened`: in the
phases before the drain and after the release the node is open. Then each step is mapped:
`StartDrainLife`, `StartUpgradeLife`, `UncordonLife` and `WriteLife` for the four that move a job or its
node on, `LifeStep` for all others, of which a node that is back is not taken away again
(`BackStays`); `VersionsStep` and `PodsStep` for what the machine and the pods do.

In `PatchJob_upgrade` (`Calm`, `CleanStart`) and `PatchJob_release` (`Attended`, `Heeded`) the constants
satisfy the assumptions.

**Model-checked only.** The liveness properties `RolloutEnds`, `LeasesReleased`, `JobEnds`,
`EveryPlanStarts` and `EventuallyCurrent`, since the prover has no rule for `ENABLED`. Of a plan, what
holds after a PatchJob is deleted, but for retention. Of a job, what a lagging job cache and a lost call
leave of `CompletedIsUpgraded` and `ReleasedHealthy` (`PatchJob_faults`).

## 6. Findings

`PlanConflict_same_second` (`preflight.go:248-249`, "exactly one of two simultaneously applied plans
proceeds"). Plans are ordered by the second they were created in, then by name. A plan that is checked
before another of the same second but with a smaller name exists finds no conflict and passes; the
other finds it `Pending`, does not block on the larger name, and passes too. Both create PatchJobs for
the same node. `EarlierFirst` is what remains true.

### Divergences

What the code does besides, each found by TLC with the constants or the change named here. They are
not runs of their own; the hazards of `PROJECT.json` name them.

Against a comment or a promise of the documentation:

* **A credit for future failures** (`patchplan_controller.go:129`, "must not leave a credit for future
  failures"). `failuresAcknowledged` is a count. If an accepted failed job is deleted and another node
  fails before the same round, the count does not fall and covers the new failure. `NoCredit` of
  `PatchPlan`, with `NodeCount = 3`, `OneGroup`, `Concurrency <- One`, `Policy = "Pause"`,
  `MaxFailures = 1`, `MaxLag = 2`, `MaxGen = 3`, `MaxRetries = 1`, no aborts, lag, waits, retention.
* **Static pods left behind** (`patchjob_controller.go:618`). `initJob` knows that a kubelet at target
  does not prove that the static pods are; `waitForReboot` compares the kubelet only. A job with both
  targets can complete without them. `CompletedIsUpgraded`, with `ControlPlane`, both targets and
  `RespectPDBs` TRUE, `Images = {"old"}`, `Kubelets = {"target"}`, `StaticPods = {"old"}`,
  `MaxBoots = 2`.
* **A failure that is lost** (`patchjob_controller.go:301`). `failJob` uncordons and then writes. If the
  write is lost the next reconcile starts in the old phase, and when the pods are gone by then it
  upgrades a node that is open for scheduling. `UpgradesDrained`, with a worker, the Talos target only,
  `MaxBoots = 2`, `MaxFaults = 1`.
* **A retried job on a booting node** (`patchjob_controller.go:595`). It finds the target version in
  `initJob` and completes without a health check. `CompletesReady` of `PatchJob`, with the same
  constants but `MaxFaults = 0`, `MaxRetries = 1`.
* **A second child** (`README.md:470`, "No new child is created while an earlier child is not
  `Completed`"). The list is a cached one. A round that starts before its cache shows the child of the
  last round asks again, and if another release has come of age in between it creates a second child.
  `OneChild` of `AutoUpdate`, with the constants of its run. The conflict check lets one of them wait.
* **Children that meet** (`scheduler.go:113-130`, `README.md:432`). A `Completed` child goes on for a node
  that joins later, without its checks. After a restart of the operator all old children do so at
  once; a job that has looked at a node before another child raised it lowers the node again, and a
  child made for newer nodes carries an older one past a minor version. Likewise a child stopped by
  Halt leaves running jobs behind which block no other plan, and once its failed jobs are deleted it
  goes on without its checks (`preflight.go:90-93`). `NeverLowered` without `met`,
  `StepsOneMinor` without `knew`.

Maintenance windows: a window that crosses midnight out of an excluded date is open in the morning, but
the plan sleeps past it, and one that opens between the two readings of the clock is slept past as
well (`NoOpeningMissed` without its exceptions); a window that starts when it ends never opens, but the
plan sleeps until it (`WakesToOpen` without its exception); a weekly window that has begun today has no
next opening within seven days, so the plan reports none and asks again every 15 minutes.

Two plans on one node also run together when the plan that went first steps aside: failed for another
reason or cancelled, it blocks nobody while its jobs are still running; paused before it started and
resumed, it does not repeat a check that it has passed (`PlanConflict`, without `stepped`).

Other constants with which TLC breaks a property that holds in its run: concurrency after a retry
(`MaxRetries = 1`); a stale Node in `CordonNode` and `UncordonNode` (`NodeLag = TRUE` with
`FailureReleases` or `AdminCordonKept`); a second administrator's cordon taken for the operator's
(`MaxAdmins = 2`); a schematic change that rolls back at the same version (`Pinned = TRUE`,
`Images = {"styled"}`); a lost `Upgrade` reply (`MaxFaults = 1` with `RebootsCordoned`) or a second
`Upgrade` (`MaxFaults = 1`, `MaxBoots = 3` with `ReleasedHealthy`); a purged plan that is reopened by
a round with an old copy (`PlanLag = TRUE`, `MaxGen = 3`); a cancelled plan that accepts failures, when
a round with an old copy still resumes it (`AcceptedByResuming` without `"Cancelled"`, `PlanLag = TRUE`,
`MaxGen = 4`); three of five control plane nodes down when
a failed node of an earlier group is retried while a later group runs (`QuorumKept` without
`retries = 0`).

## 7. Not modelled

Changes of a plan's spec other than pause and cancel, and deletion of a plan with its nodes half done;
version parsing, the support matrix and the registry (string functions and HTTP requests without state;
their outcomes are inputs); credentials (a failure is `Misconfigured`); the release feed's transport
(a failed request is `Abort`, and only the newest 50 releases are read); the transport of the Talos
client; the manager's wiring beyond section 1; manifests and generated code (deep copies, CRDs).

## 8. Plan

Done: `PatchPlan` with `Rollout`, `PatchJob` with `NodeUpgrade`, `Scheduling`, `PlanConflict`,
`Maintenance` and `AutoUpdate`, each with its proofs. What would come next:

1. Proofs: `CompletedIsUpgraded` with a lagging job cache (one lost write); `RolloutInv` with retention,
   which deletes jobs only of a plan that creates no more; `NodeUpgrade` after a lost call, with an
   `Upgrade` that may be repeated.
2. A spec that changes during the rollout, in `PatchPlan`.
