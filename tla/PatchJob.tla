------------------------------ MODULE PatchJob ------------------------------
(***************************************************************************)
(* The PatchJob controller: one job, the node it upgrades, and everybody    *)
(* else who touches that node.                                              *)
(*                                                                          *)
(* A call of Reconcile reads the job and the Node object from informer      *)
(* caches, and then talks to the Talos API of the machine and to the API    *)
(* server, one call a step.  Between two calls the machine reboots, the     *)
(* kubelet reports, pods come and go and an administrator cordons; and the  *)
(* reconcile may end early, its write refused or the operator crashed.      *)
(* controller-runtime never runs two reconciles of one job at once.         *)
(*                                                                          *)
(* Time is abstracted to choices: a wait may always be over its timeout.    *)
(***************************************************************************)
EXTENDS Integers

CONSTANTS
    ControlPlane,     \* whether the node is a control plane node
    TalosTarget,      \* whether target.talosVersion is set
    KubernetesTarget, \* whether target.kubernetesVersion is set
    Pinned,           \* whether the target pins a factory schematic
    AllowDowngrade,   \* target.allowTalosDowngrade
    RespectPDBs,      \* respectPDBs of the plan
    Images,           \* the Talos images the node may start with
    Kubelets,         \* the Kubernetes versions the kubelet may start with
    StaticPods,       \* and those of the control plane static pods
    NodeLag,          \* whether the informer cache of the Node may lag
    JobLag,           \* whether the informer cache of the PatchJob may lag
    MaxBoots,         \* bound: boots of the machine
    MaxFaults,        \* bound: writes refused, replies lost, crashes
    MaxAdmins,        \* bound: cordons and uncordons by an administrator
    MaxRetries        \* bound: failed jobs a user deletes

Image == {"old", "styled", "target", "newer"}   \* styled: the target version, another schematic
Version == {"old", "target", "newer"}
Rank == [old |-> 1, styled |-> 2, target |-> 2, newer |-> 3]

ASSUME SwitchesAssumption ==
    /\ {ControlPlane, TalosTarget, KubernetesTarget, Pinned, AllowDowngrade,
        RespectPDBs, NodeLag, JobLag} \subseteq BOOLEAN
    /\ TalosTarget \/ KubernetesTarget
ASSUME NodeAssumption ==
    Images \subseteq Image /\ Kubelets \subseteq Version /\ StaticPods \subseteq Version
ASSUME BoundsAssumption == {MaxBoots, MaxFaults, MaxAdmins, MaxRetries} \subseteq Nat

VARIABLES
    job,      \* the PatchJob's status in the API server
    jobSeen,  \* the informer's copy of it
    machine,  \* the machine itself, as the Talos API tells
    node,     \* the Node object in the API server and its static pods' statuses
    nodeSeen, \* the informer's copy of the Node
    pods,     \* the evictable pods on the node
    pc,       \* where the reconcile is, "idle" between reconciles
    base,     \* the job as the reconcile read it: the base of its status patch
    local,    \* the job as the reconcile modifies it
    copy,     \* the Node as the reconcile read it
    erring,   \* transientSince: the last reconciles ended in transient errors
    faults, admins, retries

clusterVars == <<machine, node, nodeSeen, pods>>
bounds == <<faults, admins, retries>>
vars == <<job, jobSeen, machine, node, nodeSeen, pods, pc, base, local, copy,
          erring, faults, admins, retries>>

Terminal == {"Completed", "Failed"}
Phase == {"New", "Pending", "Draining", "Upgrading", "Rebooting",
          "UpgradingKubernetes", "ValidatingKubernetes"} \cup Terminal
BeforeReboot == {"Pending", "Draining", "Upgrading"}
UsesTalos == {"New", "Upgrading", "Rebooting", "UpgradingKubernetes"}

Job == [phase : Phase, preBoot : Nat, kubernetes : {"unknown"} \cup Version]
Machine == [image : Image, boot : Nat, state : {"down", "booted", "running"},
            upgrade : BOOLEAN, kubelet : Version, static : Version]
Node == [boot : Nat, ready : BOOLEAN, kubelet : Version,
         static : Version, staticReady : BOOLEAN,
         cordon : {"no", "operator", "admin"}, ours : BOOLEAN]

\* preBoot 0: no boot ID was recorded.  kubernetes: CurrentKubernetesVersion.
NewJob == [phase |-> "New", preBoot |-> 0, kubernetes |-> "unknown"]
NoCopy == [boot |-> 0, ready |-> FALSE, kubelet |-> "old", static |-> "old",
           staticReady |-> FALSE, cordon |-> "no", ours |-> FALSE]

Init ==
    /\ job = NewJob /\ jobSeen = NewJob
    /\ machine \in [image : Images, boot : {1}, state : {"running"}, upgrade : {FALSE},
                    kubelet : Kubelets, static : StaticPods]
    /\ node = [boot |-> 1, ready |-> TRUE, kubelet |-> machine.kubelet,
               static |-> machine.static, staticReady |-> TRUE,
               cordon |-> "no", ours |-> FALSE]
    /\ nodeSeen = node
    /\ pods \in {"none", "running"}
    /\ pc = "idle"
    /\ base = NewJob /\ local = NewJob
    /\ copy = NoCopy
    /\ erring = FALSE
    /\ faults = 0 /\ admins = 0 /\ retries = 0

-----------------------------------------------------------------------------
(* What the reconcile computes from its copies.                             *)

NeedsTalosUpgrade(image) ==
    TalosTarget /\ (Rank[image] # Rank["target"] \/ (Pinned /\ image # "target"))

StaticReady(version) ==
    node.staticReady /\ (version = "any" \/ node.static = version)

NeedsKubernetesUpgrade_Kubelet == KubernetesTarget /\ copy.kubelet # "target"
NeedsKubernetesUpgrade ==
    KubernetesTarget /\ (copy.kubelet # "target" \/ (ControlPlane /\ ~StaticReady("target")))

RefusesDowngrade ==
    \/ NeedsTalosUpgrade(machine.image) /\ ~AllowDowngrade /\ Rank[machine.image] > Rank["target"]
    \/ KubernetesTarget /\ copy.kubelet = "newer"

Unhealthy_AnyBoot == ~copy.ready \/ (ControlPlane /\ ~StaticReady("any"))
Unhealthy ==
    \/ base.preBoot # 0 /\ copy.boot = base.preBoot
    \/ ~copy.ready
    \/ ControlPlane /\ ~StaticReady("any")

-----------------------------------------------------------------------------
(* Ends of a reconcile.  The copies die with it.                            *)

SetNode(n) == node' = n /\ nodeSeen' = IF NodeLag THEN nodeSeen ELSE n

Forget ==
    /\ pc' = "idle"
    /\ base' = NewJob /\ local' = NewJob /\ copy' = NoCopy

\* Nothing to do yet: RequeueAfter.  A message or DrainStartTime may be written.
Wait == Forget /\ erring' = FALSE

Goto(position) == pc' = position /\ UNCHANGED <<base, local, copy, erring>>

Advance(position, fields) ==
    /\ pc' = position
    /\ local' = fields
    /\ UNCHANGED <<base, copy, erring>>

Fail_Keeps == Advance("write", [local EXCEPT !.phase = "Failed"])
Fail_Releases == Advance("uncordon", [local EXCEPT !.phase = "Failed"])
Fail ==
    Advance(IF base.phase \in BeforeReboot THEN "uncordon" ELSE "write",
            [local EXCEPT !.phase = "Failed"])

RetryOrFail ==
    \/ Forget /\ erring' = TRUE
    \/ erring /\ Fail

\* The status patch carries the fields that the reconcile changed.
Merge(modified) ==
    [phase |-> IF modified.phase = base.phase THEN job.phase ELSE modified.phase,
     preBoot |-> IF modified.preBoot = base.preBoot THEN job.preBoot ELSE modified.preBoot,
     kubernetes |-> IF modified.kubernetes = base.kubernetes
                    THEN job.kubernetes ELSE modified.kubernetes]

\* A write becomes visible at the latest when the next one is made.
Write ==
    /\ pc = "write"
    /\ job' = Merge(local)
    /\ jobSeen' = IF JobLag THEN job ELSE job'
    /\ Wait
    /\ UNCHANGED <<clusterVars, bounds>>

Abort ==
    /\ pc # "idle" /\ faults < MaxFaults
    /\ faults' = faults + 1
    /\ Forget
    /\ erring' \in {erring, FALSE}
    /\ UNCHANGED <<job, jobSeen, clusterVars, admins, retries>>

-----------------------------------------------------------------------------
(* The handlers.                                                            *)

Reconcile ==
    /\ pc = "idle"
    /\ IF jobSeen.phase \in Terminal
       THEN erring' = FALSE /\ UNCHANGED <<pc, base, local, copy>>
       ELSE /\ pc' = "run"
            /\ base' = jobSeen /\ local' = jobSeen
            /\ copy' = nodeSeen
            /\ UNCHANGED erring
    /\ UNCHANGED <<job, jobSeen, clusterVars, bounds>>

\* The plan, the Secret, the Node, the pods or the Talos API cannot be read.
Errs ==
    /\ \/ pc \in {"run", "drain", "kubelet"}
       \/ pc = "uncordon" /\ base.phase = "Rebooting"
    /\ RetryOrFail
    /\ UNCHANGED <<job, jobSeen, clusterVars, bounds>>

\* A Talos client or an installer image cannot be built: permanent.
Misconfigured ==
    /\ pc = "run" /\ base.phase \in UsesTalos
    /\ Fail
    /\ UNCHANGED <<job, jobSeen, clusterVars, bounds>>

At(phase) == pc = "run" /\ base.phase = phase

InitJob ==
    /\ At("New") /\ machine.state # "down"
    /\ LET read == [local EXCEPT !.kubernetes = copy.kubelet] IN
       IF RefusesDowngrade THEN Advance("write", [read EXCEPT !.phase = "Failed"])
       ELSE IF NeedsTalosUpgrade(machine.image)
            THEN Advance("write", [read EXCEPT !.phase = "Pending"])
       ELSE IF NeedsKubernetesUpgrade
            THEN Advance("write", [read EXCEPT !.phase = "UpgradingKubernetes"])
       ELSE Advance("uncordon", [read EXCEPT !.phase = "Completed"])
    /\ UNCHANGED <<job, jobSeen, clusterVars, bounds>>

\* CordonNode leaves a cordoned node as it is, annotation included.
CordonNode ==
    SetNode(IF nodeSeen.cordon # "no" THEN node
            ELSE [node EXCEPT !.cordon = IF @ = "no" THEN "operator" ELSE @,
                              !.ours = nodeSeen.ours => @])

StartDrain ==
    /\ At("Pending")
    /\ CordonNode
    /\ Goto("drain")
    /\ UNCHANGED <<job, jobSeen, machine, pods, bounds>>

\* DrainNode evicts the pods that are not terminating yet.
NothingToEvict ==
    /\ pods # "running"
    /\ Advance("write", [local EXCEPT !.phase = "Draining"])
    /\ UNCHANGED pods
Evicted ==
    /\ pods = "running"
    /\ pods' = "ending"
    /\ Advance("write", [local EXCEPT !.phase = "Draining"])
EvictionBlocked ==
    /\ pods = "running" /\ RespectPDBs
    /\ Wait
    /\ UNCHANGED pods
UnmanagedPods ==
    /\ pods = "running"
    /\ Fail
    /\ UNCHANGED pods

DrainNode ==
    /\ pc = "drain"
    /\ NothingToEvict \/ Evicted \/ EvictionBlocked \/ UnmanagedPods
    /\ UNCHANGED <<job, jobSeen, machine, node, nodeSeen, bounds>>

\* Evictions that stay blocked until drainTimeout.
DrainBlockedTooLong ==
    /\ pc = "drain" /\ pods = "running" /\ RespectPDBs
    /\ Fail
    /\ UNCHANGED <<job, jobSeen, clusterVars, bounds>>

IsDrained_NoneRunning == pods # "running"
IsDrained == pods = "none"

WaitForDrain ==
    /\ At("Draining")
    /\ IF IsDrained THEN Advance("write", [local EXCEPT !.phase = "Upgrading"]) ELSE Wait
    /\ UNCHANGED <<job, jobSeen, clusterVars, bounds>>

DrainTimedOut ==
    /\ At("Draining") /\ ~IsDrained
    /\ Fail
    /\ UNCHANGED <<job, jobSeen, clusterVars, bounds>>

\* The boot ID recorded is the one of the Node that was read before the call.
StartUpgrade_NoBootID ==
    /\ At("Upgrading") /\ machine.state # "down"
    /\ machine' = [machine EXCEPT !.upgrade = TRUE]
    /\ Advance("write", [local EXCEPT !.phase = "Rebooting"])
    /\ UNCHANGED <<job, jobSeen, node, nodeSeen, pods, bounds>>
StartUpgrade ==
    /\ At("Upgrading") /\ machine.state # "down"
    /\ machine' = [machine EXCEPT !.upgrade = TRUE]
    /\ Advance("write", [local EXCEPT !.phase = "Rebooting", !.preBoot = copy.boot])
    /\ UNCHANGED <<job, jobSeen, node, nodeSeen, pods, bounds>>

\* The machine accepts the upgrade and the reply is lost.
UpgradeReplyLost ==
    /\ At("Upgrading") /\ machine.state # "down" /\ faults < MaxFaults
    /\ faults' = faults + 1
    /\ machine' = [machine EXCEPT !.upgrade = TRUE]
    /\ RetryOrFail
    /\ UNCHANGED <<job, jobSeen, node, nodeSeen, pods, admins, retries>>

OldVersion == Rank[machine.image] # Rank["target"]
RolledBack == base.preBoot # 0 /\ copy.boot # base.preBoot

AfterReboot_Unknown == [local EXCEPT !.phase = "Uncordoned"]
AfterReboot ==
    [local EXCEPT !.phase = IF KubernetesTarget /\ base.kubernetes # "target"
                            THEN "UpgradingKubernetes" ELSE "Completed"]

WaitForReboot ==
    /\ At("Rebooting")
    /\ IF machine.state = "down" THEN Wait
       ELSE IF OldVersion THEN IF RolledBack THEN Fail ELSE Wait
       ELSE IF Unhealthy THEN Wait
       ELSE Advance("uncordon", AfterReboot)
    /\ UNCHANGED <<job, jobSeen, clusterVars, bounds>>

RebootTimedOut_Answering ==
    /\ At("Rebooting")
    /\ machine.state # "down" /\ (OldVersion \/ Unhealthy)
    /\ Fail
    /\ UNCHANGED <<job, jobSeen, clusterVars, bounds>>
RebootTimedOut ==
    /\ At("Rebooting")
    /\ machine.state = "down" \/ OldVersion \/ Unhealthy
    /\ Fail
    /\ UNCHANGED <<job, jobSeen, clusterVars, bounds>>

\* UncordonNode releases what it sees to carry the operator's annotation.
Released_Any == [node EXCEPT !.cordon = "no", !.ours = FALSE]
Released ==
    IF nodeSeen.ours
    THEN [node EXCEPT !.cordon = IF nodeSeen.cordon # "no" THEN "no" ELSE @, !.ours = FALSE]
    ELSE node

UncordonNode ==
    /\ pc = "uncordon"
    /\ SetNode(Released)
    /\ Goto("write")
    /\ UNCHANGED <<job, jobSeen, machine, pods, bounds>>

\* Outside waitForReboot a failed uncordon is logged and forgotten.
UncordonFails ==
    /\ pc = "uncordon" /\ base.phase # "Rebooting" /\ faults < MaxFaults
    /\ faults' = faults + 1
    /\ Goto("write")
    /\ UNCHANGED <<job, jobSeen, clusterVars, admins, retries>>

StartKubernetesUpgrade ==
    /\ At("UpgradingKubernetes") /\ machine.state # "down"
    /\ machine' = [machine EXCEPT !.static = IF ControlPlane THEN "target" ELSE @]
    /\ Goto("kubelet")
    /\ UNCHANGED <<job, jobSeen, node, nodeSeen, pods, bounds>>

PatchKubelet ==
    /\ pc = "kubelet" /\ machine.state # "down"
    /\ machine' = [machine EXCEPT !.kubelet = "target"]
    /\ Advance("write", [local EXCEPT !.phase = "ValidatingKubernetes"])
    /\ UNCHANGED <<job, jobSeen, node, nodeSeen, pods, bounds>>

RolledOut_AnyStatic == copy.kubelet = "target"
RolledOut == copy.kubelet = "target" /\ (ControlPlane => StaticReady("target"))

WaitForKubernetesUpgrade ==
    /\ At("ValidatingKubernetes")
    /\ IF RolledOut
       THEN Advance("write", [local EXCEPT !.phase = "Completed", !.kubernetes = "target"])
       ELSE Wait
    /\ UNCHANGED <<job, jobSeen, clusterVars, bounds>>

KubernetesTimedOut ==
    /\ At("ValidatingKubernetes") /\ ~RolledOut
    /\ Fail
    /\ UNCHANGED <<job, jobSeen, clusterVars, bounds>>

-----------------------------------------------------------------------------
(* Everybody else: the machine, the kubelet, the API server's controllers,  *)
(* the informers, an administrator, and the user who deletes a failed job   *)
(* so that the plan creates it anew under the same name.                    *)

operatorVars == <<job, jobSeen, pc, base, local, copy, erring>>

\* The installed image boots, or Talos falls back to the previous one.
Reboot ==
    /\ machine.upgrade /\ machine.boot < MaxBoots
    /\ \E image \in {"target", machine.image} :
           machine' = [machine EXCEPT !.upgrade = FALSE, !.state = "down",
                                      !.boot = @ + 1, !.image = image]
    /\ UNCHANGED <<node, nodeSeen, pods, operatorVars, bounds>>

InstallFails ==
    /\ machine.upgrade
    /\ machine' = [machine EXCEPT !.upgrade = FALSE]
    /\ UNCHANGED <<node, nodeSeen, pods, operatorVars, bounds>>

TalosAnswers ==
    /\ machine.state = "down"
    /\ machine' = [machine EXCEPT !.state = "booted"]
    /\ UNCHANGED <<node, nodeSeen, pods, operatorVars, bounds>>

KubeletStarts ==
    /\ machine.state = "booted"
    /\ machine' = [machine EXCEPT !.state = "running"]
    /\ UNCHANGED <<node, nodeSeen, pods, operatorVars, bounds>>

\* A node that was Ready in this boot stays so: readiness is lost in a reboot.
NodeReports ==
    /\ machine.state = "running"
    /\ \E ready \in (IF node.boot = machine.boot THEN {node.ready, TRUE} ELSE BOOLEAN) :
           SetNode([node EXCEPT !.boot = machine.boot, !.kubelet = machine.kubelet,
                                !.ready = ready])
    /\ UNCHANGED <<machine, pods, operatorVars, bounds>>

StaticPodsReport ==
    /\ ControlPlane /\ machine.state = "running"
    /\ \E ready \in BOOLEAN :
           SetNode([node EXCEPT !.static = machine.static, !.staticReady = ready])
    /\ UNCHANGED <<machine, pods, operatorVars, bounds>>

NodeLost ==
    /\ machine.state # "running" /\ node.ready
    /\ SetNode([node EXCEPT !.ready = FALSE])
    /\ UNCHANGED <<machine, pods, operatorVars, bounds>>

PodScheduled ==
    /\ node.cordon = "no" /\ node.ready
    /\ pods' = "running"
    /\ UNCHANGED <<machine, node, nodeSeen, operatorVars, bounds>>

PodsEnd ==
    /\ pods # "none"
    /\ pods' = "none"
    /\ UNCHANGED <<machine, node, nodeSeen, operatorVars, bounds>>

SyncNode ==
    /\ nodeSeen' = node
    /\ UNCHANGED <<machine, node, pods, operatorVars, bounds>>

SyncJob ==
    /\ jobSeen' = job
    /\ UNCHANGED <<clusterVars, job, pc, base, local, copy, erring, bounds>>

AdminCordons ==
    /\ admins < MaxAdmins /\ node.cordon = "no"
    /\ admins' = admins + 1
    /\ SetNode([node EXCEPT !.cordon = "admin"])
    /\ UNCHANGED <<machine, pods, operatorVars, faults, retries>>

AdminUncordons ==
    /\ admins < MaxAdmins /\ node.cordon # "no"
    /\ admins' = admins + 1
    /\ SetNode([node EXCEPT !.cordon = "no"])
    /\ UNCHANGED <<machine, pods, operatorVars, faults, retries>>

RetryJob ==
    /\ retries < MaxRetries /\ job.phase = "Failed"
    /\ retries' = retries + 1
    /\ job' = NewJob /\ jobSeen' = NewJob
    /\ UNCHANGED <<clusterVars, pc, base, local, copy, erring, faults, admins>>

-----------------------------------------------------------------------------
Handlers ==
    \/ InitJob \/ StartDrain \/ DrainNode \/ WaitForDrain \/ StartUpgrade
    \/ WaitForReboot \/ UncordonNode \/ StartKubernetesUpgrade \/ PatchKubelet
    \/ WaitForKubernetesUpgrade \/ Write

TimedOut == DrainBlockedTooLong \/ DrainTimedOut \/ RebootTimedOut \/ KubernetesTimedOut

Next ==
    \/ Reconcile \/ Errs \/ Misconfigured \/ Abort
    \/ InitJob \/ StartDrain \/ DrainNode \/ DrainBlockedTooLong
    \/ WaitForDrain \/ DrainTimedOut
    \/ StartUpgrade \/ UpgradeReplyLost \/ WaitForReboot \/ RebootTimedOut
    \/ UncordonNode \/ UncordonFails
    \/ StartKubernetesUpgrade \/ PatchKubelet
    \/ WaitForKubernetesUpgrade \/ KubernetesTimedOut \/ Write
    \/ Reboot \/ InstallFails \/ TalosAnswers \/ KubeletStarts
    \/ NodeReports \/ StaticPodsReport \/ NodeLost \/ PodScheduled \/ PodsEnd
    \/ SyncNode \/ SyncJob \/ AdminCordons \/ AdminUncordons \/ RetryJob

Spec == Init /\ [][Next]_vars

\* controller-runtime requeues the job until it is terminal, every call returns,
\* what is waited for again and again is timed out, and errors that go on and on
\* outlast transientErrorDeadline.
FairSpec ==
    /\ Spec
    /\ WF_vars(Reconcile)
    /\ WF_vars(Handlers \/ TimedOut \/ Errs)
    /\ SF_vars(TimedOut)
    /\ SF_vars(Errs /\ pc' # "idle")
    /\ WF_vars(SyncJob)

-----------------------------------------------------------------------------
(* Correctness.                                                              *)

\* The shape of every variable, at every call of every phase handler.
TypeOK ==
    /\ job \in Job /\ jobSeen \in Job /\ base \in Job /\ local \in Job
    /\ machine \in Machine
    /\ node \in Node /\ nodeSeen \in Node /\ copy \in Node
    /\ pods \in {"none", "ending", "running"}
    /\ pc \in {"idle", "run", "drain", "uncordon", "kubelet", "write"}
    /\ erring \in BOOLEAN
    /\ {faults, admins, retries} \subseteq Nat

\* A node that Talos is about to reboot, or is rebooting, is cordoned: from the
\* call of startUpgrade until waitForReboot has found the node healthy.
RebootsCordoned ==
    (machine.upgrade \/ machine.state # "running") => node.cordon # "no"

\* Completed means that the node runs every version the target names: no path
\* of initJob, waitForReboot and waitForKubernetesUpgrade skips one.
OnTarget ==
    /\ ~NeedsTalosUpgrade(machine.image)
    /\ KubernetesTarget => /\ node.kubelet = "target"
                           /\ ControlPlane => node.static = "target"
CompletedIsUpgraded == job.phase = "Completed" => OnTarget

\* waitForReboot releases a node that a kubelet of the running boot has reported
\* Ready: nodeUnhealthy is not satisfied by what was true before the reboot.
ReleasedHealthy ==
    [][pc = "uncordon" /\ base.phase = "Rebooting" /\ node'.cordon # node.cordon
        => node.boot = machine.boot /\ node.ready]_vars

\* A job that fails before its Upgrade call leaves no cordon of the operator
\* behind (failJob): nobody else would ever release it.
FailureReleases ==
    (job.phase = "Failed" /\ job.preBoot = 0) => node.cordon # "operator"

\* The Upgrade call reaches a node that is drained and closed to new pods.
UpgradesDrained ==
    [][~machine.upgrade /\ machine'.upgrade => pods = "none" /\ node.cordon # "no"]_vars

\* Only an administrator removes an administrator's cordon.
AdminCordonKept ==
    [][node.cordon = "admin" /\ node'.cordon # "admin" => admins' = admins + 1]_vars

\* A job completes on a node that is Ready: "the node must also be back in
\* Kubernetes before the next node may be taken down" (waitForReboot).
\* Not so when a job is retried: see "Divergences" in the README.
CompletesReady ==
    [][job.phase # "Completed" /\ job'.phase = "Completed" => node.ready]_vars

\* The job as it stands once what the reconcile has decided is written, and the node's
\* life as a user would tell it.
Current == IF pc = "idle" THEN job ELSE local
Called == Current.preBoot # 0
Away ==
    \/ machine.upgrade \/ machine.state # "running"
    \/ node.boot # machine.boot \/ ~node.ready
Life ==
    IF ~Called THEN IF node.cordon = "no" THEN "serving" ELSE "closed"
    ELSE IF node.cordon = "no" THEN "released"
    ELSE IF Away THEN "away" ELSE "back"
Outcome ==
    IF job.phase = "Completed" THEN "completed"
    ELSE IF job.phase = "Failed" THEN "failed" ELSE "open"
Versions ==
    IF NeedsTalosUpgrade(machine.image) THEN "old" ELSE IF OnTarget THEN "target" ELSE "talos"

\* What a job promises of its node, from the first cordon to the last uncordon: the phase
\* handlers, with their copies, calls and timeouts, implement NodeUpgrade.
NodeUpgrade == INSTANCE NodeUpgrade WITH
    MayForget <- NodeLag, outcome <- Outcome, life <- Life, versions <- Versions,
    empty <- pods = "none"
ImplementsNodeUpgrade == NodeUpgrade!Spec

\* Every job ends, whatever the machine, the pods and the Talos API do.
JobEnds == []<>(job.phase \in Terminal)

=============================================================================
