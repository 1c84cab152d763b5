--------------------------- MODULE PatchJob_proof ----------------------------
(***************************************************************************)
(* Theorems about a PatchJob, for any versions, boots, timeouts, cordons,    *)
(* pods, lost replies and crashes.                                          *)
(***************************************************************************)
EXTENDS PatchJob, TLAPS

-----------------------------------------------------------------------------
(* Types.                                                                    *)

Position == {"idle", "run", "drain", "uncordon", "kubelet", "write"}

LEMMA NewTypes == NewJob \in Job /\ NoCopy \in Node
BY DEF NewJob, Job, Phase, NoCopy, Node, Version

\* The job a handler leaves to be written.
LEMMA EditType ==
    ASSUME NEW x \in Job
    PROVE  /\ \A phase \in Phase : [x EXCEPT !.phase = phase] \in Job
           /\ \A phase \in Phase, boot \in Nat :
                 [x EXCEPT !.phase = phase, !.preBoot = boot] \in Job
           /\ \A version \in Version : [x EXCEPT !.kubernetes = version] \in Job
           /\ \A phase \in Phase, version \in Version :
                 [x EXCEPT !.phase = phase, !.kubernetes = version] \in Job
BY DEF Job

\* The reconcile's own variables after each of its ends.
ReconcileType ==
    pc' \in Position /\ base' \in Job /\ local' \in Job /\ copy' \in Node /\ erring' \in BOOLEAN

LEMMA WaitType ==
    ASSUME Wait PROVE ReconcileType
BY NewTypes DEF Wait, Forget, ReconcileType, Position

LEMMA AdvanceType ==
    ASSUME TypeOK, NEW position \in Position, NEW x \in Job, Advance(position, x)
    PROVE  ReconcileType
BY DEF TypeOK, Advance, ReconcileType

LEMMA GotoType ==
    ASSUME TypeOK, NEW position \in Position, Goto(position)
    PROVE  ReconcileType
BY DEF TypeOK, Goto, ReconcileType

LEMMA FailType ==
    ASSUME TypeOK, Fail
    PROVE  ReconcileType
<1>1. [local EXCEPT !.phase = "Failed"] \in Job
  BY EditType DEF TypeOK, Phase, Terminal
<1> QED
  BY <1>1, AdvanceType DEF Fail, Position

LEMMA RetryOrFailType ==
    ASSUME TypeOK, RetryOrFail
    PROVE  ReconcileType
BY FailType, NewTypes DEF RetryOrFail, Forget, ReconcileType, Position

LEMMA SetNodeType ==
    ASSUME TypeOK, NEW n \in Node, SetNode(n)
    PROVE  node' \in Node /\ nodeSeen' \in Node
BY DEF SetNode, TypeOK

\* A step of the reconcile: what it does elsewhere has its type.
LEMMA ReconcileStepType ==
    ASSUME TypeOK, ReconcileType, job' \in Job, jobSeen' \in Job, machine' \in Machine,
           node' \in Node, nodeSeen' \in Node, pods' \in {"none", "ending", "running"},
           {faults', admins', retries'} \subseteq Nat
    PROVE  TypeOK'
BY DEF TypeOK, ReconcileType, Position

\* Most steps call nobody.
LEMMA QuietStepType ==
    ASSUME TypeOK, ReconcileType, UNCHANGED <<job, jobSeen, clusterVars, bounds>>
    PROVE  TypeOK'
BY ReconcileStepType DEF TypeOK, clusterVars, bounds

LEMMA InitType == Init => TypeOK
<1> SUFFICES ASSUME Init PROVE TypeOK
  OBVIOUS
<1>1. PICK image \in Images, kubelet \in Kubelets, static \in StaticPods :
        machine = [image |-> image, boot |-> 1, state |-> "running", upgrade |-> FALSE,
                   kubelet |-> kubelet, static |-> static]
  BY DEF Init
<1>2. machine \in Machine
  BY <1>1, NodeAssumption DEF Machine
<1>3. node \in Node
  <2>1. machine.kubelet \in Version /\ machine.static \in Version
    BY <1>2 DEF Machine
  <2> QED
    BY <2>1 DEF Init, Node
<1>4. job \in Job /\ jobSeen \in Job /\ base \in Job /\ local \in Job /\ copy \in Node
  BY NewTypes DEF Init
<1>5. nodeSeen \in Node /\ pods \in {"none", "ending", "running"}
  BY <1>3 DEF Init
<1>6. {faults, admins, retries} \subseteq Nat /\ erring \in BOOLEAN
  <2>1. faults = 0 /\ admins = 0 /\ retries = 0
    BY Zenon DEF Init
  <2>2. erring = FALSE
    BY Zenon DEF Init
  <2>3. {faults, admins, retries} \subseteq Nat
    BY <2>1
  <2> QED
    BY <2>2, <2>3, Zenon
<1>7. pc \in {"idle", "run", "drain", "uncordon", "kubelet", "write"}
  BY DEF Init
<1> QED
  BY <1>2, <1>3, <1>4, <1>5, <1>6, <1>7 DEF TypeOK

\* The steps between calls, and those whose calls only read.
LEMMA ReadingType ==
    ASSUME TypeOK, \/ Errs \/ Misconfigured \/ InitJob \/ DrainBlockedTooLong
                   \/ WaitForDrain \/ DrainTimedOut \/ WaitForReboot \/ RebootTimedOut
                   \/ WaitForKubernetesUpgrade \/ KubernetesTimedOut
    PROVE  TypeOK'
<1> USE DEF Position, Phase, Terminal
<1>0. local \in Job /\ copy \in Node /\ copy.kubelet \in Version
  BY DEF TypeOK, Node
<1>1. CASE Errs
  BY <1>1, RetryOrFailType, QuietStepType DEF Errs
<1>2. CASE Misconfigured
  BY <1>2, FailType, QuietStepType DEF Misconfigured
<1>3. CASE InitJob
  <2> DEFINE read == [local EXCEPT !.kubernetes = copy.kubelet]
  <2>1. read \in Job
    BY <1>0, EditType
  <2>2. \A phase \in Phase : [read EXCEPT !.phase = phase] \in Job
    BY <2>1, EditType
  <2> HIDE DEF read
  <2>3. \E position \in {"write", "uncordon"}, phase \in Phase :
          Advance(position, [read EXCEPT !.phase = phase])
    BY <1>3 DEF InitJob, read
  <2>4. ReconcileType
    BY <2>2, <2>3, AdvanceType
  <2> QED
    BY <1>3, <2>4, QuietStepType DEF InitJob
<1>4. CASE DrainBlockedTooLong
  BY <1>4, FailType, QuietStepType DEF DrainBlockedTooLong
<1>5. CASE WaitForDrain
  <2>1. [local EXCEPT !.phase = "Upgrading"] \in Job
    BY <1>0, EditType
  <2> QED
    BY <1>5, <2>1, AdvanceType, WaitType, QuietStepType DEF WaitForDrain
<1>6. CASE DrainTimedOut
  BY <1>6, FailType, QuietStepType DEF DrainTimedOut
<1>7. CASE WaitForReboot
  <2>1. AfterReboot \in Job
    BY <1>0, EditType DEF AfterReboot
  <2> QED
    BY <1>7, <2>1, AdvanceType, FailType, WaitType, QuietStepType DEF WaitForReboot
<1>8. CASE RebootTimedOut
  BY <1>8, FailType, QuietStepType DEF RebootTimedOut
<1>9. CASE WaitForKubernetesUpgrade
  <2>1. [local EXCEPT !.phase = "Completed", !.kubernetes = "target"] \in Job
    BY <1>0, EditType DEF Version
  <2> QED
    BY <1>9, <2>1, AdvanceType, WaitType, QuietStepType DEF WaitForKubernetesUpgrade
<1>10. CASE KubernetesTimedOut
  BY <1>10, FailType, QuietStepType DEF KubernetesTimedOut
<1> QED
  BY <1>1, <1>2, <1>3, <1>4, <1>5, <1>6, <1>7, <1>8, <1>9, <1>10

\* The calls.
LEMMA CallingType ==
    ASSUME TypeOK, \/ Reconcile \/ Abort \/ StartDrain \/ DrainNode \/ StartUpgrade
                   \/ UpgradeReplyLost \/ UncordonNode \/ UncordonFails
                   \/ StartKubernetesUpgrade \/ PatchKubelet \/ Write
    PROVE  TypeOK'
<1> USE DEF Position, Phase, Terminal
<1>0. /\ local \in Job /\ copy \in Node /\ node \in Node /\ nodeSeen \in Node /\ machine \in Machine
      /\ faults \in Nat /\ admins \in Nat /\ retries \in Nat
  BY DEF TypeOK
<1>1. CASE Reconcile
  BY <1>1, QuietStepType DEF Reconcile, TypeOK, ReconcileType
<1>2. CASE Abort
  <2>1. ReconcileType
    BY <1>2, NewTypes DEF Abort, Forget, ReconcileType, TypeOK
  <2> QED
    BY <1>0, <1>2, <2>1, ReconcileStepType DEF Abort, TypeOK, clusterVars
<1>3. CASE StartDrain
  <2>1. node' \in Node /\ nodeSeen' \in Node
    <3>1. [node EXCEPT !.cordon = IF @ = "no" THEN "operator" ELSE @,
                       !.ours = nodeSeen.ours => @] \in Node
      <4>1. /\ (IF node.cordon = "no" THEN "operator" ELSE node.cordon) \in {"no", "operator", "admin"}
            /\ (nodeSeen.ours => node.ours) \in BOOLEAN
        BY <1>0 DEF Node
      <4> QED
        BY <1>0, <4>1 DEF Node
    <3> QED
      BY <1>0, <1>3, <3>1, SetNodeType DEF StartDrain, CordonNode
  <2>2. ReconcileType
    BY <1>3, GotoType DEF StartDrain
  <2> QED
    BY <1>3, <2>1, <2>2, ReconcileStepType DEF StartDrain, TypeOK, bounds
<1>4. CASE DrainNode
  <2>1. [local EXCEPT !.phase = "Draining"] \in Job
    BY <1>0, EditType
  <2>2. ReconcileType
    BY <1>4, <2>1, AdvanceType, WaitType, FailType
    DEF DrainNode, NothingToEvict, Evicted, EvictionBlocked, UnmanagedPods
  <2>3. pods' \in {"none", "ending", "running"}
    BY <1>4 DEF DrainNode, NothingToEvict, Evicted, EvictionBlocked, UnmanagedPods, TypeOK
  <2> QED
    BY <1>4, <2>2, <2>3, ReconcileStepType DEF DrainNode, TypeOK, bounds
<1>5. CASE StartUpgrade
  <2>1. [local EXCEPT !.phase = "Rebooting", !.preBoot = copy.boot] \in Job
    BY <1>0, EditType DEF Node
  <2>2. ReconcileType
    BY <1>5, <2>1, AdvanceType DEF StartUpgrade
  <2>3. machine' \in Machine
    BY <1>0, <1>5 DEF StartUpgrade, Machine
  <2> QED
    BY <1>5, <2>2, <2>3, ReconcileStepType DEF StartUpgrade, TypeOK, bounds
<1>6. CASE UpgradeReplyLost
  <2>1. machine' \in Machine
    BY <1>0, <1>6 DEF UpgradeReplyLost, Machine
  <2>2. ReconcileType
    BY <1>6, RetryOrFailType DEF UpgradeReplyLost
  <2> QED
    BY <1>0, <1>6, <2>1, <2>2, ReconcileStepType DEF UpgradeReplyLost, TypeOK
<1>7. CASE UncordonNode
  <2>1. Released \in Node
    BY <1>0 DEF Released, Node
  <2>2. node' \in Node /\ nodeSeen' \in Node
    BY <1>7, <2>1, SetNodeType DEF UncordonNode
  <2>3. ReconcileType
    BY <1>7, GotoType DEF UncordonNode
  <2> QED
    BY <1>7, <2>2, <2>3, ReconcileStepType DEF UncordonNode, TypeOK, bounds
<1>8. CASE UncordonFails
  <2>1. ReconcileType
    BY <1>8, GotoType DEF UncordonFails
  <2> QED
    BY <1>0, <1>8, <2>1, ReconcileStepType DEF UncordonFails, TypeOK, clusterVars
<1>9. CASE StartKubernetesUpgrade
  <2>1. machine' \in Machine
    BY <1>0, <1>9 DEF StartKubernetesUpgrade, Machine, Version
  <2>2. ReconcileType
    BY <1>9, GotoType DEF StartKubernetesUpgrade
  <2> QED
    BY <1>9, <2>1, <2>2, ReconcileStepType DEF StartKubernetesUpgrade, TypeOK, bounds
<1>10. CASE PatchKubelet
  <2>1. machine' \in Machine
    BY <1>0, <1>10 DEF PatchKubelet, Machine, Version
  <2>2. [local EXCEPT !.phase = "ValidatingKubernetes"] \in Job
    BY <1>0, EditType
  <2>3. ReconcileType
    BY <1>10, <2>2, AdvanceType DEF PatchKubelet
  <2> QED
    BY <1>10, <2>1, <2>3, ReconcileStepType DEF PatchKubelet, TypeOK, bounds
<1>11. CASE Write
  <2>1. job' \in Job
    BY <1>11 DEF Write, Merge, TypeOK, Job
  <2>2. ReconcileType
    BY <1>11, WaitType DEF Write
  <2> QED
    BY <1>11, <2>1, <2>2, ReconcileStepType DEF Write, TypeOK, clusterVars, bounds
<1> QED
  BY <1>1, <1>2, <1>3, <1>4, <1>5, <1>6, <1>7, <1>8, <1>9, <1>10, <1>11

\* Everybody else.
Others ==
    \/ Reboot \/ InstallFails \/ TalosAnswers \/ KubeletStarts
    \/ NodeReports \/ StaticPodsReport \/ NodeLost \/ PodScheduled \/ PodsEnd
    \/ SyncNode \/ SyncJob \/ AdminCordons \/ AdminUncordons \/ RetryJob

LEMMA OthersType ==
    ASSUME TypeOK, Others
    PROVE  TypeOK'
<1>0. /\ machine \in Machine /\ node \in Node /\ nodeSeen \in Node
      /\ faults \in Nat /\ admins \in Nat /\ retries \in Nat
  BY DEF TypeOK
<1>1. CASE Reboot \/ InstallFails \/ TalosAnswers \/ KubeletStarts
  <2>1. machine' \in Machine
    <3>1. CASE Reboot
      <4>1. PICK image \in {"target", machine.image} :
              machine' = [machine EXCEPT !.upgrade = FALSE, !.state = "down",
                                         !.boot = machine.boot + 1, !.image = image]
        BY <3>1 DEF Reboot
      <4>2. machine.boot + 1 \in Nat /\ image \in Image
        BY <1>0, <4>1 DEF Machine, Image
      <4> QED
        BY <1>0, <4>1, <4>2 DEF Machine
    <3>2. CASE InstallFails \/ TalosAnswers \/ KubeletStarts
      BY <1>0, <3>2 DEF InstallFails, TalosAnswers, KubeletStarts, Machine
    <3> QED
      BY <1>1, <3>1, <3>2
  <2> QED
    BY <1>1, <2>1 DEF Reboot, InstallFails, TalosAnswers, KubeletStarts, TypeOK, operatorVars, bounds
<1>2. CASE NodeReports \/ StaticPodsReport \/ NodeLost \/ AdminCordons \/ AdminUncordons
  <2>1. node' \in Node /\ nodeSeen' \in Node
    <3>1. CASE NodeReports
      <4>1. PICK ready \in BOOLEAN :
              SetNode([node EXCEPT !.boot = machine.boot, !.kubelet = machine.kubelet,
                                   !.ready = ready])
        BY <1>0, <3>1 DEF NodeReports, Node
      <4>2. [node EXCEPT !.boot = machine.boot, !.kubelet = machine.kubelet,
                         !.ready = ready] \in Node
        BY <1>0 DEF Node, Machine
      <4> QED
        BY <4>1, <4>2, SetNodeType
    <3>2. CASE StaticPodsReport
      <4>1. PICK ready \in BOOLEAN :
              SetNode([node EXCEPT !.static = machine.static, !.staticReady = ready])
        BY <3>2 DEF StaticPodsReport
      <4>2. [node EXCEPT !.static = machine.static, !.staticReady = ready] \in Node
        BY <1>0 DEF Node, Machine
      <4> QED
        BY <4>1, <4>2, SetNodeType
    <3>3. CASE NodeLost \/ AdminCordons \/ AdminUncordons
      <4>1. /\ [node EXCEPT !.ready = FALSE] \in Node
            /\ [node EXCEPT !.cordon = "admin"] \in Node
            /\ [node EXCEPT !.cordon = "no"] \in Node
        BY <1>0 DEF Node
      <4> QED
        BY <3>3, <4>1, SetNodeType DEF NodeLost, AdminCordons, AdminUncordons
    <3> QED
      BY <1>2, <3>1, <3>2, <3>3
  <2>2. {faults', admins', retries'} \subseteq Nat
    <3>1. faults' = faults /\ retries' = retries /\ admins' \in {admins, admins + 1}
      BY <1>2 DEF NodeReports, StaticPodsReport, NodeLost, AdminCordons, AdminUncordons, bounds
    <3>2. admins + 1 \in Nat
      BY <1>0
    <3> QED
      BY <1>0, <3>1, <3>2
  <2> QED
    BY <1>2, <2>1, <2>2
    DEF NodeReports, StaticPodsReport, NodeLost, AdminCordons, AdminUncordons, TypeOK, operatorVars
<1>3. CASE PodScheduled \/ PodsEnd
  BY <1>3 DEF PodScheduled, PodsEnd, TypeOK, operatorVars, bounds
<1>4. CASE SyncNode \/ SyncJob
  BY <1>4 DEF SyncNode, SyncJob, TypeOK, operatorVars, bounds, clusterVars
<1>5. CASE RetryJob
  BY <1>0, <1>5, NewTypes DEF RetryJob, TypeOK, clusterVars
<1> QED
  BY <1>1, <1>2, <1>3, <1>4, <1>5 DEF Others

LEMMA NextType == TypeOK /\ [Next]_vars => TypeOK'
<1>1. ASSUME TypeOK, UNCHANGED vars PROVE TypeOK'
  BY <1>1 DEF TypeOK, vars
<1> QED
  BY <1>1, ReadingType, CallingType, OthersType DEF Next, Others

\* Every variable keeps its type, at every call of every phase handler: no status patch
\* of a stale copy and no handler leaves a phase that reconcilePhase does not know.
THEOREM TypeCorrect == Spec => []TypeOK
BY InitType, NextType, PTL DEF Spec

-----------------------------------------------------------------------------
(* The reconcile and the job it works on, without a lagging job.             *)

Control ==
    /\ jobSeen = job
    /\ pc # "idle" => base = job /\ job.phase \notin Terminal
    /\ pc \in {"idle", "run", "drain", "kubelet"} => Current = job
    /\ pc = "drain" => base.phase = "Pending"
    /\ pc = "kubelet" => base.phase = "UpgradingKubernetes"
    /\ pc = "uncordon" => local.phase \in Terminal \cup {"UpgradingKubernetes"}

LEMMA ControlInit == ASSUME Init PROVE Control
BY DEF Init, Control, Current, NewJob, Terminal

\* A reconcile that ends early leaves the job as it was.
LEMMA ForgetControl ==
    ASSUME Control, Forget, UNCHANGED <<job, jobSeen>>
    PROVE  Control' /\ Current' = job
BY DEF Control, Forget, Current

\* A reconcile that has decided something.
LEMMA AdvanceControl ==
    ASSUME Control, pc # "idle", NEW position \in {"write", "uncordon"}, NEW x,
           Advance(position, x), UNCHANGED <<job, jobSeen>>,
           position = "uncordon" => x.phase \in Terminal \cup {"UpgradingKubernetes"}
    PROVE  Control' /\ Current' = x
BY DEF Control, Advance, Current

LEMMA FailControl ==
    ASSUME TypeOK, Control, pc # "idle", Fail, UNCHANGED <<job, jobSeen>>
    PROVE  /\ Control' /\ Current' = [local EXCEPT !.phase = "Failed"]
           /\ pc' = IF base.phase \in BeforeReboot THEN "uncordon" ELSE "write"
<1> DEFINE x == [local EXCEPT !.phase = "Failed"]
<1>1. x.phase = "Failed"
  BY DEF TypeOK, Job
<1> HIDE DEF x
<1>2. PICK position \in {"write", "uncordon"} :
        /\ Advance(position, x)
        /\ position = IF base.phase \in BeforeReboot THEN "uncordon" ELSE "write"
  BY DEF Fail, x
<1>3. Control' /\ Current' = x
  BY <1>1, <1>2, AdvanceControl DEF Terminal
<1> QED
  BY <1>2, <1>3 DEF Advance, x

LEMMA RetryOrFailControl ==
    ASSUME TypeOK, Control, pc # "idle", RetryOrFail, UNCHANGED <<job, jobSeen>>
    PROVE  /\ Control'
           /\ \/ pc' = "idle" /\ Current' = job
              \/ /\ Current' = [local EXCEPT !.phase = "Failed"]
                 /\ pc' = IF base.phase \in BeforeReboot THEN "uncordon" ELSE "write"
<1>1. CASE Forget
  BY <1>1, ForgetControl DEF Forget
<1>2. CASE Fail
  BY <1>2, FailControl
<1> QED
  BY <1>1, <1>2 DEF RetryOrFail

\* Steps of everybody but the reconcile leave it alone.
Elsewhere ==
    \/ Reboot \/ InstallFails \/ TalosAnswers \/ KubeletStarts
    \/ NodeReports \/ StaticPodsReport \/ NodeLost \/ PodScheduled \/ PodsEnd
    \/ SyncNode \/ AdminCordons \/ AdminUncordons

LEMMA ElsewhereControl ==
    ASSUME Elsewhere
    PROVE  UNCHANGED operatorVars /\ Current' = Current /\ (Control => Control')
<1>1. UNCHANGED operatorVars
  BY DEF Elsewhere, Reboot, InstallFails, TalosAnswers, KubeletStarts, NodeReports,
         StaticPodsReport, NodeLost, PodScheduled, PodsEnd, SyncNode, AdminCordons, AdminUncordons
<1> QED
  BY <1>1 DEF operatorVars, Current, Control

LEMMA ReconcileControl ==
    ASSUME Control, Reconcile
    PROVE  Control' /\ Current' = Current /\ (pc' # "idle" => pc' = "run" /\ copy' = nodeSeen)
<1>1. jobSeen = job /\ Current = job /\ job' = job /\ jobSeen' = jobSeen /\ pc = "idle"
  BY DEF Control, Current, Reconcile
<1>2. CASE jobSeen.phase \in Terminal
  BY <1>1, <1>2 DEF Control, Current, Reconcile
<1>3. CASE jobSeen.phase \notin Terminal
  BY <1>1, <1>3 DEF Control, Current, Reconcile
<1> QED
  BY <1>2, <1>3

LEMMA WriteControl ==
    ASSUME ~JobLag, TypeOK, Control, Write
    PROVE  Control' /\ Current' = Current /\ job' = Current /\ pc' = "idle"
<1>1. job \in Job /\ local \in Job /\ base = job /\ pc = "write" /\ Current = local
  BY DEF TypeOK, Control, Write, Current
<1>2. Merge(local) = local
  BY <1>1 DEF Merge, Job
<1>3. job' = local /\ jobSeen' = local /\ pc' = "idle"
  BY <1>2 DEF Write, Wait, Forget
<1> QED
  BY <1>1, <1>3 DEF Control, Current

LEMMA AbortControl ==
    ASSUME Control, Abort
    PROVE  Control' /\ Current' = job /\ job' = job /\ pc' = "idle"
BY ForgetControl DEF Abort, Forget

\* Nobody deletes a job that a reconcile is working on.
LEMMA RetryControl ==
    ASSUME Control, RetryJob
    PROVE  Control' /\ Current' = NewJob /\ job' = NewJob /\ pc' = "idle"
BY DEF RetryJob, Control, Current, Terminal

LEMMA SyncJobControl ==
    ASSUME Control, SyncJob
    PROVE  UNCHANGED operatorVars /\ Current' = Current /\ Control'
BY DEF SyncJob, Control, Current, operatorVars

\* The handlers that may fail the job, and do nothing else to it.
Failing ==
    \/ Errs \/ Misconfigured \/ DrainBlockedTooLong \/ DrainTimedOut
    \/ UpgradeReplyLost \/ RebootTimedOut \/ KubernetesTimedOut

Failed ==
    /\ Current' = [local EXCEPT !.phase = "Failed"]
    /\ pc' = IF base.phase \in BeforeReboot THEN "uncordon" ELSE "write"
    /\ base' = base /\ copy' = copy

LEMMA FailingControl ==
    ASSUME TypeOK, Control, Failing
    PROVE  /\ Control' /\ job' = job /\ pc # "idle"
           /\ pc = "uncordon" => base.phase = "Rebooting"
           /\ (pc' = "idle" /\ Current' = job) \/ Failed
<1>1. /\ pc # "idle" /\ UNCHANGED <<job, jobSeen>>
      /\ pc = "uncordon" => base.phase = "Rebooting"
  BY DEF Failing, Errs, Misconfigured, DrainBlockedTooLong, DrainTimedOut, UpgradeReplyLost,
         RebootTimedOut, KubernetesTimedOut, At
<1>2. Fail \/ RetryOrFail
  BY DEF Failing, Errs, Misconfigured, DrainBlockedTooLong, DrainTimedOut, UpgradeReplyLost,
         RebootTimedOut, KubernetesTimedOut
<1>3. ASSUME Fail PROVE base' = base /\ copy' = copy
  BY <1>3 DEF Fail, Advance
<1>4. CASE Fail
  BY <1>1, <1>3, <1>4, FailControl DEF Failed
<1>5. CASE RetryOrFail
  BY <1>1, <1>3, <1>5, RetryOrFailControl DEF Failed, RetryOrFail, Forget
<1> QED
  BY <1>2, <1>4, <1>5

\* What a handler that succeeds makes of the job.
Decided(position, x) ==
    /\ Control' /\ Current' = x /\ pc' = position /\ job' = job
    /\ base' = base /\ copy' = copy /\ local = Current /\ pc # "idle"
Waits == Control' /\ Current' = job /\ pc' = "idle" /\ job' = job

LEMMA DecideControl ==
    ASSUME Control, pc # "idle", NEW position \in {"write", "uncordon"}, NEW x,
           Advance(position, x), UNCHANGED <<job, jobSeen>>,
           position = "uncordon" => x.phase \in Terminal \cup {"UpgradingKubernetes"}
    PROVE  Decided(position, x)
BY AdvanceControl DEF Decided, Advance, Current

LEMMA WaitControl ==
    ASSUME Control, Wait, UNCHANGED <<job, jobSeen>>
    PROVE  Waits
BY ForgetControl DEF Waits, Wait, Forget

LEMMA InitJobControl ==
    ASSUME TypeOK, Control, InitJob
    PROVE  LET read == [local EXCEPT !.kubernetes = copy.kubelet] IN
           \/ RefusesDowngrade /\ Decided("write", [read EXCEPT !.phase = "Failed"])
           \/ NeedsTalosUpgrade(machine.image) /\ Decided("write", [read EXCEPT !.phase = "Pending"])
           \/ /\ ~NeedsTalosUpgrade(machine.image)
              /\ Decided("write", [read EXCEPT !.phase = "UpgradingKubernetes"])
           \/ /\ ~NeedsTalosUpgrade(machine.image) /\ ~NeedsKubernetesUpgrade
              /\ Decided("uncordon", [read EXCEPT !.phase = "Completed"])
<1> DEFINE read == [local EXCEPT !.kubernetes = copy.kubelet]
<1>1. pc # "idle" /\ UNCHANGED <<job, jobSeen>>
  BY DEF InitJob, At
<1>2. [read EXCEPT !.phase = "Completed"].phase \in Terminal
  BY DEF TypeOK, Job, Terminal
<1> HIDE DEF read
<1>3. CASE RefusesDowngrade
  <2>1. Advance("write", [read EXCEPT !.phase = "Failed"])
    BY <1>3 DEF InitJob, read
  <2> QED
    BY <1>1, <1>3, <2>1, DecideControl DEF read
<1>4. CASE ~RefusesDowngrade /\ NeedsTalosUpgrade(machine.image)
  <2>1. Advance("write", [read EXCEPT !.phase = "Pending"])
    BY <1>4 DEF InitJob, read
  <2> QED
    BY <1>1, <1>4, <2>1, DecideControl DEF read
<1>5. CASE ~RefusesDowngrade /\ ~NeedsTalosUpgrade(machine.image) /\ NeedsKubernetesUpgrade
  <2>1. Advance("write", [read EXCEPT !.phase = "UpgradingKubernetes"])
    BY <1>5 DEF InitJob, read
  <2> QED
    BY <1>1, <1>5, <2>1, DecideControl DEF read
<1>6. CASE ~RefusesDowngrade /\ ~NeedsTalosUpgrade(machine.image) /\ ~NeedsKubernetesUpgrade
  <2>1. Advance("uncordon", [read EXCEPT !.phase = "Completed"])
    BY <1>6 DEF InitJob, read
  <2> QED
    BY <1>1, <1>2, <1>6, <2>1, DecideControl DEF read
<1> QED
  BY <1>3, <1>4, <1>5, <1>6

LEMMA StartDrainControl ==
    ASSUME Control, StartDrain
    PROVE  Decided("drain", Current) /\ base.phase = "Pending" /\ pc = "run"
BY DEF Decided, Control, Current, StartDrain, At, Goto

LEMMA DrainNodeControl ==
    ASSUME TypeOK, Control, DrainNode
    PROVE  /\ pc = "drain" /\ base.phase = "Pending"
           /\ \/ Decided("write", [local EXCEPT !.phase = "Draining"])
              \/ Waits
              \/ Control' /\ job' = job /\ Failed
<1>1. pc = "drain" /\ base.phase = "Pending" /\ UNCHANGED <<job, jobSeen>>
  BY DEF DrainNode, Control
<1>2. CASE Advance("write", [local EXCEPT !.phase = "Draining"])
  BY <1>1, <1>2, DecideControl
<1>3. CASE Wait
  BY <1>1, <1>3, WaitControl
<1>4. CASE Fail
  BY <1>1, <1>4, FailControl DEF Failed, Fail, Advance
<1> QED
  BY <1>1, <1>2, <1>3, <1>4 DEF DrainNode, NothingToEvict, Evicted, EvictionBlocked, UnmanagedPods

LEMMA WaitForDrainControl ==
    ASSUME TypeOK, Control, WaitForDrain
    PROVE  /\ pc = "run" /\ base.phase = "Draining"
           /\ \/ IsDrained /\ Decided("write", [local EXCEPT !.phase = "Upgrading"])
              \/ Waits
<1>1. pc = "run" /\ base.phase = "Draining" /\ UNCHANGED <<job, jobSeen>>
  BY DEF WaitForDrain, At
<1> QED
  BY <1>1, DecideControl, WaitControl DEF WaitForDrain

LEMMA StartUpgradeControl ==
    ASSUME TypeOK, Control, StartUpgrade
    PROVE  /\ pc = "run" /\ base.phase = "Upgrading"
           /\ Decided("write", [local EXCEPT !.phase = "Rebooting", !.preBoot = copy.boot])
<1>1. pc = "run" /\ base.phase = "Upgrading" /\ UNCHANGED <<job, jobSeen>>
  BY DEF StartUpgrade, At
<1> QED
  BY <1>1, DecideControl DEF StartUpgrade

LEMMA WaitForRebootControl ==
    ASSUME TypeOK, Control, WaitForReboot
    PROVE  /\ pc = "run" /\ base.phase = "Rebooting"
           /\ \/ Waits
              \/ Control' /\ job' = job /\ Failed
              \/ ~OldVersion /\ ~Unhealthy /\ Decided("uncordon", AfterReboot)
<1>1. pc = "run" /\ base.phase = "Rebooting" /\ UNCHANGED <<job, jobSeen>>
  BY DEF WaitForReboot, At
<1>2. CASE Wait
  BY <1>1, <1>2, WaitControl
<1>3. CASE Fail
  BY <1>1, <1>3, FailControl DEF Failed, Fail, Advance
<1>4. CASE ~OldVersion /\ ~Unhealthy /\ Advance("uncordon", AfterReboot)
  <2>1. AfterReboot.phase \in Terminal \cup {"UpgradingKubernetes"}
    BY DEF AfterReboot, TypeOK, Job, Terminal
  <2> QED
    BY <1>1, <1>4, <2>1, DecideControl
<1> QED
  BY <1>1, <1>2, <1>3, <1>4 DEF WaitForReboot

LEMMA UncordonControl ==
    ASSUME Control, UncordonNode \/ UncordonFails
    PROVE  pc = "uncordon" /\ Decided("write", Current)
BY DEF Decided, Control, Current, UncordonNode, UncordonFails, Goto

LEMMA StartKubernetesUpgradeControl ==
    ASSUME Control, StartKubernetesUpgrade
    PROVE  Decided("kubelet", Current) /\ pc = "run"
BY DEF Decided, Control, Current, StartKubernetesUpgrade, At, Goto

LEMMA PatchKubeletControl ==
    ASSUME Control, PatchKubelet
    PROVE  /\ pc = "kubelet" /\ base.phase = "UpgradingKubernetes"
           /\ Decided("write", [local EXCEPT !.phase = "ValidatingKubernetes"])
<1>1. pc = "kubelet" /\ base.phase = "UpgradingKubernetes" /\ UNCHANGED <<job, jobSeen>>
  BY DEF PatchKubelet, Control
<1> QED
  BY <1>1, DecideControl DEF PatchKubelet

LEMMA WaitForKubernetesUpgradeControl ==
    ASSUME TypeOK, Control, WaitForKubernetesUpgrade
    PROVE  /\ pc = "run" /\ base.phase = "ValidatingKubernetes"
           /\ \/ Waits
              \/ /\ RolledOut
                 /\ Decided("write", [local EXCEPT !.phase = "Completed", !.kubernetes = "target"])
<1>1. pc = "run" /\ base.phase = "ValidatingKubernetes" /\ UNCHANGED <<job, jobSeen>>
  BY DEF WaitForKubernetesUpgrade, At
<1> QED
  BY <1>1, DecideControl, WaitControl DEF WaitForKubernetesUpgrade

LEMMA NextControl ==
    ASSUME ~JobLag, TypeOK, Control, [Next]_vars
    PROVE  Control'
<1>1. CASE UNCHANGED vars
  BY <1>1 DEF vars, Control, Current
<1>2. CASE Elsewhere \/ Reconcile \/ Write \/ Abort \/ RetryJob \/ SyncJob
  BY <1>2, ElsewhereControl, ReconcileControl, WriteControl, AbortControl, RetryControl,
     SyncJobControl
<1>3. CASE Failing
  BY <1>3, FailingControl
<1>4. CASE InitJob
  BY <1>4, InitJobControl DEF Decided
<1>5. CASE StartDrain \/ DrainNode \/ WaitForDrain \/ StartUpgrade
  BY <1>5, StartDrainControl, DrainNodeControl, WaitForDrainControl, StartUpgradeControl
  DEF Decided, Waits
<1>6. CASE WaitForReboot \/ UncordonNode \/ UncordonFails
  BY <1>6, WaitForRebootControl, UncordonControl DEF Decided, Waits
<1>7. CASE StartKubernetesUpgrade \/ PatchKubelet \/ WaitForKubernetesUpgrade
  BY <1>7, StartKubernetesUpgradeControl, PatchKubeletControl, WaitForKubernetesUpgradeControl
  DEF Decided, Waits
<1> QED
  BY <1>1, <1>2, <1>3, <1>4, <1>5, <1>6, <1>7 DEF Next, Elsewhere, Failing

-----------------------------------------------------------------------------
(* A Completed job has upgraded its node.                                    *)

\* The node does not start half upgraded in a way the controller cannot see.
CleanStart ==
    /\ Pinned => "styled" \notin Images
    /\ TalosTarget /\ KubernetesTarget /\ ControlPlane =>
          "target" \notin Kubelets \/ StaticPods \subseteq {"target"}

\* Versions that have reached the target are seen in the order they were reached in.
World ==
    /\ machine.image \in Images \cup {"target"}
    /\ copy.kubelet = "target" => node.kubelet = "target"
    /\ nodeSeen.kubelet = "target" => node.kubelet = "target"
    /\ node.kubelet = "target" => machine.kubelet = "target"
    /\ node.static = "target" => machine.static = "target"
    /\ machine.kubelet = "target" /\ NeedsTalosUpgrade(machine.image) => "target" \in Kubelets
    /\ StaticPods \subseteq {"target"} => machine.static = "target" /\ node.static = "target"

\* What a job's status says of the node.
Sound(image, kubelet, static, x) ==
    /\ x.phase \in {"UpgradingKubernetes", "ValidatingKubernetes", "Completed"} =>
          ~NeedsTalosUpgrade(image)
    /\ x.kubernetes = "target" => kubelet = "target"
    /\ x.phase \in BeforeReboot \cup {"Rebooting"} /\ x.kubernetes = "target"
          /\ KubernetesTarget /\ ControlPlane => StaticPods \subseteq {"target"}
    /\ x.phase = "Completed" /\ KubernetesTarget =>
          kubelet = "target" /\ (ControlPlane => static = "target")

SoundNow(x) == Sound(machine.image, node.kubelet, node.static, x)

Upgrading == TypeOK /\ Control /\ World /\ SoundNow(job) /\ SoundNow(Current)

LEMMA UpgradingInit == ASSUME Init, CleanStart PROVE Upgrading
<1>1. TypeOK /\ Control
  BY InitType, ControlInit
<1>2. PICK image \in Images, kubelet \in Kubelets, static \in StaticPods :
        machine = [image |-> image, boot |-> 1, state |-> "running", upgrade |-> FALSE,
                   kubelet |-> kubelet, static |-> static]
  BY DEF Init
<1>3. machine.image = image /\ machine.kubelet = kubelet /\ machine.static = static
  BY <1>2
<1>4. /\ node.kubelet = kubelet /\ node.static = static
      /\ nodeSeen = node /\ copy.kubelet = "old"
  BY <1>3 DEF Init, NoCopy
<1>5. World
  BY <1>3, <1>4 DEF World
<1>6. job = NewJob /\ Current = NewJob
  BY DEF Init, Current
<1>7. \A im, ku, st : Sound(im, ku, st, NewJob)
  BY DEF Sound, NewJob, BeforeReboot
<1> QED
  BY <1>1, <1>5, <1>6, <1>7 DEF Upgrading, SoundNow

\* Steps that touch neither the machine nor the Node.
Quiet ==
    \/ Reconcile \/ Errs \/ Misconfigured \/ Abort \/ InitJob \/ DrainBlockedTooLong
    \/ WaitForDrain \/ DrainTimedOut \/ WaitForReboot \/ RebootTimedOut \/ UncordonFails
    \/ WaitForKubernetesUpgrade \/ KubernetesTimedOut \/ Write \/ SyncJob \/ RetryJob

LEMMA QuietCluster ==
    ASSUME Quiet PROVE UNCHANGED clusterVars
BY DEF Quiet, Reconcile, Errs, Misconfigured, Abort, InitJob, DrainBlockedTooLong,
       WaitForDrain, DrainTimedOut, WaitForReboot, RebootTimedOut, UncordonFails,
       WaitForKubernetesUpgrade, KubernetesTimedOut, Write, SyncJob, RetryJob

\* The machine changes versions one way, and its kubelet last.
LEMMA MachineStep ==
    ASSUME TypeOK, [Next]_vars
    PROVE  /\ machine'.image \in {machine.image, "target"}
           /\ machine'.kubelet = machine.kubelet \/ (machine'.kubelet = "target" /\ PatchKubelet)
           /\ machine'.static \in {machine.static, "target"}
<1>0. machine \in Machine
  BY DEF TypeOK
<1>1. CASE UNCHANGED machine
  BY <1>1
<1>2. CASE StartUpgrade \/ UpgradeReplyLost \/ InstallFails \/ TalosAnswers \/ KubeletStarts
  BY <1>0, <1>2 DEF StartUpgrade, UpgradeReplyLost, InstallFails, TalosAnswers, KubeletStarts, Machine
<1>3. CASE Reboot
  <2>1. PICK image \in {"target", machine.image} :
          machine' = [machine EXCEPT !.upgrade = FALSE, !.state = "down",
                                     !.boot = machine.boot + 1, !.image = image]
    BY <1>3 DEF Reboot
  <2> QED
    BY <1>0, <2>1 DEF Machine
<1>4. CASE StartKubernetesUpgrade
  BY <1>0, <1>4 DEF StartKubernetesUpgrade, Machine
<1>5. CASE PatchKubelet
  BY <1>0, <1>5 DEF PatchKubelet, Machine
<1>6. CASE Quiet \/ UNCHANGED vars
  BY <1>1, <1>6, QuietCluster DEF vars, clusterVars
<1>7. CASE StartDrain \/ DrainNode \/ UncordonNode \/ NodeReports \/ StaticPodsReport
           \/ NodeLost \/ PodScheduled \/ PodsEnd \/ SyncNode \/ AdminCordons \/ AdminUncordons
  BY <1>1, <1>7 DEF StartDrain, DrainNode, UncordonNode, NodeReports, StaticPodsReport,
     NodeLost, PodScheduled, PodsEnd, SyncNode, AdminCordons, AdminUncordons
<1> QED
  BY <1>2, <1>3, <1>4, <1>5, <1>6, <1>7 DEF Next, Quiet

\* The Node shows what the machine runs, now or when it last reported.
LEMMA NodeStep ==
    ASSUME TypeOK, [Next]_vars
    PROVE  /\ node'.kubelet = node.kubelet
              \/ (node'.kubelet = machine.kubelet /\ machine' = machine)
           /\ node'.static = node.static
              \/ (node'.static = machine.static /\ machine' = machine)
           /\ nodeSeen' \in {nodeSeen, node'}
           /\ copy' \in {copy, nodeSeen, NoCopy}
<1>0. node \in Node
  BY DEF TypeOK
<1> DEFINE Shows == /\ node'.kubelet = node.kubelet
                       \/ (node'.kubelet = machine.kubelet /\ machine' = machine)
                    /\ node'.static = node.static
                       \/ (node'.static = machine.static /\ machine' = machine)
                    /\ nodeSeen' \in {nodeSeen, node'}
<1>1. ASSUME UNCHANGED <<node, nodeSeen>> PROVE Shows
  BY <1>1
<1>2. ASSUME Quiet \/ UNCHANGED vars PROVE Shows
  BY <1>1, <1>2, QuietCluster DEF vars, clusterVars
<1>3. ASSUME DrainNode \/ StartUpgrade \/ UpgradeReplyLost \/ StartKubernetesUpgrade
           \/ PatchKubelet \/ Reboot \/ InstallFails \/ TalosAnswers \/ KubeletStarts
           \/ PodScheduled \/ PodsEnd PROVE Shows
  BY <1>1, <1>3 DEF DrainNode, StartUpgrade, UpgradeReplyLost, StartKubernetesUpgrade,
     PatchKubelet, Reboot, InstallFails, TalosAnswers, KubeletStarts, PodScheduled, PodsEnd
<1>4. ASSUME StartDrain PROVE Shows
  BY <1>0, <1>4 DEF StartDrain, CordonNode, SetNode, Node
<1>5. ASSUME UncordonNode PROVE Shows
  BY <1>0, <1>5 DEF UncordonNode, Released, SetNode, Node
<1>6. ASSUME NodeReports PROVE Shows
  BY <1>0, <1>6 DEF NodeReports, SetNode, Node
<1>7. ASSUME StaticPodsReport PROVE Shows
  BY <1>0, <1>7 DEF StaticPodsReport, SetNode, Node
<1>8. ASSUME NodeLost \/ AdminCordons \/ AdminUncordons PROVE Shows
  BY <1>0, <1>8 DEF NodeLost, AdminCordons, AdminUncordons, SetNode, Node
<1>9. ASSUME SyncNode PROVE Shows
  BY <1>9 DEF SyncNode
<1>10. Shows
  BY <1>2, <1>3, <1>4, <1>5, <1>6, <1>7, <1>8, <1>9 DEF Next, Quiet
<1>11. copy' \in {copy, nodeSeen, NoCopy}
  <2>1. CASE Elsewhere \/ SyncJob \/ RetryJob \/ UNCHANGED vars
    BY <2>1, ElsewhereControl DEF operatorVars, vars, SyncJob, RetryJob
  <2>2. CASE Reconcile \/ Write \/ Abort
    BY <2>2 DEF Reconcile, Write, Wait, Abort, Forget
  <2>3. CASE Failing
    BY <2>3 DEF Failing, Errs, Misconfigured, DrainBlockedTooLong, DrainTimedOut,
       UpgradeReplyLost, RebootTimedOut, KubernetesTimedOut, RetryOrFail, Fail, Advance, Forget
  <2>4. CASE InitJob
    BY <2>4 DEF InitJob, Advance
  <2>5. CASE StartDrain \/ DrainNode \/ WaitForDrain \/ StartUpgrade
    BY <2>5 DEF StartDrain, DrainNode, NothingToEvict, Evicted, EvictionBlocked, UnmanagedPods,
       WaitForDrain, StartUpgrade, Goto, Advance, Fail, Wait, Forget
  <2>6. CASE WaitForReboot \/ UncordonNode \/ UncordonFails
    BY <2>6 DEF WaitForReboot, UncordonNode, UncordonFails, Goto, Advance, Fail, Wait, Forget
  <2>7. CASE StartKubernetesUpgrade \/ PatchKubelet \/ WaitForKubernetesUpgrade
    BY <2>7 DEF StartKubernetesUpgrade, PatchKubelet, WaitForKubernetesUpgrade, Goto, Advance,
       Wait, Forget
  <2> QED
    BY <2>1, <2>2, <2>3, <2>4, <2>5, <2>6, <2>7 DEF Next, Elsewhere, Failing
<1> QED
  BY <1>10, <1>11

\* A version that has reached the target stays there.
Stable ==
    /\ ~NeedsTalosUpgrade(machine.image) => ~NeedsTalosUpgrade(machine'.image)
    /\ node.kubelet = "target" => node'.kubelet = "target"
    /\ node.static = "target" => node'.static = "target"

LEMMA TargetNeedsNothing == ~NeedsTalosUpgrade("target")
BY DEF NeedsTalosUpgrade, Rank

LEMMA WorldStep ==
    ASSUME Upgrading, [Next]_vars
    PROVE  World' /\ Stable
<1>1. /\ machine'.image \in {machine.image, "target"}
      /\ machine'.kubelet = machine.kubelet \/ (machine'.kubelet = "target" /\ PatchKubelet)
      /\ machine'.static \in {machine.static, "target"}
  BY MachineStep DEF Upgrading
<1>2. /\ node'.kubelet = node.kubelet \/ (node'.kubelet = machine.kubelet /\ machine' = machine)
      /\ node'.static = node.static \/ (node'.static = machine.static /\ machine' = machine)
      /\ nodeSeen' \in {nodeSeen, node'}
      /\ copy' \in {copy, nodeSeen, NoCopy}
  BY NodeStep DEF Upgrading
<1>3. World
  BY DEF Upgrading
<1>4. Stable
  BY <1>1, <1>2, <1>3, TargetNeedsNothing DEF Stable, World
<1>5. PatchKubelet => ~NeedsTalosUpgrade(machine.image)
  BY PatchKubeletControl DEF Upgrading, Control, SoundNow, Sound
<1>6. machine'.image \in Images \cup {"target"}
  BY <1>1, <1>3 DEF World
<1>7. /\ copy'.kubelet = "target" => node'.kubelet = "target"
      /\ nodeSeen'.kubelet = "target" => node'.kubelet = "target"
  BY <1>2, <1>3, <1>4 DEF World, Stable, NoCopy
<1>8. /\ node'.kubelet = "target" => machine'.kubelet = "target"
      /\ node'.static = "target" => machine'.static = "target"
  BY <1>1, <1>2, <1>3 DEF World
<1>9. machine'.kubelet = "target" /\ NeedsTalosUpgrade(machine'.image) => "target" \in Kubelets
  BY <1>1, <1>3, <1>5, TargetNeedsNothing DEF World
<1>10. StaticPods \subseteq {"target"} => machine'.static = "target" /\ node'.static = "target"
  BY <1>1, <1>3, <1>4 DEF World, Stable
<1> QED
  BY <1>4, <1>6, <1>7, <1>8, <1>9, <1>10 DEF World

\* What is said of a job stays true while the job stays as it is.
LEMMA SoundStable ==
    ASSUME Stable, NEW x, SoundNow(x)
    PROVE  Sound(machine'.image, node'.kubelet, node'.static, x)
BY DEF Stable, SoundNow, Sound

\* A failed job says nothing but the version that was read.
LEMMA SoundFailed ==
    ASSUME NEW im, NEW ku, NEW st, NEW x \in Job, Sound(im, ku, st, x)
    PROVE  Sound(im, ku, st, [x EXCEPT !.phase = "Failed"])
BY DEF Sound, Job, BeforeReboot

\* What initJob decides.
LEMMA SoundInit ==
    ASSUME Upgrading, CleanStart, InitJob
    PROVE  SoundNow(Current)'
<1> DEFINE read == [local EXCEPT !.kubernetes = copy.kubelet]
           S(x) == Sound(machine'.image, node'.kubelet, node'.static, x)
<1>1. UNCHANGED clusterVars
  BY QuietCluster DEF Quiet
<1>2. S(Current') => SoundNow(Current)'
  BY DEF SoundNow
<1>3. \A x : SoundNow(x) => S(x)
  BY <1>1 DEF SoundNow, clusterVars
<1>4. read \in Job /\ read.kubernetes = copy.kubelet /\ copy.kubelet \in Version
  BY DEF Upgrading, TypeOK, Job, Node
<1>5. copy.kubelet = "target" => node.kubelet = "target"
  BY DEF Upgrading, World
<1>6. NeedsTalosUpgrade(machine.image) /\ copy.kubelet = "target" => "target" \in Kubelets
  BY DEF Upgrading, World
<1>7. \A phase : LET x == [read EXCEPT !.phase = phase]
                IN  x.phase = phase /\ x.kubernetes = copy.kubelet
  BY <1>4 DEF Job
<1> HIDE DEF read
<1>8. SoundNow([read EXCEPT !.phase = "Failed"])
  BY <1>5, <1>7 DEF SoundNow, Sound, BeforeReboot
<1>9. NeedsTalosUpgrade(machine.image) => SoundNow([read EXCEPT !.phase = "Pending"])
  BY <1>5, <1>6, <1>7 DEF SoundNow, Sound, BeforeReboot, CleanStart, NeedsTalosUpgrade
<1>10. ~NeedsTalosUpgrade(machine.image) => SoundNow([read EXCEPT !.phase = "UpgradingKubernetes"])
  BY <1>5, <1>7 DEF SoundNow, Sound, BeforeReboot
<1>11. ~NeedsTalosUpgrade(machine.image) /\ ~NeedsKubernetesUpgrade
          => SoundNow([read EXCEPT !.phase = "Completed"])
  BY <1>5, <1>7 DEF SoundNow, Sound, BeforeReboot, NeedsKubernetesUpgrade, StaticReady
<1>12. \/ Current' = [read EXCEPT !.phase = "Failed"]
       \/ NeedsTalosUpgrade(machine.image) /\ Current' = [read EXCEPT !.phase = "Pending"]
       \/ /\ ~NeedsTalosUpgrade(machine.image)
          /\ Current' = [read EXCEPT !.phase = "UpgradingKubernetes"]
       \/ /\ ~NeedsTalosUpgrade(machine.image) /\ ~NeedsKubernetesUpgrade
          /\ Current' = [read EXCEPT !.phase = "Completed"]
  BY InitJobControl DEF Upgrading, Decided, read
<1> HIDE DEF S
<1> QED
  BY <1>2, <1>3, <1>8, <1>9, <1>10, <1>11, <1>12

\* What waitForReboot decides: the kubelet's version, read before, is the target's only
\* if the static pods are, too.
LEMMA SoundAfterReboot ==
    ASSUME Upgrading, CleanStart, WaitForReboot, Decided("uncordon", AfterReboot), ~OldVersion
    PROVE  SoundNow(AfterReboot)
<1>1. /\ local \in Job /\ base = local /\ base.phase = "Rebooting"
      /\ SoundNow(local) /\ World /\ machine.image \in Image
  BY DEF Upgrading, TypeOK, Machine, Control, Current, WaitForReboot, At
<1>2. ~NeedsTalosUpgrade(machine.image)
  BY <1>1 DEF OldVersion, NeedsTalosUpgrade, Rank, Image, World, CleanStart
<1>3. AfterReboot.kubernetes = local.kubernetes
      /\ AfterReboot.phase = IF KubernetesTarget /\ local.kubernetes # "target"
                             THEN "UpgradingKubernetes" ELSE "Completed"
  BY <1>1 DEF AfterReboot, Job
<1>4. KubernetesTarget /\ local.kubernetes = "target" =>
         node.kubelet = "target" /\ (ControlPlane => node.static = "target")
  BY <1>1 DEF SoundNow, Sound, World
<1> QED
  BY <1>1, <1>2, <1>3, <1>4 DEF SoundNow, Sound, BeforeReboot

LEMMA UpgradingNext ==
    ASSUME ~JobLag, CleanStart, Upgrading, [Next]_vars
    PROVE  Upgrading'
<1> DEFINE S(x) == Sound(machine'.image, node'.kubelet, node'.static, x)
<1>0. TypeOK /\ Control /\ World /\ SoundNow(job) /\ SoundNow(Current) /\ local \in Job
  BY DEF Upgrading, TypeOK
<1>1. TypeOK' /\ Control'
  BY <1>0, NextType, NextControl
<1>2. World' /\ Stable
  BY WorldStep
<1>3. \A x : SoundNow(x) => S(x)
  BY <1>2, SoundStable
<1>4. S(job) /\ S(Current) /\ S(NewJob)
  BY <1>0, <1>3 DEF Sound, NewJob, BeforeReboot
<1>5. pc # "idle" => S(local)
  BY <1>4 DEF Current
<1>6. S(job') /\ S(Current') => SoundNow(job)' /\ SoundNow(Current)'
  BY DEF SoundNow
<1>7. pc # "idle" => S([local EXCEPT !.phase = "Failed"])
  BY <1>0, <1>5, SoundFailed
<1>8. \A phase \in {"Draining", "Upgrading", "Rebooting"}, boot \in Nat :
         local.phase \in BeforeReboot /\ pc # "idle" =>
            /\ S([local EXCEPT !.phase = phase])
            /\ S([local EXCEPT !.phase = phase, !.preBoot = boot])
  BY <1>0, <1>5 DEF Sound, BeforeReboot, Job
<1> HIDE DEF S
<1>9. CASE UNCHANGED vars
  BY <1>4, <1>9 DEF vars, Current, S, Upgrading, World, SoundNow, TypeOK, Control
<1>10. CASE Elsewhere \/ Reconcile \/ Write \/ Abort \/ RetryJob \/ SyncJob
  <2>1. job' \in {job, Current, NewJob} /\ Current' \in {job, Current, NewJob}
    BY <1>0, <1>10, ElsewhereControl, ReconcileControl, WriteControl, AbortControl, RetryControl,
       SyncJobControl DEF operatorVars, Reconcile
  <2> QED
    BY <1>1, <1>2, <1>4, <1>6, <2>1 DEF Upgrading
<1>11. CASE Failing
  <2>1. job' = job /\ Current' \in {job, [local EXCEPT !.phase = "Failed"]} /\ pc # "idle"
    BY <1>0, <1>11, FailingControl DEF Failed
  <2> QED
    BY <1>1, <1>2, <1>4, <1>6, <1>7, <2>1 DEF Upgrading
<1>12. CASE InitJob
  BY <1>0, <1>1, <1>2, <1>4, <1>6, <1>12, SoundInit, InitJobControl DEF Upgrading, Decided, S, SoundNow
<1>13. CASE StartDrain \/ DrainNode \/ WaitForDrain \/ StartUpgrade
  <2>1. /\ job' = job /\ pc # "idle" /\ local.phase \in BeforeReboot
        /\ \/ Current' \in {job, Current, [local EXCEPT !.phase = "Failed"]}
           \/ \E phase \in {"Draining", "Upgrading", "Rebooting"}, boot \in Nat :
                 Current' \in {[local EXCEPT !.phase = phase],
                              [local EXCEPT !.phase = phase, !.preBoot = boot]}
    <3>1. pc \in {"run", "drain"} => local.phase = base.phase
      BY <1>0 DEF Control, Current
    <3>2. CASE StartDrain
      BY <1>0, <3>1, <3>2, StartDrainControl DEF Decided, BeforeReboot
    <3>3. CASE DrainNode
      BY <1>0, <3>1, <3>3, DrainNodeControl DEF Decided, Waits, Failed, BeforeReboot
    <3>4. CASE WaitForDrain
      BY <1>0, <3>1, <3>4, WaitForDrainControl DEF Decided, Waits, BeforeReboot
    <3>5. CASE StartUpgrade
      <4>1. copy.boot \in Nat
        BY <1>0 DEF TypeOK, Node
      <4> QED
        BY <1>0, <3>1, <3>5, <4>1, StartUpgradeControl DEF Decided, BeforeReboot
    <3> QED
      BY <1>13, <3>2, <3>3, <3>4, <3>5
  <2> QED
    BY <1>1, <1>2, <1>4, <1>6, <1>7, <1>8, <2>1 DEF Upgrading
<1>14. CASE WaitForReboot
  <2>1. /\ job' = job /\ pc # "idle"
        /\ \/ Current' \in {job, [local EXCEPT !.phase = "Failed"]}
           \/ ~OldVersion /\ Decided("uncordon", AfterReboot) /\ Current' = AfterReboot
    BY <1>0, <1>14, WaitForRebootControl DEF Decided, Waits, Failed
  <2>2. ~OldVersion /\ Decided("uncordon", AfterReboot) => S(AfterReboot)
    BY <1>3, <1>14, SoundAfterReboot
  <2> QED
    BY <1>1, <1>2, <1>4, <1>6, <1>7, <2>1, <2>2 DEF Upgrading
<1>15. CASE UncordonNode \/ UncordonFails \/ StartKubernetesUpgrade
  <2>1. job' = job /\ Current' = Current
    BY <1>0, <1>15, UncordonControl, StartKubernetesUpgradeControl DEF Decided
  <2> QED
    BY <1>1, <1>2, <1>4, <1>6, <2>1 DEF Upgrading
<1>16. CASE PatchKubelet
  <2>1. /\ job' = job /\ pc # "idle" /\ local.phase = "UpgradingKubernetes"
        /\ Current' = [local EXCEPT !.phase = "ValidatingKubernetes"]
    BY <1>0, <1>16, PatchKubeletControl DEF Decided, Control, Current
  <2>2. S([local EXCEPT !.phase = "ValidatingKubernetes"])
    BY <1>0, <1>5, <2>1 DEF S, Sound, BeforeReboot, Job
  <2> QED
    BY <1>1, <1>2, <1>4, <1>6, <2>1, <2>2 DEF Upgrading
<1>17. CASE WaitForKubernetesUpgrade
  <2> DEFINE x == [local EXCEPT !.phase = "Completed", !.kubernetes = "target"]
  <2>1. /\ job' = job /\ pc # "idle" /\ local.phase = "ValidatingKubernetes"
        /\ Current' = job \/ (RolledOut /\ Current' = x)
    BY <1>0, <1>17, WaitForKubernetesUpgradeControl DEF Decided, Waits, Control, Current
  <2>2. x.phase = "Completed" /\ x.kubernetes = "target"
    BY <1>0 DEF Job
  <2>3. RolledOut => node.kubelet = "target" /\ (ControlPlane => node.static = "target")
    BY <1>0 DEF RolledOut, StaticReady, World
  <2>4. ~NeedsTalosUpgrade(machine.image)
    BY <1>0, <2>1 DEF SoundNow, Sound, Current
  <2> HIDE DEF x
  <2>5. RolledOut => SoundNow(x)
    BY <2>2, <2>3, <2>4 DEF SoundNow, Sound, BeforeReboot
  <2> QED
    BY <1>1, <1>2, <1>3, <1>4, <1>6, <2>1, <2>5 DEF Upgrading
<1> QED
  BY <1>9, <1>10, <1>11, <1>12, <1>13, <1>14, <1>15, <1>16, <1>17 DEF Next, Elsewhere, Failing

\* Completed means that the node runs what the target names, whatever is lost, retried,
\* timed out, cordoned or rebooted meanwhile, and however late the Node is seen.  A node
\* that starts half upgraded (CleanStart) is excepted: see "Divergences" in the README.
THEOREM CompletedHolds ==
    ASSUME ~JobLag, CleanStart
    PROVE  Spec => []CompletedIsUpgraded
<1>1. Init => Upgrading
  BY UpgradingInit
<1>2. Upgrading /\ [Next]_vars => Upgrading'
  BY UpgradingNext
<1>3. Upgrading => CompletedIsUpgraded
  BY DEF Upgrading, SoundNow, Sound, CompletedIsUpgraded, OnTarget
<1> QED
  BY <1>1, <1>2, <1>3, PTL DEF Spec

-----------------------------------------------------------------------------
(* A node is cordoned and drained before it reboots, and healthy when it is  *)
(* released.                                                                 *)

\* Nobody but the job touches the node, and no call is lost.
Calm == ~JobLag /\ MaxFaults = 0 /\ MaxAdmins = 0 /\ MaxRetries = 0

Course ==
    /\ Current.phase \in BeforeReboot \cup {"New"} => Current.preBoot = 0
    /\ Current.preBoot = 0 => machine.boot = 1 /\ ~machine.upgrade
    /\ Current.phase = "Rebooting" => Current.preBoot = 1
    /\ job.phase = "Rebooting" => job.preBoot = 1
    /\ pc = "uncordon" => Current.preBoot = 0 \/ base.phase = "Rebooting"

\* The node reboots once: in its second boot it was not told to reboot again.
Boots ==
    /\ machine.boot \in {1, 2}
    /\ machine.boot = 1 => machine.state = "running"
    /\ machine.boot = 2 => ~machine.upgrade
    /\ node.boot \in {1, 2} /\ nodeSeen.boot \in {1, 2}
    /\ node.boot = 2 => machine.boot = 2 /\ machine.state = "running"
    /\ nodeSeen.boot = 2 => node.boot = 2 /\ (nodeSeen.ready => node.ready)
    /\ pc # "idle" => /\ copy.boot \in {1, 2}
                      /\ copy.boot = 2 => node.boot = 2 /\ (copy.ready => node.ready)
    /\ pc = "uncordon" /\ base.phase = "Rebooting" => node.boot = 2 /\ node.ready

\* The job has cordoned its node, or has seen that it is.
Closes ==
    \/ Current.phase \in {"Draining", "Upgrading", "Rebooting"}
    \/ pc = "drain"
    \/ pc = "uncordon" /\ base.phase = "Rebooting"
    \/ Current.phase \in {"New", "Pending"} /\ nodeSeen.cordon # "no"

Cordoned ==
    /\ Closes => node.cordon # "no"
    /\ Current.phase = "Upgrading" => pods = "none"

Rebooting == TypeOK /\ Control /\ Course /\ Boots /\ Cordoned /\ RebootsCordoned

LEMMA RebootingInit == ASSUME Init PROVE Rebooting
<1>1. TypeOK /\ Control
  BY InitType, ControlInit
<1>2. machine.boot = 1 /\ ~machine.upgrade /\ machine.state = "running"
  BY DEF Init
<1>3. Current = NewJob /\ job = NewJob /\ pc = "idle"
  BY DEF Init, Current
<1>4. node.boot = 1 /\ nodeSeen.boot = 1 /\ nodeSeen.cordon = "no"
  BY DEF Init
<1> QED
  BY <1>1, <1>2, <1>3, <1>4 DEF Rebooting, Course, Boots, Cordoned, Closes, RebootsCordoned, NewJob

LEMMA CalmSteps ==
    ASSUME Calm, TypeOK
    PROVE  ~Abort /\ ~UpgradeReplyLost /\ ~UncordonFails /\ ~AdminCordons /\ ~AdminUncordons
           /\ ~RetryJob
<1>1. ~(faults < MaxFaults) /\ ~(admins < MaxAdmins) /\ ~(retries < MaxRetries)
  BY DEF Calm, TypeOK
<1> QED
  BY <1>1 DEF Abort, UpgradeReplyLost, UncordonFails, AdminCordons, AdminUncordons, RetryJob

\* What the job's own record says of the machine.
LEMMA CourseNext ==
    ASSUME Calm, Rebooting, [Next]_vars
    PROVE  Course'
<1>0. /\ TypeOK /\ Control /\ Course /\ ~JobLag /\ local \in Job /\ machine \in Machine
      /\ copy \in Node
  BY DEF Rebooting, TypeOK, Calm
<1> DEFINE Told == machine'.boot = machine.boot /\ (machine'.upgrade => machine.upgrade)
<1>1. CASE UNCHANGED vars
  BY <1>0, <1>1 DEF vars, Course, Current
<1>2. CASE Reboot
  <2>1. machine.upgrade
    BY <1>2 DEF Reboot
  <2>2. Current' = Current /\ job' = job /\ pc' = pc /\ base' = base
    BY <1>2, ElsewhereControl DEF Elsewhere, operatorVars
  <2> QED
    BY <1>0, <2>1, <2>2 DEF Course
<1>3. CASE Elsewhere /\ ~Reboot
  <2>1. Told
    BY <1>0, <1>3 DEF Elsewhere, InstallFails, TalosAnswers, KubeletStarts, NodeReports,
       StaticPodsReport, NodeLost, PodScheduled, PodsEnd, SyncNode, AdminCordons, AdminUncordons,
       Machine
  <2>2. Current' = Current /\ job' = job /\ pc' = pc /\ base' = base
    BY <1>3, ElsewhereControl DEF operatorVars
  <2> QED
    BY <1>0, <2>1, <2>2 DEF Course
<1>4. CASE Reconcile \/ Write \/ SyncJob
  <2>1. Current' = Current /\ job' \in {job, Current} /\ machine' = machine
    BY <1>0, <1>4, ReconcileControl, WriteControl, SyncJobControl, QuietCluster
    DEF operatorVars, Reconcile, Quiet, clusterVars
  <2>2. pc' = "uncordon" => pc = "uncordon" /\ base' = base
    BY <1>0, <1>4, ReconcileControl, WriteControl, SyncJobControl DEF operatorVars
  <2> QED
    BY <1>0, <2>1, <2>2 DEF Course
<1>5. CASE Failing
  <2>1. /\ job' = job /\ pc # "idle" /\ machine' = machine
        /\ pc = "uncordon" => base.phase = "Rebooting"
        /\ (pc' = "idle" /\ Current' = job) \/ Failed
    BY <1>0, <1>5, FailingControl, QuietCluster, CalmSteps DEF Failing, Quiet, clusterVars
  <2>2. pc \notin {"uncordon", "write"}
           => Current = job /\ base = job
    BY <1>0, <2>1 DEF Control, TypeOK
  <2>3. pc # "write"
    BY <1>5 DEF Failing, Errs, Misconfigured, DrainBlockedTooLong, DrainTimedOut,
       UpgradeReplyLost, RebootTimedOut, KubernetesTimedOut, At
  <2>4. CASE pc' = "idle" /\ Current' = job
    BY <1>0, <2>1, <2>2, <2>3, <2>4 DEF Course, Control, BeforeReboot
  <2>5. CASE Failed
    <3>1. Current'.phase = "Failed" /\ Current'.preBoot = Current.preBoot
      BY <1>0, <2>1, <2>5 DEF Failed, Current, Job
    <3>2. pc' = "uncordon" => base.phase \in BeforeReboot
      BY <2>5 DEF Failed
    <3> QED
      BY <1>0, <2>1, <2>2, <2>3, <3>1, <3>2 DEF Course, BeforeReboot
  <2> QED
    BY <2>1, <2>4, <2>5
<1>6. CASE InitJob
  <2>1. machine' = machine /\ pc = "run" /\ job.phase = "New" /\ Current = job
    BY <1>0, <1>6, QuietCluster DEF Quiet, clusterVars, InitJob, At, Control
  <2>2. Current'.preBoot = Current.preBoot /\ Current'.phase # "Rebooting" /\ job' = job
    BY <1>0, <1>6, InitJobControl DEF Decided, Job
  <2> QED
    BY <1>0, <2>1, <2>2 DEF Course
<1>7. CASE StartDrain \/ DrainNode \/ WaitForDrain
  <2>1. /\ machine' = machine /\ Current = job /\ base = job /\ job' = job
        /\ job.phase \in BeforeReboot /\ Current = local
    BY <1>0, <1>7, StartDrainControl, DrainNodeControl, WaitForDrainControl, QuietCluster
    DEF Quiet, clusterVars, Control, StartDrain, DrainNode, Current, Decided, Waits, Failed,
        BeforeReboot
  <2>2. Current'.preBoot = Current.preBoot /\ Current'.phase # "Rebooting"
    BY <1>0, <1>7, <2>1, StartDrainControl, DrainNodeControl, WaitForDrainControl
    DEF Decided, Waits, Failed, Job, BeforeReboot
  <2> QED
    BY <1>0, <2>1, <2>2 DEF Course
<1>8. CASE StartUpgrade
  <2>1. /\ Current = job /\ job' = job /\ Current.phase = "Upgrading" /\ pc' = "write"
        /\ Current' = [local EXCEPT !.phase = "Rebooting", !.preBoot = copy.boot] /\ pc = "run"
    BY <1>0, <1>8, StartUpgradeControl DEF Control, Decided
  <2>2. machine.boot = 1
    BY <1>0, <2>1 DEF Course, BeforeReboot
  <2>3. copy.boot = 1
    BY <2>1, <2>2 DEF Rebooting, Boots
  <2>4. Current'.phase = "Rebooting" /\ Current'.preBoot = 1
    BY <1>0, <2>1, <2>3 DEF Job
  <2> QED
    BY <1>0, <2>1, <2>4 DEF Course, BeforeReboot
<1>9. CASE WaitForReboot
  <2>1. /\ machine' = machine /\ Current = job /\ base = job /\ job' = job
        /\ job.phase = "Rebooting" /\ Current = local
    BY <1>0, <1>9, WaitForRebootControl, QuietCluster
    DEF Quiet, clusterVars, Control, Current, Decided, Waits, Failed
  <2>2. Current'.preBoot = Current.preBoot
    BY <1>0, <1>9, <2>1, WaitForRebootControl DEF Decided, Waits, Failed, AfterReboot, Job
  <2> QED
    BY <1>0, <1>9, <2>1, <2>2, WaitForRebootControl
    DEF Course, BeforeReboot, Decided, Waits, Failed, AfterReboot, Job
<1>10. CASE UncordonNode \/ StartKubernetesUpgrade
  <2>1. Told
    BY <1>0, <1>10 DEF UncordonNode, StartKubernetesUpgrade, Machine
  <2>2. job' = job /\ Current' = Current /\ pc' # "uncordon"
    BY <1>0, <1>10, UncordonControl, StartKubernetesUpgradeControl DEF Decided
  <2> QED
    BY <1>0, <2>1, <2>2 DEF Course
<1>11. CASE PatchKubelet \/ WaitForKubernetesUpgrade
  <2>1. Told
    BY <1>0, <1>11, QuietCluster DEF Quiet, clusterVars, PatchKubelet, Machine
  <2>2. job' = job /\ pc' # "uncordon" /\ Current = job /\ Current = local
    BY <1>0, <1>11, PatchKubeletControl, WaitForKubernetesUpgradeControl
    DEF Decided, Waits, Control, Current
  <2>3. /\ Current'.preBoot = Current.preBoot
        /\ Current'.phase \in {"ValidatingKubernetes", "Completed"}
    <3>1. CASE PatchKubelet
      BY <1>0, <2>2, <3>1, PatchKubeletControl DEF Decided, Job
    <3>2. CASE WaitForKubernetesUpgrade
      <4>1. job.phase = "ValidatingKubernetes"
        BY <1>0, <3>2, WaitForKubernetesUpgradeControl DEF Control
      <4>2. \/ Current' = job
            \/ Current' = [local EXCEPT !.phase = "Completed", !.kubernetes = "target"]
        BY <1>0, <3>2, WaitForKubernetesUpgradeControl DEF Decided, Waits
      <4> QED
        BY <1>0, <2>2, <4>1, <4>2 DEF Job
    <3> QED
      BY <1>11, <3>1, <3>2
  <2> QED
    BY <1>0, <2>1, <2>2, <2>3 DEF Course, BeforeReboot
<1> QED
  BY <1>0, <1>1, <1>2, <1>3, <1>4, <1>5, <1>6, <1>7, <1>8, <1>9, <1>10, <1>11, CalmSteps
  DEF Next, Elsewhere, Failing

\* The machine reboots once, and what is read of it is not newer than it is.
LEMMA BootsNext ==
    ASSUME Calm, Rebooting, [Next]_vars
    PROVE  Boots'
<1>0. /\ TypeOK /\ Control /\ Course /\ Boots /\ ~JobLag /\ machine \in Machine /\ node \in Node
  BY DEF Rebooting, TypeOK, Calm
<1>1. CASE UNCHANGED vars
  BY <1>0, <1>1 DEF vars, Boots
<1>2. CASE Elsewhere \/ SyncJob
  <2>1. pc' = pc /\ copy' = copy /\ base' = base
    BY <1>0, <1>2, ElsewhereControl, SyncJobControl DEF operatorVars
  <2>2. CASE Reboot
    <3>1. PICK image : machine' = [machine EXCEPT !.upgrade = FALSE, !.state = "down",
                                                  !.boot = machine.boot + 1, !.image = image]
      BY <2>2 DEF Reboot
    <3>2. machine.boot = 1 /\ node' = node /\ nodeSeen' = nodeSeen
      BY <1>0, <2>2 DEF Boots, Reboot
    <3>3. machine'.boot = 2 /\ ~machine'.upgrade
      BY <1>0, <3>1, <3>2 DEF Machine
    <3> QED
      BY <1>0, <2>1, <3>2, <3>3 DEF Boots
  <2>3. CASE InstallFails \/ TalosAnswers \/ KubeletStarts
    <3>1. /\ machine'.boot = machine.boot /\ node' = node /\ nodeSeen' = nodeSeen
          /\ machine'.upgrade => machine.upgrade
          /\ machine'.state = machine.state \/ machine.state # "running"
      BY <1>0, <2>3 DEF InstallFails, TalosAnswers, KubeletStarts, Machine
    <3> QED
      BY <1>0, <2>1, <3>1 DEF Boots
  <2>4. CASE NodeReports
    <3>1. PICK ready \in (IF node.boot = machine.boot THEN {node.ready, TRUE} ELSE BOOLEAN) :
            SetNode([node EXCEPT !.boot = machine.boot, !.kubelet = machine.kubelet,
                                 !.ready = ready])
      BY <2>4 DEF NodeReports
    <3>2. /\ machine' = machine /\ machine.state = "running"
          /\ node'.boot = machine.boot /\ node'.ready = ready /\ nodeSeen' \in {nodeSeen, node'}
      BY <1>0, <2>4, <3>1 DEF NodeReports, SetNode, Node
    <3>3. node.boot = 2 => node'.boot = 2 /\ (node.ready => node'.ready)
      BY <1>0, <3>1, <3>2 DEF Boots
    <3> QED
      BY <1>0, <2>1, <3>2, <3>3 DEF Boots
  <2>5. CASE StaticPodsReport
    <3>1. /\ machine' = machine /\ nodeSeen' \in {nodeSeen, node'}
          /\ node'.boot = node.boot /\ node'.ready = node.ready
      BY <1>0, <2>5 DEF StaticPodsReport, SetNode, Node
    <3> QED
      BY <1>0, <2>1, <3>1 DEF Boots
  <2>6. CASE NodeLost
    <3>1. /\ machine' = machine /\ nodeSeen' \in {nodeSeen, node'}
          /\ node'.boot = node.boot /\ machine.state # "running"
      BY <1>0, <2>6 DEF NodeLost, SetNode, Node
    <3> QED
      BY <1>0, <2>1, <3>1 DEF Boots
  <2>7. CASE PodScheduled \/ PodsEnd \/ SyncNode \/ SyncJob
    <3>1. machine' = machine /\ node' = node /\ nodeSeen' \in {nodeSeen, node}
      BY <2>7 DEF PodScheduled, PodsEnd, SyncNode, SyncJob, clusterVars
    <3> QED
      BY <1>0, <2>1, <3>1 DEF Boots
  <2> QED
    BY <1>0, <1>2, <2>2, <2>3, <2>4, <2>5, <2>6, <2>7, CalmSteps DEF Elsewhere
<1>3. CASE Reconcile
  <2>1. /\ machine' = machine /\ node' = node /\ nodeSeen' = nodeSeen
        /\ pc' # "idle" => pc' = "run" /\ copy' = nodeSeen
    BY <1>0, <1>3, ReconcileControl, QuietCluster DEF Quiet, clusterVars
  <2> QED
    BY <1>0, <2>1 DEF Boots
<1>4. CASE Write \/ Failing
  <2>1. /\ machine' = machine /\ node' = node /\ nodeSeen' = nodeSeen
    BY <1>0, <1>4, QuietCluster, CalmSteps DEF Failing, Quiet, clusterVars
  <2>2. \/ pc' = "idle"
        \/ /\ pc # "idle" /\ copy' = copy /\ base' = base
           /\ pc' = "uncordon" => base.phase \in BeforeReboot
    BY <1>0, <1>4, WriteControl, FailingControl DEF Failed
  <2> QED
    BY <1>0, <2>1, <2>2 DEF Boots, BeforeReboot
<1>5. CASE InitJob \/ StartDrain \/ DrainNode \/ WaitForDrain \/ StartKubernetesUpgrade
           \/ PatchKubelet \/ WaitForKubernetesUpgrade \/ StartUpgrade
  <2>1. \/ pc' = "idle"
        \/ pc # "idle" /\ copy' = copy /\ base' = base /\ base.phase # "Rebooting"
    <3>1. CASE InitJob
      BY <1>0, <3>1, InitJobControl DEF Decided, InitJob, At
    <3>2. CASE StartDrain \/ DrainNode \/ WaitForDrain \/ StartUpgrade
      BY <1>0, <3>2, StartDrainControl, DrainNodeControl, WaitForDrainControl, StartUpgradeControl
      DEF Decided, Waits, Failed
    <3>3. CASE StartKubernetesUpgrade
      BY <1>0, <3>3, StartKubernetesUpgradeControl DEF Decided, StartKubernetesUpgrade, At
    <3>4. CASE PatchKubelet \/ WaitForKubernetesUpgrade
      BY <1>0, <3>4, PatchKubeletControl, WaitForKubernetesUpgradeControl DEF Decided, Waits
    <3> QED
      BY <1>5, <3>1, <3>2, <3>3, <3>4
  <2>2. /\ machine'.boot = machine.boot /\ machine'.state = machine.state
        /\ machine'.upgrade => machine.upgrade \/ StartUpgrade
    <3>1. CASE InitJob \/ WaitForDrain \/ WaitForKubernetesUpgrade
      BY <3>1, QuietCluster DEF Quiet, clusterVars
    <3>2. CASE StartDrain \/ DrainNode
      BY <3>2 DEF StartDrain, DrainNode
    <3>3. CASE StartKubernetesUpgrade \/ PatchKubelet \/ StartUpgrade
      BY <1>0, <3>3 DEF StartKubernetesUpgrade, PatchKubelet, StartUpgrade, Machine
    <3> QED
      BY <1>5, <3>1, <3>2, <3>3
  <2>3. StartUpgrade => machine.boot = 1
    BY <1>0, StartUpgradeControl DEF Control, Course, BeforeReboot
  <2>4. /\ node'.boot = node.boot /\ node'.ready = node.ready /\ nodeSeen' \in {nodeSeen, node'}
    <3>1. CASE InitJob \/ WaitForDrain \/ WaitForKubernetesUpgrade
      BY <3>1, QuietCluster DEF Quiet, clusterVars
    <3>2. CASE StartDrain
      BY <1>0, <3>2 DEF StartDrain, CordonNode, SetNode, Node
    <3>3. CASE DrainNode \/ StartKubernetesUpgrade \/ PatchKubelet \/ StartUpgrade
      BY <3>3 DEF DrainNode, StartKubernetesUpgrade, PatchKubelet, StartUpgrade
    <3> QED
      BY <1>5, <3>1, <3>2, <3>3
  <2> QED
    BY <1>0, <2>1, <2>2, <2>3, <2>4 DEF Boots
<1>6. CASE WaitForReboot
  <2>1. /\ machine' = machine /\ node' = node /\ nodeSeen' = nodeSeen
        /\ pc = "run" /\ base.phase = "Rebooting"
        /\ \/ pc' = "idle"
           \/ copy' = copy /\ base' = base /\ (pc' = "uncordon" => ~Unhealthy)
    BY <1>0, <1>6, WaitForRebootControl, QuietCluster
    DEF Quiet, clusterVars, Waits, Failed, Decided, BeforeReboot
  <2>2. base.preBoot = 1
    BY <1>0, <2>1 DEF Control, Course
  <2>3. ~Unhealthy => copy.boot # 1 /\ copy.ready
    BY <2>2 DEF Unhealthy
  <2> QED
    BY <1>0, <2>1, <2>3 DEF Boots
<1>7. CASE UncordonNode
  <2>1. machine' = machine /\ pc' = "write" /\ copy' = copy /\ pc = "uncordon"
    BY <1>0, <1>7, UncordonControl DEF Decided, UncordonNode
  <2>2. /\ node'.boot = node.boot /\ node'.ready = node.ready /\ nodeSeen' \in {nodeSeen, node'}
    BY <1>0, <1>7 DEF UncordonNode, Released, SetNode, Node
  <2> QED
    BY <1>0, <2>1, <2>2 DEF Boots
<1> QED
  BY <1>0, <1>1, <1>2, <1>3, <1>4, <1>5, <1>6, <1>7, CalmSteps DEF Next, Elsewhere, Failing

\* Nobody but the job touches the cordon.
LEMMA CordonStep ==
    ASSUME Calm, TypeOK, [Next]_vars
    PROVE  /\ node'.cordon = node.cordon \/ StartDrain \/ UncordonNode
           /\ nodeSeen' \in {nodeSeen, node'}
<1>0. node \in Node
  BY DEF TypeOK
<1>1. nodeSeen' \in {nodeSeen, node'}
  BY NodeStep
<1>2. ASSUME Quiet \/ UNCHANGED vars PROVE node' = node
  BY <1>2, QuietCluster DEF vars, clusterVars
<1>3. ASSUME \/ DrainNode \/ StartUpgrade \/ StartKubernetesUpgrade \/ PatchKubelet \/ Reboot
             \/ InstallFails \/ TalosAnswers \/ KubeletStarts \/ PodScheduled \/ PodsEnd \/ SyncNode
      PROVE  node' = node
  BY <1>3 DEF DrainNode, StartUpgrade, StartKubernetesUpgrade, PatchKubelet, Reboot,
     InstallFails, TalosAnswers, KubeletStarts, PodScheduled, PodsEnd, SyncNode
<1>4. ASSUME NodeReports \/ StaticPodsReport \/ NodeLost PROVE node'.cordon = node.cordon
  BY <1>0, <1>4 DEF NodeReports, StaticPodsReport, NodeLost, SetNode, Node
<1> QED
  BY <1>1, <1>2, <1>3, <1>4, CalmSteps DEF Next, Quiet

\* A drain leaves the node cordoned.
LEMMA DrainCordons ==
    ASSUME Rebooting, StartDrain
    PROVE  node'.cordon # "no"
<1>1. node \in Node /\ base.phase = "Pending" /\ Current = base
  BY StartDrainControl DEF Rebooting, TypeOK, Control
<1>2. nodeSeen.cordon # "no" => node.cordon # "no"
  BY <1>1 DEF Rebooting, Cordoned, Closes
<1>3. CASE nodeSeen.cordon # "no"
  BY <1>2, <1>3 DEF StartDrain, CordonNode, SetNode
<1>4. CASE nodeSeen.cordon = "no"
  BY <1>1, <1>4 DEF StartDrain, CordonNode, SetNode, Node
<1> QED
  BY <1>3, <1>4

LEMMA RebootsCordonedNext ==
    ASSUME Calm, Rebooting, [Next]_vars
    PROVE  RebootsCordoned'
<1>0. /\ TypeOK /\ Control /\ Course /\ Boots /\ Cordoned /\ RebootsCordoned
      /\ machine \in Machine /\ node \in Node
  BY DEF Rebooting, TypeOK
<1>1. machine'.upgrade \/ machine'.state # "running" =>
         machine.upgrade \/ machine.state # "running" \/ StartUpgrade
  <2>1. CASE Quiet \/ UNCHANGED vars
    BY <2>1, QuietCluster DEF vars, clusterVars
  <2>2. CASE \/ StartDrain \/ DrainNode \/ UncordonNode \/ NodeReports \/ StaticPodsReport
             \/ NodeLost \/ PodScheduled \/ PodsEnd \/ SyncNode
    BY <2>2 DEF StartDrain, DrainNode, UncordonNode, NodeReports, StaticPodsReport, NodeLost,
       PodScheduled, PodsEnd, SyncNode
  <2>3. CASE \/ StartKubernetesUpgrade \/ PatchKubelet \/ Reboot \/ InstallFails
             \/ TalosAnswers \/ KubeletStarts
    BY <1>0, <2>3 DEF StartKubernetesUpgrade, PatchKubelet, Reboot, InstallFails, TalosAnswers,
       KubeletStarts, Machine
  <2> QED
    BY <1>0, <2>1, <2>2, <2>3, CalmSteps DEF Next, Quiet
<1>2. StartUpgrade => node.cordon # "no"
  BY <1>0, StartUpgradeControl DEF Control, Cordoned, Closes
<1>3. CASE StartDrain
  BY <1>3, DrainCordons DEF RebootsCordoned
<1>4. CASE UncordonNode
  <2>1. machine' = machine /\ pc = "uncordon" /\ ~StartUpgrade
    BY <1>4 DEF UncordonNode, StartUpgrade, At
  <2>2. ~machine.upgrade /\ machine.state = "running"
    BY <1>0, <2>1 DEF Course, Boots
  <2> QED
    BY <2>1, <2>2 DEF RebootsCordoned
<1>5. CASE ~StartDrain /\ ~UncordonNode
  <2>1. node'.cordon = node.cordon
    BY <1>0, <1>5, CordonStep
  <2> QED
    BY <1>0, <1>1, <1>2, <2>1 DEF RebootsCordoned
<1> QED
  BY <1>3, <1>4, <1>5

LEMMA CordonedNext ==
    ASSUME Calm, Rebooting, [Next]_vars
    PROVE  Cordoned'
<1>0. /\ TypeOK /\ Control /\ Cordoned /\ ~JobLag /\ local \in Job /\ node \in Node
      /\ nodeSeen' \in {nodeSeen, node'} /\ Control'
  BY CordonStep, NextControl DEF Rebooting, TypeOK, Calm
<1> DEFINE Same == node'.cordon = node.cordon
<1>1. CASE UNCHANGED vars
  BY <1>0, <1>1 DEF vars, Cordoned, Closes, Current
<1>2. CASE Elsewhere
  <2>1. Same
    BY <1>0, <1>2, CordonStep DEF Next, Elsewhere, StartDrain, UncordonNode, Reboot, InstallFails,
       TalosAnswers, KubeletStarts, NodeReports, StaticPodsReport, NodeLost, PodScheduled, PodsEnd,
       SyncNode, AdminCordons, AdminUncordons, At, operatorVars, Goto
  <2>2. Current' = Current /\ pc' = pc /\ base' = base
    BY <1>2, ElsewhereControl DEF operatorVars
  <2>3. pods' = pods \/ pods' = "none" \/ node.cordon = "no"
    BY <1>2 DEF Elsewhere, Reboot, InstallFails, TalosAnswers, KubeletStarts, NodeReports,
       StaticPodsReport, NodeLost, PodScheduled, PodsEnd, SyncNode, AdminCordons, AdminUncordons
  <2> QED
    BY <1>0, <2>1, <2>2, <2>3 DEF Cordoned, Closes
<1>3. CASE Reconcile \/ Write \/ SyncJob
  <2>1. Current' = Current /\ UNCHANGED clusterVars
    BY <1>0, <1>3, ReconcileControl, WriteControl, SyncJobControl, QuietCluster DEF Quiet
  <2>2. pc' \in {"idle", "run"} \/ (pc' = pc /\ base' = base)
    BY <1>0, <1>3, ReconcileControl, WriteControl, SyncJobControl DEF operatorVars
  <2> QED
    BY <1>0, <2>1, <2>2 DEF Cordoned, Closes, clusterVars
<1>4. CASE Failing
  <2>1. UNCHANGED clusterVars
    BY <1>0, <1>4, QuietCluster, CalmSteps DEF Failing, Quiet
  <2>2. CASE pc' = "idle" /\ Current' = job
    <3>1. Current = job \/ (pc = "uncordon" /\ base.phase = "Rebooting" /\ job.phase = "Rebooting")
      BY <1>0, <1>4, FailingControl DEF Control, Failing, Errs, Misconfigured, DrainBlockedTooLong,
         DrainTimedOut, UpgradeReplyLost, RebootTimedOut, KubernetesTimedOut, At
    <3> QED
      BY <1>0, <2>1, <2>2, <3>1 DEF Cordoned, Closes, clusterVars
  <2>3. CASE Failed
    <3>1. Current'.phase = "Failed"
      BY <1>0, <2>3 DEF Failed, Job
    <3>2. pc' # "drain" /\ (pc' = "uncordon" => base'.phase # "Rebooting")
      BY <2>3 DEF Failed, BeforeReboot
    <3> QED
      BY <3>1, <3>2 DEF Cordoned, Closes
  <2> QED
    BY <1>0, <1>4, <2>2, <2>3, FailingControl
<1>5. CASE InitJob
  <2>1. UNCHANGED clusterVars /\ pc = "run" /\ base.phase = "New" /\ Current.phase = "New"
    BY <1>0, <1>5, QuietCluster DEF Quiet, InitJob, At, Control
  <2>2. /\ Current'.phase \in {"Failed", "Pending", "UpgradingKubernetes", "Completed"}
        /\ pc' # "drain" /\ base' = base
    BY <1>0, <1>5, InitJobControl DEF Decided, Job
  <2> QED
    BY <1>0, <2>1, <2>2 DEF Cordoned, Closes, clusterVars
<1>6. CASE StartDrain
  <2>1. Current'.phase = "Pending" /\ node'.cordon # "no"
    BY <1>0, <1>6, StartDrainControl, DrainCordons DEF Decided, Control
  <2> QED
    BY <2>1 DEF Cordoned, Closes
<1>7. CASE DrainNode \/ WaitForDrain
  <2>1. node' = node /\ nodeSeen' = nodeSeen /\ (WaitForDrain => pods' = pods)
    BY <1>7, QuietCluster DEF DrainNode, Quiet, clusterVars
  <2>2. Current = job /\ job.phase \in {"Pending", "Draining"} /\ node.cordon # "no"
    BY <1>0, <1>7, DrainNodeControl, WaitForDrainControl DEF Control, Cordoned, Closes
  <2>3. Current'.phase = "Upgrading" => WaitForDrain /\ IsDrained
    BY <1>0, <1>7, <2>2, DrainNodeControl, WaitForDrainControl DEF Decided, Waits, Failed, Job
  <2> QED
    BY <2>1, <2>2, <2>3 DEF Cordoned, Closes, IsDrained
<1>8. CASE StartUpgrade
  <2>1. node' = node /\ nodeSeen' = nodeSeen /\ Current'.phase = "Rebooting"
    BY <1>0, <1>8, StartUpgradeControl DEF Decided, StartUpgrade, Job
  <2>2. node.cordon # "no"
    BY <1>0, <1>8, StartUpgradeControl DEF Control, Cordoned, Closes
  <2> QED
    BY <2>1, <2>2 DEF Cordoned, Closes
<1>9. CASE WaitForReboot
  <2>1. node' = node /\ nodeSeen' = nodeSeen
    BY <1>9, QuietCluster DEF Quiet, clusterVars
  <2>2. node.cordon # "no" /\ Current = job /\ job.phase = "Rebooting"
    BY <1>0, <1>9, WaitForRebootControl DEF Control, Cordoned, Closes
  <2>3. Current'.phase # "Upgrading"
    BY <1>0, <1>9, <2>2, WaitForRebootControl DEF Decided, Waits, Failed, AfterReboot, Job
  <2> QED
    BY <2>1, <2>2, <2>3 DEF Cordoned, Closes
<1>10. CASE UncordonNode
  <2>1. pc' = "write" /\ Current' = local /\ local.phase \in Terminal \cup {"UpgradingKubernetes"}
    BY <1>0, <1>10, UncordonControl DEF Decided, Control
  <2> QED
    BY <2>1 DEF Cordoned, Closes, Terminal
<1>11. CASE StartKubernetesUpgrade \/ PatchKubelet \/ WaitForKubernetesUpgrade
  <2>1. Current'.phase \in {"UpgradingKubernetes", "ValidatingKubernetes", "Completed"}
    <3>1. CASE StartKubernetesUpgrade
      BY <1>0, <3>1, StartKubernetesUpgradeControl DEF Decided, Control, StartKubernetesUpgrade, At
    <3>2. CASE PatchKubelet
      BY <1>0, <3>2, PatchKubeletControl DEF Decided, Job
    <3>3. CASE WaitForKubernetesUpgrade
      BY <1>0, <3>3, WaitForKubernetesUpgradeControl DEF Decided, Waits, Control, Job
    <3> QED
      BY <1>11, <3>1, <3>2, <3>3
  <2>2. pc' \notin {"drain", "uncordon"}
    BY <1>0, <1>11, StartKubernetesUpgradeControl, PatchKubeletControl,
       WaitForKubernetesUpgradeControl DEF Decided, Waits
  <2> QED
    BY <2>1, <2>2 DEF Cordoned, Closes
<1> QED
  BY <1>0, <1>1, <1>2, <1>3, <1>4, <1>5, <1>6, <1>7, <1>8, <1>9, <1>10, <1>11, CalmSteps
  DEF Next, Elsewhere, Failing

LEMMA RebootingNext ==
    ASSUME Calm, Rebooting, [Next]_vars
    PROVE  Rebooting'
BY NextType, NextControl, CourseNext, BootsNext, CordonedNext, RebootsCordonedNext
DEF Rebooting, Calm

\* A node that is about to reboot, or reboots, is cordoned, however late the Node is seen.
\* A lost reply or write, an administrator and a deleted job are excepted (Calm): with one
\* of them a cordon is lost, see "Divergences" in the README.
THEOREM RebootsAreCordoned ==
    ASSUME Calm
    PROVE  Spec => []RebootsCordoned
<1>1. Init => Rebooting
  BY RebootingInit
<1>2. Rebooting /\ [Next]_vars => Rebooting'
  BY RebootingNext
<1>3. Rebooting => RebootsCordoned
  BY DEF Rebooting
<1> QED
  BY <1>1, <1>2, <1>3, PTL DEF Spec

\* waitForReboot uncordons a node that a kubelet of the running boot has reported Ready,
\* however late the Node is seen.
THEOREM ReleasesAreHealthy ==
    ASSUME Calm
    PROVE  Spec => ReleasedHealthy
<1>1. Init => Rebooting
  BY RebootingInit
<1>2. Rebooting /\ [Next]_vars => Rebooting'
  BY RebootingNext
<1>3. Rebooting /\ pc = "uncordon" /\ base.phase = "Rebooting"
         => node.boot = machine.boot /\ node.ready
  BY DEF Rebooting, Boots
<1> QED
  BY <1>1, <1>2, <1>3, PTL DEF Spec, ReleasedHealthy

\* The Upgrade call reaches a node that is drained and closed.
THEOREM UpgradesAreDrained ==
    ASSUME Calm
    PROVE  Spec => UpgradesDrained
<1>1. Init => Rebooting
  BY RebootingInit
<1>2. Rebooting /\ [Next]_vars => Rebooting'
  BY RebootingNext
<1>3. Rebooting /\ [Next]_vars /\ ~machine.upgrade /\ machine'.upgrade
         => pods = "none" /\ node.cordon # "no"
  <2> SUFFICES ASSUME Rebooting, [Next]_vars, ~machine.upgrade, machine'.upgrade
               PROVE  pods = "none" /\ node.cordon # "no"
    OBVIOUS
  <2>0. TypeOK /\ Control /\ Cordoned /\ machine \in Machine
    BY DEF Rebooting, TypeOK
  <2>1. ~Quiet /\ ~UNCHANGED vars
    BY QuietCluster DEF vars, clusterVars
  <2>2. ~(\/ StartDrain \/ DrainNode \/ UncordonNode \/ NodeReports \/ StaticPodsReport
          \/ NodeLost \/ PodScheduled \/ PodsEnd \/ SyncNode)
    BY DEF StartDrain, DrainNode, UncordonNode, NodeReports, StaticPodsReport, NodeLost,
       PodScheduled, PodsEnd, SyncNode
  <2>3. ~(\/ StartKubernetesUpgrade \/ PatchKubelet \/ Reboot \/ InstallFails
          \/ TalosAnswers \/ KubeletStarts)
    BY <2>0 DEF StartKubernetesUpgrade, PatchKubelet, Reboot, InstallFails, TalosAnswers,
       KubeletStarts, Machine
  <2>4. StartUpgrade
    BY <2>0, <2>1, <2>2, <2>3, CalmSteps DEF Next, Quiet
  <2>5. Current.phase = "Upgrading"
    BY <2>0, <2>4, StartUpgradeControl DEF Control
  <2> QED
    BY <2>0, <2>5 DEF Cordoned, Closes
<1> QED
  BY <1>1, <1>2, <1>3, PTL DEF Spec, UpgradesDrained

-----------------------------------------------------------------------------
(* A failed job leaves no cordon behind.                                     *)

Attended == ~JobLag /\ ~NodeLag /\ MaxFaults = 0 /\ MaxRetries = 0

Booted ==
    /\ machine.boot # 0 /\ node.boot # 0 /\ nodeSeen = node
    /\ pc # "idle" => copy.boot # 0
    /\ pc = "uncordon" /\ base.phase = "Rebooting" => Current.preBoot # 0
    /\ Current.phase = "Rebooting" => Current.preBoot # 0
    /\ job.phase = "Rebooting" => job.preBoot # 0

Held ==
    node.cordon = "operator" =>
        /\ node.ours
        /\ Current.preBoot # 0 \/ Current.phase \in BeforeReboot \/ pc = "uncordon"

Releasing == TypeOK /\ Control /\ Booted /\ Held

LEMMA ReleasingInit == ASSUME Init PROVE Releasing
<1>1. TypeOK /\ Control
  BY InitType, ControlInit
<1>2. machine.boot = 1
  BY DEF Init
<1>3. Current = NewJob /\ job = NewJob /\ pc = "idle"
  BY DEF Init, Current
<1>4. node.boot = 1 /\ nodeSeen = node /\ node.cordon = "no"
  BY DEF Init
<1> QED
  BY <1>1, <1>2, <1>3, <1>4 DEF Releasing, Booted, Held, NewJob

LEMMA AttendedSteps ==
    ASSUME Attended, TypeOK
    PROVE  ~Abort /\ ~UpgradeReplyLost /\ ~UncordonFails /\ ~RetryJob
<1>1. ~(faults < MaxFaults) /\ ~(retries < MaxRetries)
  BY DEF Attended, TypeOK
<1> QED
  BY <1>1 DEF Abort, UpgradeReplyLost, UncordonFails, RetryJob

\* Without a lag every reader of the Node sees the last write.
LEMMA NodeSeenStep ==
    ASSUME ~NodeLag, nodeSeen = node, [Next]_vars
    PROVE  nodeSeen' = node'
<1>1. CASE Quiet \/ UNCHANGED vars
  BY <1>1, QuietCluster DEF vars, clusterVars
<1>2. CASE \/ DrainNode \/ StartUpgrade \/ UpgradeReplyLost \/ StartKubernetesUpgrade
           \/ PatchKubelet \/ Reboot \/ InstallFails \/ TalosAnswers \/ KubeletStarts
           \/ PodScheduled \/ PodsEnd \/ SyncNode
  BY <1>2 DEF DrainNode, StartUpgrade, UpgradeReplyLost, StartKubernetesUpgrade, PatchKubelet,
     Reboot, InstallFails, TalosAnswers, KubeletStarts, PodScheduled, PodsEnd, SyncNode
<1>3. CASE \/ StartDrain \/ UncordonNode \/ NodeReports \/ StaticPodsReport \/ NodeLost
           \/ AdminCordons \/ AdminUncordons
  <2>1. ASSUME NEW n, SetNode(n) PROVE nodeSeen' = node'
    BY <2>1 DEF SetNode
  <2>2. CASE StartDrain \/ UncordonNode
    BY <2>1, <2>2 DEF StartDrain, CordonNode, UncordonNode
  <2>3. CASE NodeReports \/ StaticPodsReport
    BY <2>1, <2>3 DEF NodeReports, StaticPodsReport
  <2>4. CASE NodeLost \/ AdminCordons \/ AdminUncordons
    BY <2>1, <2>4 DEF NodeLost, AdminCordons, AdminUncordons
  <2> QED
    BY <1>3, <2>2, <2>3, <2>4
<1> QED
  BY <1>1, <1>2, <1>3 DEF Next, Quiet

\* A cordon of the operator is new only in startDrain, and its annotation goes with it.
LEMMA HeldStep ==
    ASSUME TypeOK, nodeSeen = node, [Next]_vars, node.cordon = "operator" => node.ours,
           node'.cordon = "operator"
    PROVE  node'.ours /\ ~UncordonNode /\ (StartDrain \/ node.cordon = "operator")
<1>0. node \in Node
  BY DEF TypeOK
<1>1. ~UncordonNode
  <2>1. ASSUME node.ours PROVE [node EXCEPT !.cordon = IF node.cordon # "no" THEN "no" ELSE @,
                                            !.ours = FALSE].cordon # "operator"
    BY <1>0 DEF Node
  <2> QED
    BY <1>0, <2>1 DEF UncordonNode, Released, SetNode
<1>2. CASE node' = node
  BY <1>1, <1>2
<1>3. CASE NodeReports \/ StaticPodsReport \/ NodeLost \/ AdminCordons \/ AdminUncordons
  <2>1. node'.ours = node.ours /\ node.cordon = "operator"
    BY <1>0, <1>3 DEF NodeReports, StaticPodsReport, NodeLost, AdminCordons, AdminUncordons,
       SetNode, Node
  <2> QED
    BY <1>1, <2>1
<1>4. CASE StartDrain
  <2>1. CASE nodeSeen.cordon # "no"
    BY <1>2, <1>4, <2>1 DEF StartDrain, CordonNode, SetNode
  <2>2. CASE nodeSeen.cordon = "no"
    <3>1. (nodeSeen.ours => node.ours) = TRUE
      BY Zenon
    <3>2. node' = [node EXCEPT !.cordon = IF node.cordon = "no" THEN "operator" ELSE node.cordon,
                               !.ours = TRUE]
      BY <1>4, <2>2, <3>1 DEF StartDrain, CordonNode, SetNode
    <3>3. node'.ours = TRUE
      BY <1>0, <3>2 DEF Node
    <3> QED
      BY <1>1, <1>4, <3>3
  <2> QED
    BY <2>1, <2>2
<1>5. CASE Quiet \/ UNCHANGED vars
  BY <1>2, <1>5, QuietCluster DEF vars, clusterVars
<1>6. CASE \/ DrainNode \/ StartUpgrade \/ UpgradeReplyLost \/ StartKubernetesUpgrade
           \/ PatchKubelet \/ Reboot \/ InstallFails \/ TalosAnswers \/ KubeletStarts
           \/ PodScheduled \/ PodsEnd \/ SyncNode
  BY <1>2, <1>6 DEF DrainNode, StartUpgrade, UpgradeReplyLost, StartKubernetesUpgrade,
     PatchKubelet, Reboot, InstallFails, TalosAnswers, KubeletStarts, PodScheduled, PodsEnd, SyncNode
<1> QED
  BY <1>1, <1>3, <1>4, <1>5, <1>6 DEF Next, Quiet

LEMMA BootedNext ==
    ASSUME Attended, Releasing, [Next]_vars
    PROVE  Booted'
<1>0. /\ TypeOK /\ Control /\ Booted /\ ~JobLag /\ ~NodeLag /\ local \in Job
      /\ machine \in Machine /\ node \in Node /\ nodeSeen = node
  BY DEF Releasing, TypeOK, Attended, Booted
<1>1. nodeSeen' = node'
  BY <1>0, NodeSeenStep
<1>2. machine'.boot # 0
  <2>1. CASE machine' = machine
    BY <1>0, <2>1 DEF Booted
  <2>2. CASE Reboot
    <3>1. PICK image : machine' = [machine EXCEPT !.upgrade = FALSE, !.state = "down",
                                                  !.boot = machine.boot + 1, !.image = image]
      BY <2>2 DEF Reboot
    <3> QED
      BY <1>0, <3>1 DEF Machine
  <2>3. CASE \/ StartUpgrade \/ UpgradeReplyLost \/ StartKubernetesUpgrade \/ PatchKubelet
             \/ InstallFails \/ TalosAnswers \/ KubeletStarts
    BY <1>0, <2>3 DEF Booted, StartUpgrade, UpgradeReplyLost, StartKubernetesUpgrade,
       PatchKubelet, InstallFails, TalosAnswers, KubeletStarts, Machine
  <2>4. CASE Quiet \/ UNCHANGED vars
    BY <2>1, <2>4, QuietCluster DEF vars, clusterVars
  <2>5. CASE \/ StartDrain \/ DrainNode \/ UncordonNode \/ NodeReports \/ StaticPodsReport
             \/ NodeLost \/ PodScheduled \/ PodsEnd \/ SyncNode \/ AdminCordons \/ AdminUncordons
    BY <2>1, <2>5 DEF StartDrain, DrainNode, UncordonNode, NodeReports, StaticPodsReport,
       NodeLost, PodScheduled, PodsEnd, SyncNode, AdminCordons, AdminUncordons
  <2> QED
    BY <2>2, <2>3, <2>4, <2>5 DEF Next, Quiet
<1>3. node'.boot # 0
  <2>1. CASE node' = node
    BY <1>0, <2>1 DEF Booted
  <2>2. CASE NodeReports
    BY <1>0, <2>2 DEF Booted, NodeReports, SetNode, Node
  <2>3. CASE StaticPodsReport \/ NodeLost \/ AdminCordons \/ AdminUncordons
    BY <1>0, <2>3 DEF Booted, StaticPodsReport, NodeLost, AdminCordons, AdminUncordons, SetNode, Node
  <2>4. CASE StartDrain
    BY <1>0, <2>4 DEF Booted, StartDrain, CordonNode, SetNode, Node
  <2>5. CASE UncordonNode
    BY <1>0, <2>5 DEF Booted, UncordonNode, Released, SetNode, Node
  <2>6. CASE Quiet \/ UNCHANGED vars
    BY <2>1, <2>6, QuietCluster DEF vars, clusterVars
  <2>7. CASE \/ DrainNode \/ StartUpgrade \/ UpgradeReplyLost \/ StartKubernetesUpgrade
             \/ PatchKubelet \/ Reboot \/ InstallFails \/ TalosAnswers \/ KubeletStarts
             \/ PodScheduled \/ PodsEnd \/ SyncNode
    BY <2>1, <2>7 DEF DrainNode, StartUpgrade, UpgradeReplyLost, StartKubernetesUpgrade,
       PatchKubelet, Reboot, InstallFails, TalosAnswers, KubeletStarts, PodScheduled, PodsEnd, SyncNode
  <2> QED
    BY <2>2, <2>3, <2>4, <2>5, <2>6, <2>7 DEF Next, Quiet
<1> DEFINE Told == /\ pc' # "idle" => copy'.boot # 0
                   /\ pc' = "uncordon" /\ base'.phase = "Rebooting" => Current'.preBoot # 0
                   /\ Current'.phase = "Rebooting" => Current'.preBoot # 0
                   /\ job'.phase = "Rebooting" => job'.preBoot # 0
<1>4. ASSUME Elsewhere \/ SyncJob \/ UNCHANGED vars PROVE Told
  <2>1. pc' = pc /\ copy' = copy /\ base' = base /\ Current' = Current /\ job' = job
    BY <1>0, <1>4, ElsewhereControl, SyncJobControl DEF operatorVars, vars, Current
  <2> QED
    BY <1>0, <2>1 DEF Booted
<1>5. ASSUME Reconcile PROVE Told
  BY <1>0, <1>5, ReconcileControl DEF Booted, Reconcile
<1>6. ASSUME Write PROVE Told
  BY <1>0, <1>6, WriteControl DEF Booted
<1>7. ASSUME Failing PROVE Told
  <2>1. /\ job' = job /\ pc # "idle"
        /\ \/ pc' = "idle" /\ Current' = job
           \/ /\ copy' = copy /\ Current' = [local EXCEPT !.phase = "Failed"]
              /\ pc' = "uncordon" => base'.phase # "Rebooting"
    BY <1>0, <1>7, FailingControl DEF Failed, BeforeReboot
  <2> QED
    BY <1>0, <2>1 DEF Booted, Job
<1>8. ASSUME InitJob PROVE Told
  <2>1. job' = job /\ pc # "idle" /\ copy' = copy /\ base'.phase = "New"
    BY <1>0, <1>8, InitJobControl DEF Decided, InitJob, At
  <2>2. Current'.phase # "Rebooting"
    BY <1>0, <1>8, InitJobControl DEF Decided, Job
  <2> QED
    BY <1>0, <2>1, <2>2 DEF Booted
<1>9. ASSUME StartDrain \/ DrainNode \/ WaitForDrain PROVE Told
  <2>1. /\ job' = job /\ pc # "idle" /\ (pc' = "idle" \/ copy' = copy)
        /\ job.phase \in {"Pending", "Draining"} /\ Current = job /\ Current = local
        /\ pc' # "idle" => base' = job
    BY <1>0, <1>9, StartDrainControl, DrainNodeControl, WaitForDrainControl
    DEF Decided, Waits, Failed, Control, Current
  <2>2. Current'.phase # "Rebooting"
    BY <1>0, <1>9, <2>1, StartDrainControl, DrainNodeControl, WaitForDrainControl
    DEF Decided, Waits, Failed, Job
  <2> QED
    BY <1>0, <2>1, <2>2 DEF Booted
<1>10. ASSUME StartUpgrade PROVE Told
  <2>1. /\ job' = job /\ pc # "idle" /\ copy' = copy /\ pc' = "write"
        /\ Current' = [local EXCEPT !.phase = "Rebooting", !.preBoot = copy.boot]
    BY <1>0, <1>10, StartUpgradeControl DEF Decided
  <2>2. Current'.preBoot = copy.boot
    BY <1>0, <2>1 DEF Job
  <2> QED
    BY <1>0, <2>1, <2>2 DEF Booted
<1>11. ASSUME WaitForReboot PROVE Told
  <2>1. /\ job' = job /\ pc # "idle" /\ (pc' = "idle" \/ copy' = copy)
        /\ Current'.phase = "Rebooting" => Current' = job
    BY <1>0, <1>11, WaitForRebootControl DEF Decided, Waits, Failed, AfterReboot, Job
  <2>2. local = job /\ job.preBoot # 0
    BY <1>0, <1>11, WaitForRebootControl DEF Control, Current, Booted
  <2>3. Current'.preBoot = job.preBoot
    BY <1>0, <1>11, <2>2, WaitForRebootControl DEF Decided, Waits, Failed, AfterReboot, Job
  <2> QED
    BY <1>0, <2>1, <2>2, <2>3 DEF Booted
<1>12. ASSUME UncordonNode \/ StartKubernetesUpgrade PROVE Told
  <2>1. job' = job /\ pc # "idle" /\ copy' = copy /\ Current' = Current /\ pc' # "uncordon"
    BY <1>0, <1>12, UncordonControl, StartKubernetesUpgradeControl DEF Decided
  <2> QED
    BY <1>0, <2>1 DEF Booted
<1>13. ASSUME PatchKubelet \/ WaitForKubernetesUpgrade PROVE Told
  <2>1. /\ job' = job /\ pc # "idle" /\ (pc' = "idle" \/ copy' = copy) /\ pc' # "uncordon"
        /\ Current'.phase = "Rebooting" => Current' = job
    <3>1. CASE PatchKubelet
      BY <1>0, <3>1, PatchKubeletControl DEF Decided, Job
    <3>2. CASE WaitForKubernetesUpgrade
      BY <1>0, <3>2, WaitForKubernetesUpgradeControl DEF Decided, Waits, Job
    <3> QED
      BY <1>13, <3>1, <3>2
  <2> QED
    BY <1>0, <2>1 DEF Booted
<1>14. Told
  <2> HIDE DEF Told
  <2> QED
    BY <1>0, <1>4, <1>5, <1>6, <1>7, <1>8, <1>9, <1>10, <1>11, <1>12, <1>13, AttendedSteps
    DEF Next, Elsewhere, Failing
<1> QED
  BY <1>1, <1>2, <1>3, <1>14 DEF Booted

LEMMA HeldNext ==
    ASSUME Attended, Releasing, [Next]_vars
    PROVE  Held'
<1> SUFFICES ASSUME node'.cordon = "operator"
             PROVE  /\ node'.ours
                    /\ \/ Current'.preBoot # 0
                       \/ Current'.phase \in BeforeReboot
                       \/ pc' = "uncordon"
  BY DEF Held
<1>0. /\ TypeOK /\ Control /\ Booted /\ Held /\ ~JobLag /\ local \in Job /\ nodeSeen = node
  BY DEF Releasing, TypeOK, Attended, Booted
<1>1. node'.ours /\ ~UncordonNode /\ (StartDrain \/ node.cordon = "operator")
  BY <1>0, HeldStep DEF Held
<1>2. CASE StartDrain
  BY <1>0, <1>1, <1>2, StartDrainControl DEF Decided, Control, BeforeReboot
<1>3. CASE node.cordon = "operator" /\ ~StartDrain
  <2>0. Current.preBoot # 0 \/ Current.phase \in BeforeReboot \/ pc = "uncordon"
    BY <1>0, <1>3 DEF Held
  <2>1. CASE Elsewhere \/ SyncJob \/ UNCHANGED vars
    <3>1. Current' = Current /\ pc' = pc
      BY <1>0, <2>1, ElsewhereControl, SyncJobControl DEF operatorVars, vars, Current
    <3> QED
      BY <1>1, <2>0, <3>1
  <2>2. CASE Reconcile \/ Write
    <3>1. Current' = Current /\ pc # "uncordon"
      BY <1>0, <2>2, ReconcileControl, WriteControl DEF Reconcile, Write
    <3> QED
      BY <1>1, <2>0, <3>1
  <2>3. CASE Failing
    <3>0. pc # "write"
      BY <2>3 DEF Failing, Errs, Misconfigured, DrainBlockedTooLong, DrainTimedOut,
         UpgradeReplyLost, RebootTimedOut, KubernetesTimedOut, At
    <3>1. pc # "uncordon" => Current = job /\ base = job /\ local = job
      BY <1>0, <2>3, <3>0, FailingControl DEF Control, TypeOK, Current
    <3>2. pc = "uncordon" => base.phase = "Rebooting" /\ job.phase = "Rebooting" /\ job.preBoot # 0
      BY <1>0, <2>3, FailingControl DEF Control, Booted
    <3>3. CASE pc' = "idle" /\ Current' = job
      BY <1>1, <2>0, <3>1, <3>2, <3>3
    <3>4. CASE Failed
      <4>1. Current'.preBoot = local.preBoot /\ (base.phase \in BeforeReboot => pc' = "uncordon")
        BY <1>0, <3>4 DEF Failed, Job
      <4>2. CASE pc # "uncordon"
        BY <1>1, <2>0, <3>1, <4>1, <4>2
      <4>3. CASE pc = "uncordon"
        BY <1>0, <1>1, <3>2, <4>1, <4>3 DEF Booted, Current
      <4> QED
        BY <4>2, <4>3
    <3> QED
      BY <1>0, <2>3, <3>3, <3>4, FailingControl
  <2>4. CASE InitJob
    <3>1. pc = "run" /\ Current = job /\ job.phase = "New" /\ local = job
      BY <1>0, <2>4 DEF InitJob, At, Control, Current
    <3>2. Current'.preBoot = local.preBoot
      BY <1>0, <2>4, InitJobControl DEF Decided, Job
    <3> QED
      BY <1>1, <2>0, <3>1, <3>2 DEF BeforeReboot
  <2>5. CASE DrainNode \/ WaitForDrain
    <3>1. job.phase \in {"Pending", "Draining"} /\ base = job
      BY <1>0, <2>5, DrainNodeControl, WaitForDrainControl DEF Control
    <3>2. Current'.phase \in BeforeReboot \/ pc' = "uncordon"
      <4>1. CASE DrainNode
        BY <1>0, <3>1, <4>1, DrainNodeControl DEF Decided, Waits, Failed, Job, BeforeReboot
      <4>2. CASE WaitForDrain
        BY <1>0, <3>1, <4>2, WaitForDrainControl DEF Decided, Waits, Job, BeforeReboot
      <4> QED
        BY <2>5, <4>1, <4>2
    <3> QED
      BY <1>1, <3>2
  <2>6. CASE StartUpgrade
    <3>1. Current' = [local EXCEPT !.phase = "Rebooting", !.preBoot = copy.boot] /\ pc # "idle"
      BY <1>0, <2>6, StartUpgradeControl DEF Decided
    <3>2. Current'.preBoot = copy.boot
      BY <1>0, <3>1 DEF Job
    <3> QED
      BY <1>0, <1>1, <3>1, <3>2 DEF Booted
  <2>7. CASE WaitForReboot
    <3>1. job.phase = "Rebooting" /\ job.preBoot # 0 /\ local = job
      BY <1>0, <2>7, WaitForRebootControl DEF Control, Booted, Current
    <3>2. Current'.preBoot = job.preBoot
      BY <1>0, <2>7, <3>1, WaitForRebootControl DEF Decided, Waits, Failed, AfterReboot, Job
    <3> QED
      BY <1>1, <3>1, <3>2
  <2>8. CASE StartKubernetesUpgrade \/ PatchKubelet \/ WaitForKubernetesUpgrade
    <3>1. /\ Current = job /\ local = job /\ base = job /\ pc # "uncordon"
          /\ job.phase \in {"UpgradingKubernetes", "ValidatingKubernetes"}
      <4>1. CASE StartKubernetesUpgrade
        BY <1>0, <4>1 DEF StartKubernetesUpgrade, At, Control, Current
      <4>2. CASE PatchKubelet \/ WaitForKubernetesUpgrade
        BY <1>0, <4>2, PatchKubeletControl, WaitForKubernetesUpgradeControl DEF Control, Current
      <4> QED
        BY <2>8, <4>1, <4>2
    <3>2. job.preBoot # 0
      BY <2>0, <3>1 DEF BeforeReboot
    <3>3. Current'.preBoot = job.preBoot
      <4>1. CASE StartKubernetesUpgrade
        BY <1>0, <3>1, <4>1, StartKubernetesUpgradeControl DEF Decided
      <4>2. CASE PatchKubelet
        BY <1>0, <3>1, <4>2, PatchKubeletControl DEF Decided, Job
      <4>3. CASE WaitForKubernetesUpgrade
        BY <1>0, <3>1, <4>3, WaitForKubernetesUpgradeControl DEF Decided, Waits, Job
      <4> QED
        BY <2>8, <4>1, <4>2, <4>3
    <3> QED
      BY <1>1, <3>2, <3>3
  <2> QED
    BY <1>0, <1>1, <1>3, <2>1, <2>2, <2>3, <2>4, <2>5, <2>6, <2>7, <2>8, AttendedSteps
    DEF Next, Elsewhere, Failing
<1> QED
  BY <1>1, <1>2, <1>3

\* A job that fails before its Upgrade call leaves no cordon of its own, whatever an
\* administrator cordons or uncordons meanwhile.  A lagging Node, a lost call and a deleted
\* job are excepted (Attended): see "Divergences" in the README.
THEOREM FailuresRelease ==
    ASSUME Attended
    PROVE  Spec => []FailureReleases
<1>1. Init => Releasing
  BY ReleasingInit
<1>2. Releasing /\ [Next]_vars => Releasing'
  BY NextType, NextControl, BootedNext, HeldNext DEF Releasing, Attended
<1>3. Releasing => FailureReleases
  <2> SUFFICES ASSUME Releasing, job.phase = "Failed", job.preBoot = 0
               PROVE  node.cordon # "operator"
    BY DEF FailureReleases
  <2>1. pc = "idle" /\ Current = job
    BY DEF Releasing, Control, Current, Terminal
  <2> QED
    BY <2>1 DEF Releasing, Held, BeforeReboot
<1> QED
  BY <1>1, <1>2, <1>3, PTL DEF Spec

-----------------------------------------------------------------------------
(* The cordon of an administrator.                                          *)

\* One administrator's step, and a Node cache that does not lag: the annotation of the
\* operator says whose cordon it is.  It survives an administrator's uncordon, so that a
\* second cordon would carry it too.
Heeded == ~NodeLag /\ MaxAdmins =< 1

Theirs ==
    /\ nodeSeen = node
    /\ admins =< MaxAdmins
    /\ node.cordon = "admin" => ~node.ours
    /\ node.ours => node.cordon = "operator" \/ admins = 1

\* Who touches a cordon or its annotation.
LEMMA CordonUntouched ==
    ASSUME TypeOK, [Next]_vars, ~StartDrain, ~UncordonNode, ~AdminCordons, ~AdminUncordons
    PROVE  node'.cordon = node.cordon /\ node'.ours = node.ours /\ admins' = admins
<1>0. node \in Node
  BY DEF TypeOK
<1>1. CASE Quiet
  <2>1. node' = node
    BY <1>1, QuietCluster DEF clusterVars
  <2>2. admins' = admins
    BY <1>1 DEF Quiet, Reconcile, Errs, Misconfigured, Abort, InitJob, DrainBlockedTooLong,
       WaitForDrain, DrainTimedOut, WaitForReboot, RebootTimedOut, UncordonFails,
       WaitForKubernetesUpgrade, KubernetesTimedOut, Write, SyncJob, RetryJob, bounds
  <2> QED
    BY <2>1, <2>2
<1>2. CASE \/ DrainNode \/ StartUpgrade \/ UpgradeReplyLost \/ StartKubernetesUpgrade
           \/ PatchKubelet \/ Reboot \/ InstallFails \/ TalosAnswers \/ KubeletStarts
           \/ PodScheduled \/ PodsEnd \/ SyncNode \/ UNCHANGED vars
  BY <1>2 DEF DrainNode, StartUpgrade, UpgradeReplyLost, StartKubernetesUpgrade, PatchKubelet,
     Reboot, InstallFails, TalosAnswers, KubeletStarts, PodScheduled, PodsEnd, SyncNode, vars, bounds
<1>3. CASE NodeReports \/ StaticPodsReport \/ NodeLost
  <2>1. UNCHANGED bounds
    <3>1. CASE NodeReports
      BY <3>1 DEF NodeReports
    <3>2. CASE StaticPodsReport
      BY <3>2 DEF StaticPodsReport
    <3>3. CASE NodeLost
      BY <3>3 DEF NodeLost, bounds
    <3> QED
      BY <1>3, <3>1, <3>2, <3>3
  <2>2. node'.cordon = node.cordon /\ node'.ours = node.ours
    <3>1. CASE NodeReports
      BY <1>0, <3>1 DEF NodeReports, SetNode, Node
    <3>2. CASE StaticPodsReport
      BY <1>0, <3>2 DEF StaticPodsReport, SetNode, Node
    <3>3. CASE NodeLost
      BY <1>0, <3>3 DEF NodeLost, SetNode, Node
    <3> QED
      BY <1>3, <3>1, <3>2, <3>3
  <2> QED
    BY <2>1, <2>2 DEF bounds
<1> QED
  BY <1>1, <1>2, <1>3 DEF Next, Quiet

LEMMA TheirsInit == ASSUME Init PROVE Theirs
<1>1. node.cordon = "no" /\ ~node.ours /\ nodeSeen = node
  BY DEF Init
<1>2. admins = 0 /\ MaxAdmins \in Nat
  <2>1. MaxAdmins \in Nat
    BY BoundsAssumption
  <2>2. admins = 0
    BY DEF Init
  <2> QED
    BY <2>1, <2>2
<1> QED
  BY <1>1, <1>2 DEF Theirs

LEMMA TheirsNext ==
    ASSUME Heeded, TypeOK, Theirs, [Next]_vars
    PROVE  Theirs' /\ (node.cordon = "admin" /\ node'.cordon # "admin" => admins' = admins + 1)
<1>0. /\ node \in Node /\ nodeSeen = node /\ admins \in Nat /\ admins =< MaxAdmins
      /\ MaxAdmins \in Nat /\ MaxAdmins =< 1 /\ ~NodeLag
      /\ node.cordon = "admin" => ~node.ours
      /\ node.ours => node.cordon = "operator" \/ admins = 1
  BY BoundsAssumption DEF TypeOK, Theirs, Heeded
<1>1. nodeSeen' = node'
  BY <1>0, NodeSeenStep
<1>2. CASE ~StartDrain /\ ~UncordonNode /\ ~AdminCordons /\ ~AdminUncordons
  BY <1>0, <1>1, <1>2, CordonUntouched DEF Theirs
<1>3. CASE StartDrain
  <2>1. admins' = admins
    BY <1>3 DEF StartDrain, bounds
  <2>2. CASE node.cordon # "no"
    <3>1. node' = node
      BY <1>0, <1>3, <2>2 DEF StartDrain, CordonNode, SetNode
    <3> QED
      BY <1>0, <1>1, <2>1, <3>1 DEF Theirs
  <2>3. CASE node.cordon = "no"
    <3>1. node'.cordon = "operator"
      BY <1>0, <1>3, <2>3 DEF StartDrain, CordonNode, SetNode, Node
    <3> QED
      BY <1>0, <1>1, <2>1, <2>3, <3>1 DEF Theirs
  <2> QED
    BY <2>2, <2>3
<1>4. CASE UncordonNode
  <2>1. admins' = admins /\ node' = Released
    BY <1>4 DEF UncordonNode, SetNode, bounds
  <2>2. CASE node.ours
    <3>1. ~node'.ours /\ node'.cordon # "admin"
      BY <1>0, <2>1, <2>2 DEF Released, Node
    <3> QED
      BY <1>0, <1>1, <2>1, <2>2, <3>1 DEF Theirs
  <2>3. CASE ~node.ours
    <3>1. node' = node
      BY <1>0, <2>1, <2>3 DEF Released
    <3> QED
      BY <1>0, <1>1, <2>1, <3>1 DEF Theirs
  <2> QED
    BY <2>2, <2>3
<1>5. CASE AdminCordons
  <2>1. admins' = admins + 1 /\ admins < MaxAdmins /\ node.cordon = "no"
    BY <1>5 DEF AdminCordons
  <2>2. node'.ours = node.ours
    BY <1>0, <1>5 DEF AdminCordons, SetNode, Node
  <2>3. ~node.ours
    BY <1>0, <2>1
  <2> QED
    BY <1>0, <1>1, <2>1, <2>2, <2>3 DEF Theirs
<1>6. CASE AdminUncordons
  <2>1. admins' = admins + 1 /\ admins < MaxAdmins
    BY <1>6 DEF AdminUncordons
  <2>2. node'.cordon = "no"
    BY <1>0, <1>6 DEF AdminUncordons, SetNode, Node
  <2> QED
    BY <1>0, <1>1, <2>1, <2>2 DEF Theirs
<1> QED
  BY <1>2, <1>3, <1>4, <1>5, <1>6

\* Whatever fails, is lost, lags in the job's cache or is retried, only the administrator
\* takes an administrator's cordon away.  Two steps of an administrator and a lagging Node
\* cache are excepted (Heeded): see "Divergences" in the README.
THEOREM AdminCordonsKept ==
    ASSUME Heeded
    PROVE  Spec => AdminCordonKept
<1>1. Init => TypeOK /\ Theirs
  BY InitType, TheirsInit
<1>2. TypeOK /\ Theirs /\ [Next]_vars => (TypeOK /\ Theirs)'
  BY NextType, TheirsNext
<1>3. TypeOK /\ Theirs /\ [Next]_vars =>
        [node.cordon = "admin" /\ node'.cordon # "admin" => admins' = admins + 1]_vars
  BY TheirsNext
<1> QED
  BY <1>1, <1>2, <1>3, PTL DEF Spec, AdminCordonKept

=============================================================================
