------------------------- MODULE PatchJobLife_proof --------------------------
(***************************************************************************)
(* A PatchJob implements NodeUpgrade, for any versions, boots, timeouts and  *)
(* pods, and however late the Node is seen, while nobody interferes.        *)
(***************************************************************************)
EXTENDS PatchJob_proof

-----------------------------------------------------------------------------
(* The invariant.                                                            *)

\* The annotation goes with the operator's cordon, also where the node is seen late.  Who
\* sees the second boot sees a cordon that is still there.
Marked ==
    /\ node.cordon # "admin" /\ (node.ours <=> node.cordon = "operator")
    /\ nodeSeen.cordon # "admin" /\ (nodeSeen.ours <=> nodeSeen.cordon = "operator")
    /\ node.ours /\ nodeSeen.boot = 2 => nodeSeen.ours
    /\ copy.boot = 2 => nodeSeen.boot = 2
    /\ pc = "uncordon" /\ base.phase = "Rebooting" =>
          nodeSeen.boot = 2 /\ Current.phase # "Failed"

\* Before the drain and after waitForReboot the node is open, or about to be opened.
Opened ==
    Current.phase \in {"New", "UpgradingKubernetes", "ValidatingKubernetes", "Completed"} =>
        node.cordon = "no" \/ (pc = "uncordon" /\ base.phase = "Rebooting")

Living ==
    /\ Rebooting /\ Upgrading /\ Marked /\ Opened
    /\ ~NodeLag => Releasing

LEMMA LivingInit == ASSUME Init, CleanStart PROVE Living
<1>1. Rebooting /\ Upgrading /\ Releasing
  BY RebootingInit, UpgradingInit, ReleasingInit
<1>2. node.cordon = "no" /\ node.ours = FALSE /\ nodeSeen = node /\ node.boot = 1
  BY DEF Init
<1>3. pc = "idle" /\ copy.boot = 0
  BY DEF Init, NoCopy
<1> QED
  BY <1>1, <1>2, <1>3 DEF Living, Marked, Opened

-----------------------------------------------------------------------------
(* Steps.                                                                    *)

\* The Upgrade call is the only step after which a boot ID is recorded that was not.
LEMMA CalledStep ==
    ASSUME Calm, Rebooting, [Next]_vars
    PROVE  (Called' <=> Called) \/ StartUpgrade
<1>0. /\ TypeOK /\ Control /\ Course /\ Boots /\ ~JobLag /\ local \in Job /\ job \in Job
  BY DEF Rebooting, TypeOK, Calm
<1>1. ASSUME Current' = Current PROVE Called' <=> Called
  BY <1>1 DEF Called
<1>2. ASSUME Current'.preBoot = local.preBoot, pc # "idle" PROVE Called' <=> Called
  BY <1>2 DEF Called, Current
<1>3. \A phase : [local EXCEPT !.phase = phase].preBoot = local.preBoot
  BY <1>0 DEF Job
<1>4. CASE Elsewhere \/ Reconcile \/ Write \/ SyncJob \/ UNCHANGED vars
  <2>1. Current' = Current
    BY <1>0, <1>4, ElsewhereControl, ReconcileControl, WriteControl, SyncJobControl DEF vars, Current
  <2> QED
    BY <1>1, <2>1
<1>5. CASE StartDrain \/ UncordonNode \/ StartKubernetesUpgrade
  <2>1. Current' = Current
    BY <1>0, <1>5, StartDrainControl, UncordonControl, StartKubernetesUpgradeControl DEF Decided
  <2> QED
    BY <1>1, <2>1
<1>6. CASE Failing
  <2>1. CASE Failed
    BY <1>0, <1>2, <1>3, <1>6, <2>1, FailingControl DEF Failed
  <2>2. CASE pc' = "idle" /\ Current' = job
    <3>1. CASE pc = "uncordon" /\ base.phase = "Rebooting"
      <4>1. job.preBoot = 1
        BY <1>0, <3>1 DEF Control, Course
      <4>2. Current.preBoot # 0
        BY <1>0, <3>1 DEF Course, Boots
      <4> QED
        BY <2>2, <4>1, <4>2 DEF Called
    <3>2. CASE ~(pc = "uncordon" /\ base.phase = "Rebooting")
      <4>1. Current = job
        BY <1>0, <1>6, <3>2 DEF Control, Failing, Errs, Misconfigured, DrainBlockedTooLong,
           DrainTimedOut, UpgradeReplyLost, RebootTimedOut, KubernetesTimedOut, At
      <4> QED
        BY <1>1, <2>2, <4>1
    <3> QED
      BY <3>1, <3>2
  <2> QED
    BY <1>0, <1>6, <2>1, <2>2, FailingControl
<1>7. CASE InitJob
  <2> DEFINE read == [local EXCEPT !.kubernetes = copy.kubelet]
  <2>1. \A phase : [read EXCEPT !.phase = phase].preBoot = local.preBoot
    BY <1>0 DEF Job
  <2> HIDE DEF read
  <2>2. \E phase : Current' = [read EXCEPT !.phase = phase]
    BY <1>0, <1>7, InitJobControl, Zenon DEF Decided, read
  <2>3. pc # "idle"
    BY <1>7 DEF InitJob, At
  <2> QED
    BY <1>2, <2>1, <2>2, <2>3
<1>8. CASE DrainNode \/ WaitForDrain \/ WaitForReboot \/ PatchKubelet \/ WaitForKubernetesUpgrade
  <2>1. pc # "idle" /\ local = job
    BY <1>0, <1>8, DrainNodeControl, WaitForDrainControl, WaitForRebootControl,
       PatchKubeletControl, WaitForKubernetesUpgradeControl DEF Control, Current
  <2>2. Current'.preBoot = local.preBoot
    <3>1. CASE DrainNode \/ WaitForDrain
      BY <1>0, <1>3, <2>1, <3>1, DrainNodeControl, WaitForDrainControl DEF Decided, Waits, Failed
    <3>2. CASE WaitForReboot
      BY <1>0, <1>3, <2>1, <3>2, WaitForRebootControl DEF Decided, Waits, Failed, AfterReboot
    <3>3. CASE PatchKubelet
      BY <1>0, <1>3, <3>3, PatchKubeletControl DEF Decided
    <3>4. CASE WaitForKubernetesUpgrade
      <4>1. [local EXCEPT !.phase = "Completed", !.kubernetes = "target"].preBoot = local.preBoot
        BY <1>0 DEF Job
      <4> QED
        BY <1>0, <2>1, <3>4, <4>1, WaitForKubernetesUpgradeControl DEF Decided, Waits
    <3> QED
      BY <1>8, <3>1, <3>2, <3>3, <3>4
  <2> QED
    BY <1>2, <2>1, <2>2
<1> QED
  BY <1>0, <1>4, <1>5, <1>6, <1>7, <1>8, CalmSteps DEF Next, Elsewhere, Failing

\* Only a status patch changes the job, to what the reconcile has decided.
LEMMA OutcomeStep ==
    ASSUME Calm, Rebooting, [Next]_vars
    PROVE  job' = job \/ (Write /\ job' = Current /\ job.phase \notin Terminal)
<1>0. TypeOK /\ Control /\ ~JobLag
  BY DEF Rebooting, Calm
<1>1. CASE Write
  BY <1>0, <1>1, WriteControl DEF Control, Write
<1>2. CASE Elsewhere \/ SyncJob \/ UNCHANGED vars
  BY <1>0, <1>2, ElsewhereControl, SyncJobControl DEF operatorVars, vars
<1>3. CASE Reconcile \/ Failing
  BY <1>0, <1>3, FailingControl DEF Reconcile
<1>4. CASE InitJob \/ StartDrain \/ DrainNode \/ WaitForDrain \/ StartUpgrade \/ WaitForReboot
           \/ UncordonNode \/ StartKubernetesUpgrade \/ PatchKubelet \/ WaitForKubernetesUpgrade
  BY <1>4 DEF InitJob, StartDrain, DrainNode, WaitForDrain, StartUpgrade, WaitForReboot,
     UncordonNode, StartKubernetesUpgrade, PatchKubelet, WaitForKubernetesUpgrade
<1> QED
  BY <1>0, <1>1, <1>2, <1>3, <1>4, CalmSteps DEF Next, Elsewhere, Failing

\* What a step does to a node that runs: it may be told to upgrade, and a boot that was
\* reported Ready stays so.
LEMMA BackStays ==
    ASSUME Calm, Rebooting, [Next]_vars, Called, ~Away
    PROVE  ~Away'
<1>0. /\ TypeOK /\ Control /\ Course /\ Boots /\ machine \in Machine /\ node \in Node
      /\ ~machine.upgrade /\ machine.state = "running" /\ node.boot = machine.boot /\ node.ready
  BY DEF Rebooting, TypeOK, Away
<1>1. ~StartUpgrade /\ ~Reboot /\ ~InstallFails /\ ~TalosAnswers /\ ~KubeletStarts /\ ~NodeLost
  <2>1. ~StartUpgrade
    BY <1>0, StartUpgradeControl DEF Control, Course, BeforeReboot, Called
  <2> QED
    BY <1>0, <2>1 DEF Reboot, InstallFails, TalosAnswers, KubeletStarts, NodeLost
<1>2. ASSUME /\ machine'.upgrade = machine.upgrade /\ machine'.state = machine.state
             /\ machine'.boot = machine.boot /\ node'.boot = node.boot /\ node'.ready = node.ready
      PROVE  ~Away'
  BY <1>0, <1>2 DEF Away
<1>3. CASE Quiet \/ UNCHANGED vars
  BY <1>2, <1>3, QuietCluster DEF vars, clusterVars
<1>4. CASE DrainNode \/ PodScheduled \/ PodsEnd \/ SyncNode
  BY <1>2, <1>4 DEF DrainNode, PodScheduled, PodsEnd, SyncNode
<1>5. CASE StartKubernetesUpgrade \/ PatchKubelet
  BY <1>0, <1>2, <1>5 DEF StartKubernetesUpgrade, PatchKubelet, Machine
<1>6. CASE StartDrain
  BY <1>0, <1>2, <1>6 DEF StartDrain, CordonNode, SetNode, Node
<1>7. CASE UncordonNode
  BY <1>0, <1>2, <1>7 DEF UncordonNode, Released, SetNode, Node
<1>8. CASE StaticPodsReport
  BY <1>0, <1>2, <1>8 DEF StaticPodsReport, SetNode, Node
<1>9. CASE NodeReports
  <2>1. PICK ready \in {node.ready, TRUE} :
          SetNode([node EXCEPT !.boot = machine.boot, !.kubelet = machine.kubelet, !.ready = ready])
    BY <1>0, <1>9 DEF NodeReports
  <2>2. machine' = machine /\ node'.boot = machine.boot /\ node'.ready
    BY <1>0, <1>9, <2>1 DEF NodeReports, SetNode, Node
  <2> QED
    BY <1>0, <2>2 DEF Away
<1> QED
  BY <1>0, <1>1, <1>3, <1>4, <1>5, <1>6, <1>7, <1>8, <1>9, CalmSteps DEF Next, Quiet

\* Once the second boot has been reported, it stays reported.
LEMMA BootStays ==
    ASSUME Rebooting, [Next]_vars, node.boot = 2
    PROVE  node'.boot = 2
<1>0. TypeOK /\ node \in Node /\ machine.boot = 2
  BY DEF Rebooting, TypeOK, Boots
<1>1. CASE Quiet \/ UNCHANGED vars
  BY <1>1, QuietCluster DEF vars, clusterVars
<1>2. CASE \/ DrainNode \/ StartUpgrade \/ UpgradeReplyLost \/ StartKubernetesUpgrade
           \/ PatchKubelet \/ Reboot \/ InstallFails \/ TalosAnswers \/ KubeletStarts
           \/ PodScheduled \/ PodsEnd \/ SyncNode
  BY <1>2 DEF DrainNode, StartUpgrade, UpgradeReplyLost, StartKubernetesUpgrade, PatchKubelet,
     Reboot, InstallFails, TalosAnswers, KubeletStarts, PodScheduled, PodsEnd, SyncNode
<1>3. CASE StartDrain
  BY <1>0, <1>3 DEF StartDrain, CordonNode, SetNode, Node
<1>4. CASE UncordonNode
  BY <1>0, <1>4 DEF UncordonNode, Released, SetNode, Node
<1>5. CASE NodeReports
  BY <1>0, <1>5 DEF NodeReports, SetNode, Node
<1>6. CASE StaticPodsReport
  BY <1>0, <1>6 DEF StaticPodsReport, SetNode, Node
<1>7. CASE NodeLost
  BY <1>0, <1>7 DEF NodeLost, SetNode, Node
<1>8. CASE AdminCordons \/ AdminUncordons
  BY <1>0, <1>8 DEF AdminCordons, AdminUncordons, SetNode, Node
<1> QED
  BY <1>1, <1>2, <1>3, <1>4, <1>5, <1>6, <1>7, <1>8 DEF Next, Quiet

LEMMA SeenBootStays ==
    ASSUME Rebooting, [Next]_vars, nodeSeen.boot = 2
    PROVE  nodeSeen'.boot = 2
<1>1. TypeOK /\ node.boot = 2
  BY DEF Rebooting, Boots
<1> QED
  BY <1>1, NodeStep, BootStays

\* Who gets to the uncordon of waitForReboot, and with what.
LEMMA ReleaseStep ==
    ASSUME Calm, Rebooting, [Next]_vars, pc' = "uncordon", base'.phase = "Rebooting"
    PROVE  \/ pc = "uncordon" /\ base.phase = "Rebooting" /\ Current' = Current
           \/ copy.boot = 2 /\ Current'.phase # "Failed"
<1>0. /\ TypeOK /\ Control /\ Course /\ Boots /\ ~JobLag /\ local \in Job
  BY DEF Rebooting, TypeOK, Calm
<1>1. CASE Elsewhere \/ SyncJob \/ UNCHANGED vars
  <2>1. pc' = pc /\ base' = base /\ Current' = Current
    BY <1>0, <1>1, ElsewhereControl, SyncJobControl DEF operatorVars, vars, Current
  <2> QED
    BY <2>1
<1>2. CASE Reconcile \/ Write
  BY <1>0, <1>2, ReconcileControl, WriteControl
<1>3. CASE Failing
  BY <1>0, <1>3, FailingControl DEF Failed, BeforeReboot
<1>4. CASE InitJob \/ StartDrain \/ DrainNode \/ WaitForDrain \/ StartUpgrade
  <2>1. CASE InitJob
    BY <1>0, <2>1, InitJobControl DEF Decided, InitJob, At
  <2>2. CASE StartDrain
    BY <1>0, <2>2, StartDrainControl DEF Decided
  <2>3. CASE DrainNode
    BY <1>0, <2>3, DrainNodeControl DEF Decided, Waits, Failed
  <2>4. CASE WaitForDrain \/ StartUpgrade
    BY <1>0, <2>4, WaitForDrainControl, StartUpgradeControl DEF Decided, Waits
  <2> QED
    BY <1>4, <2>1, <2>2, <2>3, <2>4
<1>5. CASE UncordonNode \/ StartKubernetesUpgrade \/ PatchKubelet \/ WaitForKubernetesUpgrade
  BY <1>0, <1>5, UncordonControl, StartKubernetesUpgradeControl, PatchKubeletControl,
     WaitForKubernetesUpgradeControl DEF Decided, Waits
<1>6. CASE WaitForReboot
  <2>1. pc = "run" /\ base = job /\ base.phase = "Rebooting" /\ base.preBoot = 1 /\ local = job
    BY <1>0, <1>6, WaitForRebootControl DEF Control, Course, Current
  <2>2. ~Unhealthy /\ Current' = AfterReboot
    BY <1>0, <1>6, <2>1, WaitForRebootControl DEF Decided, Waits, Failed, BeforeReboot
  <2>3. copy.boot = 2
    BY <1>0, <2>1, <2>2 DEF Unhealthy, Boots
  <2>4. Current'.phase # "Failed"
    BY <1>0, <2>2 DEF AfterReboot, Job
  <2> QED
    BY <2>3, <2>4
<1> QED
  BY <1>0, <1>1, <1>2, <1>3, <1>4, <1>5, <1>6, CalmSteps DEF Next, Elsewhere, Failing

-----------------------------------------------------------------------------
(* The invariant is kept.                                                    *)

LEMMA MarkedNext ==
    ASSUME Calm, Rebooting, Marked, [Next]_vars
    PROVE  Marked'
<1>0. /\ TypeOK /\ Control /\ Course /\ Boots /\ node \in Node
      /\ nodeSeen' \in {nodeSeen, node'} /\ copy' \in {copy, nodeSeen, NoCopy}
      /\ ~AdminCordons /\ ~AdminUncordons
  BY NodeStep, CalmSteps DEF Rebooting, TypeOK
<1>1. /\ node'.cordon # "admin" /\ (node'.ours <=> node'.cordon = "operator")
      /\ node'.ours => node.ours \/ StartDrain
  <2>1. CASE ~StartDrain /\ ~UncordonNode
    BY <1>0, <2>1, CordonUntouched DEF Marked
  <2>2. CASE StartDrain
    <3>1. CASE nodeSeen.cordon # "no"
      BY <2>2, <3>1 DEF Marked, StartDrain, CordonNode, SetNode
    <3>2. CASE nodeSeen.cordon = "no"
      <4>1. (nodeSeen.ours => node.ours) = TRUE
        BY <3>2, Zenon DEF Marked
      <4>2. node' = [node EXCEPT !.cordon = IF node.cordon = "no" THEN "operator" ELSE node.cordon,
                                 !.ours = TRUE]
        BY <2>2, <3>2, <4>1 DEF StartDrain, CordonNode, SetNode
      <4>3. node'.cordon = "operator" /\ node'.ours = TRUE
        BY <1>0, <4>2 DEF Marked, Node
      <4> QED
        BY <2>2, <4>3
    <3> QED
      BY <3>1, <3>2
  <2>3. CASE UncordonNode
    <3>1. node' = Released
      BY <2>3 DEF UncordonNode, SetNode
    <3>2. CASE nodeSeen.ours
      <4>1. nodeSeen.cordon # "no"
        BY <3>2 DEF Marked
      <4>2. node'.cordon = "no" /\ node'.ours = FALSE
        BY <1>0, <3>1, <3>2, <4>1 DEF Released, Node
      <4> QED
        BY <4>2
    <3>3. CASE ~nodeSeen.ours
      BY <3>1, <3>3 DEF Released, Marked
    <3> QED
      BY <3>2, <3>3
  <2> QED
    BY <2>1, <2>2, <2>3
<1>2. nodeSeen'.cordon # "admin" /\ (nodeSeen'.ours <=> nodeSeen'.cordon = "operator")
  BY <1>0, <1>1 DEF Marked
<1>3. node'.ours /\ nodeSeen'.boot = 2 => nodeSeen'.ours
  <2>1. StartDrain => nodeSeen.boot # 2
    BY <1>0, StartDrainControl DEF Control, Course, Boots, BeforeReboot
  <2> QED
    BY <1>0, <1>1, <2>1 DEF Marked
<1>4. copy'.boot = 2 => nodeSeen'.boot = 2
  BY <1>0, SeenBootStays DEF Marked, NoCopy
<1>5. pc' = "uncordon" /\ base'.phase = "Rebooting" => nodeSeen'.boot = 2 /\ Current'.phase # "Failed"
  BY ReleaseStep, SeenBootStays DEF Marked
<1> QED
  BY <1>1, <1>2, <1>3, <1>4, <1>5 DEF Marked

\* A node is opened by the uncordon of waitForReboot.
LEMMA ReleaseOpens ==
    ASSUME TypeOK, Marked, UncordonNode, base.phase = "Rebooting"
    PROVE  node'.cordon = "no"
<1>1. /\ node \in Node /\ node' = Released
      /\ node.ours => nodeSeen.ours
  BY DEF TypeOK, UncordonNode, SetNode, Marked
<1>2. CASE nodeSeen.ours
  <2>1. nodeSeen.cordon # "no"
    BY <1>2 DEF Marked
  <2> QED
    BY <1>1, <1>2, <2>1 DEF Released, Node
<1>3. CASE ~nodeSeen.ours
  BY <1>1, <1>3 DEF Released, Marked, Node
<1> QED
  BY <1>2, <1>3

LEMMA OpenedNext ==
    ASSUME Calm, Rebooting, Marked, Opened, [Next]_vars
    PROVE  Opened'
<1>0. /\ TypeOK /\ Control /\ ~JobLag /\ local \in Job /\ job \in Job /\ node \in Node
  BY DEF Rebooting, TypeOK, Calm
<1> DEFINE Past == {"New", "UpgradingKubernetes", "ValidatingKubernetes", "Completed"}
<1>1. ASSUME ~StartDrain, node.cordon = "no" PROVE node'.cordon = "no"
  <2>1. CASE UncordonNode
    BY <1>0, <1>1, <2>1 DEF UncordonNode, Released, SetNode, Node
  <2> QED
    BY <1>0, <1>1, <2>1, CordonStep
<1>2. ASSUME Current'.phase \notin Past PROVE Opened'
  BY <1>2 DEF Opened
<1>3. ASSUME ~StartDrain, Current' = Current, pc # "uncordon" \/ (pc' = pc /\ base' = base)
      PROVE  Opened'
  BY <1>1, <1>3 DEF Opened
<1>4. CASE Elsewhere \/ SyncJob \/ UNCHANGED vars
  <2>1. Current' = Current /\ pc' = pc /\ base' = base
    BY <1>0, <1>4, ElsewhereControl, SyncJobControl DEF operatorVars, vars, Current
  <2>2. node.cordon = "no" => node'.cordon = "no"
    <3>1. CASE StartDrain
      BY <1>0, <2>1, <3>1, StartDrainControl DEF Decided
    <3> QED
      BY <1>1, <3>1
  <2> QED
    BY <2>1, <2>2 DEF Opened
<1>5. CASE Reconcile \/ Write
  <2>1. Current' = Current /\ pc # "uncordon" /\ node' = node
    BY <1>0, <1>5, ReconcileControl, WriteControl DEF Reconcile, Write, clusterVars
  <2> QED
    BY <2>1 DEF Opened
<1>6. CASE Failing
  <2>1. node' = node
    BY <1>0, <1>6, QuietCluster, CalmSteps DEF Failing, Quiet, clusterVars
  <2>2. CASE Failed
    BY <1>0, <1>2, <2>2 DEF Failed, Job
  <2>3. CASE pc' = "idle" /\ Current' = job
    <3>1. (Current = job /\ pc # "uncordon") \/ job.phase = "Rebooting"
      BY <1>0, <1>6, FailingControl DEF Control, Failing, Errs, Misconfigured, DrainBlockedTooLong,
         DrainTimedOut, UpgradeReplyLost, RebootTimedOut, KubernetesTimedOut, At
    <3> QED
      BY <2>1, <2>3, <3>1 DEF Opened
  <2> QED
    BY <1>0, <1>6, <2>2, <2>3, FailingControl
<1>7. CASE InitJob
  <2>1. pc = "run" /\ Current.phase = "New" /\ node' = node
    BY <1>0, <1>7, QuietCluster DEF InitJob, At, Control, Quiet, clusterVars
  <2> QED
    BY <2>1 DEF Opened
<1>8. CASE StartDrain \/ DrainNode \/ WaitForDrain \/ StartUpgrade
  <2>1. Current'.phase \in {"Pending", "Draining", "Upgrading", "Rebooting", "Failed"}
    <3>1. CASE StartDrain
      BY <1>0, <3>1, StartDrainControl DEF Decided, Control
    <3>2. CASE DrainNode
      BY <1>0, <3>2, DrainNodeControl DEF Decided, Waits, Failed, Control, Job
    <3>3. CASE WaitForDrain
      BY <1>0, <3>3, WaitForDrainControl DEF Decided, Waits, Control, Job
    <3>4. CASE StartUpgrade
      BY <1>0, <3>4, StartUpgradeControl DEF Decided, Job
    <3> QED
      BY <1>8, <3>1, <3>2, <3>3, <3>4
  <2> QED
    BY <1>2, <2>1
<1>9. CASE WaitForReboot
  <2>1. base = job /\ local = job /\ job.phase = "Rebooting"
    BY <1>0, <1>9, WaitForRebootControl DEF Control, Current
  <2>2. \/ Current'.phase \in {"Rebooting", "Failed"}
        \/ pc' = "uncordon" /\ base'.phase = "Rebooting"
    BY <1>0, <1>9, <2>1, WaitForRebootControl DEF Decided, Waits, Failed, Job
  <2> QED
    BY <2>2 DEF Opened
<1>10. CASE UncordonNode
  <2>1. pc = "uncordon" /\ Current' = Current /\ ~StartDrain
    BY <1>0, <1>10, UncordonControl DEF Decided, StartDrain, At
  <2> QED
    BY <1>0, <1>1, <1>10, <2>1, ReleaseOpens DEF Opened
<1>11. CASE StartKubernetesUpgrade \/ PatchKubelet \/ WaitForKubernetesUpgrade
  <2>1. node' = node
    BY <1>11, QuietCluster DEF StartKubernetesUpgrade, PatchKubelet, Quiet, clusterVars
  <2>2. Current.phase \in Past /\ pc # "uncordon"
    <3>1. CASE StartKubernetesUpgrade
      BY <1>0, <3>1 DEF StartKubernetesUpgrade, At, Control
    <3>2. CASE PatchKubelet \/ WaitForKubernetesUpgrade
      BY <1>0, <3>2, PatchKubeletControl, WaitForKubernetesUpgradeControl DEF Control
    <3> QED
      BY <1>11, <3>1, <3>2
  <2> QED
    BY <2>1, <2>2 DEF Opened
<1> QED
  BY <1>0, <1>4, <1>5, <1>6, <1>7, <1>8, <1>9, <1>10, <1>11, CalmSteps DEF Next, Elsewhere, Failing

LEMMA LivingNext ==
    ASSUME Calm, CleanStart, Living, [Next]_vars
    PROVE  Living'
<1>1. Rebooting' /\ Upgrading'
  BY RebootingNext, UpgradingNext DEF Living, Calm
<1>2. Marked' /\ Opened'
  BY MarkedNext, OpenedNext DEF Living
<1>3. ~NodeLag => Releasing'
  BY NextType, NextControl, BootedNext, HeldNext DEF Living, Releasing, Attended, Calm
<1> QED
  BY <1>1, <1>2, <1>3 DEF Living

-----------------------------------------------------------------------------
(* The refinement.                                                           *)

\* The first states, whatever the node runs.
LEMMA LifeInit == ASSUME Init PROVE NodeUpgrade!Init
<1>1. job.phase = "New" /\ Current.preBoot = 0 /\ node.cordon = "no"
  BY DEF Init, Current, NewJob
<1> QED
  BY <1>1 DEF NodeUpgrade!Init, Outcome, Life, Called, Versions

\* Versions only rise, and Talos only in the reboot of a node that was told to upgrade.
LEMMA VersionsStep ==
    ASSUME Calm, Living, [Next]_vars
    PROVE  [NodeUpgrade!Rises]_Versions
<1>0. /\ TypeOK /\ Course /\ RebootsCordoned /\ machine \in Machine
      /\ Stable /\ NeedsTalosUpgrade(machine.image) \in BOOLEAN
  BY WorldStep DEF Living, Rebooting, TypeOK, NeedsTalosUpgrade
<1>1. OnTarget => OnTarget'
  BY <1>0 DEF OnTarget, Stable
<1>2. CASE ~NeedsTalosUpgrade(machine.image)
  BY <1>0, <1>1, <1>2 DEF Stable, Versions, NodeUpgrade!Rises
<1>3. CASE NeedsTalosUpgrade(machine.image) /\ NeedsTalosUpgrade(machine'.image)
  BY <1>3 DEF Versions
<1>4. CASE NeedsTalosUpgrade(machine.image) /\ ~NeedsTalosUpgrade(machine'.image)
  <2>1. machine'.image # machine.image
    BY <1>4
  <2>2. Reboot
    <3>1. ~Quiet /\ ~UNCHANGED vars
      BY <2>1, QuietCluster DEF vars, clusterVars
    <3>2. ~(\/ StartDrain \/ DrainNode \/ UncordonNode \/ NodeReports \/ StaticPodsReport
            \/ NodeLost \/ PodScheduled \/ PodsEnd \/ SyncNode)
      <4>1. ~NodeReports
        <5>1. NodeReports => machine' = machine
          BY DEF NodeReports
        <5> QED
          BY <2>1, <5>1
      <4>2. ~StaticPodsReport /\ ~NodeLost
        <5>1. StaticPodsReport => machine' = machine
          BY DEF StaticPodsReport
        <5>2. NodeLost => machine' = machine
          BY DEF NodeLost
        <5> QED
          BY <2>1, <5>1, <5>2
      <4>3. ~StartDrain /\ ~DrainNode /\ ~UncordonNode /\ ~PodScheduled /\ ~PodsEnd /\ ~SyncNode
        BY <2>1 DEF StartDrain, DrainNode, UncordonNode, PodScheduled, PodsEnd, SyncNode
      <4> QED
        BY <4>1, <4>2, <4>3
    <3>3. ~(\/ StartUpgrade \/ StartKubernetesUpgrade \/ PatchKubelet \/ InstallFails
            \/ TalosAnswers \/ KubeletStarts)
      BY <1>0, <2>1 DEF StartUpgrade, StartKubernetesUpgrade, PatchKubelet, InstallFails,
         TalosAnswers, KubeletStarts, Machine
    <3> QED
      BY <1>0, <3>1, <3>2, <3>3, CalmSteps DEF Next, Quiet
  <2>3. machine.upgrade
    BY <2>2 DEF Reboot
  <2>4. Life = "away"
    BY <1>0, <2>3 DEF Life, Called, Away, Course, RebootsCordoned
  <2>5. Versions = "old" /\ Versions' \in {"talos", "target"}
    BY <1>4 DEF Versions
  <2> QED
    BY <2>4, <2>5 DEF NodeUpgrade!Rises
<1> QED
  BY <1>2, <1>3, <1>4

\* No pod comes to a closed node.
LEMMA PodsStep ==
    ASSUME Calm, Living, [Next]_vars
    PROVE  [NodeUpgrade!Pods]_(pods = "none")
<1>0. TypeOK
  BY DEF Living, Rebooting
<1>1. CASE PodScheduled
  <2>1. Life \in {"serving", "released"}
    BY <1>1 DEF PodScheduled, Life
  <2> QED
    BY <2>1 DEF NodeUpgrade!Pods
<1>2. CASE DrainNode \/ PodsEnd
  BY <1>2 DEF DrainNode, NothingToEvict, Evicted, EvictionBlocked, UnmanagedPods, PodsEnd,
     NodeUpgrade!Pods
<1>3. CASE Quiet \/ UNCHANGED vars
  BY <1>3, QuietCluster DEF vars, clusterVars
<1>4. CASE \/ StartDrain \/ StartUpgrade \/ UncordonNode \/ StartKubernetesUpgrade \/ PatchKubelet
           \/ Reboot \/ InstallFails \/ TalosAnswers \/ KubeletStarts \/ SyncNode
  BY <1>4 DEF StartDrain, StartUpgrade, UncordonNode, StartKubernetesUpgrade, PatchKubelet,
     Reboot, InstallFails, TalosAnswers, KubeletStarts, SyncNode
<1>5. CASE NodeReports
  BY <1>5 DEF NodeReports
<1>6. CASE StaticPodsReport
  BY <1>6 DEF StaticPodsReport
<1>7. CASE NodeLost
  BY <1>7 DEF NodeLost
<1> QED
  BY <1>0, <1>1, <1>2, <1>3, <1>4, <1>5, <1>6, <1>7, CalmSteps DEF Next, Quiet

\* The life of the node in the steps that neither cordon, uncordon nor upgrade it.
LEMMA LifeStep ==
    ASSUME Calm, Living, [Next]_vars, ~StartDrain, ~UncordonNode, ~StartUpgrade
    PROVE  Life' = Life \/ (Life = "away" /\ Life' = "back")
<1>1. /\ node'.cordon = node.cordon
      /\ Called' <=> Called
      /\ Called /\ ~Away => ~Away'
  BY CordonStep, CalledStep, BackStays DEF Living, Rebooting
<1> QED
  BY <1>1 DEF Life

\* The calls that change the node's life are made by a job that is open.
LEMMA CallStep ==
    ASSUME Calm, Living, [Next]_vars, StartDrain \/ UncordonNode \/ StartUpgrade
    PROVE  Outcome = "open" /\ Outcome' = "open"
<1>1. pc # "idle" /\ job' = job /\ job.phase \notin Terminal
  <2>1. pc # "idle" /\ job' = job
    BY DEF StartDrain, UncordonNode, StartUpgrade, At
  <2> QED
    BY <2>1 DEF Living, Rebooting, Control
<1> QED
  BY <1>1 DEF Outcome, Terminal

LEMMA StartDrainLife ==
    ASSUME Calm, Living, [Next]_vars, StartDrain
    PROVE  Life \in {"serving", "closed"} /\ Life' = "closed"
<1>1. ~Called /\ ~Called'
  <2>1. /\ TypeOK /\ Control /\ Course
    BY DEF Living, Rebooting
  <2>2. Current.phase = "Pending" /\ Current' = Current
    BY <2>1, StartDrainControl DEF Control, Decided
  <2> QED
    BY <2>1, <2>2 DEF Course, Called, BeforeReboot
<1>2. node'.cordon # "no"
  BY DrainCordons DEF Living
<1> QED
  BY <1>1, <1>2 DEF Life

LEMMA StartUpgradeLife ==
    ASSUME Calm, Living, [Next]_vars, StartUpgrade
    PROVE  Life = "closed" /\ pods = "none" /\ Life' = "away"
<1>0. TypeOK /\ Control /\ Course /\ Cordoned /\ Boots /\ local \in Job /\ machine \in Machine
  BY DEF Living, Rebooting, TypeOK
<1>1. Current.phase = "Upgrading" /\ pc = "run"
  BY <1>0, StartUpgradeControl DEF Control
<1>2. ~Called /\ node.cordon # "no" /\ pods = "none"
  BY <1>0, <1>1 DEF Course, Called, BeforeReboot, Cordoned, Closes
<1>3. Current'.preBoot = copy.boot /\ copy.boot # 0
  <2>1. [local EXCEPT !.phase = "Rebooting", !.preBoot = copy.boot].preBoot = copy.boot
    BY <1>0 DEF Job
  <2>2. Current' = [local EXCEPT !.phase = "Rebooting", !.preBoot = copy.boot]
    BY <1>0, StartUpgradeControl DEF Decided
  <2>3. copy.boot # 0
    BY <1>0, <1>1 DEF Boots
  <2> QED
    BY <2>1, <2>2, <2>3
<1>4. node' = node /\ machine'.upgrade
  BY <1>0 DEF StartUpgrade, Machine
<1> QED
  BY <1>2, <1>3, <1>4 DEF Life, Called, Away

LEMMA UncordonLife ==
    ASSUME Calm, Living, [Next]_vars, UncordonNode
    PROVE  \/ Life' = Life
           \/ Life = "closed" /\ Life' = "serving"
           \/ Life = "back" /\ Life' = "released" /\ Versions # "old"
<1>0. /\ TypeOK /\ Control /\ Course /\ Cordoned /\ Boots /\ Marked /\ node \in Node
      /\ SoundNow(Current)
  BY DEF Living, Rebooting, Upgrading, TypeOK
<1>1. pc = "uncordon" /\ Current' = Current /\ (Called' <=> Called) /\ machine' = machine
  BY <1>0, UncordonControl DEF Decided, Called, UncordonNode
<1>2. CASE ~Called
  <2>1. node'.cordon \in {node.cordon, "no"}
    BY <1>0 DEF UncordonNode, Released, SetNode, Node
  <2> QED
    BY <1>1, <1>2, <2>1 DEF Life
<1>3. CASE Called
  <2>1. base.phase = "Rebooting"
    BY <1>0, <1>1, <1>3 DEF Course, Called
  <2>2. node.cordon # "no" /\ node'.cordon = "no"
    BY <1>0, <1>1, <2>1, ReleaseOpens DEF Cordoned, Closes
  <2>3. ~Away
    BY <1>0, <1>1, <2>1 DEF Away, Boots
  <2>4. Current.phase \in {"Completed", "UpgradingKubernetes"}
    BY <1>0, <1>1, <2>1 DEF Control, Marked, Terminal, Current
  <2>5. Versions # "old"
    BY <1>0, <2>4 DEF SoundNow, Sound, Versions
  <2> QED
    BY <1>1, <1>3, <2>2, <2>3, <2>5 DEF Life
<1> QED
  BY <1>2, <1>3

\* A status patch that ends the job does so when the node may be left alone.
LEMMA WriteLife ==
    ASSUME Calm, Living, Write, job' = Current, job.phase \notin Terminal, job' # job
    PROVE  /\ Outcome = "open" /\ Life' = Life
           /\ \/ Outcome' = "open"
              \/ Outcome' = "completed" /\ Life \in {"serving", "released"} /\ Versions = "target"
              \/ Outcome' = "failed" /\ (Life = "closed" => NodeLag)
<1>0. TypeOK /\ Control /\ ~JobLag /\ SoundNow(Current) /\ Opened /\ Marked /\ pc = "write"
  BY DEF Living, Rebooting, Upgrading, Calm, Write
<1>1. Current' = Current /\ UNCHANGED clusterVars
  BY <1>0, WriteControl DEF Write
<1>2. Life' = Life
  BY <1>1 DEF Life, Called, Away, clusterVars
<1>3. Outcome = "open"
  BY DEF Outcome, Terminal
<1>4. CASE Current.phase = "Completed"
  <2>1. Life \in {"serving", "released"}
    BY <1>0, <1>4 DEF Opened, Life
  <2>2. Versions = "target"
    BY <1>0, <1>4 DEF SoundNow, Sound, Versions, OnTarget
  <2> QED
    BY <1>2, <1>3, <1>4, <2>1, <2>2 DEF Outcome
<1>5. CASE Current.phase = "Failed"
  <2>1. Life = "closed" => NodeLag
    <3> SUFFICES ASSUME Life = "closed", ~NodeLag PROVE FALSE
      OBVIOUS
    <3>1. Held /\ ~Called /\ node.cordon # "no" /\ node.cordon # "admin" /\ node \in Node
      BY <1>0 DEF Living, Releasing, Life, Marked, TypeOK
    <3>2. node.cordon = "operator"
      BY <3>1 DEF Node
    <3> QED
      BY <1>0, <1>5, <3>1, <3>2 DEF Held, Called, BeforeReboot
  <2> QED
    BY <1>2, <1>3, <1>5, <2>1 DEF Outcome
<1>6. CASE Current.phase \notin {"Completed", "Failed"}
  BY <1>2, <1>3, <1>6 DEF Outcome
<1> QED
  BY <1>4, <1>5, <1>6

\* Every step is one of the course of a node's upgrade, or none.
LEMMA CourseStep ==
    ASSUME Calm, Living, [Next]_vars
    PROVE  [NodeUpgrade!Course]_<<Outcome, Life>>
<1> USE DEF NodeUpgrade!Course, NodeUpgrade!Close, NodeUpgrade!GiveUp, NodeUpgrade!Upgrade,
            NodeUpgrade!Release, NodeUpgrade!Return, NodeUpgrade!Complete, NodeUpgrade!Fail
<1>1. CASE StartDrain
  BY <1>1, CallStep, StartDrainLife
<1>2. CASE StartUpgrade
  BY <1>2, CallStep, StartUpgradeLife
<1>3. CASE UncordonNode
  BY <1>3, CallStep, UncordonLife
<1>4. CASE job' = job /\ ~StartDrain /\ ~StartUpgrade /\ ~UncordonNode
  <2>1. Outcome' = Outcome
    BY <1>4 DEF Outcome
  <2> QED
    BY <1>4, <2>1, LifeStep
<1>5. CASE Write /\ job' = Current /\ job.phase \notin Terminal /\ job' # job
  BY <1>5, WriteLife
<1> QED
  BY <1>1, <1>2, <1>3, <1>4, <1>5, OutcomeStep DEF Living

\* What a PatchJob promises of its node (NodeUpgrade), the code does: it closes the node,
\* waits until it is empty, has it upgraded, opens it when it is back with the right Talos,
\* completes at the target and leaves it alone.  Only a job that sees the Node late may
\* fail and forget its cordon (MayForget).  Lost calls, administrators and deleted jobs
\* (Calm) and nodes that start half upgraded (CleanStart) are excepted: see "Divergences"
\* in the README.
THEOREM NodeUpgradeImplemented ==
    ASSUME Calm, CleanStart
    PROVE  Spec => ImplementsNodeUpgrade
<1>1. Init => Living /\ NodeUpgrade!Init
  BY LivingInit, LifeInit
<1>2. Living /\ [Next]_vars => Living'
  BY LivingNext
<1>3. Living /\ [Next]_vars => [NodeUpgrade!Course]_<<Outcome, Life>>
  BY CourseStep
<1>4. Living /\ [Next]_vars => [NodeUpgrade!Rises]_Versions
  BY VersionsStep
<1>5. Living /\ [Next]_vars => [NodeUpgrade!Pods]_(pods = "none")
  BY PodsStep
<1> QED
  BY <1>1, <1>2, <1>3, <1>4, <1>5, PTL DEF Spec, ImplementsNodeUpgrade, NodeUpgrade!Spec

=============================================================================
