-------------------------- MODULE AutoUpdate_proof ---------------------------
(***************************************************************************)
(* That an auto-update lowers no node and takes none past a minor version,  *)
(* for any nodes, versions and releases, any edits, failures and crashes,   *)
(* but for the nodes that two children have worked on at once.              *)
(*                                                                          *)
(* A job remembers that it looked at its node (Raises), a child that the    *)
(* release was within reach of the nodes it was chosen for (WithinSteps).   *)
(* Both stay true because versions only rise, which is what both are for.   *)
(***************************************************************************)
EXTENDS AutoUpdate, TLAPS

\* A node that may be lowered.
Excused(n) == AllowTalosDowngrade \/ n \in met

\* v is no further from x than a check permits, or not above it.
Reach(x, v) == Less(v, x) \/ (v[1] = x[1] /\ v[2] =< x[2] + Steps)

JobsInCluster == \A v \in Releases, n \in Nodes : job[v][n] # "none" => n \in cluster
KnownInCluster == probed \subseteq cluster /\ \A v \in Releases : knew[v] \subseteq cluster

\* Of two jobs whose machine is the same, the second has found the first.
Meet ==
    \A v, w \in Releases, n \in Nodes :
        (v # w /\ Busy(job[v][n]) /\ Busy(job[w][n])) => n \in met

Raises ==
    \A v \in Releases, n \in Nodes :
        Busy(job[v][n]) => Excused(n) \/ ~Less(v, version[n])

TargetWithin ==
    pc = "create" => \A n \in probed : Excused(n) \/ Reach(version[n], target)
WithinSteps ==
    \A v \in Releases, n \in Nodes :
        n \in knew[v] => Excused(n) \/ Reach(version[n], v)

JobParts == JobsInCluster /\ Meet /\ Raises
KnownParts == KnownInCluster /\ TargetWithin /\ WithinSteps

IInv == TypeOK /\ JobParts /\ KnownParts

-----------------------------------------------------------------------------
(* Versions.                                                                 *)

Version == Int \X Int \X Int

LEMMA Parts ==
    ASSUME NEW x \in Version
    PROVE  x[1] \in Int /\ x[2] \in Int /\ x[3] \in Int
BY DEF Version

LEMMA StepsType == Steps \in {0, 1}
BY DEF Steps

LEMMA NodeVersion ==
    ASSUME TypeOK, NEW n \in Nodes
    PROVE  version[n] \in Version
BY VersionsAssumption DEF TypeOK, Version, NoVersion

LEMMA ReleaseVersion == \A v \in Releases : v \in Version
BY VersionsAssumption DEF Version

\* What a release reaches from x, it reaches from anything that is not below x.
LEMMA ReachUp ==
    ASSUME NEW x \in Version, NEW y \in Version, NEW v \in Version,
           Reach(x, v), ~Less(y, x)
    PROVE  Reach(y, v)
BY Parts, StepsType DEF Reach, Less

\* A release that is permitted from the lowest version is within reach of every node.
LEMMA PermittedReach ==
    ASSUME NEW current \in Version, NEW x \in Version, NEW v \in Version,
           Permitted(current, v), ~Less(x, current)
    PROVE  Reach(x, v)
BY Parts, StepsType DEF Reach, Less, Permitted

LEMMA LessIrreflexive ==
    ASSUME NEW x \in Version
    PROVE  ~Less(x, x)
BY Parts DEF Less

LEMMA SelectEligible ==
    ASSUME TypeOK, NEW current, NEW v \in Select(current)
    PROVE  v \in Releases /\ Permitted(current, v)
BY DEF Select, Eligible, TypeOK

-----------------------------------------------------------------------------
(* Types.                                                                    *)

LEMMA SetChildType ==
    ASSUME TypeOK, NEW v \in Releases, NEW phase \in ChildPhase, SetChild(v, phase)
    PROVE  store' \in Stored
<1>1. store.children \in [Releases -> ChildPhase]
  BY DEF TypeOK, Stored
<1>2. store' = [store EXCEPT !.children = [store.children EXCEPT ![v] = phase]]
  BY DEF SetChild
<1> QED
  BY <1>1, <1>2 DEF TypeOK, Stored

LEMMA SetJobType ==
    ASSUME TypeOK, NEW v \in Releases, NEW n \in Nodes,
           NEW state \in JobState,
           job' = [job EXCEPT ![v][n] = state]
    PROVE  /\ job' \in [Releases -> [Nodes -> JobState]]
           /\ job'[v][n] = state
           /\ \A w \in Releases, m \in Nodes : w # v \/ m # n => job'[w][m] = job[w][m]
<1>1. job[v] \in [Nodes -> JobState]
  BY DEF TypeOK
<1>2. job' = [job EXCEPT ![v] = [job[v] EXCEPT ![n] = state]]
  OBVIOUS
<1> QED
  BY <1>1, <1>2 DEF TypeOK

LEMMA InitType == Init => TypeOK
<1> SUFFICES ASSUME Init PROVE TypeOK
  OBVIOUS
<1>1. NoChildren \in [Releases -> ChildPhase]
  BY DEF NoChildren, ChildPhase
<1>2. store \in Stored
  BY <1>1 DEF Init, Stored
<1>3. version \in [Nodes -> Versions \cup Releases \cup {NoVersion}]
  BY DEF Init
<1> QED
  BY <1>2, <1>3, NodesAssumption, BoundsAssumption DEF Init, TypeOK, JobState

\* The facts a counted upset needs.
LEMMA Upset ==
    ASSUME TypeOK, upsets < MaxUpsets, upsets' = upsets + 1
    PROVE  upsets' \in 0..MaxUpsets
BY BoundsAssumption DEF TypeOK

LEMMA RoundType == TypeOK /\ (Round \/ Abort) => TypeOK'
<1> SUFFICES ASSUME TypeOK, Round \/ Abort PROVE TypeOK'
  OBVIOUS
<1>1. CASE BeginRound
  BY <1>1 DEF BeginRound, TypeOK, storeVars, nodeVars
<1>2. CASE CheckForRelease
  <2>1. CASE \E current \in Lowest : \E v \in Select(current) : target' = v /\ pc' = "create"
    <3>1. target' \in Releases /\ pc' = "create"
      BY <2>1, SelectEligible
    <3> QED
      BY <1>2, <3>1 DEF CheckForRelease, TypeOK, storeVars, nodeVars
  <2>2. CASE pc' = "record" /\ UNCHANGED target
    BY <1>2, <2>2 DEF CheckForRelease, TypeOK, storeVars, nodeVars
  <2> QED
    BY <1>2, <2>1, <2>2 DEF CheckForRelease
<1>3. CASE CreateChildPlan
  <2>1. target \in Releases
    BY <1>3 DEF CreateChildPlan, TypeOK
  <2>2. store' \in Stored
    <3>1. CASE store.children[target] = "none"
      <4>1. SetChild(target, "Pending")
        BY <1>3, <3>1 DEF CreateChildPlan, SetChild
      <4> QED
        BY <2>1, <4>1, SetChildType DEF ChildPhase
    <3>2. CASE UNCHANGED store
      BY <3>2 DEF TypeOK
    <3> QED
      BY <1>3, <3>1, <3>2 DEF CreateChildPlan
  <2>3. knew' \in [Releases -> SUBSET Nodes]
    BY <1>3, <2>1 DEF CreateChildPlan, TypeOK
  <2> QED
    BY <1>3, <2>2, <2>3 DEF CreateChildPlan, TypeOK, nodeVars
<1>4. CASE RecordCheck
  <2>1. store' \in Stored
    BY <1>4 DEF RecordCheck, TypeOK, Stored
  <2> QED
    BY <1>4, <2>1 DEF RecordCheck, EndRound, TypeOK, nodeVars
<1>5. CASE Abort
  BY <1>5, Upset DEF Abort, EndRound, TypeOK, storeVars, nodeVars
<1> QED
  BY <1>1, <1>2, <1>3, <1>4, <1>5 DEF Round

LEMMA StartJobType ==
    ASSUME TypeOK, NEW v \in Releases, NEW n \in Nodes, StartJob(v, n)
    PROVE  TypeOK'
<1>1. store' \in Stored
  BY SetChildType DEF StartJob, ChildPhase
<1>2. job' \in [Releases -> [Nodes -> JobState]]
  BY SetJobType DEF StartJob, JobState
<1>3. met' \in SUBSET Nodes
  BY DEF StartJob, TypeOK
<1> QED
  BY <1>1, <1>2, <1>3 DEF StartJob, TypeOK, childUnchanged, roundVars

LEMMA ChildrenType == TypeOK /\ Children => TypeOK'
<1> SUFFICES ASSUME TypeOK, Children PROVE TypeOK'
  OBVIOUS
<1>1. ASSUME NEW v \in Releases, ChildStarts(v) PROVE TypeOK'
  <2>1. store' \in Stored
    BY <1>1, SetChildType DEF ChildStarts, ChildPhase
  <2> QED
    BY <1>1, <2>1 DEF ChildStarts, TypeOK, childUnchanged, roundVars
<1>2. ASSUME NEW v \in Releases, ChildRefused(v) PROVE TypeOK'
  <2>1. store' \in Stored
    BY <1>2, SetChildType DEF ChildRefused, ChildPhase
  <2>2. upsets' \in 0..MaxUpsets
    BY <1>2, Upset DEF ChildRefused, TypeOK
  <2> QED
    BY <1>2, <2>1, <2>2 DEF ChildRefused, TypeOK, childUnchanged, roundVars
<1>3. ASSUME NEW v \in Releases, ChildEnds(v) PROVE TypeOK'
  <2>1. store' \in Stored
    BY <1>3, SetChildType DEF ChildEnds, ChildPhase
  <2> QED
    BY <1>3, <2>1 DEF ChildEnds, TypeOK, childUnchanged, roundVars
<1>4. ASSUME NEW v \in Releases, NEW n \in Nodes, ChildStartsJob(v, n) PROVE TypeOK'
  BY <1>4, StartJobType DEF ChildStartsJob
<1>5. ASSUME NEW v \in Releases, NEW n \in Nodes, JobEnds(v, n) PROVE TypeOK'
  <2>1. job' \in [Releases -> [Nodes -> JobState]]
    BY <1>5, SetJobType DEF JobEnds, JobState
  <2>2. version' \in [Nodes -> Versions \cup Releases \cup {NoVersion}]
    BY <1>5 DEF JobEnds, TypeOK
  <2>3. upsets' \in 0..MaxUpsets
    BY <1>5, Upset DEF JobEnds, TypeOK
  <2> QED
    BY <1>5, <2>1, <2>2, <2>3 DEF JobEnds, TypeOK, storeVars, roundVars
<1> QED
  BY <1>1, <1>2, <1>3, <1>4, <1>5 DEF Children

\* What is not a running or finished job stays none.
LEMMA DeletedJobs ==
    ASSUME TypeOK, NEW v \in Releases, NEW kept \in [Nodes -> JobState],
           job' = [job EXCEPT ![v] = kept]
    PROVE  /\ job' \in [Releases -> [Nodes -> JobState]]
           /\ job'[v] = kept
           /\ \A w \in Releases \ {v} : job'[w] = job[w]
BY DEF TypeOK

LEMMA EnvironmentType == TypeOK /\ Environment => TypeOK'
<1> SUFFICES ASSUME TypeOK, Environment PROVE TypeOK'
  OBVIOUS
<1>1. CASE EditTemplate
  <2>1. store' \in Stored
    BY <1>1 DEF EditTemplate, TypeOK, Stored
  <2> QED
    BY <1>1, <2>1, Upset DEF EditTemplate, TypeOK, roundVars, nodeVars
<1>2. CASE IntervalEnds
  <2>1. store' \in Stored /\ cache' \in Stored
    BY <1>2 DEF IntervalEnds, TypeOK, Stored
  <2> QED
    BY <1>2, <2>1 DEF IntervalEnds, TypeOK, nodeVars
<1>3. CASE Sync
  BY <1>3 DEF Sync, TypeOK, roundVars, nodeVars
<1>4. ASSUME NEW v \in Releases, DeleteChild(v) PROVE TypeOK'
  <2>1. store' \in Stored
    BY <1>4, SetChildType DEF DeleteChild, ChildPhase
  <2>2. job' \in [Releases -> [Nodes -> JobState]]
    BY <1>4, DeletedJobs DEF DeleteChild, JobState
  <2> QED
    BY <1>4, <2>1, <2>2, Upset DEF DeleteChild, TypeOK
<1>5. ASSUME NEW v \in Releases, RetryNodes(v) PROVE TypeOK'
  <2> DEFINE kept == [n \in Nodes |-> IF job[v][n] = "failed" THEN "none" ELSE job[v][n]]
  <2>1. kept \in [Nodes -> JobState]
    BY DEF TypeOK, JobState
  <2>2. job' \in [Releases -> [Nodes -> JobState]]
    BY <1>5, <2>1, DeletedJobs DEF RetryNodes, TypeOK
  <2> QED
    BY <1>5, <2>2, Upset DEF RetryNodes, TypeOK, storeVars, roundVars
<1>6. ASSUME NEW v \in Releases, ReleaseAges(v) PROVE TypeOK'
  BY <1>6 DEF ReleaseAges, TypeOK, storeVars, roundVars, nodeVars
<1>7. ASSUME NEW n \in Nodes, NodeJoins(n) PROVE TypeOK'
  BY <1>7 DEF NodeJoins, TypeOK, storeVars, roundVars
<1>8. ASSUME NEW v \in Releases, NEW n \in Nodes, ChildResumes(v, n) PROVE TypeOK'
  BY <1>8, StartJobType DEF ChildResumes
<1> QED
  BY <1>1, <1>2, <1>3, <1>4, <1>5, <1>6, <1>7, <1>8 DEF Environment

LEMMA NextType == TypeOK /\ [Next]_vars => TypeOK'
<1>1. ASSUME TypeOK, UNCHANGED vars PROVE TypeOK'
  BY <1>1 DEF TypeOK, vars, storeVars, roundVars, nodeVars
<1> QED
  BY <1>1, RoundType, ChildrenType, EnvironmentType DEF Next

\* Every variable keeps its type: a round creates a child only for a release that upstream
\* has (target), whatever is deleted, retried or edited while it runs.
THEOREM TypeCorrect == Spec => []TypeOK
BY InitType, NextType, PTL DEF Spec

-----------------------------------------------------------------------------
(* The invariant.                                                            *)

\* No node that is known, or has a job, is lowered without an excuse.
Rises == \A m \in cluster : Excused(m) \/ ~Less(version'[m], version[m])

LEMMA InitParts == Init => JobParts /\ KnownParts
BY DEF Init, JobParts, KnownParts, JobsInCluster, Meet, Raises, KnownInCluster,
       TargetWithin, WithinSteps, Busy

\* A step that starts no job and touches no node.
LEMMA NoNewJob ==
    ASSUME JobParts, UNCHANGED <<cluster, version, met>>,
           \A v \in Releases, n \in Nodes : job'[v][n] # "none" => job'[v][n] = job[v][n]
    PROVE  JobParts'
<1>1. JobsInCluster'
  BY DEF JobParts, JobsInCluster
<1>2. Meet'
  BY DEF JobParts, Meet, Busy
<1>3. Raises'
  BY DEF JobParts, Raises, Excused, Less, Busy
<1> QED
  BY <1>1, <1>2, <1>3 DEF JobParts

\* A step of others leaves a round alone, and adds nothing to what a child knows.
Forgets ==
    /\ UNCHANGED <<pc, target, probed>>
    /\ \A v \in Releases : knew'[v] \subseteq knew[v]

\* What a child and a round know of the nodes stays true while versions only rise.
LEMMA RisingKeepsReach ==
    ASSUME TypeOK, TypeOK', KnownParts, Rises, Forgets,
           cluster \subseteq cluster', met \subseteq met'
    PROVE  KnownParts'
<1>1. KnownInCluster'
  BY DEF KnownParts, KnownInCluster, Forgets
<1>2. ASSUME NEW n \in cluster, NEW v \in Releases, Excused(n) \/ Reach(version[n], v)
      PROVE  Excused(n)' \/ Reach(version'[n], v)
  <2>1. n \in Nodes
    BY DEF TypeOK
  <2>2. version[n] \in Version /\ version'[n] \in Version /\ v \in Version
    <3>1. version'[n] \in Version
      BY <2>1, VersionsAssumption DEF TypeOK, Version, NoVersion
    <3> QED
      BY <2>1, <3>1, NodeVersion, ReleaseVersion
  <2>3. CASE Excused(n)
    BY <2>3 DEF Excused
  <2>4. CASE ~Excused(n)
    <3>1. Reach(version[n], v) /\ ~Less(version'[n], version[n])
      BY <1>2, <2>4 DEF Rises
    <3> QED
      BY <2>2, <3>1, ReachUp
  <2> QED
    BY <2>3, <2>4
<1>3. TargetWithin'
  <2> SUFFICES ASSUME pc = "create", NEW n \in probed
               PROVE  Excused(n)' \/ Reach(version'[n], target)
    BY DEF TargetWithin, Forgets, Reach, Less, Steps
  <2>1. n \in cluster /\ target \in Releases /\ (Excused(n) \/ Reach(version[n], target))
    BY DEF KnownParts, KnownInCluster, TargetWithin, TypeOK
  <2> QED
    BY <1>2, <2>1
<1>4. WithinSteps'
  <2> SUFFICES ASSUME NEW v \in Releases, NEW n \in Nodes, n \in knew[v]
               PROVE  Excused(n)' \/ Reach(version'[n], v)
    BY DEF WithinSteps, Forgets, Reach, Less, Steps
  <2>1. n \in cluster /\ (Excused(n) \/ Reach(version[n], v))
    BY DEF KnownParts, KnownInCluster, WithinSteps, Forgets
  <2> QED
    BY <1>2, <2>1
<1> QED
  BY <1>1, <1>3, <1>4 DEF KnownParts

\* Versions that stay the same rise.
LEMMA SameVersions ==
    ASSUME TypeOK, UNCHANGED version
    PROVE  Rises
<1> SUFFICES ASSUME NEW m \in cluster PROVE ~Less(version'[m], version[m])
  BY DEF Rises
<1>1. version[m] \in Version
  BY NodeVersion DEF TypeOK
<1> QED
  BY <1>1, LessIrreflexive

\* The rounds: the release of a check is within reach of every node there is.
LEMMA RoundParts ==
    ASSUME IInv, TypeOK', Round \/ Abort
    PROVE  JobParts' /\ KnownParts' /\ Rises
<1>1. UNCHANGED nodeVars
  BY DEF Round, BeginRound, CheckForRelease, CreateChildPlan, RecordCheck, Abort
<1>2. Rises
  BY <1>1, SameVersions DEF IInv, nodeVars
<1>3. JobParts'
  BY <1>1, NoNewJob DEF IInv, nodeVars
<1>4. KnownInCluster'
  BY <1>1 DEF IInv, KnownParts, KnownInCluster, TypeOK, nodeVars, EndRound,
              Round, BeginRound, CheckForRelease, CreateChildPlan, RecordCheck, Abort
<1>5. TargetWithin'
  <2>1. CASE CheckForRelease
    <3> SUFFICES ASSUME pc' = "create", NEW n \in cluster
                 PROVE  Reach(version[n], target')
      BY <1>1, <2>1 DEF CheckForRelease, TargetWithin, nodeVars, Reach, Less, Steps
    <3>1. PICK current \in Lowest : target' \in Select(current)
      BY <2>1 DEF CheckForRelease
    <3>2. PICK m \in cluster : current = version[m]
      BY DEF Lowest
    <3>3. ~Less(version[n], current)
      BY DEF Lowest
    <3>4. target' \in Releases /\ Permitted(current, target')
      BY <3>1, SelectEligible DEF IInv
    <3>5. version[n] \in Version /\ current \in Version /\ target' \in Version
      BY <3>2, <3>4, NodeVersion, ReleaseVersion DEF IInv, TypeOK
    <3> QED
      BY <3>3, <3>4, <3>5, PermittedReach
  <2>2. CASE ~CheckForRelease
    BY <2>2 DEF TargetWithin, EndRound, Round, BeginRound, CreateChildPlan, RecordCheck, Abort
  <2> QED
    BY <2>1, <2>2
<1>6. WithinSteps'
  <2> SUFFICES ASSUME NEW v \in Releases, NEW n \in Nodes, n \in knew'[v]
               PROVE  Excused(n) \/ Reach(version[n], v)
    BY <1>1 DEF WithinSteps, nodeVars, Excused, Reach, Less, Steps
  <2>1. CASE n \in knew[v]
    BY <2>1 DEF IInv, KnownParts, WithinSteps
  <2>2. CASE n \notin knew[v]
    <3>1. CreateChildPlan /\ v = target /\ n \in probed
      BY <2>2 DEF IInv, TypeOK, Round, BeginRound, CheckForRelease, CreateChildPlan,
                  RecordCheck, Abort
    <3> QED
      BY <3>1 DEF CreateChildPlan, IInv, KnownParts, TargetWithin
  <2> QED
    BY <2>1, <2>2
<1> QED
  BY <1>2, <1>3, <1>4, <1>5, <1>6 DEF KnownParts

\* A job that starts has looked at its node, and at the jobs that run on it.
LEMMA StartJobParts ==
    ASSUME IInv, TypeOK', NEW v \in Releases, NEW n \in Nodes, StartJob(v, n)
    PROVE  JobParts' /\ KnownParts' /\ Rises
<1>1. UNCHANGED <<roundVars, cluster, version>> /\ met \subseteq met' /\ n \in cluster
  BY DEF StartJob, childUnchanged
<1>2. Rises
  BY <1>1, SameVersions DEF IInv
<1>3. KnownParts'
  BY <1>1, <1>2, RisingKeepsReach DEF IInv, Forgets, roundVars
<1>4. \A w \in Releases, m \in Nodes : w # v \/ m # n => job'[w][m] = job[w][m]
  BY SetJobType DEF StartJob, IInv
<1>5. JobsInCluster'
  BY <1>1, <1>4 DEF IInv, JobParts, JobsInCluster
<1>6. Meet'
  <2> SUFFICES ASSUME NEW w \in Releases, NEW x \in Releases, NEW m \in Nodes, w # x,
                      Busy(job'[w][m]), Busy(job'[x][m])
               PROVE  m \in met'
    BY DEF Meet
  <2>1. CASE Busy(job[w][m]) /\ Busy(job[x][m])
    BY <1>1, <2>1 DEF IInv, JobParts, Meet
  <2>2. CASE m = n /\ \E u \in Releases \ {v} : Busy(job[u][n])
    BY <2>2 DEF StartJob
  <2> QED
    BY <1>4, <2>1, <2>2
<1>7. Raises'
  <2> SUFFICES ASSUME NEW w \in Releases, NEW m \in Nodes, Busy(job'[w][m])
               PROVE  Excused(m)' \/ ~Less(w, version'[m])
    BY DEF Raises, Less
  <2>1. CASE w = v /\ m = n
    <3> DEFINE state == IF version[n] = v THEN "done"
                        ELSE IF Less(v, version[n]) /\ ~AllowTalosDowngrade THEN "failed"
                        ELSE "running"
    <3>0. job' = [job EXCEPT ![v][n] = state] /\ state \in JobState
      BY DEF StartJob, JobState
    <3> HIDE DEF state
    <3>1. job'[v][n] = state
      BY <3>0, SetJobType DEF IInv
    <3> USE DEF state
    <3> QED
      BY <1>1, <2>1, <3>1 DEF Excused, Busy
  <2>2. CASE Busy(job[w][m])
    BY <1>1, <2>2 DEF IInv, JobParts, Raises, Excused
  <2> QED
    BY <1>4, <2>1, <2>2
<1> QED
  BY <1>2, <1>3, <1>5, <1>6, <1>7 DEF JobParts

\* A job that ends has raised its node, unless another child has worked on it.
LEMMA JobEndsParts ==
    ASSUME IInv, TypeOK', NEW v \in Releases, NEW n \in Nodes, JobEnds(v, n)
    PROVE  JobParts' /\ KnownParts' /\ Rises
<1>0. PICK state \in {"booting", "done", "failed"} :
        /\ Busy(job[v][n]) /\ job' = [job EXCEPT ![v][n] = state]
        /\ state = "booting" => version' = version
  BY DEF JobEnds, Busy
<1>1. UNCHANGED <<roundVars, cluster, met>> /\ n \in cluster
  BY <1>0 DEF JobEnds, Busy, IInv, JobParts, JobsInCluster
<1>2. \A m \in Nodes \ {n} : version'[m] = version[m]
  BY DEF JobEnds, IInv, TypeOK
<1>3. version'[n] \in {v, version[n]}
  BY DEF JobEnds, IInv, TypeOK
<1>4. \A m \in Nodes : ~Less(version[m], version[m])
  BY NodeVersion, LessIrreflexive DEF IInv
<1>5. Rises
  <2> SUFFICES ASSUME NEW m \in cluster PROVE Excused(m) \/ ~Less(version'[m], version[m])
    BY DEF Rises
  <2>1. CASE m # n
    BY <1>2, <1>4, <2>1 DEF IInv, TypeOK
  <2>2. CASE m = n
    <3>1. Excused(n) \/ ~Less(v, version[n])
      BY <1>0 DEF IInv, JobParts, Raises
    <3> QED
      BY <1>3, <1>4, <2>2, <3>1
  <2> QED
    BY <2>1, <2>2
<1>6. KnownParts'
  BY <1>1, <1>5, RisingKeepsReach DEF IInv, Forgets, roundVars
<1>7. /\ job'[v][n] = state
      /\ \A w \in Releases, m \in Nodes : w # v \/ m # n => job'[w][m] = job[w][m]
  BY <1>0, SetJobType DEF IInv, TypeOK, JobState
<1>8. JobsInCluster'
  BY <1>1, <1>7 DEF IInv, JobParts, JobsInCluster
<1>9. Meet'
  <2>1. \A w \in Releases, m \in Nodes : Busy(job'[w][m]) => Busy(job[w][m])
    BY <1>0, <1>7
  <2> QED
    BY <1>1, <2>1 DEF IInv, JobParts, Meet
<1>10. Raises'
  <2> SUFFICES ASSUME NEW w \in Releases, NEW m \in Nodes, Busy(job'[w][m])
               PROVE  Excused(m)' \/ ~Less(w, version'[m])
    BY DEF Raises, Less
  <2>1. Busy(job[w][m])
    BY <1>0, <1>7
  <2>2. CASE m # n \/ version' = version
    BY <1>1, <1>2, <2>1, <2>2 DEF IInv, JobParts, Raises, Excused
  <2>3. CASE m = n /\ state # "booting"
    <3>0. w # v
      BY <1>0, <1>7, <2>3 DEF Busy
    <3>1. n \in met
      BY <1>0, <2>1, <2>3, <3>0 DEF IInv, JobParts, Meet
    <3> QED
      BY <1>1, <2>3, <3>1 DEF Excused
  <2> QED
    BY <1>0, <2>2, <2>3
<1> QED
  BY <1>5, <1>6, <1>8, <1>9, <1>10 DEF JobParts

\* A node that joins has no job, and no child and no round knows it.
LEMMA NodeJoinsParts ==
    ASSUME IInv, TypeOK', NEW n \in Nodes, NodeJoins(n)
    PROVE  JobParts' /\ KnownParts' /\ Rises
<1>1. /\ UNCHANGED <<roundVars, job, met>>
      /\ n \notin cluster /\ cluster \subseteq cluster'
      /\ \A m \in cluster : version'[m] = version[m]
  BY DEF NodeJoins, IInv, TypeOK
<1>2. Rises
  <2> SUFFICES ASSUME NEW m \in cluster PROVE ~Less(version'[m], version[m])
    BY DEF Rises
  <2>1. version[m] \in Version
    BY NodeVersion DEF IInv, TypeOK
  <2> QED
    BY <1>1, <2>1, LessIrreflexive
<1>3. KnownParts'
  BY <1>1, <1>2, RisingKeepsReach DEF IInv, Forgets, roundVars
<1>4. JobsInCluster'
  BY <1>1 DEF IInv, JobParts, JobsInCluster
<1>5. Meet'
  BY <1>1 DEF IInv, JobParts, Meet
<1>6. Raises'
  <2> SUFFICES ASSUME NEW w \in Releases, NEW m \in Nodes, Busy(job[w][m])
               PROVE  Excused(m)' \/ ~Less(w, version'[m])
    BY <1>1 DEF Raises, Less
  <2>1. m \in cluster
    BY DEF IInv, JobParts, JobsInCluster, Busy
  <2> QED
    BY <1>1, <2>1 DEF IInv, JobParts, Raises, Excused
<1> QED
  BY <1>2, <1>3, <1>4, <1>5, <1>6 DEF JobParts

\* The other steps start no job and touch no node.
LEMMA CalmParts ==
    ASSUME IInv, TypeOK', Forgets, UNCHANGED <<cluster, version, met>>,
           \A v \in Releases, n \in Nodes : job'[v][n] # "none" => job'[v][n] = job[v][n]
    PROVE  JobParts' /\ KnownParts' /\ Rises
BY NoNewJob, SameVersions, RisingKeepsReach DEF IInv

LEMMA ChildrenParts ==
    ASSUME IInv, TypeOK', Children
    PROVE  JobParts' /\ KnownParts' /\ Rises
<1>1. ASSUME NEW v \in Releases, ChildStarts(v) \/ ChildRefused(v) \/ ChildEnds(v)
      PROVE  JobParts' /\ KnownParts' /\ Rises
  BY <1>1, CalmParts DEF ChildStarts, ChildRefused, ChildEnds, childUnchanged,
              Forgets, roundVars
<1>2. ASSUME NEW v \in Releases, NEW n \in Nodes, ChildStartsJob(v, n)
      PROVE  JobParts' /\ KnownParts' /\ Rises
  BY <1>2, StartJobParts DEF ChildStartsJob
<1> QED
  BY <1>1, <1>2, JobEndsParts DEF Children

LEMMA EnvironmentParts ==
    ASSUME IInv, TypeOK', Environment
    PROVE  JobParts' /\ KnownParts' /\ Rises
<1>1. CASE EditTemplate \/ IntervalEnds \/ Sync \/ \E v \in Releases : ReleaseAges(v)
  BY <1>1, CalmParts DEF EditTemplate, IntervalEnds, Sync, ReleaseAges, roundVars, nodeVars,
              Forgets
<1>2. ASSUME NEW v \in Releases, DeleteChild(v)
      PROVE  JobParts' /\ KnownParts' /\ Rises
  <2> DEFINE kept == [n \in Nodes |-> "none"]
  <2>1. kept \in [Nodes -> JobState]
    BY DEF JobState
  <2>2. job'[v] = kept /\ \A w \in Releases \ {v} : job'[w] = job[w]
    BY <1>2, <2>1, DeletedJobs DEF DeleteChild, IInv
  <2>3. \A w \in Releases, n \in Nodes : job'[w][n] # "none" => job'[w][n] = job[w][n]
    BY <2>2
  <2> QED
    BY <1>2, <2>3, CalmParts DEF DeleteChild, IInv, TypeOK, Forgets
<1>3. ASSUME NEW v \in Releases, RetryNodes(v)
      PROVE  JobParts' /\ KnownParts' /\ Rises
  <2> DEFINE kept == [n \in Nodes |-> IF job[v][n] = "failed" THEN "none" ELSE job[v][n]]
  <2>1. kept \in [Nodes -> JobState]
    BY DEF IInv, TypeOK, JobState
  <2>2. job'[v] = kept /\ \A w \in Releases \ {v} : job'[w] = job[w]
    BY <1>3, <2>1, DeletedJobs DEF RetryNodes, IInv, TypeOK
  <2>3. \A w \in Releases, n \in Nodes : job'[w][n] # "none" => job'[w][n] = job[w][n]
    BY <2>2
  <2> QED
    BY <1>3, <2>3, CalmParts DEF RetryNodes, Forgets, roundVars
<1>4. ASSUME NEW n \in Nodes, NEW v \in Releases, ChildResumes(v, n)
      PROVE  JobParts' /\ KnownParts' /\ Rises
  BY <1>4, StartJobParts DEF ChildResumes
<1> QED
  BY <1>1, <1>2, <1>3, <1>4, NodeJoinsParts DEF Environment

LEMMA NextParts ==
    ASSUME IInv, [Next]_vars
    PROVE  IInv' /\ Rises
<1>1. TypeOK'
  BY NextType DEF IInv
<1>2. CASE UNCHANGED vars
  BY <1>1, <1>2, CalmParts DEF vars, storeVars, roundVars, nodeVars, IInv, Forgets
<1> QED
  BY <1>1, <1>2, RoundParts, ChildrenParts, EnvironmentParts DEF Next, IInv

\* What jobs, children and rounds rely on once they have looked at the nodes (the job's
\* downgrade guard, the choice of a release) stays true while others work on the nodes.
THEOREM Invariance == Spec => []IInv
<1>1. Init => IInv
  BY InitType, InitParts DEF IInv
<1> QED
  BY <1>1, NextParts, PTL DEF Spec

-----------------------------------------------------------------------------
(* What an auto-update promises.                                             *)

\* A job's look at its node, before it upgrades, is enough: no node is lowered by any child,
\* resumed or retried, unless that is allowed or two children worked on it at once.
THEOREM NoNodeLowered == Spec => NeverLowered
<1>1. ASSUME IInv, [Next]_vars
      PROVE  [\A n \in cluster :
                Less(version'[n], version[n]) => AllowTalosDowngrade \/ n \in met]_vars
  BY <1>1, NextParts DEF Rises, Excused
<1> QED
  BY <1>1, Invariance, PTL DEF Spec, NeverLowered

\* The choice of a release from the lowest version of the nodes is enough: however late a
\* child gets to a node that was there, it is within the permitted step of what it runs.
THEOREM NoMinorSkipped == Spec => StepsOneMinor
<1> DEFINE Step ==
      \A v \in Releases, n \in cluster :
        (version[n] # v /\ version'[n] = v) =>
          \/ v[1] = version[n][1] /\ v[2] =< version[n][2] + Steps
          \/ n \notin knew[v]
          \/ AllowTalosDowngrade \/ n \in met
<1>1. ASSUME IInv, [Next]_vars PROVE [Step]_vars
  <2> SUFFICES ASSUME NEW v \in Releases, NEW n \in cluster, version'[n] = v,
                      n \in knew[v], ~Excused(n)
               PROVE  v[1] = version[n][1] /\ v[2] =< version[n][2] + Steps
    BY DEF Excused
  <2>1. ~Less(v, version[n])
    BY <1>1, NextParts DEF Rises
  <2>2. Reach(version[n], v)
    BY <1>1 DEF IInv, TypeOK, KnownParts, WithinSteps
  <2> QED
    BY <2>1, <2>2 DEF Reach
<1> QED
  BY <1>1, Invariance, PTL DEF Spec, StepsOneMinor
=============================================================================
