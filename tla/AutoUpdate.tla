----------------------------- MODULE AutoUpdate ------------------------------
(***************************************************************************)
(* An auto-update template, the plans it creates and their nodes.           *)
(*                                                                          *)
(* A round of the template reads the template and lists its children from   *)
(* the cache, then asks the nodes for their versions and upstream for its   *)
(* releases, creates a child and records the check.  A child is the rollout *)
(* of the other modules, cut down to when it starts, works on a node and    *)
(* ends.  Versions are <<major, minor, patch>>; the patch of a prerelease   *)
(* is -1.                                                                   *)
(***************************************************************************)
EXTENDS Integers

CONSTANTS
    Nodes,                \* the nodes the plan selects, now or later
    FirstNodes,           \* those that are there when the template is created
    Versions,             \* versions nodes may join with
    Releases,             \* stable releases that upstream publishes
    Allow,                \* spec.target.autoUpdate.allow
    AllowTalosDowngrade,  \* spec.target.allowTalosDowngrade
    MaxUpsets             \* bound: edits by users, failed calls and jobs, crashes

ASSUME VersionsAssumption ==
    Versions \subseteq Int \X Int \X Int /\ Releases \subseteq Int \X Int \X Int
ASSUME NodesAssumption == FirstNodes \subseteq Nodes /\ FirstNodes # {}
ASSUME SpecAssumption == Allow \in {"patch", "minor"} /\ AllowTalosDowngrade \in BOOLEAN
ASSUME BoundsAssumption == MaxUpsets \in Nat

VARIABLES
    store,     \* the template and its children in the API server
    cache,     \* the same in the cache
    pc,        \* the step of the template's round
    target,    \* the release the round rolls out
    aged,      \* the releases that are old enough
    cluster,   \* the nodes that exist
    version,   \* what every node runs
    job,       \* the PatchJob of a child for a node
    upsets,
    probed,    \* history: the nodes the round asked for their versions
    knew,      \* history: the nodes probed when a child was created
    met        \* history: nodes two children worked on at once (a machine that is
               \* still to boot is being worked on)

storeVars == <<store, cache>>
roundVars == <<pc, target, probed, knew>>
nodeVars == <<cluster, version, job, met>>
vars == <<storeVars, roundVars, nodeVars, aged, upsets>>

\* A child that waits for a user, or for its preflight to pass, is Refused; one whose
\* preflight has passed and that stopped at failed jobs is Failed.
ChildPhase == {"none", "Pending", "Refused", "InProgress", "Failed", "Completed"}
\* "booting" is a job that failed before its machine came up, which it may do yet.
JobState == {"none", "running", "booting", "done", "failed"}
\* checked: the last check is less than an interval ago.
Stored == [control : {"run", "pause", "cancel"}, checked : BOOLEAN,
           children : [Releases -> ChildPhase]]

NoChildren == [v \in Releases |-> "none"]
NoVersion == <<0, 0, 0>>

Init ==
    /\ store = [control |-> "run", checked |-> FALSE, children |-> NoChildren]
    /\ cache = store
    /\ pc = "idle" /\ target = NoVersion
    /\ aged = {}
    /\ cluster = FirstNodes
    /\ version \in {f \in [Nodes -> Versions \cup {NoVersion}] :
                      \A n \in Nodes : f[n] = NoVersion <=> n \notin cluster}
    /\ job = [v \in Releases |-> [n \in Nodes |-> "none"]]
    /\ upsets = 0
    /\ probed = {} /\ knew = [v \in Releases |-> {}] /\ met = {}

-----------------------------------------------------------------------------
(* Releases.                                                                 *)

Less(v, w) ==
    \/ v[1] < w[1]
    \/ v[1] = w[1] /\ v[2] < w[2]
    \/ v[1] = w[1] /\ v[2] = w[2] /\ v[3] < w[3]

Lowest == {v \in {version[n] : n \in cluster} : \A n \in cluster : ~Less(version[n], v)}

\* At most the next minor version, or none.
Steps == IF Allow = "minor" THEN 1 ELSE 0

Permitted_AnyMinor(current, v) == Less(current, v) /\ v[1] = current[1]
Permitted(current, v) ==
    /\ Less(current, v) /\ v[1] = current[1]
    /\ v[2] =< current[2] + Steps

Eligible(current) == {v \in aged : Permitted(current, v)}

\* The newest release that is permitted and old enough, if there is one.
Select_NewestOnly(current) ==
    {v \in Eligible(current) :
        \A w \in Releases : Permitted(current, w) => ~Less(v, w)}
Select(current) == {v \in Eligible(current) : \A w \in Eligible(current) : ~Less(v, w)}

-----------------------------------------------------------------------------
(* The round of the template.                                                *)

EndRound == pc' = "idle" /\ target' = NoVersion /\ probed' = {}

\* No check while the template is stopped, a child is not Completed, or the interval is
\* not over.  (The template and its children are read one after the other; a cache that
\* moves in between can only make a check that is early or late.)
BeginRound ==
    /\ pc = "idle"
    /\ cache.control = "run" /\ ~cache.checked
    /\ \A v \in Releases : cache.children[v] \in {"none", "Completed"}
    /\ pc' = "check"
    /\ UNCHANGED <<storeVars, target, probed, knew, nodeVars, aged, upsets>>

CheckForRelease ==
    /\ pc = "check"
    /\ \E current \in Lowest :
         \/ \E v \in Select(current) : target' = v /\ pc' = "create" /\ probed' = cluster
         \/ Select(current) = {} /\ pc' = "record" /\ UNCHANGED <<target, probed>>
    /\ UNCHANGED <<storeVars, knew, nodeVars, aged, upsets>>

\* A plan that exists is left alone: <template>-<version> is its name.
CreateChildPlan_CopyStatus ==
    /\ pc = "create"
    /\ pc' = "record" /\ target' = NoVersion /\ probed' = {}
    /\ IF store.children[target] = "none"
       THEN /\ store' = [store EXCEPT !.children[target] = store.control]
            /\ knew' = [knew EXCEPT ![target] = probed]
       ELSE UNCHANGED <<store, knew>>
    /\ UNCHANGED <<cache, nodeVars, aged, upsets>>
CreateChildPlan ==
    /\ pc = "create"
    /\ pc' = "record" /\ target' = NoVersion /\ probed' = {}
    /\ IF store.children[target] = "none"
       THEN /\ store' = [store EXCEPT !.children[target] = "Pending"]
            /\ knew' = [knew EXCEPT ![target] = probed]
       ELSE UNCHANGED <<store, knew>>
    /\ UNCHANGED <<cache, nodeVars, aged, upsets>>

RecordCheck ==
    /\ pc = "record"
    /\ store' = [store EXCEPT !.checked = TRUE]
    /\ EndRound
    /\ UNCHANGED <<cache, knew, nodeVars, aged, upsets>>

\* A failed call, a failed check or a crash; a call may have been carried out.
Abort ==
    /\ pc # "idle" /\ upsets < MaxUpsets
    /\ upsets' = upsets + 1
    /\ EndRound
    /\ UNCHANGED <<storeVars, knew, nodeVars, aged>>

Round ==
    \/ BeginRound \/ CheckForRelease \/ CreateChildPlan \/ RecordCheck

-----------------------------------------------------------------------------
(* The children.                                                             *)

\* The machine may still be upgraded; the job is over; it is over and has failed.
Busy(state) == state \in {"running", "booting"}
Terminal(state) == state \in {"booting", "done", "failed"}
Lost(state) == state \in {"booting", "failed"}

FailedJobs(v) == {n \in cluster : Lost(job[v][n])}
BusyJobs(v) == {n \in cluster : Busy(job[v][n])}

SetChild(v, phase) == store' = [store EXCEPT !.children[v] = phase]
childUnchanged == <<cache, roundVars, cluster, version, aged>>

Downgrades(v) == \E n \in cluster : Less(v, version[n])
Conflicts(v) == \E w \in Releases \ {v} : store.children[w] = "InProgress"

\* The preflight is repeated until it passes, and never again.
ChildStarts(v) ==
    /\ store.children[v] \in {"Pending", "Refused"}
    /\ ~Conflicts(v) /\ (Downgrades(v) => AllowTalosDowngrade)
    /\ SetChild(v, "InProgress")
    /\ UNCHANGED <<childUnchanged, job, met, upsets>>

ChildRefused(v) ==
    /\ store.children[v] = "Pending"
    /\ \/ Conflicts(v) /\ UNCHANGED upsets
       \/ Downgrades(v) /\ ~AllowTalosDowngrade /\ UNCHANGED upsets
       \/ upsets < MaxUpsets /\ upsets' = upsets + 1
    /\ SetChild(v, "Refused")
    /\ UNCHANGED <<childUnchanged, job, met>>

\* The job looks at its node when it starts, and refuses to lower its version.
StartJob_Unchecked(v, n) ==
    /\ n \in cluster /\ job[v][n] = "none"
    /\ SetChild(v, "InProgress")
    /\ job' = [job EXCEPT ![v][n] = IF version[n] = v THEN "done" ELSE "running"]
    /\ met' = IF \E w \in Releases \ {v} : Busy(job[w][n]) THEN met \cup {n} ELSE met
    /\ UNCHANGED <<childUnchanged, upsets>>
StartJob(v, n) ==
    /\ n \in cluster /\ job[v][n] = "none"
    /\ SetChild(v, "InProgress")
    /\ job' = [job EXCEPT ![v][n] =
                 IF version[n] = v THEN "done"
                 ELSE IF Less(v, version[n]) /\ ~AllowTalosDowngrade THEN "failed"
                 ELSE "running"]
    /\ met' = IF \E w \in Releases \ {v} : Busy(job[w][n]) THEN met \cup {n} ELSE met
    /\ UNCHANGED <<childUnchanged, upsets>>

\* A child also goes on after its failed jobs have been deleted, all its jobs even:
\* its preflight has passed.
ChildStartsJob(v, n) ==
    /\ \/ store.children[v] = "InProgress"
       \/ store.children[v] = "Failed" /\ FailedJobs(v) = {}
    /\ StartJob(v, n)

\* A Completed child takes up a new node, without a preflight, when something wakes it.
ChildResumes(v, n) ==
    /\ store.children[v] = "Completed"
    /\ StartJob(v, n)

\* A job that fails (a reboot timeout, a check after it) leaves its machine on the old
\* version, on the new one, or about to boot it.
JobEnds(v, n) ==
    /\ \/ /\ job[v][n] = "running"
          /\ job' = [job EXCEPT ![v][n] = "done"]
          /\ version' = [version EXCEPT ![n] = v]
          /\ UNCHANGED upsets
       \/ /\ job[v][n] = "running"
          /\ upsets < MaxUpsets /\ upsets' = upsets + 1
          /\ \E state \in {"booting", "failed"} : job' = [job EXCEPT ![v][n] = state]
          /\ UNCHANGED version
       \/ /\ job[v][n] = "booting"
          /\ job' = [job EXCEPT ![v][n] = "failed"]
          /\ version' = [version EXCEPT ![n] = v]
          /\ UNCHANGED upsets
    /\ UNCHANGED <<storeVars, roundVars, cluster, met, aged>>

\* The failure policy: a child may end with failed nodes or stop at one.
ChildEnds(v) ==
    /\ store.children[v] = "InProgress"
    /\ \/ FailedJobs(v) # {} /\ SetChild(v, "Failed")
       \/ (\A n \in cluster : Terminal(job[v][n])) /\ SetChild(v, "Completed")
    /\ UNCHANGED <<childUnchanged, job, met, upsets>>

Children ==
    \E v \in Releases :
        \/ ChildStarts(v) \/ ChildRefused(v) \/ ChildEnds(v)
        \/ \E n \in Nodes : ChildStartsJob(v, n) \/ JobEnds(v, n)

-----------------------------------------------------------------------------
(* Users, upstream, the clock and the cache.                                 *)

EditTemplate ==
    /\ upsets < MaxUpsets /\ upsets' = upsets + 1
    /\ \E control \in {"run", "pause", "cancel"} \ {store.control} :
         store' = [store EXCEPT !.control = control]
    /\ UNCHANGED <<cache, roundVars, nodeVars, aged>>

\* With its jobs, by garbage collection.
DeleteChild(v) ==
    /\ store.children[v] \in {"Refused", "Failed", "Completed"} /\ BusyJobs(v) = {}
    /\ upsets < MaxUpsets /\ upsets' = upsets + 1
    /\ SetChild(v, "none") /\ knew' = [knew EXCEPT ![v] = {}]
    /\ job' = [job EXCEPT ![v] = [n \in Nodes |-> "none"]]
    /\ UNCHANGED <<cache, pc, target, probed, cluster, version, met, aged>>

\* The message of a failed job says to verify the node first: it has booted by then.
RetryNodes(v) ==
    /\ \E n \in cluster : job[v][n] = "failed"
    /\ upsets < MaxUpsets /\ upsets' = upsets + 1
    /\ job' = [job EXCEPT ![v] = [n \in Nodes |-> IF @[n] = "failed" THEN "none" ELSE @[n]]]
    /\ UNCHANGED <<storeVars, roundVars, cluster, version, met, aged>>

NodeJoins(n) ==
    /\ n \notin cluster /\ cluster' = cluster \cup {n}
    /\ \E v \in Versions : version' = [version EXCEPT ![n] = v]
    /\ UNCHANGED <<storeVars, roundVars, job, met, aged, upsets>>

ReleaseAges(v) ==
    /\ v \notin aged /\ aged' = aged \cup {v}
    /\ UNCHANGED <<storeVars, roundVars, nodeVars, upsets>>

\* The check interval is over, for all who know of the check.
IntervalEnds ==
    /\ store' = [store EXCEPT !.checked = FALSE]
    /\ cache' = [cache EXCEPT !.checked = FALSE]
    /\ UNCHANGED <<pc, target, probed, knew, nodeVars, aged, upsets>>

\* Template and children come from one informer: the cache is a past state of both.
Sync ==
    /\ cache' = store
    /\ UNCHANGED <<store, roundVars, nodeVars, aged, upsets>>

Environment ==
    \/ EditTemplate \/ IntervalEnds \/ Sync
    \/ \E v \in Releases : DeleteChild(v) \/ RetryNodes(v) \/ ReleaseAges(v)
    \/ \E n \in Nodes : NodeJoins(n) \/ \E v \in Releases : ChildResumes(v, n)

Next == Round \/ Abort \/ Children \/ Environment

Spec == Init /\ [][Next]_vars

\* A round asks to be woken again and the children's rounds do too; the cache catches up
\* and time passes.  Users, aged, new nodes and the waking of Completed children
\* may never happen.
FairSpec ==
    /\ Spec
    /\ WF_vars(Round) /\ WF_vars(Children)
    /\ WF_vars(IntervalEnds) /\ WF_vars(Sync)

-----------------------------------------------------------------------------
(* Correctness.                                                              *)

\* The shape of every variable; a child has a phase of its own.
TypeOK ==
    /\ store \in Stored /\ cache \in Stored
    /\ pc \in {"idle", "check", "create", "record"}
    /\ target \in Releases \cup {NoVersion}
    /\ pc = "create" => target \in Releases
    /\ aged \in SUBSET Releases
    /\ cluster \in SUBSET Nodes /\ cluster # {}
    /\ version \in [Nodes -> Versions \cup Releases \cup {NoVersion}]
    /\ job \in [Releases -> [Nodes -> JobState]]
    /\ upsets \in 0..MaxUpsets
    /\ probed \in SUBSET Nodes /\ knew \in [Releases -> SUBSET Nodes] /\ met \in SUBSET Nodes

\* No node skips a minor version ("minor") or leaves its own ("patch"), whatever mix of
\* versions the nodes run, whatever became of earlier children and however late a machine
\* boots, unless it joined after the check that chose the release, or may have been
\* lowered since (README:468).
StepsOneMinor ==
    [][\A v \in Releases, n \in cluster :
         (version[n] # v /\ version'[n] = v) =>
            \/ v[1] = version[n][1] /\ v[2] =< version[n][2] + Steps
            \/ n \notin knew[v]
            \/ AllowTalosDowngrade \/ n \in met]_vars

\* No node is lowered, whatever mix of versions the nodes run and whichever children are
\* fixed, deleted or resumed, unless that is allowed or two children worked on the node
\* at once (README, "Divergences").
NeverLowered ==
    [][\A n \in cluster :
         Less(version'[n], version[n]) => AllowTalosDowngrade \/ n \in met]_vars

\* Every eligible release, or a newer one, is rolled out in the end, however often younger
\* ones appear and whatever a crash leaves behind, unless a user has stopped the template,
\* a child waits for a user, or the release has a Completed child (a node joined or failed
\* since).
EventuallyCurrent ==
    <>[](\/ store.control # "run"
         \/ \E v \in Releases : store.children[v] \in {"Refused", "Failed"}
         \/ \A current \in Lowest : \A v \in Eligible(current) :
              \E w \in Eligible(current) : ~Less(w, v) /\ store.children[w] = "Completed")

\* "No new child is created while an earlier child is not Completed" (README:470) is true
\* of the children in the cache; see "Divergences" in the README.
OneChild ==
    \A v, w \in Releases :
        {store.children[v], store.children[w]} \subseteq {"Pending", "InProgress"} => v = w
=============================================================================
