------------------------------ MODULE GpuNodes ------------------------------
(***************************************************************************)
(* The node pass of handlePending: list the GPU nodes, ask Prometheus for  *)
(* their health, restore the healthy and isolate the unhealthy ones, decide *)
(* whether a node has room for the job and create its pod                  *)
(* (fetchNodesAndSyncStatus, calculateClusterCapacityForJob and            *)
(* createHpcPod in internal/controller, and pkg/kube/client.go).           *)
(*                                                                         *)
(* It opens the steps Nodes and Create of HPCJobController: every call to  *)
(* the API server or to Prometheus is a step, and the two goroutines of    *)
(* SyncNodeHealthStatus interleave.  The scheduler, the kubelets and other *)
(* writers of taints act between any two of them.  What becomes of the     *)
(* jobs is left to HPCJobController; here a job waits or it does not.      *)
(***************************************************************************)
EXTENDS Integers, FiniteSets, FiniteSetsExt

CONSTANTS
    Nodes,      \* the nodes whose label nvidia.com/gpu.count is positive
    Jobs,       \* the names of the HPCJobs
    Managers,   \* the manager processes
    Gpus,       \* Gpus[n]: the allocatable GPUs of node n
    GpuCount,   \* GpuCount[j]: the GPUs job j asks for
    NoLabel,    \* the density of a node without the label
    MaxFlips,   \* changes of a node's health and of foreign taints
    MaxFaults   \* failed calls and crashes

ASSUME GpuNodesAssumption ==
    /\ Gpus \in [Nodes -> Nat]
    /\ GpuCount \in [Jobs -> Nat \ {0}]
    /\ NoLabel \notin Int
    /\ MaxFlips \in Nat
    /\ MaxFaults \in Nat

VARIABLES
    taints,     \* taints[n]: the keys of node n's taints
    density,    \* density[n]: n's label hpc-sentinel/density
    health,     \* health[n]: what n's metrics in Prometheus say
    waiting,    \* the jobs that are Pending by the managers' caches
    pods,       \* pods[j]: the pod with job j's name
    pass,       \* pass[m]: the node pass of m's worker
    quarantined,  \* history: the nodes isolated and not found healthy since
    flips,      \* flips so far
    faults      \* faults so far

vars == <<taints, density, health, waiting, pods, pass, quarantined, flips, faults>>

nodeVars == <<taints, density>>
world == <<health, waiting, flips>>

-----------------------------------------------------------------------------
\* The taint of isolated nodes, the one HPC pods tolerate, any other one.
TaintKeys == {"unhealthy", "gpu", "other"}

Verdicts == {"healthy", "unhealthy", "absent"}

NoPod == [phase |-> "Absent"]
Unscheduled == [phase |-> "Unscheduled"]
Placed == [phase : {"Active", "Succeeded", "Failed"}, node : Nodes]

Idle == [pc |-> "idle"]

On(n, phases) == {j \in Jobs : pods[j].phase \in phases /\ pods[j].node = n}
Requested(jobs) == MapThenSumSet(LAMBDA j : GpuCount[j], jobs)

\* A density label counts the GPUs of some jobs' pods.
Counts == {0} \cup {Requested(jobs) : jobs \in SUBSET Jobs}
Labels == Counts \cup {NoLabel}

\* taints, density: as listed.  toRestore, toIsolate: what each goroutine
\* has left to do.  reading: the node whose pods have been counted and the
\* count, or nothing.
Passes == [pc : {"list", "health", "sync"}, job : Jobs,
           taints : [Nodes -> SUBSET TaintKeys], density : [Nodes -> Labels],
           healthy : SUBSET Nodes, toRestore : SUBSET Nodes,
           toIsolate : SUBSET Nodes,
           reading : {<<>>} \cup (Nodes \X Counts)]

\* GetGpuNodeAllocations: a failed pod counts, ...
Allocated(n) == Requested(On(n, {"Active", "Failed"}))

\* ... but not for the scheduler.
Free(n) == Gpus[n] - Requested(On(n, {"Active"}))

Fault == faults < MaxFaults /\ faults' = faults + 1

Flip == flips < MaxFlips /\ flips' = flips + 1

EndPass(m) == pass' = [pass EXCEPT ![m] = Idle]

-----------------------------------------------------------------------------
(* Mutants: wrong versions of steps below, which the properties reject. *)

\* Mutant: a node without metrics counts as healthy.
AbsentIsHealthy(m) ==
    /\ pass[m].pc = "health"
    /\ LET up == {n \in Nodes : health[n] # "unhealthy"} IN
       pass' = [pass EXCEPT ![m].pc = "sync", ![m].healthy = up,
                            ![m].toRestore = up, ![m].toIsolate = Nodes \ up]
    /\ quarantined' = {n \in quarantined : health[n] # "healthy"}
    /\ UNCHANGED <<nodeVars, world, pods, faults>>

\* Mutant: the verdict is taken per GPU, so that a node with a good and a bad
\* one is on both lists.
VerdictPerGpu(m) ==
    /\ pass[m].pc = "health"
    /\ LET up == {n \in Nodes : health[n] # "absent"} IN
       pass' = [pass EXCEPT ![m].pc = "sync", ![m].healthy = up,
                            ![m].toRestore = up,
                            ![m].toIsolate = {n \in Nodes : health[n] = "unhealthy"}]
    /\ quarantined' = {n \in quarantined : health[n] # "healthy"}
    /\ UNCHANGED <<nodeVars, world, pods, faults>>

\* Mutant: a node whose listed density is 0 is taken for isolated already.
IsolateOnce(m) ==
    /\ pass[m].pc = "sync"
    /\ \E n \in pass[m].toIsolate :
           /\ pass' = [pass EXCEPT ![m].toIsolate = @ \ {n}]
           /\ IF pass[m].density[n] = 0 THEN UNCHANGED <<nodeVars, quarantined>>
              ELSE /\ taints' = [taints EXCEPT ![n] = {"unhealthy"}]
                   /\ density' = [density EXCEPT ![n] = 0]
                   /\ quarantined' = quarantined \cup {n}
    /\ UNCHANGED <<world, pods, faults>>

\* Mutant: a node that the job would fill is no candidate.
FullIsTooFull(m) ==
    {n \in pass[m].healthy :
        /\ pass[m].density[n] # NoLabel
        /\ Gpus[n] - pass[m].density[n] > GpuCount[pass[m].job]}

-----------------------------------------------------------------------------
(* The pass. *)

\* The nodes calculateClusterCapacityForJob finds room on, by the labels the
\* pass has listed.  Every listed node has labels; one without the density
\* label is no candidate.
Candidates(m) ==
    {n \in pass[m].healthy :
        /\ pass[m].density[n] # NoLabel
        /\ Gpus[n] - pass[m].density[n] >= GpuCount[pass[m].job]}

Synced(m) ==
    /\ pass[m].pc = "sync"
    /\ pass[m].toRestore = {}
    /\ pass[m].reading = <<>>
    /\ pass[m].toIsolate = {}

\* handlePending has found no pod and a valid spec.
Begin(m, j) ==
    /\ pass[m] = Idle
    /\ j \in waiting
    /\ pods[j] = NoPod
    /\ pass' = [pass EXCEPT ![m] =
                   [pc |-> "list", job |-> j, taints |-> taints,
                    density |-> density, healthy |-> {}, toRestore |-> {},
                    toIsolate |-> {}, reading |-> <<>>]]
    /\ UNCHANGED <<nodeVars, world, pods, quarantined, faults>>

\* GetClusterGPUNodes.
List(m) ==
    /\ pass[m].pc = "list"
    /\ \/ /\ pass' = [pass EXCEPT ![m].pc = "health", ![m].taints = taints,
                                  ![m].density = density]
          /\ UNCHANGED faults
       \/ Fault /\ EndPass(m)
    /\ UNCHANGED <<nodeVars, world, pods, quarantined>>

\* GetFullGPUClusterHealthCheck and the verdicts of ListGPUNodes: a node that
\* exports no metrics is neither healthy nor unhealthy.
ScanHealth(m) ==
    LET With(verdict) == {n \in Nodes : health[n] = verdict} IN
    /\ pass[m].pc = "health"
    /\ \/ /\ pass' = [pass EXCEPT ![m].pc = "sync",
                                  ![m].healthy = With("healthy"),
                                  ![m].toRestore = With("healthy"),
                                  ![m].toIsolate = With("unhealthy")]
          /\ quarantined' = quarantined \ With("healthy")
          /\ UNCHANGED faults
       \/ Fault /\ EndPass(m) /\ UNCHANGED quarantined
    /\ UNCHANGED <<nodeVars, world, pods>>

\* RestoreHealthyNodes: count the GPUs of the pods on the next node; when
\* that fails the node is skipped.
CountPods(m) ==
    /\ pass[m].pc = "sync"
    /\ pass[m].reading = <<>>
    /\ \E n \in pass[m].toRestore :
           LET rest == pass[m].toRestore \ {n} IN
           \/ /\ pass' = [pass EXCEPT ![m].toRestore = rest,
                                      ![m].reading = <<n, Allocated(n)>>]
              /\ UNCHANGED faults
           \/ Fault /\ pass' = [pass EXCEPT ![m].toRestore = rest]
    /\ UNCHANGED <<nodeVars, world, pods, quarantined>>

\* RestoreHealthyNodes: write back the listed taints without the unhealthy
\* one, and the count.  The patch carries no resourceVersion.
Restore(m) ==
    LET n == pass[m].reading[1]
        Patch == /\ taints' = [taints EXCEPT ![n] = pass[m].taints[n] \ {"unhealthy"}]
                 /\ density' = [density EXCEPT ![n] = pass[m].reading[2]]
    IN
    /\ pass[m].pc = "sync"
    /\ pass[m].reading # <<>>
    /\ pass' = [pass EXCEPT ![m].reading = <<>>]
    /\ \/ Patch /\ UNCHANGED faults
       \/ Fault /\ UNCHANGED nodeVars
       \/ Fault /\ Patch                                     \* answer lost
    /\ UNCHANGED <<world, pods, quarantined>>

\* IsolateUnhealthyNodes: the unhealthy taint replaces all taints, and the
\* density is zeroed whatever runs on the node.
Isolate(m) ==
    /\ pass[m].pc = "sync"
    /\ \E n \in pass[m].toIsolate :
           LET Patch == /\ taints' = [taints EXCEPT ![n] = {"unhealthy"}]
                        /\ density' = [density EXCEPT ![n] = 0]
                        /\ quarantined' = quarantined \cup {n}
           IN
           /\ pass' = [pass EXCEPT ![m].toIsolate = @ \ {n}]
           /\ \/ Patch /\ UNCHANGED faults
              \/ Fault /\ UNCHANGED <<nodeVars, quarantined>>
              \/ Fault /\ Patch                              \* answer lost
    /\ UNCHANGED <<world, pods>>

\* handlePending: no candidate, so look again in five minutes.
NoCapacity(m) ==
    /\ Synced(m)
    /\ Candidates(m) = {}
    /\ EndPass(m)
    /\ UNCHANGED <<nodeVars, world, pods, quarantined, faults>>

\* createHpcPod, which fails when the job has a pod by now.  The affinity it
\* sets is a preference the scheduler need not follow.
Create(m) ==
    LET j == pass[m].job
        Make == pods[j] = NoPod /\ pods' = [pods EXCEPT ![j] = Unscheduled]
    IN
    /\ Synced(m)
    /\ Candidates(m) # {}
    /\ EndPass(m)
    /\ \/ Make /\ UNCHANGED faults
       \/ pods[j] # NoPod /\ UNCHANGED <<pods, faults>>
       \/ Fault /\ UNCHANGED pods
       \/ Fault /\ Make                                      \* answer lost
    /\ UNCHANGED <<nodeVars, world, quarantined>>

\* The manager dies, in a pass or between two; a pass has no other state than
\* the nodes'.
Crash(m) ==
    /\ Fault
    /\ EndPass(m)
    /\ UNCHANGED <<nodeVars, world, pods, quarantined>>

-----------------------------------------------------------------------------
(* The rest of the cluster. *)

\* The scheduler: HPC pods tolerate the taint "gpu" only.
Schedule(j) ==
    /\ pods[j] = Unscheduled
    /\ \E n \in Nodes :
           /\ taints[n] \subseteq {"gpu"}
           /\ Free(n) >= GpuCount[j]
           /\ pods' = [pods EXCEPT ![j] = [phase |-> "Active", node |-> n]]
    /\ UNCHANGED <<nodeVars, world, pass, quarantined, faults>>

PodEnds(j) ==
    /\ pods[j].phase = "Active"
    /\ \E phase \in {"Succeeded", "Failed"} : pods' = [pods EXCEPT ![j].phase = phase]
    /\ UNCHANGED <<nodeVars, world, pass, quarantined, faults>>

PodRemoved(j) ==
    /\ pods[j] # NoPod
    /\ pods' = [pods EXCEPT ![j] = NoPod]
    /\ UNCHANGED <<nodeVars, world, pass, quarantined, faults>>

\* A job is submitted or goes back to Pending; or it is deleted, ends or runs.
JobWaits(j) ==
    /\ waiting' \in {waiting \cup {j}, waiting \ {j}} \ {waiting}
    /\ UNCHANGED <<nodeVars, health, pods, pass, quarantined, flips, faults>>

HealthChanges(n) ==
    /\ Flip
    /\ \E h \in Verdicts \ {health[n]} :
           health' = [health EXCEPT ![n] = h]
    /\ UNCHANGED <<nodeVars, waiting, pods, pass, quarantined, faults>>

\* A drain or the node controller taints the node, or removes its taint.
OtherTaint(n) ==
    /\ Flip
    /\ \E ts \in {taints[n] \cup {"other"}, taints[n] \ {"other"}} \ {taints[n]} :
           taints' = [taints EXCEPT ![n] = ts]
    /\ UNCHANGED <<density, health, waiting, pods, pass, quarantined, faults>>

-----------------------------------------------------------------------------
Init ==
    /\ taints = [n \in Nodes |-> {"gpu"}]
    /\ density = [n \in Nodes |-> NoLabel]
    /\ health \in [Nodes -> Verdicts]
    /\ waiting = {}
    /\ pods = [j \in Jobs |-> NoPod]
    /\ pass = [m \in Managers |-> Idle]
    /\ quarantined = {}
    /\ flips = 0
    /\ faults = 0

Step(m) ==
    \/ List(m) \/ ScanHealth(m) \/ CountPods(m) \/ Restore(m) \/ Isolate(m)
    \/ NoCapacity(m) \/ Create(m)

Next ==
    \/ \E m \in Managers : Step(m) \/ Crash(m) \/ \E j \in Jobs : Begin(m, j)
    \/ \E j \in Jobs : Schedule(j) \/ PodEnds(j) \/ PodRemoved(j) \/ JobWaits(j)
    \/ \E n \in Nodes : HealthChanges(n) \/ OtherTaint(n)

Spec == Init /\ [][Next]_vars

\* A pass that has begun goes on, and every waiting job gets its turn in the
\* queue of every manager.  Nothing is assumed of pods, users or health.
Fairness ==
    \A m \in Managers :
        /\ WF_vars(Step(m))
        /\ \A j \in Jobs : SF_vars(Begin(m, j))

FairSpec == Spec /\ Fairness

-----------------------------------------------------------------------------
(* Properties. *)

\* Type correctness; the two goroutines of a pass have no node in common.
TypeOK ==
    /\ taints \in [Nodes -> SUBSET TaintKeys]
    /\ density \in [Nodes -> Labels]
    /\ health \in [Nodes -> Verdicts]
    /\ waiting \subseteq Jobs
    /\ pods \in [Jobs -> {NoPod, Unscheduled} \cup Placed]
    /\ pass \in [Managers -> {Idle} \cup Passes]
    /\ \A m \in Managers : pass[m] # Idle =>
           /\ pass[m].toRestore \subseteq pass[m].healthy
           /\ pass[m].toIsolate \cap pass[m].healthy = {}
           /\ pass[m].reading # <<>> =>
                  pass[m].pc = "sync" /\ pass[m].reading[1] \in pass[m].healthy
    /\ quarantined \subseteq Nodes
    /\ flips \in 0 .. MaxFlips
    /\ faults \in 0 .. MaxFaults

\* With one manager, a node that was isolated stays isolated until a scan
\* finds it healthy: not a pass that dies half-way, not the other goroutine,
\* not a scan that misses the node's metrics lets jobs back on it.  With two
\* managers a slow pass undoes the isolation of a later one.
QuarantineHolds == \A n \in quarantined : "unhealthy" \in taints[n]

\* What GPUCount promises (api/v1alpha1/hpcjob_types.go): the operator makes
\* a pod only while a healthy node has room for it.
Room(n, j) == health[n] = "healthy" /\ Gpus[n] - Allocated(n) >= GpuCount[j]

CreatedWithinCapacity ==
    [][\A j \in Jobs :
          pods[j] = NoPod /\ pods'[j] # NoPod => \E n \in Nodes : Room(n, j)]_vars

\* As long as there are passes, a node that stays unhealthy ends up isolated
\* for good and one that stays healthy ends up open for good, through failed
\* calls, crashes and the stale patches of other managers.
PassesGoOn == []<>(\E m \in Managers : pass[m] # Idle)

NodesFollowHealth ==
    \A n \in Nodes :
        PassesGoOn =>
            /\ <>[](health[n] = "unhealthy") => <>[]("unhealthy" \in taints[n])
            /\ <>[](health[n] = "healthy") => <>[]("unhealthy" \notin taints[n])

\* A job that keeps waiting gets a pod again and again if some node goes on
\* having room for it: the labels that turned it away do not stay stale.
RoomGetsUsed ==
    \A j \in Jobs, n \in Nodes :
        <>[](j \in waiting /\ Room(n, j)) => []<>(pods[j] # NoPod)
=============================================================================
