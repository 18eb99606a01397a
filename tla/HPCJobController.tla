-------------------------- MODULE HPCJobController --------------------------
(***************************************************************************)
(* The reconciliation of HPCJob resources                                  *)
(* (internal/controller/hpcjob_controller.go).                             *)
(*                                                                         *)
(* A manager process runs one reconcile worker over a de-duplicating work  *)
(* queue.  The worker reads a job from the manager's watch cache, which    *)
(* lags behind the API server, calls the API server for everything else,   *)
(* and writes the job's status under optimistic concurrency.  Each call to *)
(* the API server is a step of its own, so that users, the kubelet, the    *)
(* watch and the workers of other managers act between any two of them.    *)
(*                                                                         *)
(* The node scan, the isolation and the capacity computation of            *)
(* handlePending are a single step here (Nodes) with all their outcomes;   *)
(* module GpuNodes opens that step.                                        *)
(***************************************************************************)
EXTENDS Integers, Sequences

CONSTANTS
    Jobs,          \* the namespaced names of the HPCJobs
    Managers,      \* the manager processes; leader election is off by default
    Specs,         \* the job specs a user submits: [image, gpuCount]
    MaxVersions,   \* a user changes a job while it has fewer versions than this
    MaxFaults,     \* failed API calls and pods deleted by someone else
    MaxCrashes,    \* crashes of managers
    FetchMayFail   \* whether the cached read of a job may fail

ASSUME ConstantsAssumption ==
    /\ Specs \subseteq [image : STRING, gpuCount : Int]
    /\ MaxVersions \in Nat
    /\ MaxFaults \in Nat
    /\ MaxCrashes \in Nat
    /\ FetchMayFail \in BOOLEAN

VARIABLES
    hist,      \* hist[j]: the versions of job j the API server has stored
    seen,      \* seen[m][j]: the version in m's watch cache
    queue,     \* queue[m]: the jobs in m's work queue
    delayed,   \* delayed[m]: the jobs m's queue will add after a delay
    w,         \* w[m]: the reconcile m's worker is in the middle of
    pods,      \* pods[j]: the pod with job j's name
    faults,    \* faults so far
    crashes    \* crashes so far

vars == <<hist, seen, queue, delayed, w, pods, faults, crashes>>

-----------------------------------------------------------------------------
Phases == {"", "Pending", "Running", "Complete", "Failed"}

\* A phase the controller still moves a job out of.
Active == {"", "Pending", "Running"}

\* What the API server holds between a deletion and the next creation.
Tombstone == [phase |-> "Absent"]

Versions == {Tombstone} \cup [phase : Phases, spec : Specs, deleting : BOOLEAN]

\* born: the version of the job the pod was created from, which fixes its
\* image and its GPU request.
NoPod == [phase |-> "Absent", born |-> 0, terminating |-> FALSE]

Pods == [phase : {"Absent", "Pending", "Running", "Succeeded", "Failed"},
         born : Nat, terminating : BOOLEAN]

Idle == [pc |-> "idle"]
Down == [pc |-> "down"]

\* goal, ret: at "write", the phase to write and how the handler then returns.
Tasks == [pc : {"scan", "nodes", "create", "cleanup", "list", "delete",
                "finalizer", "write"},
          job : Jobs, rv : Nat,
          goal : {"Pending", "Running", "Complete", "Failed"},
          ret : {"done", "after", "error"}]

Alive(m) == w[m].pc # "down"
Busy(m) == w[m].pc \notin {"idle", "down"}

\* The stored state of job j, and the copy of its job m's worker works on.
Stored(j) == hist[j][Len(hist[j])]
Copy(m) == hist[w[m].job][w[m].rv]

Exists(j) == Stored(j).phase # "Absent"

\* validateJobSpec
Valid(spec) == spec.gpuCount > 0 /\ spec.image # ""

Store(j, version) == hist' = [hist EXCEPT ![j] = Append(@, version)]

-----------------------------------------------------------------------------
(* The work queue and the watch cache. *)

\* The reconcile returns: "done" forgets the job, "after" (RequeueAfter) and
\* "error" (rate limited) bring it back later.
Return(m, ret) ==
    /\ w' = [w EXCEPT ![m] = Idle]
    /\ delayed' = IF ret = "done" THEN delayed
                  ELSE [delayed EXCEPT ![m] = @ \cup {w[m].job}]

Enqueue(m, j) == queue' = [queue EXCEPT ![m] = @ \cup {j}]

\* The watch brings a later version of j; a relist may skip versions.
Deliver(m, j) ==
    /\ Alive(m)
    /\ \E v \in seen[m][j] + 1 .. Len(hist[j]) :
           seen' = [seen EXCEPT ![m][j] = v]
    /\ Enqueue(m, j)
    /\ UNCHANGED <<hist, delayed, w, pods, faults, crashes>>

\* The periodic resync of the cache (every 10 hours by default).
Resync(m, j) ==
    /\ Alive(m)
    /\ hist[j][seen[m][j]].phase # "Absent"
    /\ j \notin queue[m]
    /\ Enqueue(m, j)
    /\ UNCHANGED <<hist, seen, delayed, w, pods, faults, crashes>>

DelayExpires(m, j) ==
    /\ j \in delayed[m]
    /\ delayed' = [delayed EXCEPT ![m] = @ \ {j}]
    /\ Enqueue(m, j)
    /\ UNCHANGED <<hist, seen, w, pods, faults, crashes>>

-----------------------------------------------------------------------------
(* The reconcile.  A step that calls the API server either succeeds or is  *)
(* one of at most MaxFaults failures.                                      *)

Fault == faults < MaxFaults /\ faults' = faults + 1

Goto(m, pc) == w' = [w EXCEPT ![m].pc = pc] /\ UNCHANGED delayed

PlanWrite(m, goal, ret) ==
    /\ w' = [w EXCEPT ![m].pc = "write", ![m].goal = goal, ![m].ret = ret]
    /\ UNCHANGED delayed

Terminate(j) == pods' = [pods EXCEPT ![j].terminating = TRUE]

-----------------------------------------------------------------------------
(* Mutants: wrong versions of handlers below, which the properties reject. *)

\* Mutant: a running job whose pod is gone is left alone.
IgnoreLostPod(m) ==
    /\ w[m].pc = "scan"
    /\ pods[w[m].job].phase = "Absent"
    /\ IF Copy(m).phase = "Running" THEN Return(m, "done") ELSE Goto(m, "nodes")
    /\ UNCHANGED <<hist, seen, queue, pods, faults, crashes>>

\* Mutant: the pod's own phase is written as the job's.
CopyPodPhase(m) ==
    /\ w[m].pc = "scan"
    /\ pods[w[m].job].phase # "Absent"
    /\ PlanWrite(m, pods[w[m].job].phase, "done")
    /\ UNCHANGED <<hist, seen, queue, pods, faults, crashes>>

\* Mutant: a failed pod is deleted before the failure is recorded.
DeleteBeforeReport(m) ==
    /\ w[m].pc = "scan"
    /\ CASE pods[w[m].job].phase = "Failed" -> Goto(m, "cleanup")
         [] pods[w[m].job].phase = "Running" -> PlanWrite(m, "Running", "done")
         [] OTHER -> FALSE
    /\ UNCHANGED <<hist, seen, queue, pods, faults, crashes>>

\* Mutant: a pod that has not started is not looked at again.
ForgetPendingPod(m) ==
    /\ w[m].pc = "scan"
    /\ pods[w[m].job].phase = "Pending"
    /\ Return(m, "done")
    /\ UNCHANGED <<hist, seen, queue, pods, faults, crashes>>

\* Mutant: the end of a pod is not reported.
IgnoreEnd(m) ==
    /\ w[m].pc = "scan"
    /\ pods[w[m].job].phase # "Absent"
    /\ IF pods[w[m].job].phase = "Running" THEN PlanWrite(m, "Running", "done")
       ELSE Return(m, "after")
    /\ UNCHANGED <<hist, seen, queue, pods, faults, crashes>>

\* Mutant: a failed deletion is logged and forgotten.
ForgetFailedCleanup(m) ==
    /\ w[m].pc = "cleanup"
    /\ \/ Terminate(w[m].job) /\ PlanWrite(m, "Failed", "done") /\ UNCHANGED faults
       \/ Fault /\ Return(m, "done") /\ UNCHANGED pods
    /\ UNCHANGED <<hist, seen, queue, crashes>>

\* Mutant: pods that cannot be listed are given up.
ForgetFailedList(m) ==
    /\ w[m].pc = "list"
    /\ \/ pods[w[m].job].phase # "Absent" /\ Goto(m, "delete") /\ UNCHANGED faults
       \/ Fault /\ Return(m, "done")
    /\ UNCHANGED <<hist, seen, queue, pods, crashes>>

\* Mutant: a write without a resourceVersion, which is never refused.
WriteIgnoresVersion(m) ==
    /\ w[m].pc = "write"
    /\ Store(w[m].job, [Copy(m) EXCEPT !.phase = w[m].goal])
    /\ Return(m, w[m].ret)
    /\ UNCHANGED <<seen, queue, pods, faults, crashes>>

-----------------------------------------------------------------------------
(* The handlers. *)

\* Where the dispatch on the phase sends a job, a job that is gone included.
Entry(phase) == CASE phase \in Active -> "scan"
                  [] phase = "Failed" -> "cleanup"
                  [] OTHER -> "list"

Dequeue(m, j) ==
    /\ w[m].pc = "idle"
    /\ j \in queue[m]
    /\ queue' = [queue EXCEPT ![m] = @ \ {j}]
    /\ UNCHANGED <<hist, seen, delayed, pods, faults, crashes>>

\* Reconcile: read the cached job and dispatch.
Reconcile(m, j) ==
    LET copy == hist[j][seen[m][j]] IN
    /\ Dequeue(m, j)
    /\ IF copy.phase = "Complete" /\ ~copy.deleting
       THEN UNCHANGED w
       ELSE w' = [w EXCEPT ![m] =
                     [pc |-> Entry(copy.phase), job |-> j, rv |-> seen[m][j],
                      goal |-> "Failed", ret |-> "done"]]

\* Reconcile: the cached read fails, and the job is forgotten.
FetchFails(m, j) ==
    /\ FetchMayFail
    /\ Dequeue(m, j)
    /\ UNCHANGED w

\* scanPodStatus when GetPod fails with anything but NotFound.
ScanFails(m) ==
    /\ w[m].pc = "scan"
    /\ Fault
    /\ PlanWrite(m, "Failed", "error")
    /\ UNCHANGED <<hist, seen, queue, pods, crashes>>

\* scanPodStatus, then handleRunning or the spec check of handlePending.
ScanFindsNoPod(m) ==
    /\ w[m].pc = "scan"
    /\ pods[w[m].job].phase = "Absent"
    /\ IF Copy(m).phase = "Running" THEN PlanWrite(m, "Pending", "after")
       ELSE IF Valid(Copy(m).spec) THEN Goto(m, "nodes")
       ELSE PlanWrite(m, "Failed", "done")
    /\ UNCHANGED <<hist, seen, queue, pods, faults, crashes>>

\* scanPodStatus and manageExistingPod: report the pod's phase as the job's.
ScanFindsPod(m) ==
    LET phase == pods[w[m].job].phase IN
    /\ w[m].pc = "scan"
    /\ CASE phase = "Running" -> PlanWrite(m, "Running", "done")
         [] phase = "Failed" -> PlanWrite(m, "Failed", "error")
         [] phase = "Succeeded" -> PlanWrite(m, "Complete", "done")
         [] phase = "Pending" ->
              Return(m, IF Copy(m).phase = "Running" THEN "done" ELSE "after")
         [] OTHER -> FALSE
    /\ UNCHANGED <<hist, seen, queue, pods, faults, crashes>>

\* handlePending: scan the nodes and look for capacity.
Nodes(m) ==
    /\ w[m].pc = "nodes"
    /\ Return(m, "error") \/ Return(m, "after") \/ Goto(m, "create")
    /\ UNCHANGED <<hist, seen, queue, pods, faults, crashes>>

\* createHpcPod.  AlreadyExists is not a Conflict, so it is an error.
Create(m) ==
    LET absent == pods[w[m].job].phase = "Absent"
        Make == pods' = [pods EXCEPT ![w[m].job] =
                    [phase |-> "Pending", born |-> w[m].rv, terminating |-> FALSE]]
    IN
    /\ w[m].pc = "create"
    /\ \/ absent /\ Make /\ Return(m, "after") /\ UNCHANGED faults
       \/ ~absent /\ Return(m, "error") /\ UNCHANGED <<pods, faults>>
       \/ Fault /\ Return(m, "error") /\ UNCHANGED pods
       \/ Fault /\ Return(m, "error") /\ absent /\ Make      \* answer lost
    /\ UNCHANGED <<hist, seen, queue, crashes>>

\* handleFailed: delete the pod, which may be gone already, then write.
Cleanup(m) ==
    LET absent == pods[w[m].job].phase = "Absent" IN
    /\ w[m].pc = "cleanup"
    /\ \/ absent /\ PlanWrite(m, "Failed", "done") /\ UNCHANGED <<pods, faults>>
       \/ /\ ~absent
          /\ Terminate(w[m].job)
          /\ PlanWrite(m, "Failed", "done")
          /\ UNCHANGED faults
       \/ Fault /\ Return(m, "error") /\ UNCHANGED pods
       \/ Fault /\ Return(m, "error") /\ ~absent /\ Terminate(w[m].job)
    /\ UNCHANGED <<hist, seen, queue, crashes>>

\* handleDeletedByName ends here; handleDeleted goes on to the finalizer.
PodsGone(m) == IF Copy(m).phase = "Absent" THEN Return(m, "done")
               ELSE Goto(m, "finalizer")

\* handleDeleted, handleDeletedByName: list the pods with the job's name ...
List(m) ==
    /\ w[m].pc = "list"
    /\ \/ /\ IF pods[w[m].job].phase = "Absent" THEN PodsGone(m)
             ELSE Goto(m, "delete")
          /\ UNCHANGED faults
       \/ Fault /\ Return(m, "error")
    /\ UNCHANGED <<hist, seen, queue, pods, crashes>>

\* ... and delete them; here a pod that is gone is an error.
Delete(m) ==
    LET absent == pods[w[m].job].phase = "Absent" IN
    /\ w[m].pc = "delete"
    /\ \/ ~absent /\ Terminate(w[m].job) /\ PodsGone(m) /\ UNCHANGED faults
       \/ absent /\ Return(m, "error") /\ UNCHANGED <<pods, faults>>
       \/ Fault /\ Return(m, "error") /\ UNCHANGED pods
       \/ Fault /\ Return(m, "error") /\ ~absent /\ Terminate(w[m].job)
    /\ UNCHANGED <<hist, seen, queue, crashes>>

\* RemoveResourceFinalizer puts the job to the core API group, which has no
\* such resource: it changes nothing and fails.
Finalizer(m) ==
    /\ w[m].pc = "finalizer"
    /\ Return(m, "error")
    /\ UNCHANGED <<hist, seen, queue, pods, faults, crashes>>

\* updateJobStatus: refused unless the worker's copy is the stored version;
\* a write that changes nothing stores no new version.
Write(m) ==
    LET j == w[m].job
        fresh == w[m].rv = Len(hist[j])
        Put == IF Copy(m).phase = w[m].goal THEN UNCHANGED hist
               ELSE Store(j, [Copy(m) EXCEPT !.phase = w[m].goal])
    IN
    /\ w[m].pc = "write"
    /\ \/ fresh /\ Put /\ Return(m, w[m].ret) /\ UNCHANGED faults
       \/ ~fresh /\ Return(m, "error") /\ UNCHANGED <<hist, faults>>
       \/ Fault /\ Return(m, "error") /\ UNCHANGED hist
       \/ Fault /\ Return(m, "error") /\ fresh /\ Put        \* answer lost
    /\ UNCHANGED <<seen, queue, pods, crashes>>

\* A manager dies, with its cache and its queue ...
Crash(m) ==
    /\ Alive(m)
    /\ crashes < MaxCrashes
    /\ crashes' = crashes + 1
    /\ w' = [w EXCEPT ![m] = Down]
    /\ queue' = [queue EXCEPT ![m] = {}]
    /\ delayed' = [delayed EXCEPT ![m] = {}]
    /\ UNCHANGED <<hist, seen, pods, faults>>

\* ... and starts again: the first list enqueues the jobs that exist.
Restart(m) ==
    /\ ~Alive(m)
    /\ w' = [w EXCEPT ![m] = Idle]
    /\ seen' = [seen EXCEPT ![m] = [j \in Jobs |-> Len(hist[j])]]
    /\ queue' = [queue EXCEPT ![m] = {j \in Jobs : Exists(j)}]
    /\ UNCHANGED <<hist, delayed, pods, faults, crashes>>

-----------------------------------------------------------------------------
(* Users and the kubelet. *)

UserStores(j, version) ==
    /\ Len(hist[j]) < MaxVersions
    /\ Store(j, version)
    /\ UNCHANGED <<seen, queue, delayed, w, pods, faults, crashes>>

UserCreates(j) ==
    /\ ~Exists(j)
    /\ \E spec \in Specs :
           UserStores(j, [phase |-> "", spec |-> spec, deleting |-> FALSE])

UserEdits(j) ==
    /\ Exists(j)
    /\ \E spec \in Specs \ {Stored(j).spec} :
           UserStores(j, [Stored(j) EXCEPT !.spec = spec])

\* A finalizer (foreground deletion sets one) holds the job back until the
\* one who set it releases it.
UserDeletes(j) ==
    /\ Exists(j)
    /\ \/ ~Stored(j).deleting /\ UserStores(j, [Stored(j) EXCEPT !.deleting = TRUE])
       \/ UserStores(j, Tombstone)

KubeletSets(j, pod) ==
    /\ pods' = [pods EXCEPT ![j] = pod]
    /\ UNCHANGED <<hist, seen, queue, delayed, w, crashes>>

PodStarts(j) ==
    /\ pods[j].phase = "Pending"
    /\ ~pods[j].terminating
    /\ KubeletSets(j, [pods[j] EXCEPT !.phase = "Running"])
    /\ UNCHANGED faults

\* A pod that has not started can only fail (it is not admitted).
PodEnds(j) ==
    /\ \/ /\ pods[j].phase \in {"Pending", "Running"}
          /\ KubeletSets(j, [pods[j] EXCEPT !.phase = "Failed"])
       \/ /\ pods[j].phase = "Running"
          /\ KubeletSets(j, [pods[j] EXCEPT !.phase = "Succeeded"])
    /\ UNCHANGED faults

PodRemoved(j) ==
    /\ pods[j].terminating
    /\ KubeletSets(j, NoPod)
    /\ UNCHANGED faults

\* A user, a drain or a preemption deletes the pod.
PodEvicted(j) ==
    /\ pods[j].phase # "Absent"
    /\ ~pods[j].terminating
    /\ KubeletSets(j, [pods[j] EXCEPT !.terminating = TRUE])
    /\ Fault

-----------------------------------------------------------------------------
Init ==
    /\ hist = [j \in Jobs |-> <<Tombstone>>]
    /\ seen = [m \in Managers |-> [j \in Jobs |-> 1]]
    /\ queue = [m \in Managers |-> {}]
    /\ delayed = [m \in Managers |-> {}]
    /\ w = [m \in Managers |-> Idle]
    /\ pods = [j \in Jobs |-> NoPod]
    /\ faults = 0
    /\ crashes = 0

\* One API call of m's worker.
Step(m) ==
    \/ ScanFails(m) \/ ScanFindsNoPod(m) \/ ScanFindsPod(m)
    \/ Nodes(m) \/ Create(m)
    \/ Cleanup(m) \/ List(m) \/ Delete(m) \/ Finalizer(m)
    \/ Write(m)

Environment(j) ==
    \/ UserCreates(j) \/ UserEdits(j) \/ UserDeletes(j)
    \/ PodStarts(j) \/ PodEnds(j) \/ PodRemoved(j) \/ PodEvicted(j)

Next ==
    \/ \E m \in Managers, j \in Jobs :
           \/ Deliver(m, j) \/ Resync(m, j) \/ DelayExpires(m, j)
           \/ Reconcile(m, j) \/ FetchFails(m, j)
    \/ \E m \in Managers : Step(m) \/ Crash(m) \/ Restart(m)
    \/ \E j \in Jobs : Environment(j)

Spec == Init /\ [][Next]_vars

\* The watch, the timers and the workers keep going, a dead manager is
\* restarted by its Deployment, and the queue is first in, first out, so no
\* queued job is passed over for ever.  The kubelet removes a deleted pod.
\* Nothing is assumed of users or of how long a pod runs.
Fairness ==
    /\ \A m \in Managers, j \in Jobs :
           /\ WF_vars(Deliver(m, j))
           /\ WF_vars(Resync(m, j))
           /\ WF_vars(DelayExpires(m, j))
           /\ SF_vars(Reconcile(m, j))
    /\ \A m \in Managers : WF_vars(Step(m)) /\ WF_vars(Restart(m))
    /\ \A j \in Jobs : WF_vars(PodRemoved(j))

FairSpec == Spec /\ Fairness

-----------------------------------------------------------------------------
(* Properties. *)

\* Type correctness; a cache holds a version that exists and a worker works
\* on a version its manager's cache has held.
TypeOK ==
    /\ hist \in [Jobs -> Seq(Versions)]
    /\ \A j \in Jobs : hist[j] # <<>>
    /\ seen \in [Managers -> [Jobs -> Nat]]
    /\ \A m \in Managers, j \in Jobs : seen[m][j] \in 1 .. Len(hist[j])
    /\ queue \in [Managers -> SUBSET Jobs]
    /\ delayed \in [Managers -> SUBSET Jobs]
    /\ w \in [Managers -> {Idle, Down} \cup Tasks]
    /\ \A m \in Managers : Busy(m) => w[m].rv \in 1 .. seen[m][w[m].job]
    /\ pods \in [Jobs -> Pods]
    /\ faults \in 0 .. MaxFaults
    /\ crashes \in 0 .. MaxCrashes

\* Manager m will look at job j again.
Tracked(m, j) ==
    /\ Alive(m)
    /\ \/ j \in queue[m] \cup delayed[m]
       \/ Busy(m) /\ w[m].job = j
       \/ seen[m][j] < Len(hist[j])

\* No lost wake-up: every running manager will look again at every job that
\* waits.  Nothing but the queue brings a waiting job back (SetupWithManager
\* watches no pods), so a handler that returns without an error, a delay or a
\* status change would leave it waiting for ever.
PendingJobIsTracked ==
    \A m \in Managers, j \in Jobs :
        Alive(m) /\ Stored(j).phase \in {"", "Pending"} => Tracked(m, j)

\* A pod nobody is deleting, of a job that failed or no longer exists.
Leftover(j) ==
    /\ Stored(j).phase \in {"Absent", "Failed"}
    /\ pods[j].phase # "Absent"
    /\ ~pods[j].terminating

\* As long as no manager crashes, no such pod is forgotten: handleFailed and
\* handleDeletedByName are the only ones to delete it, and they are retried.
LeftoverPodIsTracked ==
    \A j \in Jobs : Leftover(j) => \E m \in Managers : Tracked(m, j)

\* Pod j was created for a job that has since been deleted.
Outlived(j) == \E v \in pods[j].born .. Len(hist[j]) : hist[j][v].phase = "Absent"

\* handleFailed, handleDeleted and handleDeletedByName act on a cached copy
\* and delete by name; yet a lone manager only ever deletes the pod of a job
\* that has failed, is complete and being deleted, or is gone: never the pod
\* of a job of the same name created since.
OnlyDoomedPodsDeleted ==
    [][\A m \in Managers :
          w[m].pc \in {"cleanup", "delete"} /\ w'[m] # w[m] =>
              LET j == w[m].job IN
              pods'[j].terminating /\ ~pods[j].terminating =>
                  \/ Stored(j).phase = "Failed"
                  \/ Stored(j).phase = "Complete" /\ Stored(j).deleting
                  \/ Outlived(j)]_vars

\* No pod is created for a job that is stored as Complete or Failed: both are
\* terminal, and nothing looks after the pod of a Complete job.
TerminalJobsGetNoPod ==
    [][\A j \in Jobs :
          pods[j].phase = "Absent" /\ pods'[j].phase # "Absent" =>
              Stored(j).phase \notin {"Complete", "Failed"}]_vars

\* The versions of job j since it was last created.
Lifetime(j) ==
    {v \in 1 .. Len(hist[j]) :
        \A u \in v .. Len(hist[j]) : hist[j][u].phase # "Absent"}

\* A job is reported Complete by a pod that ran an image the job has named
\* since it was created, not by the pod of an earlier job of the same name.
CompleteJobRanItsImage ==
    [][\A j \in Jobs :
          /\ Stored(j).phase \in Active
          /\ Stored(j)'.phase = "Complete"
          /\ pods[j].phase = "Succeeded"
          => \E v \in Lifetime(j) :
                 hist[j][v].spec.image = hist[j][pods[j].born].spec.image]_vars

\* Status writes are refused on a stale copy, so the stored phase of every
\* job follows the promised lifecycle whatever the managers interleave.
Lifecycle == INSTANCE JobLifecycle
                 WITH phase <- [j \in Jobs |-> Stored(j).phase]

FollowsLifecycle == Lifecycle!Spec

\* The pods of failed and deleted jobs are eventually deleted, through failed
\* API calls and conflicts (as long as no manager crashes).
LeftoverPodsGo == \A j \in Jobs : Leftover(j) ~> ~Leftover(j)

\* The end of a job's pod is eventually reported, or the pod is lost.
OutcomeReported ==
    \A j \in Jobs :
        /\ Stored(j).phase \in Active
        /\ pods[j].phase \in {"Succeeded", "Failed"}
        ~> \/ Stored(j).phase \notin Active
           \/ pods[j].phase \notin {"Succeeded", "Failed"}

\* A running job whose pod is gone does not stay Running: it goes back to
\* Pending and gets another pod.
VanishedPodNoticed ==
    \A j \in Jobs :
        LET vanished == Stored(j).phase = "Running" /\ pods[j].phase = "Absent"
        IN  vanished ~> ~vanished
=============================================================================
