# kube-hpc-sentinel in TLA+

kube-hpc-sentinel is a Kubernetes operator for GPU jobs. A user creates an
`HPCJob` (an image and a number of GPUs); the operator looks for a healthy GPU
node with room, creates a pod, follows it and cleans up after it. On the way it
isolates nodes whose DCGM metrics are out of range and lets the others back in.
The rest of the repository builds a Kind cluster with simulated GPUs and feeds
it with made-up metrics.

These modules model all three: the operator, the metrics and the provisioner.
Paths below are relative to `src/`.

## Inventory

| Component | State it keeps | Operations | Talks to | What makes it correct |
|---|---|---|---|---|
| HPCJob reconciler (`internal/controller/hpcjob_controller.go`) | nothing of its own: the work queue and the watch cache of controller-runtime, the status in the API server | `Reconcile` and its handlers | API server | no job is forgotten; stale copies do no harm; pods of ended jobs go; only those |
| GPU node pass (`gpu_node_discovery.go`, `pkg/kube/client.go`) | taints and the label `hpc-sentinel/density` on the nodes | list, scan, restore and isolate (two goroutines), decide, create | API server, Prometheus | unhealthy nodes stay closed, healthy ones open; pods are made when, and only when, there is room |
| Prometheus client (`pkg/prometheus/client.go`) | none | the cluster scan; a per-node gather nobody calls | Prometheus | a verdict that follows the ranges |
| Scenario manager (`internal/provisioner/fake-scenario/scenario-manager.go`) | the node map, a ConfigMap | a ticker: draw, get, then create or update | API server | the newest metrics win; what is calm is healthy |
| Mock DCGM exporter (`.../dcgm-mock-exporter.go`) | none | serve the ConfigMap, or a fallback | API server, Prometheus | what is exported follows the node map |
| Kind provisioner (`internal/provisioner/kind.go`) | the cluster | create, wait, label, install, restart, wait again | docker, helm, API server | a run that succeeds is complete; a second run finishes the first |
| Manager start-up (`cmd/manager/main.go`, `pkg/config`, `pkg/logger`) | none | start | | one manager, or leader election |

What is hard to test in this code:

* *Stale reads.* A reconcile works on the cached copy of a job; the node pass
  works on labels and taints from its own listing; the provisioner waits on
  node statuses from before the restart it waits for. Users, kubelets and other
  managers act between any two API calls.
* *Pods are known by name.* Nothing ties a pod to the job it was made for, so
  deleting and re-creating a job mixes up two generations.
* *Nothing watches pods.* A job is looked at again only because a handler
  returned an error or a delay, or changed the status.
* *Partial failure.* Most handlers are two or three calls; each can fail, or
  succeed with its answer lost. The node sync swallows errors. A provisioner
  run can die anywhere, and the next one starts from what is left.
* *Several managers.* Leader election is off by default, and a rollout runs two
  scenario managers at a time.
* *Deletion.* No finalizer is ever added, and the call that would remove one
  goes to the wrong API group.
* *Two tables.* The ranges metrics are drawn from and those they are held
  against live in different packages, with a rounding in between.

`PROJECT.json` lists each of these at its line, with the properties that cover
it.

## Modules

| Module | What it models |
|---|---|
| `JobLifecycle` | abstract specification: the phases of a job as users may see them change |
| `HPCJobController` | the reconciler, which implements `JobLifecycle` |
| `GpuNodes` | the node pass |
| `Sentinel` | the operator as a whole: the two above, the scheduler and the kubelets |
| `GpuHealth` | the verdict on a metric |
| `MetricsPipeline` | scenario manager, ConfigMap, exporter, Prometheus; uses `GpuHealth` |
| `Provisioner` | the Kind provisioner |
| `HPCJobControllerProofs`, `LeftoverPodProofs`, `DoomedPodProofs` | theorems about `HPCJobController`, checked by TLAPS; each module extends the one before |
| `GpuNodesProofs`, `ProvisionerProofs`, `MetricsPipelineProofs` | theorems about the module of that name |
| `SentinelProofs`, `SentinelPassProofs` | theorems about `Sentinel`: that it implements `HPCJobController` and `GpuNodes`, and what it inherits from them |
| `MCHPCJobController`, `MCGpuNodes`, `MCSentinel` | definitions the runs need for constants and symmetry |

### HPCJobController

`hist[j]` is the sequence of versions of job `j` the API server has stored: a
resourceVersion is an index, and a deletion stores a tombstone. `seen[m][j]` is
the version in manager `m`'s cache, so the lag of the cache is the distance to
the end of `hist[j]`. `queue` and `delayed` are the de-duplicating work queue
and what it will add later; the one worker of a manager is the record `w[m]`,
whose `pc` names the API call it is about to make. `pods[j]` is the pod with
`j`'s name; `born` is the version of the job it was created from.

`Reconcile` reads the cache and dispatches; from there each call is an action:

| Code | Action |
|---|---|
| `Reconcile`, the failed read at line 67 | `Reconcile`, `FetchFails` |
| `scanPodStatus`, `manageExistingPod`, `handleRunning` | `ScanFails`, `ScanFindsNoPod`, `ScanFindsPod` |
| `handlePending` | `ScanFindsNoPod` (spec check), `Nodes`, `Create` |
| `handleFailed` | `Cleanup`, then `Write` |
| `handleDeleted`, `handleDeletedByName` | `List`, `Delete`, `Finalizer` |
| `updateJobStatus` | `Write` |

`Write` is refused unless the worker's copy is the last version, as the API
server does for an update with a resourceVersion; a write that changes nothing
stores no version. A call that fails either did nothing or did its work and
lost the answer. The environment is the watch (`Deliver`, `Resync`), the queue's
timers (`DelayExpires`), users, kubelets, evictions, and crashes of managers. A
manager that restarts lists the jobs that exist; jobs deleted before that are
never reconciled again.

`Nodes` has every outcome of the node pass (an error, no capacity, go on).

### GpuNodes

The pass of `handlePending` after the spec check: `Begin`, `List`
(`GetClusterGPUNodes`), `ScanHealth` (`ListGPUNodes`), then `CountPods` and
`Restore` of one goroutine beside `Isolate` of the other, and when both are done
`NoCapacity` or `Create`. `pass[m]` holds what the pass has listed (`taints`,
`density`), which is what the code patches back and decides on. A node is a set
of taint keys, a density label and the verdict its metrics would give
(`healthy`, `unhealthy`, or `absent` when it exports none). The order in which
a goroutine takes its nodes is left open. `quarantined` is a history variable:
the nodes isolated and not found healthy since.

A manager may die at any time (`Crash`); nothing but its pass is lost, since the
taints and labels are the nodes'.

The scheduler places a pod on any node whose taints are tolerated and that has
room; the affinity the operator sets is only a preference. `waiting` stands for
what module `HPCJobController` does with the jobs.

### Sentinel

`Sentinel` puts `GpuNodes` in the place of the one step `Nodes` of
`HPCJobController`. It instantiates both: `Controller` as it is, and `Pass` with
its variable `pods` replaced by a view of the controller's pods and the node
each is bound to. A step is a step of one module that leaves the other alone, or
a conjunction of both: the scan that finds no pod also begins a pass, the call
that ends a pass is the controller's `Nodes`, and the creation of the pod is one
call with one outcome for both. In `HPCJobController` a pod may start at any
time and a pass may find no room for ever; here a pod starts when it is bound to
a node, the scheduler binds it to a node that is open and has room, and a pass
fails or finds no room for the reasons the code has.

That the two modules do not drift apart is itself a property. `TypeOK` says that a
worker has a pass, for the job it reconciles, from the scan to the creation of
the pod, which comes when both goroutines are done; and that a pod that ever ran
is bound to a node. Beyond that, the operator as a whole implements `HPCJobController` (a theorem) and `GpuNodes`
(`FollowsNodePass`, a run and a theorem). For the latter the module is
instantiated once more, as `WholePass`: there `waiting` are the jobs that have
ever been submitted, and a manager that dies counts as a fault, so that the
bound on faults is the sum of both.

### GpuHealth and MetricsPipeline

`GpuHealth` has the two tables, `HealthRange` (`HealthMetrics` in
`pkg/prometheus/client.go`) and `Scenario` (`generateMetrics`), in hundredths of
a unit, the finest that is printed; `Draws` are the values a range can be
printed as, `OutOfRange` is the comparison of `ListGPUNodes`.

`MetricsPipeline` moves generations of metrics: `Tick` draws one for the node
map of a process, `Get`, `Create` and `Update` are the calls of `syncMetrics`,
`ReadConfigMap` and `Scrape` the two halves of a scrape. `fresh` are the
processes whose version is still stored, so `Update` of another one conflicts. A
process that dies between its two calls may still have a write under way; its
successor, another member of `Managers`, has read the nodes anew. What
Prometheus has, `series`, is what a pass of `GpuNodes` scans: a node it has no
metrics of is `absent` there.

### Provisioner

`pc` is the call the run makes next, `off` when none runs and `done` when one
has succeeded. `caller`, `client` and `todo` are what a run remembers; the rest
(the cluster, labels, node statuses, Helm releases, CRDs, skaffold) outlives it.

| Code | Action |
|---|---|
| `CheckSystemRequirements`, `createCluster` | `CheckSystemRequirements`, `ListClusters`, `CreateCluster` |
| `waitForNodes`, `getKubernetesClient` | `GetKubernetesClient`, `WaitForNodes`, `TimesOut` |
| `simulateNvidiaLabels` | `LabelNode`, `Labelled` |
| `InstallAddons`, `installChart` | `InstallAddons`, `InstallFakeGpuOperator`, `InstallKubePrometheusStack` |
| `restartGPUNodes`, `waitForGpuCapacity` | `ListForRestart`, `RestartNode`, `Restarted`, `WaitForGpuCapacity`, `TimesOut` |
| `MakeInstallCRDs`, `launchMockEnvironment` | `MakeInstallCRDs`, `LaunchMockEnvironment` |

Every call may fail, which ends the run; `Interrupt` ends it anywhere; `Start`
is the user running the program again. `HalfDone` says what kind and helm may
leave half-made, `Contexts` what the user's default kubeconfig may name. The
stored status of a node follows its kubelet with a delay (`NodeLost`,
`KubeletStarts`, `GpusRegistered`), so a run may wait on a status from before
its own restart of the node.

## Runs

| Run | Question | Instance |
|---|---|---|
| `one_manager` | Does a lone manager, which deletes by name on stale copies, only delete the pods of jobs that are over? Is the end or the loss of a pod noticed? (`OnlyDoomedPodsDeleted`, `OutcomeReported`, `VanishedPodNoticed`) | 1 job, 1 manager, 5 versions, 1 fault, 1 crash, failing reads |
| `two_managers` | Is every waiting job and every leftover pod still tracked by someone, and do the stored phases follow `JobLifecycle`, with two managers? (`PendingJobIsTracked`, `LeftoverPodIsTracked`, `FollowsLifecycle`) | 1 job, 2 managers, 3 versions, 1 fault |
| `nodes_safety` | Does an isolated node stay closed until found healthy, and is a job with room for it not turned away for ever? (`QuarantineHolds`, `RoomGetsUsed`) | 2 nodes, 2 jobs, 1 manager, 1 flip, 1 fault |
| `nodes_health` | Do taints end up right when health settles, with two managers? (`NodesFollowHealth`) | 1 node, 1 job, 2 managers, 2 flips, 2 faults |
| `job_ends` | Does a job end once its node is healthy and open, and do leftover pods go, in the operator as a whole? Do a worker and its pass stay in step, and do they do to nodes only what the node pass does? (`TypeOK`, `JobsEnd`, `LeftoverPodsGo`, `FollowsNodePass`) | 1 node, 1 job, 1 manager, 3 versions, 2 flips, 1 fault of each module, 1 crash |
| `metrics` | Do the newest metrics win, does what is exported follow the nodes, and do the two tables agree? (`NewestMetricsWin`, `ExportFollowsMap`, `CalmNodeIsHealthy`, `ChaosIsNoticed`) | 2 nodes, 2 processes, 3 generations, 1 each of rollout, relabelling, deletion, fault, crash |
| `provisioner` | Is a run that succeeds complete, do reruns succeed, and are the labels drawn last the ones that are used? (`SuccessMeansReady`, `RerunsSucceed`, `LastDrawIsKnown`) | 2 GPU workers, 1 fault, 1 interrupt |

`one_manager`, `nodes_safety`, `job_ends`, `metrics` and `provisioner` also check
the `TypeOK` of their module.

Five runs end in a counterexample; each shows a place where the code does not do
what the repository says.

| Run | Says | What happens |
|---|---|---|
| `fetch_error` | `.github/copilot-instructions.md:75`: a failed fetch returns an error to be requeued | the error is swallowed (line 67) and a waiting job leaves the queue |
| `terminal_gets_pod` | `.github/copilot-instructions.md:102`: Complete and Failed are terminal | a stale Pending copy gets a pod created for a job that has ended |
| `other_image` | `api/v1alpha1/hpcjob_types.go:52`: the image is the container to run | a re-created job adopts its predecessor's pod and is Complete without its image having run |
| `stale_labels` | `api/v1alpha1/hpcjob_types.go:55`: no pod unless a node has that many GPUs | the decision uses labels listed before the pass refreshed them |
| `job_stuck` | `.github/copilot-instructions.md:113`: the nodes handed on are ready for scheduling | a failed restore patch is only logged (`pkg/kube/client.go:260`); the job gets a pod that no node admits, and no further pass opens one |

Deadlock is not checked: a cluster in which no user does anything may rest.

### Bounds

`MaxVersions` bounds what users do: while a job has fewer versions a user may
create, edit or delete it; the controller's own writes are not bounded, they end
by themselves. One job is enough where jobs do not interact: every action of
`HPCJobController` concerns one job, and the worker is shared between jobs only
by being busy, which `Reconcile` being optional covers. Five versions allow
create, two status writes, delete and create again; six are needed for the
re-created job to end. With one fault and one crash every call fails once with
every continuation.

In `GpuNodes` jobs and nodes do interact (two jobs compete for one node, and the
two goroutines of a pass work on different nodes), hence the two of each in
`nodes_safety`. One flip there is a recovery or an outage, as the health of a
node is open at first; the two of `nodes_health` are both in a row. `MaxFlips`
also bounds foreign taints. `job_ends` has a single node and job, because the
questions the composition adds are about the order of their steps; two flips let
the node fail and recover in the middle of a job, and its three versions are a
creation, a status write and a deletion.

In `metrics` the last generation repeats for ever, so three are needed to tell a
late write from a newer one that has been exported already. Initially the nodes
may have any labels, none included, and one more change is allowed. In
`provisioner` the two GPU workers let a run stop between two labels and between
two restarts; with one fault and one interrupt a third run may have to finish
what two left behind.

Symmetry is used in `two_managers` only, whose properties are safety properties.

### Fairness

In `HPCJobController` the watch, the resync, the timers, the workers and the
restart of a crashed manager (a Deployment) are weakly fair, and the kubelet
removes a pod that is being deleted. `Reconcile` of a queued job is strongly
fair: a worker is busy again and again, and the queue is first in, first out.
Users, evictions, faults and the course of a pod are not fair. In `GpuNodes` the
steps of a pass are weakly fair, and each waiting job's pass strongly fair for
the same reason; schedulers, kubelets and health are not. `Sentinel` has the
fairness of the controller, whose worker makes the calls of a pass, and besides
the scheduler is fair and pods start and end, since a job cannot end otherwise.

In `MetricsPipeline` the ticker, the calls of a process and the scrapes are
weakly fair, and a process is started when none runs (a Deployment). In
`Provisioner` the run and the cluster go on, and the user of a run that failed
tries again. Nothing need time out; `RerunsSucceed` assumes that in the end
nothing does: the waits are long enough.

## Proofs

`HPCJobControllerProofs` proves, for all values of the constants:

* `TypeCorrect`: `Spec => []TypeOK`. It says more than types: the version in a
  cache exists, and a worker's copy is one its cache has held
  (`w[m].rv <= seen[m][w[m].job]`).
* `PendingJobsAreTracked`: `Spec => []PendingJobIsTracked`, if the cached read
  does not fail; `fetch_error` shows that this assumption is needed. A waiting
  job may lose its worker only by a return without delay or error, so the
  invariant needs to know what the worker's plan is: `TasksOK` says that a
  planned return of that kind at `write` comes with a phase other than Pending,
  and that a worker that scans or looks for nodes has a copy of a job it may
  still move. Either the copy is the last version, and the write that precedes
  the return stores a newer one that the cache has yet to see, or the copy is
  old, and `MovedOnIsQueued` gives the pending watch event or queue entry.
* `RefinesLifecycle`: `Spec => FollowsLifecycle`, the refinement of
  `JobLifecycle`. Only `Write` of the controller's actions changes a phase; by
  `TasksOK` its goal can be reached from the phase of the worker's copy, and the
  copy is the stored version or the write is refused.

`LeftoverPodProofs` proves `LeftoverPodsAreTracked`:
`Spec => []LeftoverPodIsTracked` if there are managers, none crashes and the
cached read does not fail. `LeftoverPodIsTracked` is not inductive: a manager
tracks a job whose reconcile it is in the middle of, but one that has deleted
the pod and has yet to write the status does not notice the pod another manager
creates meanwhile. `LeftoverIsChased` asks for more: a queue entry, a delay, a
version the cache has yet to see, or a worker that has yet to delete. A manager
that creates a pod leaves itself a delay (`StepOnPods`), a version that makes a
pod a leftover is one no cache has seen (`ChangeIsChased`), and a worker that is
about to delete a pod does so or comes back (`ChaserDeletes`).

`DoomedPodProofs` proves `OnlyDoomedPodsAreDeleted`:
`Spec => OnlyDoomedPodsDeleted` for one manager (`OneManager`). The manager
deletes a pod by name, on the word of a copy that may be old by then, so the
invariant `DoomedInv` has to say why the copy is still good enough:

* `ActsOnDoomed`: the copy says that the job has failed, is complete and being
  deleted, or is gone. No one can falsify this, versions are never changed.
* `DoomStays`: the versions after a doomed one are doomed as well, until the job
  is gone. Only `Write` could revive a job; it works on the stored version or is
  refused, and by `TasksOK` it writes no phase but Failed to a doomed one.
* `PodsAreSeen`: the pod was created from a version no later than the copy. This
  needs the one manager, who created it from a copy of its own. With two, the
  slower cache deletes the pod the other one has created for the new job.

If the copy is doomed and the job no longer is, then by `DoomStays` it was gone
at some version since, and by `PodsAreSeen` the pod is from before: it belongs
to a job that has gone, which is the third case of the property (`Outlived`).
Edits by users, crashes, failed calls and failing reads are all included.

`SentinelProofs` carries all of this over to the operator as a whole:

* `ImplementsController`: `Spec => Controller!Spec`. Every step is one of the
  controller or leaves its variables alone; the calls of a pass that go on are
  the latter.
* `WaitingJobsAreTracked`, `LeftoverPodsAreTracked`, `OnlyDoomedPodsAreDeleted`
  and `RefinesLifecycle`: the invariants above are inductive for `Sentinel` too.
  The lemmas are those of the controller, instantiated as `Alone`;
  `StepsAreAlones` and `StepIsAlones` tie the two instances of the controller
  together.

`GpuNodesProofs` proves, for all nodes, jobs, capacities, faults and crashes:

* `TypeCorrect`: `Spec => []TypeOK`, with any number of managers. A density
  label is typed as the sum of the requests of some set of jobs (`Counts`), which
  is what the code writes and needs no induction over that sum.
* `IsolatedNodesStayIsolated`: `Spec => []QuarantineHolds` for one manager
  (`OneManager`). `QuarantineHolds` is not inductive: a restore patch could reopen
  a node isolated after the listing. `NothingToReopen` rules it out: what a pass
  has yet to restore is not in quarantine, because its own scan has just released
  those nodes and, by `TypeOK`, its other goroutine works on others.

`SentinelPassProofs` ties the operator as a whole to the node pass:

* `ImplementsNodePass`: `Spec => FollowsNodePass`. Every step of `Sentinel` is a
  step of `GpuNodes` or changes nothing it knows of (`NextAgrees`), with one
  lemma for each kind of step. Two of them need more than types. A pass begins for a
  job that has been submitted (`BeginAgrees`), because a worker that scans has a
  copy of an active version (`TasksOK`). And no write submits a job
  (`CallSubmitsNone`), because a worker that writes has a copy of a job that
  exists. What the pass sees of a pod changes when it is created, bound, ends or
  is removed, and not when it starts or is being deleted (`OnePodShows`,
  `TerminatingDoesNotShow`).
* `TypeCorrect`: `Spec => []TypeOK`, for any number of managers. The invariant is
  the types of both modules (`WholeInv`, `Nodewise!TypeOK`) with `InStep` and
  `Bound`, the two parts of `TypeOK` that tie them together. A call of a pass that
  goes on cannot come between the decision and the creation, since a pass that
  is `Synced` has no such call left (`PassStaysInStep`).
* `IsolatedNodesStayIsolated`: `Spec => []WholePass!QuarantineHolds` for one
  manager, from the refinement and the invariant of `GpuNodesProofs`,
  instantiated as `Nodewise`.

`ProvisionerProofs` proves, for any nodes, counts and numbers of failures:

* `TypeCorrect`: `Spec => []TypeOK`; the loops over nodes are left only when
  nothing is to do.
* `SuccessIsReady`: `Spec => []SuccessMeansReady`. The inductive invariant adds
  `SeenTo`, what the calls before the next one have seen to: behind `operator` and
  `prometheus` the charts have a release, behind `capacity` the cluster is whole
  and every GPU worker has registered GPUs. That all are labelled follows, and
  not from the loop that labels, which has nothing to do when the client talks
  to another cluster: only a labelled node registers GPUs, and no label is ever
  taken away.

`MetricsPipelineProofs` proves, for any processes, nodes and bounds:

* `TypeCorrect`: `Spec => []TypeOK`.
* `NewerMetricsStay`: `Spec => NewestMetricsWin`. The generations on the way
  to Prometheus descend (`Descending`): a writer that may still succeed is not
  older than what is stored, that not older than what the exporter is about to
  answer, and that not older than the newest Prometheus has had. A late write of
  a process that died fits in, because a process that lives has the newest
  generation of all in hand (`OneWriter`), and once it has written, no older
  writer has a version that is stored. Both hold as long as processes do not
  overlap and nobody deletes the ConfigMap (`Undisturbed`).
* `CalmNodesAreHealthy` and `ChaosIsAlwaysNoticed`: `Spec => []CalmNodeIsHealthy`
  and `Spec => []ChaosIsNoticed`. They are about the two tables and hold in every
  state. `DrawsAreBetween` is the step that rounding needs: both ends of every
  range are whole multiples of the unit that is printed, so no value is rounded
  out of its range; the rest compares the ends of the ranges.
  `AmbiguousChaosPasses` shows that the three metrics left out of
  `ChaosIsNoticed` have to be.

The temporal steps are one PTL step each; everything else is action reasoning,
with lemmas for each action. The only assumptions are those on the constants
(`ConstantsAssumption`, `GpuNodesAssumption`, `ProvisionerAssumption`,
`PipelineAssumption`, `SentinelAssumption`) and those named with the theorems.

Every invariant and every action property that a passing run checks is the
statement of a theorem, `Sentinel`'s refinement of `GpuNodes` and the
controller's of `JobLifecycle` included. Only model-checked are the liveness
properties (fairness and ENABLED are beyond the prover): `OutcomeReported`,
`VanishedPodNoticed`, `RoomGetsUsed`, `NodesFollowHealth`, `JobsEnd`,
`LeftoverPodsGo`, `RerunsSucceed`, `LastDrawIsKnown` and `ExportFollowsMap`. What
`Allocated` computes, a sum over a set, would need induction over data; the
proofs need only that it is the sum for some set of jobs, and that the
controller's pods and the pass's have the same sum (`CountsAgree`).

## What does not hold, by design of the code

* `LeftoverPodIsTracked` and `LeftoverPodsGo` hold without crashes only: a job
  deleted while its manager is down leaves its pod behind.
* `OnlyDoomedPodsDeleted` and `QuarantineHolds` hold for one manager only: with
  two, the slower cache or the slower pass undoes what the other did.
* A node is looked at only while some job waits, so `NodesFollowHealth` assumes
  that passes go on, and `JobsEnd` that the nodes are open: a node that is
  isolated and recovers stays closed until the next job waits, and with a failed
  restore patch (`job_stuck`) even then.
* Isolation replaces all taints of a node, `nvidia.com/gpu` and those of a drain
  included; a restore brings back neither.
* The `AlreadyExists` of a pod creation is not the `Conflict` that
  `handlePending` tests for; the reconcile fails and is retried.
* A chaos event in the temperature may be drawn just above 85 and printed as 85,
  which is within range; ECC errors and GPU utilisation may be drawn with the
  values of a calm one (`Ambiguous`).
* The scenario manager reads the node map once (`scenario-manager.go:47`): a node
  labelled or removed later is noticed by the next process only, hence
  `ExportFollowsMap` speaks of the map and not of the labels.
* A cluster or the GPU operator's Helm release that was left half-made is taken
  for a finished one by every later run (`kind.go:115`, `kind.go:383`), so
  `RerunsSucceed` assumes that kind and helm are not killed half-way.
  `SuccessMeansReady` still holds.
* The error of `MakeInstallCRDs` is dropped and nothing waits for the CRDs
  (`kind.go:267`), so a run may succeed without them.

## Not modelled

* Building clients, flags, TLS, environment variables, logging, metrics
  endpoints: configuration and input/output without state of its own.
* `zz_generated.deepcopy.go`, `groupversion_info.go`, the manifests and
  dashboards: generated or declarative.
* `fake-hpc-job.go`: a program that sleeps and exits; it is a pod that succeeds.
* `AddResourceFinalizer`, `IsNvlinkCapable` and `GetFullGPUNodeHealthCheck`,
  which have no caller; conditions and topology, which no code reads.
* The command lines and values of helm, make and skaffold: only whether they
  succeed, and what they leave behind.

## Plan

Done: the reconciler, its abstract specification and proofs; the node pass and
its proofs; the operator as a whole and its refinement of both; the tables, the
metrics pipeline and its proofs; the provisioner and its proof; leftover and
doomed pods; the invariants of the controller and of the pass for the operator
as a whole.

Next:

1. The safety half of the liveness properties, as invariants of their own: what
   `OutcomeReported` needs of the queue, what `NodesFollowHealth` needs of a pass
   that is under way while a node's health stays as it is.
2. The same for the provisioner: from which states a further run succeeds.
3. `Sentinel` with two nodes, and its `health` driven by `MetricsPipeline`
   instead of changing on its own.
