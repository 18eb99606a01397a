---------------------------- MODULE Provisioner ----------------------------
(***************************************************************************)
(* The Kind provisioner (internal/provisioner/kind.go and                  *)
(* cmd/provisioner): create a cluster of Docker containers, wait for its   *)
(* nodes, label the GPU workers, install two Helm charts, restart the GPU  *)
(* workers, wait for their GPUs, install the CRDs and start skaffold.      *)
(*                                                                         *)
(* A run is a sequence of calls to Docker, Helm and the API server, each a *)
(* step here.  A run that fails or is interrupted leaves what it has done  *)
(* behind and the user runs the program again, so everything but pc and    *)
(* what a run remembers outlives it.  Nodes, CRDs and what skaffold        *)
(* deploys change on their own.                                            *)
(***************************************************************************)
EXTENDS FiniteSets, Naturals

CONSTANTS
    GpuNodes,     \* the GPU workers of kind-config.yaml
    Counts,       \* the GPU counts a label may be drawn from
    Contexts,     \* what the user's kubeconfig may name: own, other, none
    HalfDone,     \* what a failed or interrupted step may leave half-done
    MaxFaults,    \* failed calls
    MaxCrashes    \* interrupted runs

ASSUME ProvisionerAssumption ==
    /\ Counts \subseteq Nat \ {0}
    /\ Contexts \subseteq {"own", "other", "none"}
    /\ HalfDone \subseteq {"cluster", "release"}
    /\ MaxFaults \in Nat
    /\ MaxCrashes \in Nat

VARIABLES
    pc,        \* the call the run makes next; off: none runs; done: it succeeded
    caller,    \* who called waitForNodes: Provision or restartGPUNodes
    client,    \* the cluster the client of waitForNodes talks to
    todo,      \* the nodes the loop of the run has yet to reach
    cluster,   \* none; bare: no admin.conf; short: no worker has joined; full
    label,     \* label[n]: the GPU count n is labelled with, 0 without labels
    up,        \* the GPU nodes whose kubelet runs
    ready,     \* the GPU nodes whose stored status is Ready
    gpus,      \* the GPU nodes whose stored capacity has GPUs
    reported,  \* history: the GPU nodes that have registered GPUs
    release,   \* release[c]: the Helm release of chart c: none, partial, deployed
    crds,      \* the CRDs: none, applied, established
    skaffold,  \* whether a skaffold runs that has yet to deploy
    known,     \* known[n]: the GPU count the scenario manager has read for n
    faults, crashes

run == <<caller, client, todo>>
nodes == <<up, ready, gpus, reported>>
environment == <<crds, skaffold, known>>
budget == <<faults, crashes>>

vars == <<pc, run, cluster, label, nodes, release, environment, budget>>

-----------------------------------------------------------------------------
Charts == {"fake-gpu-operator", "kube-prometheus-stack"}

\* The calls of Provision and InstallAddons, in their order.
Calls == {"check", "list", "create", "client", "wait", "label", "addons",
          "operator", "restart", "restarting", "capacity", "prometheus",
          "crds", "launch"}

Clusters == {"own", "other"}

Goto(next) == pc' = next /\ UNCHANGED budget

Fault == faults < MaxFaults /\ faults' = faults + 1 /\ UNCHANGED crashes

\* A failed call ends the run, and the program with it.
Fails == pc' = "off" /\ Fault

\* The GPU workers a list by their label shows.
Listed == IF cluster = "full" THEN GpuNodes ELSE {}

\* Provider.KubeConfig reads the admin.conf of the control plane.
HasKubeConfig == cluster \in {"short", "full"}

-----------------------------------------------------------------------------
(* Mutants: wrong versions of steps below, which the properties reject. *)

\* Mutant: a cluster is created without a look at the list; kind refuses to
\* create one that exists.
CreateAlways ==
    /\ pc = "list"
    /\ Goto(IF cluster = "none" THEN "create" ELSE "off") \/ Fails
    /\ UNCHANGED <<run, cluster, label, nodes, release, environment>>

\* Mutant: waitForNodes returns after the first label.
LabelOne ==
    /\ pc = "label"
    /\ Cardinality(todo) < 2
    /\ Goto(IF caller = "Provision" THEN "addons" ELSE "capacity")
    /\ UNCHANGED <<run, cluster, label, nodes, release, environment>>

\* Mutant: the list of a failed call is empty, and all its nodes have GPUs.
EmptyListIsReady ==
    /\ pc = "capacity"
    /\ \/ Listed \subseteq gpus /\ Goto("prometheus")
       \/ Fault /\ pc' = "prometheus"
    /\ UNCHANGED <<run, cluster, label, nodes, release, environment>>

\* Mutant: an older skaffold is left running instead of being replaced.
KeepSkaffold ==
    /\ pc = "launch"
    /\ Goto("done")
    /\ skaffold' = (known = [n \in GpuNodes |-> 0])
    /\ UNCHANGED <<run, cluster, label, nodes, release, crds, known>>

-----------------------------------------------------------------------------
(* Provision. *)

\* The user starts the program, which remembers nothing of earlier runs.
Start ==
    /\ pc \in {"off", "done"}
    /\ Goto("check")
    /\ caller' = "Provision"
    /\ client' = "own"
    /\ todo' = {}
    /\ UNCHANGED <<cluster, label, nodes, release, environment>>

CheckSystemRequirements ==
    /\ pc = "check"
    /\ Goto("list") \/ Fails
    /\ UNCHANGED <<run, cluster, label, nodes, release, environment>>

\* createCluster: a cluster that exists by name is not created again.
ListClusters ==
    /\ pc = "list"
    /\ Goto(IF cluster = "none" THEN "create" ELSE "client") \/ Fails
    /\ UNCHANGED <<run, cluster, label, nodes, release, environment>>

\* kind removes what it has made when the creation fails.
CreateCluster ==
    /\ pc = "create"
    /\ \/ Goto("client") /\ cluster' = "full" /\ up' = GpuNodes
       \/ Fails /\ UNCHANGED <<cluster, up>>
    /\ UNCHANGED <<run, label, ready, gpus, reported, release, environment>>

\* What the default kubeconfig may name.  Once InstallAddons has set
\* KUBECONFIG it is this cluster, as it is after kind has created it.
DefaultContexts ==
    IF caller = "restartGPUNodes" \/ cluster = "full" THEN {"own"} ELSE Contexts

\* getKubernetesClient, as waitForNodes calls it: a cluster that cannot be
\* asked for its kubeconfig is talked to through the default one.
GetKubernetesClient ==
    /\ pc = "client"
    /\ \/ HasKubeConfig /\ Goto("wait") /\ client' = "own"
       \/ /\ IF HasKubeConfig THEN Fault ELSE UNCHANGED budget
          /\ \E c \in DefaultContexts :
                 IF c \in Clusters THEN pc' = "wait" /\ client' = c
                 ELSE pc' = "off" /\ UNCHANGED client
    /\ UNCHANGED <<caller, todo, cluster, label, nodes, release, environment>>

\* As many nodes are Ready as kind-config.yaml lists.  The other cluster is
\* one that has that many.
AllNodesReady == client = "other" \/ (cluster = "full" /\ ready = GpuNodes)

\* waitForNodes, and the list of the GPU workers simulateNvidiaLabels begins
\* with.  A list that fails inside the loop is only tried again.
WaitForNodes ==
    /\ pc = "wait"
    /\ AllNodesReady
    /\ \/ Goto("label") /\ todo' = IF client = "own" THEN Listed ELSE {}
       \/ Fails /\ UNCHANGED todo
    /\ UNCHANGED <<caller, client, cluster, label, nodes, release, environment>>

\* simulateNvidiaLabels draws new labels for the next node, a GPU count among
\* them.  The patch may fail, or its answer be lost.
LabelNode ==
    /\ pc = "label"
    /\ \E n \in todo, k \in Counts :
           /\ todo' = todo \ {n}
           /\ \/ Goto("label") /\ label' = [label EXCEPT ![n] = k]
              \/ Fails /\ label' \in {label, [label EXCEPT ![n] = k]}
    /\ UNCHANGED <<caller, client, cluster, nodes, release, environment>>

\* waitForNodes returns.
Labelled ==
    /\ pc = "label"
    /\ todo = {}
    /\ Goto(IF caller = "Provision" THEN "addons" ELSE "capacity")
    /\ UNCHANGED <<run, cluster, label, nodes, release, environment>>

\* waitForNodes or waitForGpuCapacity gives up.
TimesOut ==
    /\ pc \in {"wait", "capacity"}
    /\ Goto("off")
    /\ UNCHANGED <<run, cluster, label, nodes, release, environment>>

-----------------------------------------------------------------------------
(* InstallAddons. *)

\* The kubeconfig of the cluster is written to the file that KUBECONFIG names
\* from now on; without one InstallAddons fails.
InstallAddons ==
    /\ pc = "addons"
    /\ Goto(IF HasKubeConfig THEN "operator" ELSE "off") \/ Fails
    /\ UNCHANGED <<run, cluster, label, nodes, release, environment>>

\* installChart.  A release that exists is not installed again, whatever
\* became of it, unless isChartInstalled fails to see it.  A helm that fails
\* has made no release, half of one, or all of it too late, or is kept from it
\* by the half it finds.
InstallChart(c, next) ==
    /\ \/ release[c] # "none" /\ Goto(next) /\ UNCHANGED release
       \/ /\ IF release[c] = "none" THEN UNCHANGED budget ELSE Fault
          /\ pc' = next
          /\ release' = [release EXCEPT ![c] = "deployed"]
       \/ /\ release[c] # "deployed"
          /\ Fails
          /\ \E r \in {release[c], "deployed"}
                      \cup (IF "release" \in HalfDone THEN {"partial"} ELSE {}) :
                 release' = [release EXCEPT ![c] = r]
    /\ UNCHANGED <<run, cluster, label, nodes, environment>>

InstallFakeGpuOperator ==
    pc = "operator" /\ InstallChart("fake-gpu-operator", "restart")

\* restartGPUNodes lists the GPU workers and their capacity once, ...
ListForRestart ==
    /\ pc = "restart"
    /\ \/ Goto("restarting") /\ todo' = Listed \ gpus
       \/ Fails /\ UNCHANGED todo
    /\ UNCHANGED <<caller, client, cluster, label, nodes, release, environment>>

\* ... restarts those without GPUs, the kubelet with them, ...
RestartNode ==
    /\ pc = "restarting"
    /\ \E n \in todo :
           /\ todo' = todo \ {n}
           /\ \/ Goto("restarting") /\ up' = up \ {n}
              \/ Fails /\ UNCHANGED up
    /\ UNCHANGED <<caller, client, cluster, label, ready, gpus, reported, release,
                   environment>>

\* ... and waits for the nodes as Provision does, labels and all.
Restarted ==
    /\ pc = "restarting"
    /\ todo = {}
    /\ Goto("client")
    /\ caller' = "restartGPUNodes"
    /\ UNCHANGED <<client, todo, cluster, label, nodes, release, environment>>

\* waitForGpuCapacity: all listed nodes have GPUs, and there are some.  The
\* list of a call that fails is empty.
WaitForGpuCapacity ==
    /\ pc = "capacity"
    /\ Listed # {}
    /\ Listed \subseteq gpus
    /\ Goto("prometheus")
    /\ UNCHANGED <<run, cluster, label, nodes, release, environment>>

InstallKubePrometheusStack ==
    pc = "prometheus" /\ InstallChart("kube-prometheus-stack", "crds")

\* MakeInstallCRDs returns when the CRDs are applied.  Its error is dropped.
MakeInstallCRDs ==
    /\ pc = "crds"
    /\ pc' = "launch"
    /\ \/ UNCHANGED budget /\ crds' = IF crds = "none" THEN "applied" ELSE crds
       \/ Fault /\ UNCHANGED crds
    /\ UNCHANGED <<run, cluster, label, nodes, release, skaffold, known>>

\* launchMockEnvironment: kill every skaffold, start one, do not wait for it.
LaunchMockEnvironment ==
    /\ pc = "launch"
    /\ \/ Goto("done") /\ skaffold' = TRUE
       \/ Fails /\ skaffold' = FALSE
    /\ UNCHANGED <<run, cluster, label, nodes, release, crds, known>>

-----------------------------------------------------------------------------
(* The user, and the cluster. *)

\* An interrupt, which also reaches kind's and helm's work.
Interrupt ==
    /\ pc \in Calls
    /\ crashes < MaxCrashes
    /\ crashes' = crashes + 1
    /\ pc' = "off"
    /\ cluster' \in IF pc = "create" /\ "cluster" \in HalfDone
                    THEN {"none", "bare", "short"} ELSE {cluster}
    /\ release' \in
           {release} \cup
           {[release EXCEPT ![c] = "partial"] :
                c \in {d \in Charts :
                          /\ pc = IF d = "fake-gpu-operator" THEN "operator"
                                  ELSE "prometheus"
                          /\ release[d] = "none"
                          /\ "release" \in HalfDone}}
    /\ UNCHANGED <<run, label, nodes, environment, faults>>

\* The kubelet of n starts and registers the node, without GPUs until their
\* device plugin has come back.
KubeletStarts(n) ==
    /\ cluster = "full"
    /\ n \notin up \cap ready
    /\ up' = up \cup {n}
    /\ ready' = ready \cup {n}
    /\ gpus' = gpus \ {n}
    /\ UNCHANGED <<pc, run, cluster, label, reported, release, environment, budget>>

\* The node controller notices that a kubelet is silent.
NodeLost(n) ==
    /\ n \in ready \ up
    /\ ready' = ready \ {n}
    /\ UNCHANGED <<pc, run, cluster, label, up, gpus, reported, release,
                   environment, budget>>

\* The fake GPU operator gives a node that is labelled with a pool its GPUs.
GpusRegistered(n) ==
    /\ n \in (up \cap ready) \ gpus
    /\ label[n] # 0
    /\ release["fake-gpu-operator"] = "deployed"
    /\ gpus' = gpus \cup {n}
    /\ reported' = reported \cup {n}
    /\ UNCHANGED <<pc, run, cluster, label, up, ready, release, environment, budget>>

CrdsEstablished ==
    /\ crds = "applied"
    /\ crds' = "established"
    /\ UNCHANGED <<pc, run, cluster, label, nodes, release, skaffold, known, budget>>

\* skaffold deploys the scenario manager, which reads the labels as it starts.
SkaffoldDeploys ==
    /\ skaffold
    /\ skaffold' = FALSE
    /\ known' = label
    /\ UNCHANGED <<pc, run, cluster, label, nodes, release, crds, budget>>

-----------------------------------------------------------------------------
Init ==
    /\ pc = "off"
    /\ caller = "Provision"
    /\ client = "own"
    /\ todo = {}
    /\ cluster = "none"
    /\ label = [n \in GpuNodes |-> 0]
    /\ up = {}
    /\ ready = {}
    /\ gpus = {}
    /\ reported = {}
    /\ release = [c \in Charts |-> "none"]
    /\ crds = "none"
    /\ skaffold = FALSE
    /\ known = [n \in GpuNodes |-> 0]
    /\ faults = 0
    /\ crashes = 0

Provision ==
    \/ CheckSystemRequirements \/ ListClusters \/ CreateCluster
    \/ GetKubernetesClient \/ WaitForNodes \/ LabelNode \/ Labelled

Addons ==
    \/ InstallAddons \/ InstallFakeGpuOperator \/ ListForRestart \/ RestartNode
    \/ Restarted \/ WaitForGpuCapacity \/ InstallKubePrometheusStack
    \/ MakeInstallCRDs \/ LaunchMockEnvironment

Cluster ==
    \/ \E n \in GpuNodes : KubeletStarts(n) \/ NodeLost(n) \/ GpusRegistered(n)
    \/ CrdsEstablished \/ SkaffoldDeploys

Next == Start \/ Provision \/ Addons \/ TimesOut \/ Interrupt \/ Cluster

Spec == Init /\ [][Next]_vars

\* A run goes on, the user of one that failed tries again, and the cluster
\* does its work.  Nothing need time out or be interrupted.
Fairness ==
    /\ WF_vars(pc = "off" /\ Start)
    /\ WF_vars(Provision \/ Addons)
    /\ \A n \in GpuNodes : WF_vars(KubeletStarts(n)) /\ WF_vars(GpusRegistered(n))
    /\ WF_vars(CrdsEstablished)
    /\ WF_vars(SkaffoldDeploys)

FairSpec == Spec /\ Fairness

-----------------------------------------------------------------------------
(* Properties. *)

\* Every variable has its type; a run never leaves a loop over nodes before
\* the last one, and has a loop only over the nodes of a whole cluster.
TypeOK ==
    /\ pc \in Calls \cup {"off", "done"}
    /\ caller \in {"Provision", "restartGPUNodes"}
    /\ client \in Clusters
    /\ todo \subseteq GpuNodes
    /\ pc \in Calls \ {"label", "restarting"} => todo = {}
    /\ todo # {} => cluster = "full"
    /\ cluster \in {"none", "bare", "short", "full"}
    /\ label \in [GpuNodes -> Counts \cup {0}]
    /\ up \subseteq GpuNodes
    /\ ready \subseteq GpuNodes
    /\ gpus \subseteq reported
    /\ reported \subseteq GpuNodes
    /\ release \in [Charts -> {"none", "partial", "deployed"}]
    /\ crds \in {"none", "applied", "established"}
    /\ skaffold \in BOOLEAN
    /\ known \in [GpuNodes -> Counts \cup {0}]
    /\ faults \in 0..MaxFaults
    /\ crashes \in 0..MaxCrashes

\* A run that succeeds, however many failed or were interrupted before it and
\* whatever cluster the default kubeconfig names, has waited for a whole
\* cluster of its own: every GPU worker is labelled and has registered GPUs,
\* and no chart was left out (main, waitForGpuCapacity).
SuccessMeansReady ==
    pc = "done" =>
        /\ cluster = "full"
        /\ \A n \in GpuNodes : label[n] # 0
        /\ reported = GpuNodes
        /\ \A c \in Charts : release[c] # "none"

\* What the code cannot get over (createCluster, isChartInstalled).
HalfMade ==
    \/ cluster \in {"bare", "short"}
    \/ release["fake-gpu-operator"] = "partial"

\* Running the program again and again gets there, if in the end nothing
\* takes longer than the waits allow and neither kind nor helm was ever killed
\* half-way: whatever else earlier runs left behind is not in the way
\* (createCluster, installChart, restartGPUNodes).
RerunsSucceed ==
    []~HalfMade /\ <>[][~TimesOut]_vars => []<>(pc = "done")

\* The labels are drawn anew whenever nodes are waited for, twice in a run.
\* After the last run the scenario manager works with the ones that were
\* drawn last (simulateNvidiaLabels, launchMockEnvironment), and the GPUs
\* the restart took away are back.
LastDrawIsKnown ==
    <>[](pc = "done") => <>[](known = label /\ gpus = GpuNodes)
=============================================================================
