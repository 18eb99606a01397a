------------------------- MODULE ProvisionerProofs -------------------------
(***************************************************************************)
(* Theorems about Provisioner: type correctness, and that a run which      *)
(* succeeds has waited for a whole cluster.                                *)
(***************************************************************************)
EXTENDS Provisioner, TLAPS

-----------------------------------------------------------------------------
(* Type correctness. *)

\* The charts are the two that are installed.
LEMMA ChartsAre ==
    "fake-gpu-operator" \in Charts /\ "kube-prometheus-stack" \in Charts
BY DEF Charts

\* Faults stay within their bound, and crashes with them.
LEMMA BudgetOK ==
    ASSUME TypeOK, Fault \/ UNCHANGED budget
    PROVE  faults' \in 0..MaxFaults /\ crashes' \in 0..MaxCrashes
BY ProvisionerAssumption DEF TypeOK, Fault, budget

\* The calls of Provision keep the types.
LEMMA ProvisionKeepsTypeOK ==
    ASSUME TypeOK, Provision
    PROVE  TypeOK'
<1> USE DEF Goto, Fails, Fault, budget, run, nodes, environment
<1>1. CASE CheckSystemRequirements
  BY <1>1, ProvisionerAssumption DEF CheckSystemRequirements, TypeOK, Calls
<1>2. CASE ListClusters
  BY <1>2, ProvisionerAssumption DEF ListClusters, TypeOK, Calls
<1>3. CASE CreateCluster
  BY <1>3, ProvisionerAssumption DEF CreateCluster, TypeOK, Calls
<1>4. CASE GetKubernetesClient
  BY <1>4, ProvisionerAssumption DEF GetKubernetesClient, TypeOK, Calls, Clusters
<1>5. CASE WaitForNodes
  BY <1>5, ProvisionerAssumption DEF WaitForNodes, TypeOK, Calls, Listed
<1>6. CASE LabelNode
  BY <1>6, ProvisionerAssumption DEF LabelNode, TypeOK, Calls
<1>7. CASE Labelled
  BY <1>7, ProvisionerAssumption DEF Labelled, TypeOK, Calls
<1> QED
  BY <1>1, <1>2, <1>3, <1>4, <1>5, <1>6, <1>7 DEF Provision

\* Installing a chart keeps the types.
LEMMA InstallKeepsTypeOK ==
    ASSUME TypeOK, NEW c \in Charts, NEW next \in Calls \ {"label", "restarting"},
           pc \in Calls \ {"label", "restarting"}, InstallChart(c, next)
    PROVE  TypeOK'
<1> USE DEF Goto, Fails, Fault, budget, run, nodes, environment
<1>1. release' \in [Charts -> {"none", "partial", "deployed"}]
  BY DEF InstallChart, TypeOK
<1>2. pc' \in {next, "off"}
  BY DEF InstallChart
<1>3. faults' \in 0..MaxFaults /\ crashes' \in 0..MaxCrashes
  BY BudgetOK DEF InstallChart
<1> QED
  BY <1>1, <1>2, <1>3 DEF InstallChart, TypeOK, Calls

\* So do the calls of InstallAddons.
LEMMA AddonsKeepTypeOK ==
    ASSUME TypeOK, Addons
    PROVE  TypeOK'
<1>1. CASE InstallFakeGpuOperator
  BY <1>1, ChartsAre, InstallKeepsTypeOK DEF InstallFakeGpuOperator, Calls
<1>2. CASE InstallKubePrometheusStack
  BY <1>2, ChartsAre, InstallKeepsTypeOK DEF InstallKubePrometheusStack, Calls
<1> USE DEF Goto, Fails, Fault, budget, run, nodes, environment
<1>3. CASE InstallAddons
  BY <1>3, ProvisionerAssumption DEF InstallAddons, TypeOK, Calls
<1>4. CASE ListForRestart
  BY <1>4, ProvisionerAssumption DEF ListForRestart, TypeOK, Calls, Listed
<1>5. CASE RestartNode
  BY <1>5, ProvisionerAssumption DEF RestartNode, TypeOK, Calls
<1>6. CASE Restarted
  BY <1>6, ProvisionerAssumption DEF Restarted, TypeOK, Calls
<1>7. CASE WaitForGpuCapacity
  BY <1>7, ProvisionerAssumption DEF WaitForGpuCapacity, TypeOK, Calls
<1>8. CASE MakeInstallCRDs
  BY <1>8, ProvisionerAssumption DEF MakeInstallCRDs, TypeOK, Calls
<1>9. CASE LaunchMockEnvironment
  <2>1. skaffold' \in BOOLEAN /\ pc' \in {"done", "off"}
    BY <1>9 DEF LaunchMockEnvironment
  <2>2. faults' \in 0..MaxFaults /\ crashes' \in 0..MaxCrashes
    BY <1>9, BudgetOK DEF LaunchMockEnvironment
  <2> QED
    BY <1>9, <2>1, <2>2 DEF LaunchMockEnvironment, TypeOK, Calls
<1> QED
  BY <1>1, <1>2, <1>3, <1>4, <1>5, <1>6, <1>7, <1>8, <1>9 DEF Addons

\* And what happens outside of a run.
LEMMA OthersKeepTypeOK ==
    ASSUME TypeOK, Start \/ TimesOut \/ Interrupt \/ Cluster
    PROVE  TypeOK'
<1> USE DEF Goto, Fails, Fault, budget, run, nodes, environment
<1>1. CASE Start
  BY <1>1 DEF Start, TypeOK, Calls, Clusters
<1>2. CASE TimesOut
  BY <1>2 DEF TimesOut, TypeOK, Calls
<1>3. CASE Interrupt
  <2>1. crashes' \in 0..MaxCrashes
    BY <1>3, ProvisionerAssumption DEF Interrupt, TypeOK
  <2>2. release' \in [Charts -> {"none", "partial", "deployed"}]
    BY <1>3 DEF Interrupt, TypeOK
  <2>3. cluster' \in {"none", "bare", "short", "full"}
        /\ (cluster' = cluster \/ pc = "create")
    BY <1>3 DEF Interrupt, TypeOK
  <2> QED
    BY <1>3, <2>1, <2>2, <2>3 DEF Interrupt, TypeOK, Calls
<1>4. CASE Cluster
  <2>1. ASSUME NEW n \in GpuNodes, KubeletStarts(n)
        PROVE  TypeOK'
    BY <2>1 DEF KubeletStarts, TypeOK
  <2>2. ASSUME NEW n \in GpuNodes, NodeLost(n)
        PROVE  TypeOK'
    BY <2>2 DEF NodeLost, TypeOK
  <2>3. ASSUME NEW n \in GpuNodes, GpusRegistered(n)
        PROVE  TypeOK'
    BY <2>3 DEF GpusRegistered, TypeOK
  <2>4. CASE CrdsEstablished
    BY <2>4 DEF CrdsEstablished, TypeOK
  <2>5. CASE SkaffoldDeploys
    BY <2>5 DEF SkaffoldDeploys, TypeOK
  <2> QED
    BY <1>4, <2>1, <2>2, <2>3, <2>4, <2>5 DEF Cluster
<1> QED
  BY <1>1, <1>2, <1>3, <1>4

\* Every step keeps the types.
LEMMA NextKeepsTypeOK ==
    ASSUME TypeOK, [Next]_vars
    PROVE  TypeOK'
<1>1. CASE UNCHANGED vars
  BY <1>1 DEF vars, run, nodes, environment, budget, TypeOK
<1> QED
  BY <1>1, ProvisionKeepsTypeOK, AddonsKeepTypeOK, OthersKeepTypeOK DEF Next

\* They hold before the first run.
LEMMA InitHasTypes ==
    ASSUME Init
    PROVE  TypeOK
<1>1. skaffold \in BOOLEAN
  BY DEF Init
<1> QED
  BY <1>1, ProvisionerAssumption DEF Init, TypeOK, Calls, Clusters

\* For any nodes, counts and bounds: every variable has its type, and a run
\* leaves no loop over nodes before its last one.
THEOREM TypeCorrect == Spec => []TypeOK
<1>1. TypeOK /\ [Next]_vars => TypeOK'
  BY NextKeepsTypeOK
<1> QED
  BY <1>1, InitHasTypes, PTL DEF Spec

-----------------------------------------------------------------------------
(* A run that succeeds. *)

\* The calls that come after the wait for GPUs.
AfterCapacity == {"prometheus", "crds", "launch", "done"}

\* The calls that come after the first chart, those of the second wait for
\* the nodes among them.
AfterOperator ==
    \/ pc \in {"restart", "restarting", "capacity"} \cup AfterCapacity
    \/ pc \in {"client", "wait", "label"} /\ caller = "restartGPUNodes"

\* What a run has seen to by the time it makes a call, and that no node
\* registers GPUs without a label.
SeenTo ==
    /\ \A n \in reported : label[n] # 0
    /\ pc \in {"check", "list", "create"} => caller = "Provision"
    /\ pc \in AfterCapacity => cluster = "full" /\ reported = GpuNodes
    /\ AfterOperator => release["fake-gpu-operator"] # "none"
    /\ pc \in {"crds", "launch", "done"} => release["kube-prometheus-stack"] # "none"

Inv == TypeOK /\ SeenTo

\* A chart that has been seen to stays so, and the others are left alone.
LEMMA InstalledChart ==
    ASSUME TypeOK, NEW c \in Charts, NEW next, next # "off",
           InstallChart(c, next)
    PROVE  /\ \A d \in Charts : release[d] # "none" => release'[d] # "none"
           /\ pc' = next => release'[c] # "none"
           /\ pc' \in {next, "off"}
           /\ UNCHANGED <<run, cluster, label, nodes, environment>>
BY DEF InstallChart, TypeOK, Goto, Fails

\* The calls of Provision see to nothing but labels, and take none away.
LEMMA ProvisionSeesTo ==
    ASSUME Inv, Provision
    PROVE  SeenTo'
<1> USE DEF Goto, Fails, run, nodes, Inv, SeenTo, AfterOperator, AfterCapacity
<1>1. CASE CheckSystemRequirements
  BY <1>1 DEF CheckSystemRequirements
<1>2. CASE ListClusters
  BY <1>2 DEF ListClusters
<1>3. CASE CreateCluster
  BY <1>3 DEF CreateCluster
<1>4. CASE GetKubernetesClient
  BY <1>4 DEF GetKubernetesClient
<1>5. CASE WaitForNodes
  BY <1>5 DEF WaitForNodes
<1>6. CASE LabelNode
  <2>1. PICK n \in todo, k \in Counts :
            label' \in {label, [label EXCEPT ![n] = k]}
    BY <1>6 DEF LabelNode
  <2>2. \A i \in GpuNodes : label[i] # 0 => label'[i] # 0
    BY <2>1, ProvisionerAssumption DEF TypeOK
  <2>3. \A i \in reported : label'[i] # 0
    BY <2>2 DEF TypeOK
  <2> QED
    BY <1>6, <2>3 DEF LabelNode
<1>7. CASE Labelled
  BY <1>7 DEF Labelled, TypeOK
<1> QED
  BY <1>1, <1>2, <1>3, <1>4, <1>5, <1>6, <1>7 DEF Provision

\* The wait for GPUs sees to the cluster, the installations to their charts.
LEMMA AddonsSeeTo ==
    ASSUME Inv, Addons
    PROVE  SeenTo'
<1>1. CASE InstallFakeGpuOperator
  BY <1>1, ChartsAre, InstalledChart
     DEF InstallFakeGpuOperator, run, nodes, Inv, SeenTo, AfterOperator, AfterCapacity
<1>2. CASE InstallKubePrometheusStack
  BY <1>2, ChartsAre, InstalledChart
     DEF InstallKubePrometheusStack, run, nodes, Inv, SeenTo, AfterOperator, AfterCapacity
<1> USE DEF Goto, Fails, run, nodes, Inv, SeenTo, AfterOperator, AfterCapacity
<1>3. CASE InstallAddons
  BY <1>3 DEF InstallAddons
<1>4. CASE ListForRestart
  BY <1>4 DEF ListForRestart
<1>5. CASE RestartNode
  BY <1>5 DEF RestartNode
<1>6. CASE Restarted
  BY <1>6 DEF Restarted
<1>7. CASE WaitForGpuCapacity
  BY <1>7 DEF WaitForGpuCapacity, Listed, TypeOK
<1>8. CASE MakeInstallCRDs
  BY <1>8 DEF MakeInstallCRDs
<1>9. CASE LaunchMockEnvironment
  BY <1>9 DEF LaunchMockEnvironment
<1> QED
  BY <1>1, <1>2, <1>3, <1>4, <1>5, <1>6, <1>7, <1>8, <1>9 DEF Addons

\* The cluster takes no label away, and GPUs register on labelled nodes only.
LEMMA OthersSeeTo ==
    ASSUME Inv, Start \/ TimesOut \/ Interrupt \/ Cluster
    PROVE  SeenTo'
<1> USE DEF Goto, run, nodes, environment, Inv, SeenTo, AfterOperator, AfterCapacity
<1>1. CASE Start
  BY <1>1 DEF Start
<1>2. CASE TimesOut
  BY <1>2 DEF TimesOut
<1>3. CASE Interrupt
  BY <1>3 DEF Interrupt
<1>4. CASE Cluster
  <2>1. ASSUME NEW n \in GpuNodes, KubeletStarts(n) \/ NodeLost(n)
        PROVE  SeenTo'
    BY <2>1 DEF KubeletStarts, NodeLost
  <2>2. ASSUME NEW n \in GpuNodes, GpusRegistered(n)
        PROVE  SeenTo'
    BY <2>2 DEF GpusRegistered, TypeOK
  <2>3. CASE CrdsEstablished \/ SkaffoldDeploys
    BY <2>3 DEF CrdsEstablished, SkaffoldDeploys
  <2> QED
    BY <1>4, <2>1, <2>2, <2>3 DEF Cluster
<1> QED
  BY <1>1, <1>2, <1>3, <1>4

\* For any nodes, counts and default kubeconfigs, and any number of failed and
\* interrupted runs: a run that succeeds has waited for a whole cluster whose
\* GPU workers are labelled and have registered GPUs, and left out no chart.
THEOREM SuccessIsReady == Spec => []SuccessMeansReady
<1>1. Init => Inv
  BY InitHasTypes DEF Init, Inv, SeenTo, AfterOperator, AfterCapacity
<1>2. Inv /\ [Next]_vars => Inv'
  <2> SUFFICES ASSUME Inv, [Next]_vars
               PROVE  Inv'
    OBVIOUS
  <2>1. TypeOK'
    BY NextKeepsTypeOK DEF Inv
  <2>2. CASE UNCHANGED vars
    BY <2>1, <2>2 DEF vars, run, nodes, environment, budget, Inv, SeenTo,
       AfterOperator, AfterCapacity
  <2> QED
    BY <2>1, <2>2, ProvisionSeesTo, AddonsSeeTo, OthersSeeTo DEF Next, Inv
<1>3. Inv => SuccessMeansReady
  <2> SUFFICES ASSUME Inv, pc = "done"
               PROVE  SuccessMeansReady
    BY DEF SuccessMeansReady
  <2>1. \A c \in Charts : release[c] # "none"
    BY DEF Inv, SeenTo, AfterOperator, AfterCapacity, Charts
  <2> QED
    BY <2>1 DEF Inv, SeenTo, AfterCapacity, SuccessMeansReady
<1> QED
  BY <1>1, <1>2, <1>3, PTL DEF Spec
=============================================================================
