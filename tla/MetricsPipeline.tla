-------------------------- MODULE MetricsPipeline --------------------------
(***************************************************************************)
(* The way of the simulated metrics: the scenario manager writes them to a *)
(* ConfigMap every ten seconds, the mock exporter serves the ConfigMap,    *)
(* and Prometheus scrapes the exporter (internal/provisioner/fake-scenario *)
(* and the deployments in internal/provisioner/manifests).                 *)
(*                                                                         *)
(* The metrics of one tick are a generation and the node map they were     *)
(* made from; their values, which the pipeline does not look at, are the   *)
(* business of GpuHealth.                                                  *)
(*                                                                         *)
(* A process of the scenario manager that dies may leave a write on its    *)
(* way.  Its successor is another member of Managers.                      *)
(***************************************************************************)
EXTENDS FiniteSets, GpuHealth

CONSTANTS
    Managers,     \* processes of the scenario manager
    Nodes,        \* GPU workers
    MaxGpus,      \* the largest GPU count of a node
    MaxTicks,     \* generations that are told apart; the last one repeats
    MaxLabels,    \* times the provisioner labels a node
    MaxRollouts,  \* processes started while another one runs
    MaxDeletes,   \* times a user deletes the ConfigMap
    MaxFaults,    \* calls and scrapes that fail
    MaxCrashes    \* processes that die

ASSUME PipelineAssumption ==
    /\ MaxGpus \in Nat \ {0}
    /\ MaxTicks \in Nat \ {0}
    /\ {MaxLabels, MaxRollouts, MaxDeletes, MaxFaults, MaxCrashes} \subseteq Nat

VARIABLES
    labels,     \* labels[n]: the GPU count n is labelled with, 0 without label
    mapped,     \* mapped[m]: m's nodeNamesToGPUs, NoNodes when m does not run
    sync,       \* sync[m]: the syncMetrics m is in, and its data
    configMap,  \* the metrics in the ConfigMap, or Absent
    fresh,      \* the managers that have read the version that is stored
    scrape,     \* what the exporter is about to answer, or Absent
    series,     \* the metrics Prometheus has, NoMetrics when it has none
    clock,      \* the last generation made
    newest,     \* history: the last generation Prometheus has had
    budget      \* what is left of the bounded events

vars == <<labels, mapped, sync, configMap, fresh, scrape, series, clock,
          newest, budget>>

-----------------------------------------------------------------------------
NodeMaps == [Nodes -> 0..MaxGpus]

NoNodes == [n \in Nodes |-> 0]

Metrics == [gen : 0..MaxTicks, map : NodeMaps]

NoMetrics == [gen |-> 0, map |-> NoNodes]

Absent == [gen |-> -1, map |-> NoNodes]

Idle == [step |-> "idle", data |-> NoMetrics]

Alive == {m \in Managers : mapped[m] # NoNodes}

Spend(event) == budget[event] > 0 /\ budget' = [budget EXCEPT ![event] = @ - 1]

-----------------------------------------------------------------------------
(* Mutants: wrong versions of actions below, which the properties reject. *)

\* Mutant: the ConfigMap is patched, whatever version was read.
BlindUpdate(m) ==
    /\ sync[m].step = "update"
    /\ sync' = [sync EXCEPT ![m] = Idle]
    /\ IF configMap # Absent
       THEN configMap' = sync[m].data /\ fresh' = {}
       ELSE UNCHANGED <<configMap, fresh>>
    /\ UNCHANGED <<labels, mapped, scrape, series, clock, newest, budget>>

\* Mutant: the new metrics are added to the ConfigMap's, node by node.
MergingUpdate(m) ==
    /\ sync[m].step = "update"
    /\ sync' = [sync EXCEPT ![m] = Idle]
    /\ IF m \in fresh
       THEN /\ fresh' = {}
            /\ configMap' = [sync[m].data EXCEPT !.map =
                   [n \in Nodes |-> IF @[n] # 0 THEN @[n] ELSE configMap.map[n]]]
       ELSE UNCHANGED <<configMap, fresh>>
    /\ UNCHANGED <<labels, mapped, scrape, series, clock, newest, budget>>

\* Mutant: a process that restarts finishes the sync its predecessor was in.
CrashKeepsSync(m) ==
    /\ m \in Alive
    /\ Spend("crashes")
    /\ mapped' = [mapped EXCEPT ![m] = NoNodes]
    /\ UNCHANGED <<labels, sync, configMap, fresh, scrape, series, clock, newest>>

-----------------------------------------------------------------------------
(* The scenario manager. *)

\* InitializeClusterMap: the nodes are read once, when the process starts.
\* Without any node the process ends, and its deployment starts another.  A
\* rollout of the deployment starts one while the old one still runs.
InitializeClusterMap(m) ==
    /\ m \notin Alive
    /\ sync[m] = Idle
    /\ IF Alive = {} THEN UNCHANGED budget ELSE Spend("rollouts")
    /\ mapped' = [mapped EXCEPT ![m] = labels]
    /\ UNCHANGED <<labels, sync, configMap, fresh, scrape, series, clock, newest>>

\* RunScenarioLoop: the ticker fires, metrics are drawn for the node map.
Tick(m) ==
    /\ m \in Alive
    /\ sync[m].step = "idle"
    /\ clock' = IF clock < MaxTicks THEN clock + 1 ELSE clock
    /\ sync' = [sync EXCEPT ![m] = [step |-> "get",
                                    data |-> [gen |-> clock', map |-> mapped[m]]]]
    /\ UNCHANGED <<labels, mapped, configMap, fresh, scrape, series, newest, budget>>

\* syncMetrics: read the ConfigMap; without one, go on to create it.
Get(m) ==
    /\ sync[m].step = "get"
    /\ \/ /\ configMap = Absent
          /\ sync' = [sync EXCEPT ![m].step = "create"]
          /\ UNCHANGED <<fresh, budget>>
       \/ /\ configMap # Absent
          /\ sync' = [sync EXCEPT ![m].step = "update"]
          /\ fresh' = fresh \cup {m}
          /\ UNCHANGED budget
       \/ /\ Spend("faults")
          /\ sync' = [sync EXCEPT ![m] = Idle]
          /\ UNCHANGED fresh
    /\ UNCHANGED <<labels, mapped, configMap, scrape, series, clock, newest>>

\* The create is refused when there is one by now; errors are only logged.
Create(m) ==
    /\ sync[m].step = "create"
    /\ sync' = [sync EXCEPT ![m] = Idle]
    /\ \/ configMap = Absent /\ configMap' = sync[m].data /\ UNCHANGED budget
       \/ configMap # Absent /\ UNCHANGED <<configMap, budget>>
       \/ Spend("faults") /\ UNCHANGED configMap
    /\ UNCHANGED <<labels, mapped, fresh, scrape, series, clock, newest>>

\* The update replaces all metrics, if the version read is still stored.
Update(m) ==
    /\ sync[m].step = "update"
    /\ sync' = [sync EXCEPT ![m] = Idle]
    /\ \/ m \in fresh /\ configMap' = sync[m].data /\ fresh' = {} /\ UNCHANGED budget
       \/ m \notin fresh /\ UNCHANGED <<configMap, fresh, budget>>
       \/ Spend("faults") /\ UNCHANGED configMap /\ fresh' = fresh \ {m}
    /\ UNCHANGED <<labels, mapped, scrape, series, clock, newest>>

\* The process dies.  A write it has sent may still reach the API server.
Crash(m) ==
    /\ m \in Alive
    /\ Spend("crashes")
    /\ mapped' = [mapped EXCEPT ![m] = NoNodes]
    /\ sync' = [sync EXCEPT ![m] = IF @.step \in {"create", "update"} THEN @ ELSE Idle]
    /\ UNCHANGED <<labels, configMap, fresh, scrape, series, clock, newest>>

-----------------------------------------------------------------------------
(* The exporter and Prometheus. *)

\* ExportMockDCGMMetrics: read the ConfigMap; when that fails, or finds
\* nothing, the answer has no metric of any GPU.
ReadConfigMap ==
    /\ scrape = Absent
    /\ \/ scrape' = (IF configMap = Absent THEN NoMetrics ELSE configMap)
          /\ UNCHANGED budget
       \/ Spend("faults") /\ scrape' = NoMetrics
    /\ UNCHANGED <<labels, mapped, sync, configMap, fresh, series, clock, newest>>

\* Prometheus gets the answer, whose series replace those of the last one, or
\* gives up, which makes them stale.
Scrape ==
    /\ scrape # Absent
    /\ \/ series' = scrape /\ UNCHANGED budget
       \/ Spend("faults") /\ series' = NoMetrics
    /\ scrape' = Absent
    /\ newest' = IF series'.gen > newest THEN series'.gen ELSE newest
    /\ UNCHANGED <<labels, mapped, sync, configMap, fresh, clock>>

-----------------------------------------------------------------------------
(* The provisioner and the user. *)

\* simulateNvidiaLabels
LabelNode(n) ==
    /\ Spend("labels")
    /\ \E k \in 1..MaxGpus : labels' = [labels EXCEPT ![n] = k]
    /\ UNCHANGED <<mapped, sync, configMap, fresh, scrape, series, clock, newest>>

\* The node leaves the cluster.
RemoveNode(n) ==
    /\ labels[n] # 0
    /\ Spend("labels")
    /\ labels' = [labels EXCEPT ![n] = 0]
    /\ UNCHANGED <<mapped, sync, configMap, fresh, scrape, series, clock, newest>>

DeleteConfigMap ==
    /\ configMap # Absent
    /\ Spend("deletes")
    /\ configMap' = Absent
    /\ fresh' = {}
    /\ UNCHANGED <<labels, mapped, sync, scrape, series, clock, newest>>

-----------------------------------------------------------------------------
\* The provisioner labels the nodes before it deploys the rest.
Init ==
    /\ labels \in NodeMaps
    /\ mapped = [m \in Managers |-> NoNodes]
    /\ sync = [m \in Managers |-> Idle]
    /\ configMap = Absent
    /\ fresh = {}
    /\ scrape = Absent
    /\ series = NoMetrics
    /\ clock = 0
    /\ newest = 0
    /\ budget = [labels |-> MaxLabels, rollouts |-> MaxRollouts, deletes |-> MaxDeletes,
                 faults |-> MaxFaults, crashes |-> MaxCrashes]

SyncMetrics(m) == Get(m) \/ Create(m) \/ Update(m)

Exporter == ReadConfigMap \/ Scrape

Next ==
    \/ \E m \in Managers :
           InitializeClusterMap(m) \/ Tick(m) \/ SyncMetrics(m) \/ Crash(m)
    \/ Exporter
    \/ \E n \in Nodes : LabelNode(n) \/ RemoveNode(n)
    \/ DeleteConfigMap

Spec == Init /\ [][Next]_vars

\* Deployments restart what dies, the ticker fires, Prometheus scrapes.
Fairness ==
    /\ \A m \in Managers : WF_vars(Tick(m)) /\ WF_vars(SyncMetrics(m))
    /\ WF_vars(Alive = {} /\ \E m \in Managers : InitializeClusterMap(m))
    /\ WF_vars(Exporter)

FairSpec == Spec /\ Fairness

-----------------------------------------------------------------------------
(* Properties. *)

\* Every variable has its type.  A process that does not run has at most a
\* write on its way, and only a write looks at the version it has read.
TypeOK ==
    /\ labels \in NodeMaps
    /\ mapped \in [Managers -> NodeMaps]
    /\ sync \in [Managers -> [step : {"idle", "get", "create", "update"}, data : Metrics]]
    /\ \A m \in Managers \ Alive : sync[m].step # "get"
    /\ configMap \in Metrics \cup {Absent}
    /\ fresh \subseteq {m \in Managers : sync[m].step = "update"}
    /\ scrape \in Metrics \cup {Absent}
    /\ series \in Metrics
    /\ clock \in 0..MaxTicks
    /\ newest \in 0..clock
    /\ DOMAIN budget = {"labels", "rollouts", "deletes", "faults", "crashes"}

\* As long as processes of the scenario manager do not overlap and nobody
\* deletes the ConfigMap, Prometheus never goes back to metrics older than
\* those it has had: a write left over from a process that died loses against
\* its successor's (syncMetrics).
Undisturbed == budget.rollouts = MaxRollouts /\ budget.deletes = MaxDeletes

NewestMetricsWin ==
    [][Undisturbed /\ series'.gen # 0 => series'.gen >= newest]_vars

\* What is exported becomes the node map of the processes that run, no more
\* and no less, in spite of conflicts, failed calls and a ConfigMap somebody
\* deleted (syncMetrics); or no process has a map, or two have different ones.
ExportFollowsMap ==
    LET Maps == {mapped[m] : m \in Alive}
    IN  <>[](Maps = {series.map}) \/ <>[](Cardinality(Maps) # 1)

\* A node whose metrics Prometheus has is healthy if they were drawn calm: the
\* calm ranges of the scenario manager, rounding included, lie within those
\* the operator holds them against (generateMetrics, ListGPUNodes).
CalmNodeIsHealthy == \A n \in Nodes : series.map[n] # 0 => CalmIsInRange

\* It is unhealthy after a chaos event in any metric but the ambiguous three,
\* whatever value was drawn, too high or too low.
ChaosIsNoticed == \A n \in Nodes : series.map[n] # 0 => ChaosIsOutOfRange
=============================================================================
