----------------------- MODULE MetricsPipelineProofs -----------------------
(***************************************************************************)
(* Theorems about MetricsPipeline: type correctness, that a write left     *)
(* behind by a scenario manager that died never puts its metrics over its  *)
(* successor's, and that calm and chaos are told apart at the other end.   *)
(***************************************************************************)
EXTENDS MetricsPipeline, TLAPS

-----------------------------------------------------------------------------
(* Type correctness. *)

\* Spending leaves the names of the bounded events.
LEMMA SpendOK ==
    ASSUME TypeOK, NEW event, Spend(event) \/ UNCHANGED budget
    PROVE  DOMAIN budget' = DOMAIN budget
BY DEF Spend

\* The constants of the module are what TypeOK wants them to be.
LEMMA ValuesOK ==
    /\ NoNodes \in NodeMaps
    /\ NoMetrics \in Metrics
    /\ Absent \notin Metrics
    /\ \A data \in Metrics : [step |-> "idle", data |-> data] \in
           [step : {"idle", "get", "create", "update"}, data : Metrics]
BY PipelineAssumption DEF NoNodes, NodeMaps, NoMetrics, Metrics, Absent

\* No metrics are of a generation that is yet to be made.  TypeOK needs this
\* to say of newest what it says.
GensMade ==
    /\ \A m \in Managers : sync[m].data.gen <= clock
    /\ configMap.gen <= clock
    /\ scrape.gen <= clock

\* The steps of a scenario manager keep the types.
LEMMA ManagerKeepsTypeOK ==
    ASSUME TypeOK, NEW m \in Managers,
           InitializeClusterMap(m) \/ Tick(m) \/ SyncMetrics(m) \/ Crash(m)
    PROVE  TypeOK'
<1> USE ValuesOK DEF Alive
<1>1. CASE InitializeClusterMap(m)
  BY <1>1, SpendOK DEF InitializeClusterMap, TypeOK, Idle
<1>2. CASE Tick(m)
  <2>1. clock' \in 0..MaxTicks /\ newest' \in 0..clock'
    BY <1>2, PipelineAssumption DEF Tick, TypeOK
  <2> QED
    BY <1>2, <2>1 DEF Tick, TypeOK, Metrics
<1>3. CASE Get(m)
  BY <1>3, SpendOK DEF Get, TypeOK, Idle
<1>4. CASE Create(m)
  BY <1>4, SpendOK DEF Create, TypeOK, Idle
<1>5. CASE Update(m)
  BY <1>5, SpendOK DEF Update, TypeOK, Idle
<1>6. CASE Crash(m)
  BY <1>6, SpendOK DEF Crash, TypeOK, Idle
<1> QED
  BY <1>1, <1>2, <1>3, <1>4, <1>5, <1>6 DEF SyncMetrics

\* So do those of the exporter, Prometheus, the provisioner and the user.
LEMMA OthersKeepTypeOK ==
    ASSUME TypeOK, GensMade,
           \/ Exporter
           \/ \E n \in Nodes : LabelNode(n) \/ RemoveNode(n)
           \/ DeleteConfigMap
    PROVE  TypeOK'
<1> USE ValuesOK DEF Alive
<1>1. CASE ReadConfigMap
  BY <1>1, SpendOK DEF ReadConfigMap, TypeOK
<1>2. CASE Scrape
  <2>1. series' \in Metrics /\ series'.gen \in 0..clock
    BY <1>2, PipelineAssumption DEF Scrape, TypeOK, GensMade, Metrics, NoMetrics
  <2>2. newest' \in 0..clock'
    BY <1>2, <2>1 DEF Scrape, TypeOK
  <2> QED
    BY <1>2, <2>1, SpendOK DEF Scrape, TypeOK
<1>3. ASSUME NEW n \in Nodes, LabelNode(n) \/ RemoveNode(n)
      PROVE  TypeOK'
  <2>1. labels' \in NodeMaps
    BY <1>3, PipelineAssumption DEF LabelNode, RemoveNode, TypeOK, NodeMaps
  <2> QED
    BY <1>3, <2>1, SpendOK DEF LabelNode, RemoveNode, TypeOK
<1>4. CASE DeleteConfigMap
  BY <1>4, SpendOK DEF DeleteConfigMap, TypeOK
<1> QED
  BY <1>1, <1>2, <1>3, <1>4 DEF Exporter

\* Every step keeps the types.
LEMMA NextKeepsTypeOK ==
    ASSUME TypeOK, GensMade, [Next]_vars
    PROVE  TypeOK'
<1>1. CASE UNCHANGED vars
  BY <1>1 DEF vars, TypeOK, Alive
<1> QED
  BY <1>1, ManagerKeepsTypeOK, OthersKeepTypeOK DEF Next

\* Generations are made by the clock and copied by everything else.
LEMMA NextKeepsGensMade ==
    ASSUME TypeOK, GensMade, [Next]_vars
    PROVE  GensMade'
<1> USE PipelineAssumption, ValuesOK DEF GensMade, TypeOK, Metrics, NoMetrics, Absent, Idle
<1>1. CASE UNCHANGED vars
  BY <1>1 DEF vars
<1>2. ASSUME NEW m \in Managers, InitializeClusterMap(m)
      PROVE  GensMade'
  BY <1>2 DEF InitializeClusterMap
<1>3. ASSUME NEW m \in Managers, Tick(m)
      PROVE  GensMade'
  BY <1>3 DEF Tick
<1>4. ASSUME NEW m \in Managers, Get(m)
      PROVE  GensMade'
  BY <1>4 DEF Get
<1>5. ASSUME NEW m \in Managers, Create(m)
      PROVE  GensMade'
  BY <1>5 DEF Create
<1>6. ASSUME NEW m \in Managers, Update(m)
      PROVE  GensMade'
  BY <1>6 DEF Update
<1>7. ASSUME NEW m \in Managers, Crash(m)
      PROVE  GensMade'
  BY <1>7 DEF Crash
<1>8. CASE Exporter
  BY <1>8 DEF Exporter, ReadConfigMap, Scrape
<1>9. ASSUME NEW n \in Nodes, LabelNode(n) \/ RemoveNode(n)
      PROVE  GensMade'
  BY <1>9 DEF LabelNode, RemoveNode
<1>10. CASE DeleteConfigMap
  BY <1>10 DEF DeleteConfigMap
<1> QED
  BY <1>1, <1>2, <1>3, <1>4, <1>5, <1>6, <1>7, <1>8, <1>9, <1>10 DEF Next, SyncMetrics

\* Both hold before anything runs.
LEMMA InitHasTypes ==
    ASSUME Init
    PROVE  TypeOK /\ GensMade
<1>1. TypeOK
  BY ValuesOK, PipelineAssumption DEF Init, TypeOK, Idle
<1>2. GensMade
  BY DEF Init, GensMade, Idle, NoMetrics, Absent
<1> QED
  BY <1>1, <1>2

\* For any managers, nodes and bounds: every variable has its type, and a
\* process that does not run has at most a write on its way.
THEOREM TypeCorrect == Spec => []TypeOK
<1>1. TypeOK /\ GensMade /\ [Next]_vars => (TypeOK /\ GensMade)'
  BY NextKeepsTypeOK, NextKeepsGensMade
<1> QED
  BY <1>1, InitHasTypes, PTL DEF Spec

-----------------------------------------------------------------------------
(* The order of generations. *)

\* What is left of the events that NewestMetricsWin excludes.
BudgetOK ==
    /\ budget.rollouts \in Nat /\ budget.rollouts <= MaxRollouts
    /\ budget.deletes \in Nat /\ budget.deletes <= MaxDeletes

\* At most one process runs, and what it is syncing is the newest there is.
OneWriter ==
    /\ \A m, p \in Alive : m = p
    /\ \A m \in Alive : sync[m].step # "idle" =>
           /\ configMap.gen <= sync[m].data.gen
           /\ \A p \in Managers : sync[p].data.gen <= sync[m].data.gen

\* From the writers that may still succeed over the ConfigMap and the answer
\* of the exporter to Prometheus, generations do not increase; 0 is no metrics.
Descending ==
    /\ configMap = Absent => fresh = {}
    /\ \A m \in fresh : configMap.gen <= sync[m].data.gen
    /\ newest # 0 => newest <= configMap.gen
    /\ scrape.gen > 0 => newest <= scrape.gen /\ scrape.gen <= configMap.gen
    /\ series.gen # 0 => series.gen >= newest

OrderInv ==
    /\ TypeOK
    /\ GensMade
    /\ BudgetOK
    /\ Undisturbed => OneWriter /\ Descending

\* What is spent on one event is not spent on another.
LEMMA SpendOne ==
    ASSUME TypeOK, NEW e \in DOMAIN budget, Spend(e) \/ UNCHANGED budget
    PROVE  /\ \A x \in DOMAIN budget \ {e} : budget'[x] = budget[x]
           /\ budget'[e] = budget[e] \/ (budget[e] > 0 /\ budget'[e] = budget[e] - 1)
BY DEF Spend, TypeOK

\* Events that NewestMetricsWin does not exclude leave it undisturbed.
LEMMA OtherEvents ==
    ASSUME TypeOK, BudgetOK, NEW e \in {"labels", "faults", "crashes"},
           Spend(e) \/ UNCHANGED budget
    PROVE  BudgetOK' /\ (Undisturbed' => Undisturbed)
<1>1. budget'["rollouts"] = budget["rollouts"] /\ budget'["deletes"] = budget["deletes"]
  BY SpendOne DEF TypeOK
<1> QED
  BY <1>1 DEF BudgetOK, Undisturbed

\* The events it does exclude do not.
LEMMA ExcludedEvents ==
    ASSUME TypeOK, BudgetOK, NEW e \in {"rollouts", "deletes"}, Spend(e)
    PROVE  BudgetOK' /\ ~Undisturbed'
<1>1. \A x \in {"rollouts", "deletes"} \ {e} : budget'[x] = budget[x]
  BY SpendOne DEF TypeOK
<1>2. budget[e] > 0 /\ budget'[e] = budget[e] - 1
  BY DEF Spend, TypeOK
<1>3. CASE e = "rollouts"
  BY <1>1, <1>2, <1>3, PipelineAssumption DEF BudgetOK, Undisturbed
<1>4. CASE e = "deletes"
  BY <1>1, <1>2, <1>4, PipelineAssumption DEF BudgetOK, Undisturbed
<1> QED
  BY <1>3, <1>4

\* What a manager does keeps the order, if no other one starts beside it.
LEMMA ManagerKeepsOrder ==
    ASSUME OrderInv, TypeOK', GensMade', NEW m \in Managers,
           InitializeClusterMap(m) \/ Tick(m) \/ SyncMetrics(m) \/ Crash(m)
    PROVE  OrderInv'
<1>1. CASE InitializeClusterMap(m)
  <2>1. CASE Alive # {}
    BY <1>1, <2>1, ExcludedEvents DEF InitializeClusterMap, OrderInv
  <2>2. CASE Alive = {}
    <3>1. BudgetOK' /\ (Undisturbed' => Undisturbed)
      BY <1>1, <2>2 DEF InitializeClusterMap, OrderInv, BudgetOK, Undisturbed
    <3>2. Alive' \subseteq {m} /\ sync' = sync /\ sync[m].step = "idle"
      BY <1>1, <2>2 DEF InitializeClusterMap, OrderInv, TypeOK, Alive, Idle
    <3> QED
      BY <1>1, <3>1, <3>2 DEF InitializeClusterMap, OrderInv, OneWriter, Descending
  <2> QED
    BY <2>1, <2>2
<1>2. CASE Tick(m)
  <2>1. sync'[m].data.gen = clock' /\ clock <= clock'
        /\ \A p \in Managers \ {m} : sync'[p] = sync[p]
    BY <1>2 DEF Tick, OrderInv, TypeOK
  <2>2. BudgetOK' /\ (Undisturbed' => Undisturbed) /\ Alive' = Alive
    BY <1>2 DEF Tick, OrderInv, BudgetOK, Undisturbed, Alive
  <2>3. Undisturbed => OneWriter'
    BY <1>2, <2>1, <2>2 DEF Tick, OrderInv, OneWriter, GensMade
  <2>4. Undisturbed => Descending'
    BY <1>2, <2>1 DEF Tick, OrderInv, Descending, TypeOK
  <2> QED
    BY <2>2, <2>3, <2>4 DEF OrderInv
<1>3. CASE Get(m)
  <2>1. BudgetOK' /\ (Undisturbed' => Undisturbed) /\ Alive' = Alive
    BY <1>3, OtherEvents DEF Get, OrderInv, Alive
  <2>2. m \in Alive
    BY <1>3 DEF Get, OrderInv, TypeOK
  <2>3. /\ \A p \in Managers \ {m} : sync'[p] = sync[p]
        /\ sync'[m] = Idle \/ sync'[m].data = sync[m].data
    BY <1>3 DEF Get, OrderInv, TypeOK
  <2>4. Undisturbed => OneWriter'
    <3>1. sync'[m].step # "idle" => sync'[m].data = sync[m].data /\ sync[m].step # "idle"
      BY <1>3, <2>3 DEF Get, Idle
    <3> QED
      BY <1>3, <2>1, <2>2, <2>3, <3>1 DEF Get, OrderInv, OneWriter
  <2>5. Undisturbed => Descending'
    BY <1>3, <2>2, <2>3 DEF Get, OrderInv, OneWriter, Descending, TypeOK, Idle
  <2> QED
    BY <2>1, <2>4, <2>5 DEF OrderInv
<1>4. CASE Create(m) \/ Update(m)
  <2>1. BudgetOK' /\ (Undisturbed' => Undisturbed) /\ Alive' = Alive
    BY <1>4, OtherEvents DEF Create, Update, OrderInv, Alive
  <2>2. /\ \A p \in Managers \ {m} : sync'[p] = sync[p]
        /\ sync'[m].step = "idle" /\ sync'[m].data.gen = 0
        /\ UNCHANGED <<scrape, series, newest>>
    BY <1>4 DEF Create, Update, OrderInv, TypeOK, Idle, NoMetrics
  <2>3. Undisturbed =>
            \/ configMap' = configMap /\ fresh' \subseteq fresh
            \/ /\ configMap' = sync[m].data /\ configMap.gen <= sync[m].data.gen
               /\ fresh' = {}
    <3>1. CASE Create(m)
      BY <1>4, <3>1 DEF Create, OrderInv, Descending, TypeOK, Metrics, Absent
    <3>2. CASE Update(m)
      BY <1>4, <3>2 DEF Update, OrderInv, Descending
    <3> QED
      BY <1>4, <3>1, <3>2
  <2>4. /\ configMap.gen \in Int /\ newest \in Nat /\ scrape.gen \in Int
        /\ \A p \in Managers : sync[p].data.gen \in Nat
    BY PipelineAssumption DEF OrderInv, TypeOK, Metrics, Absent
  <2>5. Undisturbed => OneWriter'
    BY <2>1, <2>2, <2>3, <2>4 DEF OrderInv, OneWriter, Alive
  <2>6. Undisturbed => Descending'
    <3>1. Undisturbed => \A p \in fresh' : p # m /\ sync'[p] = sync[p] /\ p \in fresh
      BY <2>2, <2>3 DEF OrderInv, TypeOK
    <3> QED
      BY <2>2, <2>3, <2>4, <3>1 DEF OrderInv, Descending
  <2> QED
    BY <2>1, <2>5, <2>6 DEF OrderInv
<1>5. CASE Crash(m)
  <2>1. BudgetOK' /\ (Undisturbed' => Undisturbed) /\ Alive' = Alive \ {m}
    BY <1>5, OtherEvents DEF Crash, OrderInv, Alive, TypeOK
  <2>2. /\ \A p \in Managers \ {m} : sync'[p] = sync[p]
        /\ sync'[m] = Idle \/ sync'[m] = sync[m]
        /\ \A p \in fresh : sync'[p] = sync[p]
    BY <1>5 DEF Crash, OrderInv, TypeOK
  <2>3. Undisturbed => OneWriter'
    <3>1. Undisturbed => Alive' = {}
      BY <1>5, <2>1 DEF Crash, OrderInv, OneWriter, Alive
    <3> QED
      BY <3>1 DEF OneWriter
  <2>4. Undisturbed => Descending'
    BY <1>5, <2>2 DEF Crash, OrderInv, Descending, TypeOK
  <2> QED
    BY <2>1, <2>3, <2>4 DEF OrderInv
<1> QED
  BY <1>1, <1>2, <1>3, <1>4, <1>5 DEF SyncMetrics

\* So do the others.
LEMMA OthersKeepOrder ==
    ASSUME OrderInv, TypeOK', GensMade',
           \/ Exporter
           \/ \E n \in Nodes : LabelNode(n) \/ RemoveNode(n)
           \/ DeleteConfigMap
    PROVE  OrderInv'
<1>1. CASE ReadConfigMap
  <2>1. BudgetOK' /\ (Undisturbed' => Undisturbed) /\ Alive' = Alive
    BY <1>1, OtherEvents DEF ReadConfigMap, OrderInv, Alive
  <2>2. scrape'.gen > 0 => scrape' = configMap
    BY <1>1 DEF ReadConfigMap, NoMetrics
  <2>3. configMap.gen \in Int /\ newest \in Nat
    BY PipelineAssumption DEF OrderInv, TypeOK, Metrics, Absent
  <2> QED
    BY <1>1, <2>1, <2>2, <2>3 DEF ReadConfigMap, OrderInv, OneWriter, Descending
<1>2. CASE Scrape
  <2>1. BudgetOK' /\ (Undisturbed' => Undisturbed) /\ Alive' = Alive
    BY <1>2, OtherEvents DEF Scrape, OrderInv, Alive
  <2>2. /\ scrape'.gen = -1
        /\ series' = scrape \/ series'.gen = 0
        /\ newest' = IF series'.gen > newest THEN series'.gen ELSE newest
    BY <1>2 DEF Scrape, Absent, NoMetrics
  <2>3. configMap.gen \in Int /\ newest \in Nat /\ scrape.gen \in Nat
    BY <1>2, PipelineAssumption DEF Scrape, OrderInv, TypeOK, Metrics, Absent
  <2>4. Undisturbed => Descending'
    BY <1>2, <2>2, <2>3 DEF Scrape, OrderInv, Descending
  <2> QED
    BY <1>2, <2>1, <2>4 DEF Scrape, OrderInv, OneWriter
<1>3. ASSUME NEW n \in Nodes, LabelNode(n) \/ RemoveNode(n)
      PROVE  OrderInv'
  <2>1. BudgetOK' /\ (Undisturbed' => Undisturbed) /\ Alive' = Alive
    BY <1>3, OtherEvents DEF LabelNode, RemoveNode, OrderInv, Alive
  <2> QED
    BY <1>3, <2>1 DEF LabelNode, RemoveNode, OrderInv, OneWriter, Descending
<1>4. CASE DeleteConfigMap
  BY <1>4, ExcludedEvents DEF DeleteConfigMap, OrderInv
<1> QED
  BY <1>1, <1>2, <1>3, <1>4 DEF Exporter

\* Every step keeps the order.
LEMMA NextKeepsOrder ==
    ASSUME OrderInv, [Next]_vars
    PROVE  OrderInv'
<1>1. TypeOK' /\ GensMade'
  BY NextKeepsTypeOK, NextKeepsGensMade DEF OrderInv
<1>2. CASE UNCHANGED vars
  BY <1>1, <1>2 DEF vars, OrderInv, BudgetOK, Undisturbed, OneWriter, Descending, Alive
<1> QED
  BY <1>1, <1>2, ManagerKeepsOrder, OthersKeepOrder DEF Next

\* It holds before anything runs.
LEMMA InitIsInOrder ==
    ASSUME Init
    PROVE  OrderInv
<1>1. Alive = {} /\ BudgetOK
  BY PipelineAssumption DEF Init, Alive, BudgetOK
<1>2. Descending
  BY DEF Init, Descending, NoMetrics, Absent
<1> QED
  BY <1>1, <1>2, InitHasTypes DEF OrderInv, OneWriter

\* For any number of processes, nodes, failed calls and crashes: as long as no
\* two scenario managers overlap and nobody deletes the ConfigMap, Prometheus
\* never goes back to older metrics.
THEOREM NewerMetricsStay == Spec => NewestMetricsWin
<1>1. OrderInv /\ [Next]_vars => OrderInv'
  BY NextKeepsOrder
<1>2. OrderInv /\ [Next]_vars =>
          [Undisturbed /\ series'.gen # 0 => series'.gen >= newest]_vars
  <2> SUFFICES ASSUME OrderInv, [Next]_vars, Undisturbed, series'.gen # 0
               PROVE  series'.gen >= newest \/ UNCHANGED vars
    OBVIOUS
  <2>1. CASE Scrape
    <3>1. series' = scrape /\ scrape.gen > 0
      BY <2>1, PipelineAssumption DEF Scrape, OrderInv, TypeOK, Metrics, NoMetrics
    <3> QED
      BY <3>1, PipelineAssumption DEF OrderInv, TypeOK, Descending, Metrics
  <2>2. CASE series' = series
    BY <2>2 DEF OrderInv, Descending
  <2> QED
    BY <2>1, <2>2 DEF Next, InitializeClusterMap, Tick, SyncMetrics, Get, Create, Update,
       Crash, Exporter, ReadConfigMap, LabelNode, RemoveNode, DeleteConfigMap, vars
<1> QED
  BY <1>1, <1>2, InitIsInOrder, PTL DEF Spec, NewestMetricsWin

-----------------------------------------------------------------------------
(* The verdict on what is drawn. *)

\* Multiples of a unit between two multiples of it, whichever is drawn.
LEMMA MultipleIsBetween ==
    ASSUME NEW unit \in {1, 100}, NEW low \in Int, NEW high \in Int,
           low % unit = 0, high % unit = 0, NEW k \in low \div unit .. high \div unit
    PROVE  k * unit \in low .. high
<1>1. CASE unit = 1
  BY <1>1
<1>2. CASE unit = 100
  BY <1>2
<1> QED
  BY <1>1, <1>2

\* The table of the scenario manager is in whole units, so that what is
\* drawn and printed lies between the ends of its range.
LEMMA DrawsAreBetween ==
    ASSUME NEW metric \in MetricNames, NEW event \in {"calm", "chaos"},
           NEW value \in Draws(metric, event)
    PROVE  value \in Scenario[metric][event][1] .. Scenario[metric][event][2]
<1> DEFINE range == Scenario[metric][event]
           unit == Scenario[metric].unit
<1>1. /\ unit \in {1, 100}
      /\ range[1] \in Int /\ range[2] \in Int
  BY DEF Scenario, MetricNames, HealthRange
<1>2. range[1] % unit = 0 /\ range[2] % unit = 0
  BY DEF Scenario, MetricNames, HealthRange
<1>3. PICK k \in range[1] \div unit .. range[2] \div unit : value = k * unit
  BY DEF Draws
<1> HIDE DEF range, unit
<1> QED
  BY <1>1, <1>2, <1>3, MultipleIsBetween DEF range

\* Every calm range of the scenario manager lies within the operator's.
LEMMA CalmDrawsAreInRange == CalmIsInRange
<1> SUFFICES ASSUME NEW metric \in MetricNames, NEW value \in Draws(metric, "calm")
             PROVE  ~OutOfRange(metric, value)
  BY DEF CalmIsInRange
<1> DEFINE range == Scenario[metric]["calm"]
<1>1. value \in range[1] .. range[2]
  BY DrawsAreBetween
<1>2. /\ range[1] \in Int /\ range[2] \in Int
      /\ HealthRange[metric].min \in Int /\ HealthRange[metric].max \in Int
      /\ HealthRange[metric].min <= range[1] /\ range[2] <= HealthRange[metric].max
  BY DEF Scenario, MetricNames, HealthRange
<1> HIDE DEF range
<1> QED
  BY <1>1, <1>2 DEF OutOfRange

\* Every chaos range lies outside, but those of the ambiguous three.
LEMMA ChaosDrawsAreOutOfRange == ChaosIsOutOfRange
<1> SUFFICES ASSUME NEW metric \in MetricNames \ Ambiguous,
                    NEW value \in Draws(metric, "chaos")
             PROVE  OutOfRange(metric, value)
  BY DEF ChaosIsOutOfRange
<1> DEFINE range == Scenario[metric]["chaos"]
<1>1. value \in range[1] .. range[2]
  BY DrawsAreBetween
<1>2. /\ range[1] \in Int /\ range[2] \in Int
      /\ HealthRange[metric].min \in Int /\ HealthRange[metric].max \in Int
      /\ range[2] < HealthRange[metric].min \/ HealthRange[metric].max < range[1]
  BY DEF Scenario, MetricNames, HealthRange, Ambiguous
<1> HIDE DEF range
<1> QED
  BY <1>1, <1>2 DEF OutOfRange

\* Of those three the operator really takes some chaos for calm.
LEMMA AmbiguousChaosPasses ==
    \A metric \in Ambiguous : \E value \in Draws(metric, "chaos") :
        ~OutOfRange(metric, value)
<1>1. /\ 8500 \in Draws("dcgm_gpu_temp", "chaos")
      /\ ~OutOfRange("dcgm_gpu_temp", 8500)
  BY DEF Draws, Scenario, OutOfRange, HealthRange
<1>2. /\ 0 \in Draws("dcgm_ecc_sbe_aggregate_total", "chaos")
      /\ ~OutOfRange("dcgm_ecc_sbe_aggregate_total", 0)
  BY DEF Draws, Scenario, OutOfRange, HealthRange
<1>3. /\ 50 \in Draws("dcgm_gpu_util", "chaos")
      /\ ~OutOfRange("dcgm_gpu_util", 50)
  BY DEF Draws, Scenario, OutOfRange, HealthRange
<1> QED
  BY <1>1, <1>2, <1>3 DEF Ambiguous

\* Whatever is exported, and after whatever failures, a node whose metrics were
\* drawn calm is found healthy.
THEOREM CalmNodesAreHealthy == Spec => []CalmNodeIsHealthy
<1>1. CalmNodeIsHealthy
  BY CalmDrawsAreInRange DEF CalmNodeIsHealthy
<1> QED
  BY <1>1, PTL

\* A chaos event in any metric but the ambiguous three makes it unhealthy.
THEOREM ChaosIsAlwaysNoticed == Spec => []ChaosIsNoticed
<1>1. ChaosIsNoticed
  BY ChaosDrawsAreOutOfRange DEF ChaosIsNoticed
<1> QED
  BY <1>1, PTL
=============================================================================
