----------------------------- MODULE GpuHealth -----------------------------
(***************************************************************************)
(* The verdict on a metric: the scenario manager draws seven metrics for   *)
(* each GPU (generateMetrics, weightedRand), and ListGPUNodes holds what   *)
(* arrives against HealthMetrics.  A node is healthy if no metric of any   *)
(* of its GPUs is out of range.                                            *)
(*                                                                         *)
(* The two tables are kept in different packages, and values are rounded   *)
(* on the way.  A number here is in hundredths, the finest unit a metric   *)
(* is printed in; the equality of bounds survives the float32 of the code, *)
(* which rounds a sample and a bound of the same value alike.              *)
(***************************************************************************)
EXTENDS Integers

-----------------------------------------------------------------------------
\* HealthMetrics in pkg/prometheus/client.go.
HealthRange == [
    dcgm_gpu_temp                |-> [min |->  3500, max |->  8500],
    dcgm_mem_copy_util           |-> [min |->    10, max |->    60],
    dcgm_fb_usage_gpu            |-> [min |->    20, max |->    70],
    dcgm_ecc_sbe_aggregate_total |-> [min |->     0, max |->     0],
    dcgm_power_usage             |-> [min |-> 10000, max |-> 25000],
    dcgm_gpu_util                |-> [min |->    30, max |->    80],
    dcgm_nvlink_bandwidth_total  |-> [min |-> 25000, max |-> 40000]]

MetricNames == DOMAIN HealthRange

\* generateMetrics: the range of calm and of chaos, and the unit of the
\* format.  Rounding makes the upper end, which rand does not reach, possible.
Scenario == [
    dcgm_gpu_temp |->
        [calm |-> <<3500, 7000>>,   chaos |-> <<8500, 11000>>,  unit |-> 100],
    dcgm_mem_copy_util |->
        [calm |-> <<10, 60>>,       chaos |-> <<80, 100>>,      unit |-> 1],
    dcgm_fb_usage_gpu |->
        [calm |-> <<20, 70>>,       chaos |-> <<90, 99>>,       unit |-> 1],
    dcgm_ecc_sbe_aggregate_total |->
        [calm |-> <<0, 0>>,         chaos |-> <<0, 300>>,       unit |-> 100],
    dcgm_power_usage |->
        [calm |-> <<10000, 25000>>, chaos |-> <<35000, 50000>>, unit |-> 100],
    dcgm_gpu_util |->
        [calm |-> <<30, 80>>,       chaos |-> <<0, 100>>,       unit |-> 1],
    dcgm_nvlink_bandwidth_total |->
        [calm |-> <<25000, 40000>>, chaos |-> <<0, 8000>>,      unit |-> 100]]

\* weightedRand, printed.
Draws(metric, event) ==
    LET range == Scenario[metric][event]
        unit == Scenario[metric].unit
    IN  {k * unit : k \in range[1] \div unit .. range[2] \div unit}

-----------------------------------------------------------------------------
(* Mutants: wrong versions of definitions below. *)

\* Mutant: the bounds themselves are out of range.
OutOfOpenRange(metric, value) ==
    value <= HealthRange[metric].min \/ value >= HealthRange[metric].max

\* Mutant: only what is too high is out of range.
OutOfUpperRange(metric, value) == value > HealthRange[metric].max

-----------------------------------------------------------------------------
\* The comparison in ListGPUNodes.
OutOfRange(metric, value) ==
    value < HealthRange[metric].min \/ value > HealthRange[metric].max

-----------------------------------------------------------------------------
(* What can be said of a metric from the way it was drawn. *)

\* The metrics whose chaos some draws do not tell from calm: a temperature
\* drawn below 85.5 is printed as 85, which is within range.
Ambiguous == {"dcgm_gpu_temp", "dcgm_ecc_sbe_aggregate_total", "dcgm_gpu_util"}

CalmIsInRange ==
    \A metric \in MetricNames : \A value \in Draws(metric, "calm") :
        ~OutOfRange(metric, value)

ChaosIsOutOfRange ==
    \A metric \in MetricNames \ Ambiguous : \A value \in Draws(metric, "chaos") :
        OutOfRange(metric, value)
=============================================================================
