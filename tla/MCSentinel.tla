----------------------------- MODULE MCSentinel -----------------------------
(* Small instances of Sentinel for TLC. *)
EXTENDS Sentinel

OneGpu == [n \in Hosts |-> 1]
OneForAll == [j \in Jobs |-> 1]
=============================================================================
