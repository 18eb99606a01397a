----------------------------- MODULE MCGpuNodes -----------------------------
(* Small instances of GpuNodes for TLC. *)
EXTENDS GpuNodes

OneGpu == [n \in Nodes |-> 1]
OneForAll == [j \in Jobs |-> 1]
=============================================================================
