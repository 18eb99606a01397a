------------------------- MODULE MCHPCJobController -------------------------
(* Small instances of HPCJobController for TLC. *)
EXTENDS HPCJobController, TLC

\* One spec the operator accepts and one it rejects, or two it accepts.
GoodAndBad == {[image |-> "a", gpuCount |-> 1], [image |-> "", gpuCount |-> 1]}
TwoImages == {[image |-> "a", gpuCount |-> 1], [image |-> "b", gpuCount |-> 1]}

AnyManager == Permutations(Managers)
=============================================================================
