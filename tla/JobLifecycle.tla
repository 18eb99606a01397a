---------------------------- MODULE JobLifecycle ----------------------------
(***************************************************************************)
(* What a user is promised about the phase of an HPCJob                    *)
(* (api/v1alpha1/hpcjob_types.go and the dispatch of Reconcile): a job     *)
(* starts without a phase, waits, runs, may fall back to waiting when its  *)
(* pod is lost, and ends once; only a deletion gets it out of an end.      *)
(***************************************************************************)
CONSTANT Jobs

VARIABLE phase

Waiting == {"", "Pending"}
Ended == {"Complete", "Failed"}

Move(j, from, to) ==
    /\ phase[j] \in from
    /\ \E p \in to : phase' = [phase EXCEPT ![j] = p]

Create(j) == Move(j, {"Absent"}, {""})
Start(j) == Move(j, Waiting, {"Running"})
Lose(j) == Move(j, {"Running"}, {"Pending"})
End(j) == Move(j, Waiting \cup {"Running"}, Ended)
Delete(j) == Move(j, Waiting \cup {"Running"} \cup Ended, {"Absent"})

Init == phase = [j \in Jobs |-> "Absent"]

Next == \E j \in Jobs : Create(j) \/ Start(j) \/ Lose(j) \/ End(j) \/ Delete(j)

Spec == Init /\ [][Next]_phase
=============================================================================
