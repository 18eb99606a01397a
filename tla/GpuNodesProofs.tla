--------------------------- MODULE GpuNodesProofs ---------------------------
(***************************************************************************)
(* Theorems about GpuNodes: type correctness, and that one manager never   *)
(* reopens a node it has isolated before a scan finds the node healthy.    *)
(***************************************************************************)
EXTENDS GpuNodes, TLAPS

\* A pass as TypeOK wants it.
PassOK(p) ==
    p # Idle =>
        /\ p \in Passes
        /\ p.toRestore \subseteq p.healthy
        /\ p.toIsolate \cap p.healthy = {}
        /\ p.reading # <<>> => p.pc = "sync" /\ p.reading[1] \in p.healthy

-----------------------------------------------------------------------------
(* Lemmas. *)

\* The GPUs allocated on a node are those of some jobs' pods.
LEMMA AllocatedIsCount == \A n \in Nodes : Allocated(n) \in Counts
BY DEF Allocated, On, Counts

\* An idle manager has no pass, a busy one a well-formed one.
LEMMA PassesOK ==
    ASSUME TypeOK, NEW m \in Managers
    PROVE  /\ PassOK(pass[m])
           /\ pass[m] = Idle <=> pass[m].pc = "idle"
BY DEF TypeOK, PassOK, Passes, Idle

\* A step of m's pass that leaves a well-formed pass keeps all of them so.
LEMMA OnePassMoves ==
    ASSUME TypeOK, NEW m \in Managers, NEW p,
           pass' = [pass EXCEPT ![m] = p],
           p = Idle \/ (p \in Passes /\ PassOK(p))
    PROVE  /\ pass' \in [Managers -> {Idle} \cup Passes]
           /\ \A n \in Managers : PassOK(pass'[n])
           /\ pass'[m] = p
           /\ \A n \in Managers \ {m} : pass'[n] = pass[n]
<1>1. pass \in [Managers -> {Idle} \cup Passes]
  BY DEF TypeOK
<1>2. PassOK(p)
  BY DEF PassOK
<1>3. \A n \in Managers : PassOK(pass[n])
  BY PassesOK
<1> QED
  BY <1>1, <1>2, <1>3

\* Faults and flips stay within their bounds.
LEMMA BoundsOK ==
    ASSUME TypeOK
    PROVE  /\ Fault => faults' \in 0 .. MaxFaults
           /\ Flip => flips' \in 0 .. MaxFlips
BY GpuNodesAssumption DEF TypeOK, Fault, Flip

\* Every step of a pass leaves a well-formed pass or ends it.
LEMMA StepMovesPass ==
    ASSUME TypeOK, NEW m \in Managers, Step(m)
    PROVE  \E p : /\ pass' = [pass EXCEPT ![m] = p]
                  /\ p = Idle \/ (p \in Passes /\ PassOK(p))
<1>1. CASE EndPass(m)
  BY <1>1 DEF EndPass
<1>2. ASSUME pass[m] # Idle
      PROVE  pass[m] \in Passes /\ PassOK(pass[m])
  BY <1>2, PassesOK DEF PassOK
<1>3. CASE List(m) /\ ~EndPass(m)
  <2> DEFINE p == [pass[m] EXCEPT !.pc = "health", !.taints = taints,
                                  !.density = density]
  <2>1. pass' = [pass EXCEPT ![m] = p]
    BY <1>3 DEF List
  <2>2. pass[m] # Idle
    BY <1>3 DEF List, Idle
  <2>3. p \in Passes
    BY <1>2, <2>2 DEF Passes, TypeOK
  <2>4. pass[m].pc = "list"
    BY <1>3 DEF List
  <2>5. pass[m].reading = <<>>
    BY <1>2, <2>2, <2>4 DEF PassOK
  <2>6. /\ p.healthy = pass[m].healthy /\ p.toRestore = pass[m].toRestore
        /\ p.toIsolate = pass[m].toIsolate /\ p.reading = pass[m].reading
    BY <1>2, <2>2 DEF Passes
  <2>7. PassOK(p)
    BY <1>2, <2>2, <2>3, <2>5, <2>6 DEF PassOK
  <2> QED
    BY <2>1, <2>3, <2>7
<1>4. CASE ScanHealth(m) /\ ~EndPass(m)
  <2> DEFINE Up == {n \in Nodes : health[n] = "healthy"}
             Sick == {n \in Nodes : health[n] = "unhealthy"}
             p == [pass[m] EXCEPT !.pc = "sync", !.healthy = Up,
                                  !.toRestore = Up, !.toIsolate = Sick]
  <2>1. pass' = [pass EXCEPT ![m] = p]
    BY <1>4 DEF ScanHealth
  <2>2. pass[m].pc = "health"
    BY <1>4 DEF ScanHealth
  <2>3. pass[m] \in Passes /\ PassOK(pass[m]) /\ pass[m] # Idle
    BY <1>2, <2>2 DEF Idle
  <2>4. Up \subseteq Nodes /\ Sick \subseteq Nodes /\ Up \cap Sick = {}
    OBVIOUS
  <2> HIDE DEF Up, Sick
  <2>5. p \in Passes /\ p.healthy = Up /\ p.toRestore = Up /\ p.toIsolate = Sick
        /\ p.reading = pass[m].reading
    BY <2>3, <2>4 DEF Passes
  <2>6. pass[m].reading = <<>>
    BY <2>2, <2>3 DEF PassOK
  <2>7. PassOK(p)
    BY <2>4, <2>5, <2>6 DEF PassOK
  <2> HIDE DEF p
  <2> QED
    BY <2>1, <2>5, <2>7
<1>5. CASE CountPods(m)
  <2>1. pass[m] \in Passes /\ PassOK(pass[m]) /\ pass[m] # Idle
    BY <1>2, <1>5 DEF CountPods, Idle
  <2>2. PICK n \in pass[m].toRestore :
            \/ pass' = [pass EXCEPT ![m].toRestore = @ \ {n},
                                    ![m].reading = <<n, Allocated(n)>>]
            \/ pass' = [pass EXCEPT ![m].toRestore = @ \ {n}]
    BY <1>5 DEF CountPods
  <2> DEFINE p == [pass[m] EXCEPT !.toRestore = @ \ {n},
                                  !.reading = <<n, Allocated(n)>>]
             q == [pass[m] EXCEPT !.toRestore = @ \ {n}]
  <2>3. n \in Nodes /\ n \in pass[m].healthy
    BY <2>1 DEF Passes, PassOK
  <2>4. p \in Passes /\ q \in Passes
    BY <2>1, <2>3, AllocatedIsCount DEF Passes
  <2>5. /\ p.reading[1] = n /\ p.pc = "sync" /\ q.pc = "sync"
        /\ p.healthy = pass[m].healthy /\ q.healthy = pass[m].healthy
        /\ p.toRestore = pass[m].toRestore \ {n}
        /\ q.toRestore = pass[m].toRestore \ {n}
        /\ p.toIsolate = pass[m].toIsolate /\ q.toIsolate = pass[m].toIsolate
        /\ q.reading = pass[m].reading
    BY <1>5, <2>1 DEF Passes, CountPods
  <2>6. PassOK(p) /\ PassOK(q)
    BY <2>1, <2>3, <2>4, <2>5 DEF PassOK
  <2>7. pass' = [pass EXCEPT ![m] = p] \/ pass' = [pass EXCEPT ![m] = q]
    BY <2>2
  <2> QED
    BY <2>4, <2>6, <2>7
<1>6. CASE Restore(m)
  <2> DEFINE p == [pass[m] EXCEPT !.reading = <<>>]
  <2>1. pass[m] \in Passes /\ PassOK(pass[m]) /\ pass[m] # Idle
    BY <1>2, <1>6 DEF Restore, Idle
  <2>2. pass' = [pass EXCEPT ![m] = p]
    BY <1>6 DEF Restore
  <2>3. p \in Passes
    BY <2>1 DEF Passes
  <2>4. PassOK(p)
    BY <2>1 DEF Passes, PassOK
  <2> QED
    BY <2>2, <2>3, <2>4
<1>7. CASE Isolate(m)
  <2>1. pass[m] \in Passes /\ PassOK(pass[m]) /\ pass[m] # Idle
    BY <1>2, <1>7 DEF Isolate, Idle
  <2>2. PICK n \in pass[m].toIsolate :
            pass' = [pass EXCEPT ![m].toIsolate = @ \ {n}]
    BY <1>7 DEF Isolate
  <2> DEFINE p == [pass[m] EXCEPT !.toIsolate = @ \ {n}]
  <2>3. pass' = [pass EXCEPT ![m] = p]
    BY <2>2
  <2>4. p \in Passes
    BY <2>1 DEF Passes
  <2>5. PassOK(p)
    BY <2>1 DEF Passes, PassOK
  <2> QED
    BY <2>3, <2>4, <2>5
<1> QED
  BY <1>1, <1>3, <1>4, <1>5, <1>6, <1>7 DEF Step, NoCapacity, Create

\* Type correctness of everything but the passes.
RestOK ==
    /\ taints \in [Nodes -> SUBSET TaintKeys]
    /\ density \in [Nodes -> Labels]
    /\ health \in [Nodes -> Verdicts]
    /\ waiting \subseteq Jobs
    /\ pods \in [Jobs -> {NoPod, Unscheduled} \cup Placed]
    /\ quarantined \subseteq Nodes
    /\ flips \in 0 .. MaxFlips
    /\ faults \in 0 .. MaxFaults

\* A step of a pass keeps the rest well typed: it writes taints and counts it
\* has listed or read.
LEMMA StepKeepsRest ==
    ASSUME TypeOK, NEW m \in Managers, Step(m)
    PROVE  RestOK'
<1>1. RestOK /\ (Fault => faults' \in 0 .. MaxFaults)
  BY BoundsOK DEF TypeOK, RestOK
<1>2. pass[m] # Idle => pass[m] \in Passes /\ PassOK(pass[m])
  BY PassesOK DEF PassOK
<1>3. CASE List(m) \/ CountPods(m) \/ NoCapacity(m)
  BY <1>1, <1>3 DEF List, CountPods, NoCapacity, RestOK, nodeVars, world
<1>4. CASE ScanHealth(m)
  BY <1>1, <1>4 DEF ScanHealth, RestOK, nodeVars, world
<1>5. CASE Restore(m)
  <2>1. pass[m] \in Passes /\ pass[m].reading # <<>>
    BY <1>2, <1>5 DEF Restore, Idle
  <2>2. /\ pass[m].reading[1] \in Nodes /\ pass[m].reading[2] \in Labels
        /\ pass[m].taints \in [Nodes -> SUBSET TaintKeys]
    BY <2>1 DEF Passes, Labels
  <2>3. taints' \in [Nodes -> SUBSET TaintKeys] /\ density' \in [Nodes -> Labels]
    BY <1>1, <1>5, <2>2 DEF Restore, RestOK, nodeVars
  <2> QED
    BY <1>1, <1>5, <2>3 DEF Restore, RestOK, world
<1>6. CASE Isolate(m)
  <2>1. pass[m].toIsolate \subseteq Nodes
    BY <1>2, <1>6 DEF Isolate, Idle, Passes
  <2>2. 0 \in Labels /\ {"unhealthy"} \subseteq TaintKeys
    BY DEF Labels, Counts, TaintKeys
  <2>3. /\ taints' \in [Nodes -> SUBSET TaintKeys] /\ density' \in [Nodes -> Labels]
        /\ quarantined' \subseteq Nodes
    BY <1>1, <1>6, <2>1, <2>2 DEF Isolate, RestOK, nodeVars
  <2>4. faults' \in 0 .. MaxFaults
    BY <1>1, <1>6 DEF Isolate, RestOK
  <2> QED
    BY <1>1, <1>6, <2>3, <2>4 DEF Isolate, RestOK, world
<1>7. CASE Create(m)
  BY <1>1, <1>7 DEF Create, RestOK, nodeVars, world
<1> QED
  BY <1>3, <1>4, <1>5, <1>6, <1>7 DEF Step

\* The steps of the rest of the cluster are well typed.
LEMMA WorldKeepsRest ==
    ASSUME TypeOK,
           \/ \E j \in Jobs : Schedule(j) \/ PodEnds(j) \/ PodRemoved(j) \/ JobWaits(j)
           \/ \E n \in Nodes : HealthChanges(n) \/ OtherTaint(n)
    PROVE  RestOK' /\ pass' = pass
<1>1. RestOK /\ (Flip => flips' \in 0 .. MaxFlips)
  BY BoundsOK DEF TypeOK, RestOK
<1>2. ASSUME NEW j \in Jobs, Schedule(j)
      PROVE  RestOK' /\ pass' = pass
  BY <1>1, <1>2 DEF Schedule, RestOK, Placed, nodeVars, world
<1>3. ASSUME NEW j \in Jobs, PodEnds(j)
      PROVE  RestOK' /\ pass' = pass
  <2>1. pods[j] \in Placed
    BY <1>1, <1>3 DEF PodEnds, RestOK, NoPod, Unscheduled
  <2> QED
    BY <1>1, <1>3, <2>1 DEF PodEnds, RestOK, Placed, nodeVars, world
<1>4. ASSUME NEW j \in Jobs, PodRemoved(j) \/ JobWaits(j)
      PROVE  RestOK' /\ pass' = pass
  BY <1>1, <1>4 DEF PodRemoved, JobWaits, RestOK, nodeVars, world
<1>5. ASSUME NEW n \in Nodes, HealthChanges(n)
      PROVE  RestOK' /\ pass' = pass
  BY <1>1, <1>5 DEF HealthChanges, RestOK, nodeVars
<1>6. ASSUME NEW n \in Nodes, OtherTaint(n)
      PROVE  RestOK' /\ pass' = pass
  BY <1>1, <1>6 DEF OtherTaint, RestOK, TaintKeys
<1> QED
  BY <1>2, <1>3, <1>4, <1>5, <1>6

\* A pass that begins is well formed, one that dies leaves none.
LEMMA BeginAndCrashOK ==
    ASSUME TypeOK, NEW m \in Managers,
           Crash(m) \/ \E j \in Jobs : Begin(m, j)
    PROVE  /\ RestOK'
           /\ \E p : /\ pass' = [pass EXCEPT ![m] = p]
                     /\ p = Idle \/ (p \in Passes /\ PassOK(p) /\ p.pc = "list")
<1>1. RestOK /\ (Fault => faults' \in 0 .. MaxFaults)
  BY BoundsOK DEF TypeOK, RestOK
<1>2. CASE Crash(m)
  BY <1>1, <1>2 DEF Crash, EndPass, RestOK, nodeVars, world
<1>3. ASSUME NEW j \in Jobs, Begin(m, j)
      PROVE  /\ RestOK'
             /\ \E p : /\ pass' = [pass EXCEPT ![m] = p]
                       /\ p = Idle \/ (p \in Passes /\ PassOK(p) /\ p.pc = "list")
  <2> DEFINE p == [pc |-> "list", job |-> j, taints |-> taints,
                   density |-> density, healthy |-> {}, toRestore |-> {},
                   toIsolate |-> {}, reading |-> <<>>]
  <2>1. pass' = [pass EXCEPT ![m] = p] /\ RestOK'
    BY <1>1, <1>3 DEF Begin, RestOK, nodeVars, world
  <2>2. p \in Passes /\ PassOK(p) /\ p.pc = "list"
    BY <1>1 DEF Passes, PassOK, RestOK
  <2> HIDE DEF p
  <2> QED
    BY <2>1, <2>2
<1> QED
  BY <1>2, <1>3

-----------------------------------------------------------------------------
(* Type correctness. *)

\* Well-formed passes and a well-typed rest make a type-correct state.
LEMMA PartsMakeTypeOK ==
    ASSUME RestOK', pass' \in [Managers -> {Idle} \cup Passes],
           \A n \in Managers : PassOK(pass'[n])
    PROVE  TypeOK'
BY DEF TypeOK, RestOK, PassOK

\* Every step keeps the state type correct.
LEMMA NextKeepsTypeOK ==
    ASSUME TypeOK, [Next]_vars
    PROVE  TypeOK'
<1>1. CASE UNCHANGED vars
  BY <1>1 DEF vars, TypeOK
<1>2. ASSUME NEW m \in Managers, Step(m)
      PROVE  TypeOK'
  BY <1>2, StepKeepsRest, StepMovesPass, OnePassMoves, PartsMakeTypeOK
<1>3. ASSUME NEW m \in Managers, Crash(m) \/ \E j \in Jobs : Begin(m, j)
      PROVE  TypeOK'
  BY <1>3, BeginAndCrashOK, OnePassMoves, PartsMakeTypeOK
<1>4. CASE \/ \E j \in Jobs : Schedule(j) \/ PodEnds(j) \/ PodRemoved(j) \/ JobWaits(j)
           \/ \E n \in Nodes : HealthChanges(n) \/ OtherTaint(n)
  <2>1. RestOK' /\ pass' = pass
    BY <1>4, WorldKeepsRest
  <2>2. pass \in [Managers -> {Idle} \cup Passes] /\ \A n \in Managers : PassOK(pass[n])
    BY PassesOK DEF TypeOK
  <2> QED
    BY <2>1, <2>2, PartsMakeTypeOK
<1> QED
  BY <1>1, <1>2, <1>3, <1>4 DEF Next

\* The state is always type correct: density labels count pods' GPUs, no pass
\* has a node on both its lists, and it restores only what it found healthy.
THEOREM TypeCorrect == Spec => []TypeOK
<1>1. Init => TypeOK
  BY GpuNodesAssumption DEF Init, TypeOK, TaintKeys, Labels, Idle
<1>2. TypeOK /\ [Next]_vars => TypeOK'
  BY NextKeepsTypeOK
<1> QED
  BY <1>1, <1>2, PTL DEF Spec

-----------------------------------------------------------------------------
(* The quarantine. *)

OneManager == \A m, n \in Managers : m = n

\* What a pass has still to restore is not in quarantine: its own scan has
\* just released those nodes.
NothingToReopen ==
    \A m \in Managers : pass[m].pc = "sync" =>
        /\ pass[m].toRestore \cap quarantined = {}
        /\ pass[m].reading # <<>> => pass[m].reading[1] \notin quarantined

QInv == TypeOK /\ QuarantineHolds /\ NothingToReopen

\* Restore writes to no node in quarantine, and Isolate adds none that its own
\* pass will restore; there is no other pass.
LEMMA StepKeepsQuarantine ==
    ASSUME QInv, OneManager, NEW m \in Managers, Step(m)
    PROVE  QuarantineHolds' /\ NothingToReopen'
<1> USE DEF QInv
<1>1. pass[m] # Idle => pass[m] \in Passes /\ PassOK(pass[m])
  BY PassesOK DEF PassOK
<1>2. /\ \A n \in Managers : n = m
      /\ pass \in [Managers -> {Idle} \cup Passes]
      /\ taints \in [Nodes -> SUBSET TaintKeys] /\ quarantined \subseteq Nodes
  BY DEF OneManager, TypeOK
<1>3. CASE EndPass(m) /\ UNCHANGED <<taints, quarantined>>
  BY <1>2, <1>3 DEF EndPass, Idle, QuarantineHolds, NothingToReopen
<1>4. CASE List(m) /\ ~EndPass(m)
  <2>1. pass'[m].pc = "health" /\ UNCHANGED <<taints, quarantined>>
    BY <1>1, <1>2, <1>4 DEF List, Idle, Passes, nodeVars
  <2> QED
    BY <1>2, <2>1 DEF QuarantineHolds, NothingToReopen
<1>5. CASE ScanHealth(m)
  <2> DEFINE Up == {n \in Nodes : health[n] = "healthy"}
             Sick == {n \in Nodes : health[n] = "unhealthy"}
             p == [pass[m] EXCEPT !.pc = "sync", !.healthy = Up,
                                  !.toRestore = Up, !.toIsolate = Sick]
  <2>1. /\ pass[m].pc = "health" /\ taints' = taints
        /\ \/ EndPass(m) /\ quarantined' = quarantined
           \/ pass' = [pass EXCEPT ![m] = p] /\ quarantined' = quarantined \ Up
    BY <1>5 DEF ScanHealth, nodeVars
  <2>2. pass[m] \in Passes /\ pass[m].reading = <<>>
    BY <1>1, <2>1 DEF Idle, PassOK
  <2>3. p.toRestore = Up /\ p.reading = <<>>
    BY <2>2 DEF Passes
  <2> HIDE DEF p, Up
  <2>4. CASE pass' = [pass EXCEPT ![m] = p] /\ quarantined' = quarantined \ Up
    <3>1. pass'[m] = p
      BY <1>2, <2>4
    <3> QED
      BY <1>2, <2>1, <2>3, <2>4, <3>1 DEF QuarantineHolds, NothingToReopen
  <2> QED
    BY <1>3, <2>1, <2>4
<1>6. CASE CountPods(m)
  <2>1. pass[m] \in Passes /\ pass[m].pc = "sync" /\ pass[m].reading = <<>>
        /\ UNCHANGED <<taints, quarantined>>
    BY <1>1, <1>6 DEF CountPods, Idle, nodeVars
  <2>2. /\ pass'[m].toRestore \subseteq pass[m].toRestore
        /\ pass'[m].reading # <<>> => pass'[m].reading[1] \in pass[m].toRestore
    BY <1>2, <1>6, <2>1 DEF CountPods, Passes
  <2> QED
    BY <1>2, <2>1, <2>2 DEF QuarantineHolds, NothingToReopen
<1>7. CASE Restore(m)
  <2> DEFINE k == pass[m].reading[1]
  <2>1. pass[m] \in Passes /\ pass[m].pc = "sync" /\ pass[m].reading # <<>>
        /\ quarantined' = quarantined
    BY <1>1, <1>7 DEF Restore, Idle
  <2>2. k \notin quarantined
    BY <2>1 DEF NothingToReopen
  <2>3. \A n \in Nodes \ {k} : taints'[n] = taints[n]
    BY <1>2, <1>7 DEF Restore, nodeVars
  <2>4. pass'[m].toRestore = pass[m].toRestore /\ pass'[m].reading = <<>>
    BY <1>2, <1>7, <2>1 DEF Restore, Passes
  <2> QED
    BY <1>2, <2>1, <2>2, <2>3, <2>4 DEF QuarantineHolds, NothingToReopen
<1>8. CASE Isolate(m)
  <2>1. pass[m] \in Passes /\ PassOK(pass[m]) /\ pass[m] # Idle
        /\ pass[m].pc = "sync"
    BY <1>1, <1>8 DEF Isolate, Idle
  <2>2. PICK k \in pass[m].toIsolate :
            /\ pass' = [pass EXCEPT ![m].toIsolate = @ \ {k}]
            /\ \/ /\ taints' = [taints EXCEPT ![k] = {"unhealthy"}]
                  /\ quarantined' = quarantined \cup {k}
               \/ taints' = taints /\ quarantined' = quarantined
    BY <1>8 DEF Isolate, nodeVars
  <2>3. k \in Nodes /\ k \notin pass[m].toRestore
        /\ (pass[m].reading # <<>> => pass[m].reading[1] # k)
    BY <2>1 DEF Passes, PassOK
  <2>4. pass'[m].toRestore = pass[m].toRestore /\ pass'[m].reading = pass[m].reading
    BY <1>2, <2>1, <2>2 DEF Passes
  <2>5. QuarantineHolds'
    BY <1>2, <2>2, <2>3 DEF QuarantineHolds
  <2>6. NothingToReopen'
    BY <1>2, <2>1, <2>2, <2>3, <2>4 DEF NothingToReopen
  <2> QED
    BY <2>5, <2>6
<1>9. CASE (List(m) /\ EndPass(m)) \/ NoCapacity(m) \/ Create(m)
  BY <1>3, <1>9 DEF List, NoCapacity, Create, nodeVars
<1> QED
  BY <1>4, <1>5, <1>6, <1>7, <1>8, <1>9 DEF Step

\* Other writers leave the unhealthy taint alone, and no pass starts or dies
\* with a node to restore.
LEMMA NextKeepsQuarantine ==
    ASSUME QInv, OneManager, [Next]_vars
    PROVE  QInv'
<1>1. TypeOK'
  BY NextKeepsTypeOK DEF QInv
<1>2. CASE UNCHANGED vars
  BY <1>1, <1>2 DEF vars, QInv, QuarantineHolds, NothingToReopen
<1>3. ASSUME NEW m \in Managers, Step(m)
      PROVE  QInv'
  BY <1>1, <1>3, StepKeepsQuarantine DEF QInv
<1>4. ASSUME NEW m \in Managers, Crash(m) \/ \E j \in Jobs : Begin(m, j)
      PROVE  QInv'
  <2>1. UNCHANGED <<taints, quarantined>>
    BY <1>4 DEF Crash, Begin, nodeVars
  <2>2. PICK p : /\ pass' = [pass EXCEPT ![m] = p]
                 /\ p = Idle \/ (p \in Passes /\ PassOK(p) /\ p.pc = "list")
    BY <1>4, BeginAndCrashOK DEF QInv
  <2>3. pass'[m].pc # "sync" /\ \A n \in Managers : n = m
    BY <2>2 DEF QInv, TypeOK, Idle, OneManager
  <2> QED
    BY <1>1, <2>1, <2>3 DEF QInv, QuarantineHolds, NothingToReopen
<1>5. ASSUME NEW j \in Jobs, Schedule(j) \/ PodEnds(j) \/ PodRemoved(j) \/ JobWaits(j)
      PROVE  QInv'
  BY <1>1, <1>5 DEF Schedule, PodEnds, PodRemoved, JobWaits, nodeVars, QInv,
     QuarantineHolds, NothingToReopen
<1>6. ASSUME NEW n \in Nodes, HealthChanges(n)
      PROVE  QInv'
  BY <1>1, <1>6 DEF HealthChanges, nodeVars, QInv, QuarantineHolds, NothingToReopen
<1>7. ASSUME NEW n \in Nodes, OtherTaint(n)
      PROVE  QInv'
  <2>1. \A k \in Nodes : "unhealthy" \in taints[k] => "unhealthy" \in taints'[k]
    BY <1>7 DEF OtherTaint, QInv, TypeOK
  <2> QED
    BY <1>1, <1>7, <2>1 DEF OtherTaint, QInv, QuarantineHolds, NothingToReopen, TypeOK
<1> QED
  BY <1>2, <1>3, <1>4, <1>5, <1>6, <1>7 DEF Next

\* No node is in quarantine at the start.
LEMMA InitIsQInv == Init => QInv
BY GpuNodesAssumption DEF Init, QInv, TypeOK, TaintKeys, Labels, Idle,
   QuarantineHolds, NothingToReopen

\* With one manager, whatever calls fail and wherever passes die, a node that
\* was isolated keeps the unhealthy taint until a scan finds it healthy.
THEOREM IsolatedNodesStayIsolated ==
    ASSUME OneManager
    PROVE  Spec => []QuarantineHolds
<1>1. QInv /\ [Next]_vars => QInv'
  BY NextKeepsQuarantine
<1>2. QInv => QuarantineHolds
  BY DEF QInv
<1> QED
  BY InitIsQInv, <1>1, <1>2, PTL DEF Spec
=============================================================================
