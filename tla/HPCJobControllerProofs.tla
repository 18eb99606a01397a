----------------------- MODULE HPCJobControllerProofs -----------------------
(***************************************************************************)
(* Proofs about HPCJobController, for every number of jobs and managers,   *)
(* every set of specs and every bound on versions, faults and crashes.     *)
(***************************************************************************)
EXTENDS HPCJobController, TLAPS

(***************************************************************************)
(* What a reconcile in progress knows of the copy it works on.  The copy   *)
(* is a version of the history, so no one else's step can falsify it.      *)
(***************************************************************************)
TaskOK(t, copy) ==
    /\ t.pc = "scan" => copy.phase \in Active
    /\ t.pc \in {"nodes", "create"} => copy.phase \in {"", "Pending"}
    /\ t.pc = "cleanup" => copy.phase = "Failed"
    /\ t.pc = "write" => \/ copy.phase \in Active
                         \/ copy.phase = "Failed" /\ t.goal = "Failed"
    /\ t.pc = "write" /\ t.goal = "Pending" => /\ copy.phase = "Running"
                                               /\ t.ret = "after"
    /\ t.pc \in {"list", "delete"} => copy.phase \in {"Absent", "Complete"}
    /\ t.pc = "finalizer" => copy.phase = "Complete"

TasksOK == \A m \in Managers : Busy(m) => TaskOK(w[m], Copy(m))

IInv == TypeOK /\ TasksOK

-----------------------------------------------------------------------------
(* Lemmas about histories. *)

\* The stored version of a job is a version.
LEMMA StoredIsVersion ==
    ASSUME TypeOK, NEW j \in Jobs
    PROVE  /\ Len(hist[j]) \in Nat \ {0}
           /\ Stored(j) \in Versions
BY DEF TypeOK, Stored

\* A worker that is not idle and not down has a task.
LEMMA BusyHasTask ==
    ASSUME TypeOK, NEW m \in Managers, Busy(m)
    PROVE  /\ w[m] \in Tasks
           /\ w[m].job \in Jobs
           /\ w[m].rv \in 1 .. seen[m][w[m].job]
           /\ w[m].rv \in 1 .. Len(hist[w[m].job])
           /\ Copy(m) \in Versions
<1>1. w[m] \in Tasks
  BY DEF TypeOK, Busy, Idle, Down
<1>2. w[m].job \in Jobs /\ w[m].rv \in Nat
  BY <1>1 DEF Tasks
<1>3. w[m].rv \in 1 .. seen[m][w[m].job]
  BY DEF TypeOK
<1>4. w[m].rv \in 1 .. Len(hist[w[m].job])
  BY <1>2, <1>3 DEF TypeOK
<1>5. Copy(m) \in Versions
  BY <1>2, <1>4 DEF TypeOK, Copy
<1> QED
  BY <1>1, <1>2, <1>3, <1>4, <1>5

\* Appending a version to a history keeps the versions it has.
LEMMA StoreAppends ==
    ASSUME TypeOK, NEW j \in Jobs, NEW version \in Versions, Store(j, version)
    PROVE  /\ hist' \in [Jobs -> Seq(Versions)]
           /\ \A i \in Jobs :
                 /\ Len(hist'[i]) = IF i = j THEN Len(hist[i]) + 1 ELSE Len(hist[i])
                 /\ \A v \in 1 .. Len(hist[i]) : hist'[i][v] = hist[i][v]
           /\ hist'[j][Len(hist'[j])] = version
<1>1. hist' = [hist EXCEPT ![j] = Append(hist[j], version)]
  BY DEF Store
<1>2. hist[j] \in Seq(Versions) /\ Append(hist[j], version) \in Seq(Versions)
  BY DEF TypeOK
<1>3. /\ Len(Append(hist[j], version)) = Len(hist[j]) + 1
      /\ \A v \in 1 .. Len(hist[j]) : Append(hist[j], version)[v] = hist[j][v]
      /\ Append(hist[j], version)[Len(hist[j]) + 1] = version
  BY <1>2
<1> QED
  BY <1>1, <1>2, <1>3 DEF TypeOK


-----------------------------------------------------------------------------
(* The inductive invariant. *)

\* Versions are only added to the histories.
HistoriesGrow ==
    \A j \in Jobs :
        /\ Len(hist'[j]) >= Len(hist[j])
        /\ \A v \in 1 .. Len(hist[j]) : hist'[j][v] = hist[j][v]

\* The tasks of the managers that do not move stay right.
LEMMA OtherTasksOK ==
    ASSUME IInv, TypeOK', HistoriesGrow, NEW m \in Managers,
           \A n \in Managers \ {m} : w'[n] = w[n],
           Busy(m)' => TaskOK(w'[m], Copy(m)')
    PROVE  TasksOK'
<1> SUFFICES ASSUME NEW n \in Managers, Busy(n)', n # m
             PROVE  TaskOK(w'[n], Copy(n)')
  BY DEF TasksOK
<1>1. w'[n] = w[n] /\ Busy(n)
  BY DEF Busy
<1>2. Copy(n)' = Copy(n)
  BY <1>1, BusyHasTask DEF IInv, Copy, HistoriesGrow
<1> QED
  BY <1>1, <1>2 DEF IInv, TasksOK

\* The end of a reconcile.
LEMMA ReturnOK ==
    ASSUME TypeOK, NEW m \in Managers, Busy(m), NEW ret, Return(m, ret)
    PROVE  /\ w' \in [Managers -> {Idle, Down} \cup Tasks]
           /\ w'[m] = Idle
           /\ ~Busy(m)'
           /\ \A n \in Managers \ {m} : w'[n] = w[n] /\ delayed'[n] = delayed[n]
           /\ delayed' \in [Managers -> SUBSET Jobs]
           /\ delayed[m] \subseteq delayed'[m]
BY BusyHasTask DEF TypeOK, Return, Idle, Busy

\* A step from one API call of a reconcile to the next.
LEMMA GotoOK ==
    ASSUME TypeOK, NEW m \in Managers, Busy(m),
           NEW pc \in {"nodes", "create", "cleanup", "delete", "finalizer"},
           Goto(m, pc)
    PROVE  /\ w' \in [Managers -> {Idle, Down} \cup Tasks]
           /\ w'[m] \in Tasks
           /\ w'[m].pc = pc /\ w'[m].job = w[m].job /\ w'[m].rv = w[m].rv
           /\ \A n \in Managers \ {m} : w'[n] = w[n]
           /\ delayed' = delayed
<1>1. w[m] \in Tasks
  BY BusyHasTask
<1>2. w' = [w EXCEPT ![m] = [w[m] EXCEPT !.pc = pc]]
  BY DEF Goto
<1>3. [w[m] EXCEPT !.pc = pc] \in Tasks
  BY <1>1 DEF Tasks
<1> QED
  BY <1>1, <1>2, <1>3 DEF TypeOK, Goto, Tasks

\* Planning a status write keeps a well-formed task with that goal.
LEMMA PlanWriteOK ==
    ASSUME TypeOK, NEW m \in Managers, Busy(m),
           NEW goal \in {"Pending", "Running", "Complete", "Failed"},
           NEW ret \in {"done", "after", "error"},
           PlanWrite(m, goal, ret)
    PROVE  /\ w' \in [Managers -> {Idle, Down} \cup Tasks]
           /\ w'[m] \in Tasks
           /\ w'[m].pc = "write" /\ w'[m].goal = goal /\ w'[m].ret = ret
           /\ w'[m].job = w[m].job /\ w'[m].rv = w[m].rv
           /\ \A n \in Managers \ {m} : w'[n] = w[n]
           /\ delayed' = delayed
<1>1. w[m] \in Tasks
  BY BusyHasTask
<1> DEFINE t == [w[m] EXCEPT !.pc = "write", !.goal = goal, !.ret = ret]
<1>2. w' = [w EXCEPT ![m] = t]
  BY DEF PlanWrite
<1>3. t \in Tasks
  BY <1>1 DEF Tasks
<1> QED
  BY <1>1, <1>2, <1>3 DEF TypeOK, PlanWrite, Tasks


\* A worker's return leaves only tasks that were there.
LEMMA ReturnTasksOK ==
    ASSUME IInv, TypeOK', HistoriesGrow, NEW m \in Managers, Busy(m),
           NEW ret, Return(m, ret)
    PROVE  TasksOK'
<1>1. ~Busy(m)' /\ \A n \in Managers \ {m} : w'[n] = w[n]
  BY ReturnOK DEF IInv
<1> QED
  BY <1>1, OtherTasksOK

\* A copy does not change under a worker that keeps its task.
LEMMA SameCopy ==
    ASSUME TypeOK, HistoriesGrow, NEW m \in Managers, Busy(m),
           w'[m].job = w[m].job, w'[m].rv = w[m].rv
    PROVE  Copy(m)' = Copy(m)
BY BusyHasTask DEF Copy, HistoriesGrow

\* Histories that stay the same have grown, trivially.
LEMMA UnchangedHistGrows ==
    ASSUME TypeOK, UNCHANGED hist
    PROVE  HistoriesGrow
BY DEF TypeOK, HistoriesGrow

\* Storing a version keeps every history's earlier versions.
LEMMA StoreHistGrows ==
    ASSUME TypeOK, NEW j \in Jobs, NEW version \in Versions, Store(j, version)
    PROVE  HistoriesGrow
<1>1. \A i \in Jobs : Len(hist[i]) \in Nat
  BY DEF TypeOK
<1>2. \A i \in Jobs : Len(hist'[i]) >= Len(hist[i])
  BY <1>1, StoreAppends
<1>3. \A i \in Jobs : \A v \in 1 .. Len(hist[i]) : hist'[i][v] = hist[i][v]
  BY StoreAppends
<1> QED
  BY <1>2, <1>3 DEF HistoriesGrow

\* The parts of TypeOK about caches and tasks survive any step in which
\* histories grow, no cache moves, and the tasks keep their versions.
LEMMA IndexesOK ==
    ASSUME TypeOK, HistoriesGrow, seen' = seen,
           hist' \in [Jobs -> Seq(Versions)],
           \A n \in Managers : Busy(n)' =>
               Busy(n) /\ w'[n].rv = w[n].rv /\ w'[n].job = w[n].job
    PROVE  /\ \A j \in Jobs : hist'[j] # <<>>
           /\ \A n \in Managers, j \in Jobs : seen'[n][j] \in 1 .. Len(hist'[j])
           /\ \A n \in Managers : Busy(n)' => w'[n].rv \in 1 .. seen'[n][w'[n].job]
<1>1. \A j \in Jobs : Len(hist'[j]) >= Len(hist[j])
  BY DEF HistoriesGrow
<1>2. \A j \in Jobs : Len(hist[j]) \in Nat \ {0} /\ Len(hist'[j]) \in Nat
  BY DEF TypeOK
<1>3. \A j \in Jobs : hist'[j] # <<>>
  BY <1>1, <1>2
<1>4. \A n \in Managers, j \in Jobs : seen'[n][j] \in 1 .. Len(hist'[j])
  BY <1>1, <1>2 DEF TypeOK
<1>5. \A n \in Managers : Busy(n)' => w'[n].rv \in 1 .. seen'[n][w'[n].job]
  BY DEF TypeOK
<1> QED
  BY <1>3, <1>4, <1>5

\* The environment moves no worker, no cache and no queue.
LEMMA EnvironmentKeepsIInv ==
    ASSUME IInv, NEW j \in Jobs, Environment(j)
    PROVE  IInv' /\ HistoriesGrow
<1> USE DEF IInv
<1>1. CASE UserCreates(j) \/ UserEdits(j) \/ UserDeletes(j)
  <2>1. PICK version \in Versions : UserStores(j, version)
    <3>1. CASE UserCreates(j)
      BY <3>1 DEF UserCreates, Versions, Phases
    <3>2. CASE UserEdits(j)
      <4>1. Stored(j) \in [phase : Phases, spec : Specs, deleting : BOOLEAN]
        BY <3>2, StoredIsVersion DEF UserEdits, Exists, Versions, Tombstone
      <4>2. PICK spec \in Specs : UserStores(j, [Stored(j) EXCEPT !.spec = spec])
        BY <3>2 DEF UserEdits
      <4>3. [Stored(j) EXCEPT !.spec = spec] \in Versions
        BY <4>1 DEF Versions
      <4> QED
        BY <4>2, <4>3
    <3>3. CASE UserDeletes(j)
      <4>1. Stored(j) \in [phase : Phases, spec : Specs, deleting : BOOLEAN]
        BY <3>3, StoredIsVersion DEF UserDeletes, Exists, Versions, Tombstone
      <4>2. [Stored(j) EXCEPT !.deleting = TRUE] \in Versions
        BY <4>1 DEF Versions
      <4>3. Tombstone \in Versions
        BY DEF Versions
      <4> QED
        BY <3>3, <4>2, <4>3 DEF UserDeletes
    <3> QED
      BY <1>1, <3>1, <3>2, <3>3
  <2>2. Store(j, version) /\ UNCHANGED <<seen, queue, delayed, w, pods, faults, crashes>>
    BY <2>1 DEF UserStores
  <2>3. HistoriesGrow
    BY <2>2, StoreHistGrows
  <2>4. TypeOK'
    BY <2>2, <2>3, StoreAppends, IndexesOK DEF TypeOK, Busy
  <2>5. TasksOK'
    BY <2>2, <2>3, SameCopy DEF TasksOK, Busy
  <2> QED
    BY <2>3, <2>4, <2>5
<1>2. CASE PodStarts(j) \/ PodEnds(j) \/ PodRemoved(j) \/ PodEvicted(j)
  <2>1. /\ UNCHANGED <<hist, seen, queue, delayed, w, crashes>>
        /\ pods' \in [Jobs -> Pods]
        /\ faults' \in 0 .. MaxFaults
    <3>1. PICK pod \in Pods : KubeletSets(j, pod)
      <4>1. pods[j] \in Pods
        BY DEF TypeOK
      <4>2. /\ \A phase \in {"Running", "Succeeded", "Failed"} :
                  [pods[j] EXCEPT !.phase = phase] \in Pods
            /\ [pods[j] EXCEPT !.terminating = TRUE] \in Pods
            /\ NoPod \in Pods
        BY <4>1 DEF Pods, NoPod
      <4> QED
        BY <1>2, <4>2 DEF PodStarts, PodEnds, PodRemoved, PodEvicted
    <3>2. faults' \in 0 .. MaxFaults
      BY <1>2, ConstantsAssumption
      DEF PodStarts, PodEnds, PodRemoved, PodEvicted, Fault, TypeOK
    <3> QED
      BY <3>1, <3>2 DEF KubeletSets, TypeOK
  <2>2. TypeOK'
    BY <2>1 DEF TypeOK, Busy
  <2>3. HistoriesGrow
    BY <2>1, UnchangedHistGrows
  <2>4. TasksOK'
    BY <2>1 DEF TasksOK, Busy, Copy
  <2> QED
    BY <2>2, <2>3, <2>4
<1> QED
  BY <1>1, <1>2 DEF Environment


-----------------------------------------------------------------------------
(* The steps of a reconcile. *)

\* Worker m moves on: it returns, or keeps its job and version and takes a
\* task that is right.
MovesOn(m) ==
    /\ w' \in [Managers -> {Idle, Down} \cup Tasks]
    /\ delayed' \in [Managers -> SUBSET Jobs]
    /\ \A n \in Managers \ {m} : w'[n] = w[n] /\ delayed'[n] = delayed[n]
    /\ delayed[m] \subseteq delayed'[m]
    /\ Busy(m)' => /\ w'[m].job = w[m].job
                   /\ w'[m].rv = w[m].rv
                   /\ TaskOK(w'[m], Copy(m))

\* A handler that returns has moved its reconcile on.
LEMMA ReturnMovesOn ==
    ASSUME TypeOK, NEW m \in Managers, Busy(m), NEW ret, Return(m, ret)
    PROVE  MovesOn(m)
BY ReturnOK DEF MovesOn

\* So has one that goes on to another call, if its copy is in a phase
\* that call is for.
LEMMA GotoMovesOn ==
    ASSUME TypeOK, NEW m \in Managers, Busy(m),
           NEW pc \in {"nodes", "create", "cleanup", "delete", "finalizer"},
           Goto(m, pc),
           pc \in {"nodes", "create"} => Copy(m).phase \in {"", "Pending"},
           pc = "cleanup" => Copy(m).phase = "Failed",
           pc = "delete" => Copy(m).phase \in {"Absent", "Complete"},
           pc = "finalizer" => Copy(m).phase = "Complete"
    PROVE  MovesOn(m)
<1>1. TaskOK(w'[m], Copy(m))
  BY GotoOK DEF TaskOK
<1> QED
  BY <1>1, GotoOK DEF MovesOn, TypeOK

\* So has one that plans a status write, if its goal and its return suit
\* the phase of the copy.
LEMMA PlanWriteMovesOn ==
    ASSUME TypeOK, NEW m \in Managers, Busy(m),
           NEW goal \in {"Pending", "Running", "Complete", "Failed"},
           NEW ret \in {"done", "after", "error"},
           PlanWrite(m, goal, ret),
           \/ Copy(m).phase \in Active
           \/ Copy(m).phase = "Failed" /\ goal = "Failed",
           goal = "Pending" => Copy(m).phase = "Running" /\ ret = "after"
    PROVE  MovesOn(m)
<1>1. TaskOK(w'[m], Copy(m))
  BY PlanWriteOK DEF TaskOK
<1> QED
  BY <1>1, PlanWriteOK DEF MovesOn, TypeOK

\* A reconcile that moves on keeps the invariant.
LEMMA MovesOnKeepsIInv ==
    ASSUME IInv, NEW m \in Managers, Busy(m), MovesOn(m), HistoriesGrow,
           hist' \in [Jobs -> Seq(Versions)], seen' = seen, queue' = queue,
           pods' \in [Jobs -> Pods], faults' \in 0 .. MaxFaults, crashes' = crashes
    PROVE  IInv'
<1>1. \A n \in Managers : Busy(n)' =>
          Busy(n) /\ w'[n].rv = w[n].rv /\ w'[n].job = w[n].job
  BY DEF MovesOn, Busy
<1>2. TypeOK'
  BY <1>1, IndexesOK DEF TypeOK, MovesOn, IInv
<1>3. Busy(m)' => TaskOK(w'[m], Copy(m)')
  BY SameCopy DEF MovesOn, IInv
<1>4. TasksOK'
  BY <1>2, <1>3, OtherTasksOK DEF MovesOn
<1> QED
  BY <1>2, <1>4 DEF IInv

\* Faults stay within their bound.
LEMMA FaultOK ==
    ASSUME TypeOK, Fault
    PROVE  faults' \in 0 .. MaxFaults
BY ConstantsAssumption DEF TypeOK, Fault

\* Deleting a pod leaves a pod.
LEMMA TerminateOK ==
    ASSUME TypeOK, NEW j \in Jobs, Terminate(j)
    PROVE  pods' \in [Jobs -> Pods]
<1>1. pods[j] \in Pods
  BY DEF TypeOK
<1>2. [pods[j] EXCEPT !.terminating = TRUE] \in Pods
  BY <1>1 DEF Pods
<1>3. pods' = [pods EXCEPT ![j] = [pods[j] EXCEPT !.terminating = TRUE]]
  BY DEF Terminate
<1> QED
  BY <1>2, <1>3 DEF TypeOK

\* Every step of a reconcile moves it on.
LEMMA StepMovesOn ==
    ASSUME IInv, NEW m \in Managers, Step(m)
    PROVE  /\ Busy(m)
           /\ MovesOn(m)
           /\ UNCHANGED <<seen, queue, crashes>>
           /\ pods' \in [Jobs -> Pods]
           /\ faults' \in 0 .. MaxFaults
<1> USE DEF IInv
<1>1. Busy(m)
  BY DEF Step, ScanFails, ScanFindsNoPod, ScanFindsPod, Nodes, Create, Cleanup,
     List, Delete, Finalizer, Write, Busy
<1>2. TaskOK(w[m], Copy(m)) /\ w[m] \in Tasks /\ w[m].job \in Jobs
  BY <1>1, BusyHasTask DEF TasksOK
<1>3. /\ UNCHANGED <<seen, queue, crashes>>
      /\ MovesOn(m)
      /\ pods' \in [Jobs -> Pods]
      /\ faults' \in 0 .. MaxFaults
  <2>1. CASE ScanFails(m)
    <3>1. PlanWrite(m, "Failed", "error") /\ Copy(m).phase \in Active
      BY <1>2, <2>1 DEF ScanFails, TaskOK
    <3> QED
      BY <1>1, <2>1, <3>1, PlanWriteMovesOn, FaultOK DEF ScanFails, TypeOK
  <2>2. CASE ScanFindsNoPod(m)
    <3>1. Copy(m).phase \in Active
      BY <1>2, <2>2 DEF ScanFindsNoPod, TaskOK
    <3>2. \/ PlanWrite(m, "Pending", "after") /\ Copy(m).phase = "Running"
          \/ Goto(m, "nodes") /\ Copy(m).phase \in {"", "Pending"}
          \/ PlanWrite(m, "Failed", "done")
      BY <2>2, <3>1 DEF ScanFindsNoPod, Active
    <3>3. MovesOn(m)
      BY <1>1, <3>1, <3>2, PlanWriteMovesOn, GotoMovesOn
    <3> QED
      BY <2>2, <3>3 DEF ScanFindsNoPod, TypeOK
  <2>3. CASE ScanFindsPod(m)
    <3>1. Copy(m).phase \in Active
      BY <1>2, <2>3 DEF ScanFindsPod, TaskOK
    <3>2. \/ PlanWrite(m, "Running", "done")
          \/ PlanWrite(m, "Failed", "error")
          \/ PlanWrite(m, "Complete", "done")
          \/ \E ret : Return(m, ret)
      BY <2>3 DEF ScanFindsPod
    <3>3. MovesOn(m)
      BY <1>1, <3>1, <3>2, PlanWriteMovesOn, ReturnMovesOn
    <3> QED
      BY <2>3, <3>3 DEF ScanFindsPod, TypeOK
  <2>4. CASE Nodes(m)
    <3>1. Copy(m).phase \in {"", "Pending"}
      BY <1>2, <2>4 DEF Nodes, TaskOK
    <3>2. MovesOn(m)
      BY <1>1, <2>4, <3>1, ReturnMovesOn, GotoMovesOn DEF Nodes
    <3> QED
      BY <2>4, <3>2 DEF Nodes, TypeOK
  <2>5. CASE Create(m)
    <3>1. MovesOn(m)
      BY <1>1, <2>5, ReturnMovesOn DEF Create
    <3>2. [phase |-> "Pending", born |-> w[m].rv, terminating |-> FALSE] \in Pods
      BY <1>2 DEF Pods, Tasks
    <3>3. pods' \in [Jobs -> Pods]
      BY <2>5, <3>2 DEF Create, TypeOK
    <3> QED
      BY <2>5, <3>1, <3>3, FaultOK DEF Create, TypeOK
  <2>6. CASE Cleanup(m)
    <3>1. Copy(m).phase = "Failed"
      BY <1>2, <2>6 DEF Cleanup, TaskOK
    <3>2. MovesOn(m)
      BY <1>1, <2>6, <3>1, PlanWriteMovesOn, ReturnMovesOn DEF Cleanup
    <3> QED
      BY <1>2, <2>6, <3>2, FaultOK, TerminateOK DEF Cleanup, TypeOK
  <2>7. CASE List(m)
    <3>1. Copy(m).phase \in {"Absent", "Complete"}
      BY <1>2, <2>7 DEF List, TaskOK
    <3>2. MovesOn(m)
      BY <1>1, <2>7, <3>1, ReturnMovesOn, GotoMovesOn DEF List, PodsGone
    <3> QED
      BY <2>7, <3>2, FaultOK DEF List, TypeOK
  <2>8. CASE Delete(m)
    <3>1. Copy(m).phase \in {"Absent", "Complete"}
      BY <1>2, <2>8 DEF Delete, TaskOK
    <3>2. MovesOn(m)
      BY <1>1, <2>8, <3>1, ReturnMovesOn, GotoMovesOn DEF Delete, PodsGone
    <3> QED
      BY <1>2, <2>8, <3>2, FaultOK, TerminateOK DEF Delete, TypeOK
  <2>9. CASE Finalizer(m)
    BY <1>1, <2>9, ReturnMovesOn DEF Finalizer, TypeOK
  <2>10. CASE Write(m)
    <3>1. MovesOn(m)
      BY <1>1, <2>10, ReturnMovesOn DEF Write
    <3> QED
      BY <2>10, <3>1, FaultOK DEF Write, TypeOK
  <2> QED
    BY <2>1, <2>2, <2>3, <2>4, <2>5, <2>6, <2>7, <2>8, <2>9,
       <2>10 DEF Step
<1> QED
  BY <1>1, <1>3

\* Only a write changes a history, by a version that differs in its phase.
LEMMA StepHistory ==
    ASSUME IInv, NEW m \in Managers, Step(m)
    PROVE  \/ UNCHANGED hist
           \/ /\ Write(m)
              /\ w[m].rv = Len(hist[w[m].job])
              /\ Copy(m).phase # w[m].goal
              /\ [Copy(m) EXCEPT !.phase = w[m].goal] \in Versions
              /\ Store(w[m].job, [Copy(m) EXCEPT !.phase = w[m].goal])
<1> USE DEF IInv
<1>1. CASE ~Write(m)
  BY <1>1 DEF Step, ScanFails, ScanFindsNoPod, ScanFindsPod, Nodes, Create,
     Cleanup, List, Delete, Finalizer
<1>2. CASE Write(m)
  <2> DEFINE version == [Copy(m) EXCEPT !.phase = w[m].goal]
  <2>1. Busy(m)
    BY <1>2 DEF Write, Busy
  <2>2. TaskOK(w[m], Copy(m)) /\ w[m] \in Tasks /\ Copy(m) \in Versions
    BY <2>1, BusyHasTask DEF TasksOK
  <2>3. Copy(m).phase \in Active \cup {"Failed"}
    BY <1>2, <2>2 DEF Write, TaskOK
  <2>4. Copy(m) # Tombstone
    <3>1. Copy(m).phase # "Absent"
      BY <2>3 DEF Active
    <3> QED
      BY <3>1 DEF Tombstone
  <2>5. Copy(m) \in [phase : Phases, spec : Specs, deleting : BOOLEAN]
    BY <2>2, <2>4 DEF Versions
  <2>6. version \in Versions
    BY <2>2, <2>5 DEF Versions, Tasks, Phases
  <2>7. \/ UNCHANGED hist
        \/ /\ w[m].rv = Len(hist[w[m].job])
           /\ Copy(m).phase # w[m].goal
           /\ Store(w[m].job, version)
    BY <1>2 DEF Write
  <2> QED
    BY <1>2, <2>6, <2>7
<1> QED
  BY <1>1, <1>2

\* Every step of a reconcile keeps the invariant.
LEMMA StepKeepsIInv ==
    ASSUME IInv, NEW m \in Managers, Step(m)
    PROVE  IInv' /\ HistoriesGrow
<1>1. w[m].job \in Jobs
  BY StepMovesOn, BusyHasTask DEF IInv
<1>2. HistoriesGrow /\ hist' \in [Jobs -> Seq(Versions)]
  BY <1>1, StepHistory, UnchangedHistGrows, StoreHistGrows, StoreAppends
  DEF IInv, TypeOK
<1> QED
  BY <1>2, StepMovesOn, MovesOnKeepsIInv

-----------------------------------------------------------------------------
(* The steps around a reconcile, and the invariant. *)

\* The watch, the timers, the start of a reconcile.
LEMMA ManagerKeepsIInv ==
    ASSUME IInv, NEW m \in Managers, NEW j \in Jobs,
           \/ Deliver(m, j) \/ Resync(m, j) \/ DelayExpires(m, j)
           \/ Reconcile(m, j) \/ FetchFails(m, j)
    PROVE  IInv' /\ HistoriesGrow
<1> USE DEF IInv
<1>1. UNCHANGED hist
  BY DEF Deliver, Resync, DelayExpires, Reconcile, FetchFails, Dequeue
<1>2. HistoriesGrow
  BY <1>1, UnchangedHistGrows
<1>3. CASE Deliver(m, j)
  <2>1. PICK v \in seen[m][j] + 1 .. Len(hist[j]) :
            seen' = [seen EXCEPT ![m][j] = v]
    BY <1>3 DEF Deliver
  <2>2. v \in 1 .. Len(hist[j]) /\ v >= seen[m][j] /\ v \in Nat
    BY <2>1 DEF TypeOK
  <2>3. /\ seen' \in [Managers -> [Jobs -> Nat]]
        /\ \A n \in Managers, i \in Jobs :
              seen'[n][i] \in 1 .. Len(hist[i]) /\ seen'[n][i] >= seen[n][i]
    BY <2>1, <2>2 DEF TypeOK
  <2>4. UNCHANGED <<hist, delayed, w, pods, faults, crashes>>
        /\ queue' \in [Managers -> SUBSET Jobs]
    BY <1>3 DEF Deliver, Enqueue, TypeOK
  <2>5. \A n \in Managers : Busy(n)' => w'[n].rv \in 1 .. seen'[n][w'[n].job]
    BY <2>3, <2>4, BusyHasTask DEF TypeOK, Busy
  <2>6. TypeOK'
    BY <2>3, <2>4, <2>5 DEF TypeOK
  <2>7. TasksOK'
    BY <2>4 DEF TasksOK, Busy, Copy
  <2> QED
    BY <1>2, <2>6, <2>7
<1>4. CASE Resync(m, j) \/ DelayExpires(m, j) \/ FetchFails(m, j)
  <2>1. /\ UNCHANGED <<hist, seen, w, pods, faults, crashes>>
        /\ queue' \in [Managers -> SUBSET Jobs]
        /\ delayed' \in [Managers -> SUBSET Jobs]
    <3>1. CASE Resync(m, j)
      BY <3>1 DEF Resync, Enqueue, TypeOK
    <3>2. CASE DelayExpires(m, j)
      BY <3>2 DEF DelayExpires, Enqueue, TypeOK
    <3>3. CASE FetchFails(m, j)
      BY <3>3 DEF FetchFails, Dequeue, TypeOK
    <3> QED
      BY <1>4, <3>1, <3>2, <3>3
  <2>2. TypeOK' /\ TasksOK'
    BY <2>1 DEF TypeOK, TasksOK, Busy, Copy
  <2> QED
    BY <1>2, <2>2
<1>5. CASE Reconcile(m, j)
  <2> DEFINE copy == hist[j][seen[m][j]]
             t == [pc |-> Entry(copy.phase), job |-> j, rv |-> seen[m][j],
                   goal |-> "Failed", ret |-> "done"]
  <2>1. /\ UNCHANGED <<hist, seen, delayed, pods, faults, crashes>>
        /\ queue' \in [Managers -> SUBSET Jobs]
        /\ w[m].pc = "idle"
        /\ \/ UNCHANGED w
           \/ w' = [w EXCEPT ![m] = t]
    BY <1>5 DEF Reconcile, Dequeue, TypeOK
  <2>2. CASE UNCHANGED w
    <3>1. TypeOK' /\ TasksOK'
      BY <2>1, <2>2 DEF TypeOK, TasksOK, Busy, Copy
    <3> QED
      BY <1>2, <3>1
  <2>3. CASE w' = [w EXCEPT ![m] = t]
    <3>1. seen[m][j] \in 1 .. Len(hist[j]) /\ seen[m][j] \in Nat
      BY DEF TypeOK
    <3>2. copy \in Versions
      BY <3>1 DEF TypeOK
    <3>3. copy.phase \in Phases \cup {"Absent"}
      BY <3>2 DEF Versions, Tombstone
    <3>4. /\ t.pc \in {"scan", "cleanup", "list"}
          /\ t.pc = "scan" => copy.phase \in Active
          /\ t.pc = "cleanup" => copy.phase = "Failed"
          /\ t.pc = "list" => copy.phase \in {"Absent", "Complete"}
      BY <3>3 DEF Entry, Active, Phases
    <3>5. t \in Tasks /\ TaskOK(t, copy)
      BY <3>1, <3>4 DEF Tasks, TaskOK
    <3>6. /\ w' \in [Managers -> {Idle, Down} \cup Tasks]
          /\ w'[m] = t
          /\ \A n \in Managers \ {m} : w'[n] = w[n]
      BY <2>3, <3>5 DEF TypeOK
    <3>7. \A n \in Managers : Busy(n)' => w'[n].rv \in 1 .. seen[n][w'[n].job]
      <4>1. w'[m].rv \in 1 .. seen[m][w'[m].job]
        BY <3>1, <3>6
      <4>2. \A n \in Managers \ {m} : Busy(n)' => w'[n].rv \in 1 .. seen[n][w'[n].job]
        BY <3>6 DEF TypeOK, Busy
      <4> QED
        BY <4>1, <4>2
    <3>8. TypeOK'
      BY <2>1, <3>6, <3>7 DEF TypeOK
    <3>9. Copy(m)' = copy
      BY <2>1, <3>6 DEF Copy
    <3> QED
      BY <1>2, <3>5, <3>6, <3>8, <3>9, OtherTasksOK
  <2> QED
    BY <2>1, <2>2, <2>3
<1> QED
  BY <1>3, <1>4, <1>5

\* So do crashes and restarts of managers.
LEMMA RestartKeepsIInv ==
    ASSUME IInv, NEW m \in Managers, Crash(m) \/ Restart(m)
    PROVE  IInv' /\ HistoriesGrow
<1> USE DEF IInv
<1>1. /\ UNCHANGED <<hist, pods, faults>>
      /\ queue' \in [Managers -> SUBSET Jobs]
      /\ delayed' \in [Managers -> SUBSET Jobs]
      /\ crashes' \in 0 .. MaxCrashes
      /\ w' \in [Managers -> {Idle, Down} \cup Tasks]
      /\ ~Busy(m)'
      /\ \A n \in Managers \ {m} : w'[n] = w[n] /\ seen'[n] = seen[n]
  <2>1. CASE Crash(m)
    BY <2>1, ConstantsAssumption DEF Crash, TypeOK, Busy, Idle, Down
  <2>2. CASE Restart(m)
    BY <2>2 DEF Restart, TypeOK, Busy, Idle, Down
  <2> QED
    BY <2>1, <2>2
<1>2. /\ seen' \in [Managers -> [Jobs -> Nat]]
      /\ \A n \in Managers, i \in Jobs : seen'[n][i] \in 1 .. Len(hist[i])
  <2>1. \A i \in Jobs : Len(hist[i]) \in Nat /\ Len(hist[i]) \in 1 .. Len(hist[i])
    BY DEF TypeOK
  <2>2. CASE Crash(m)
    BY <2>2 DEF Crash, TypeOK
  <2>3. CASE Restart(m)
    BY <2>1, <2>3 DEF Restart, TypeOK
  <2> QED
    BY <2>2, <2>3
<1>3. \A n \in Managers : Busy(n)' => w'[n].rv \in 1 .. seen'[n][w'[n].job]
  BY <1>1 DEF TypeOK, Busy
<1>4. TypeOK'
  BY <1>1, <1>2, <1>3 DEF TypeOK
<1>5. HistoriesGrow
  BY <1>1, UnchangedHistGrows
<1> QED
  BY <1>1, <1>4, <1>5, OtherTasksOK

\* The invariant holds at first.
LEMMA InitEstablishesIInv == Init => IInv
<1> SUFFICES ASSUME Init PROVE TypeOK /\ TasksOK
  BY DEF IInv
<1>1. hist \in [Jobs -> Seq(Versions)] /\ \A j \in Jobs : hist[j] # <<>> /\ Len(hist[j]) = 1
  BY DEF Init, Versions
<1>2. \A m \in Managers : ~Busy(m)
  BY DEF Init, Idle, Busy
<1>3. w \in [Managers -> {Idle, Down} \cup Tasks]
  BY DEF Init
<1>4. pods \in [Jobs -> Pods]
  BY DEF Init, NoPod, Pods
<1>5. TypeOK
  BY <1>1, <1>2, <1>3, <1>4, ConstantsAssumption DEF Init, TypeOK
<1> QED
  BY <1>2, <1>5 DEF TasksOK

\* Every step keeps the invariant, and no version is ever lost.
LEMMA NextKeepsIInv ==
    ASSUME IInv, [Next]_vars
    PROVE  IInv' /\ HistoriesGrow
<1>1. CASE UNCHANGED vars
  <2>1. TypeOK' /\ TasksOK'
    BY <1>1 DEF vars, IInv, TypeOK, TasksOK, Busy, Copy
  <2> QED
    BY <1>1, <2>1, UnchangedHistGrows DEF vars, IInv
<1>2. ASSUME NEW m \in Managers, NEW j \in Jobs,
             \/ Deliver(m, j) \/ Resync(m, j) \/ DelayExpires(m, j)
             \/ Reconcile(m, j) \/ FetchFails(m, j)
      PROVE  IInv' /\ HistoriesGrow
  BY <1>2, ManagerKeepsIInv
<1>3. ASSUME NEW m \in Managers, Step(m)
      PROVE  IInv' /\ HistoriesGrow
  BY <1>3, StepKeepsIInv
<1>4. ASSUME NEW m \in Managers, Crash(m) \/ Restart(m)
      PROVE  IInv' /\ HistoriesGrow
  BY <1>4, RestartKeepsIInv
<1>5. ASSUME NEW j \in Jobs, Environment(j)
      PROVE  IInv' /\ HistoriesGrow
  BY <1>5, EnvironmentKeepsIInv
<1> QED
  BY <1>1, <1>2, <1>3, <1>4, <1>5 DEF Next

\* The caches and the workers only ever hold versions that exist, and every
\* variable has its type.
THEOREM TypeCorrect == Spec => []TypeOK
<1>1. Init => IInv
  BY InitEstablishesIInv
<1>2. IInv /\ [Next]_vars => IInv'
  BY NextKeepsIInv
<1>3. IInv => TypeOK
  BY DEF IInv
<1> QED
  BY <1>1, <1>2, <1>3, PTL DEF Spec


-----------------------------------------------------------------------------
(* No lost wake-up. *)

Waits(j) == Stored(j).phase \in {"", "Pending"}

\* If the cache has moved past the version a worker works on, the job is
\* queued again.
MovedOnIsQueued ==
    \A m \in Managers :
        Busy(m) /\ w[m].rv < seen[m][w[m].job] => w[m].job \in queue[m]

TrackedInv == IInv /\ MovedOnIsQueued /\ PendingJobIsTracked

\* What a step does to the stored version of a job.
LEMMA StoredChange ==
    ASSUME IInv, [Next]_vars, NEW j \in Jobs
    PROVE  \/ hist'[j] = hist[j]
           \/ Len(hist'[j]) = Len(hist[j]) + 1 /\ seen' = seen
<1> USE DEF IInv
<1>1. CASE UNCHANGED hist
  BY <1>1
<1>2. ASSUME NEW i \in Jobs, NEW version, Store(i, version), seen' = seen
      PROVE  \/ hist'[j] = hist[j]
             \/ Len(hist'[j]) = Len(hist[j]) + 1 /\ seen' = seen
  <2>1. hist' = [hist EXCEPT ![i] = Append(hist[i], version)]
    BY <1>2 DEF Store
  <2>2. hist'[j] = hist[j] \/ hist'[j] = Append(hist[j], version)
    BY <2>1 DEF TypeOK
  <2>3. hist[j] \in Seq(Versions \cup {version})
    <3>1. hist[j] \in Seq(Versions)
      BY DEF TypeOK
    <3> QED
      BY <3>1
  <2>4. Len(Append(hist[j], version)) = Len(hist[j]) + 1
    BY <2>3
  <2> QED
    BY <1>2, <2>2, <2>4
<1>3. \/ UNCHANGED hist
      \/ \E i \in Jobs : \E version : Store(i, version) /\ seen' = seen
  <2>1. ASSUME NEW m \in Managers, Step(m)
        PROVE  \/ UNCHANGED hist
               \/ \E i \in Jobs : \E version : Store(i, version) /\ seen' = seen
    <3>1. w[m].job \in Jobs /\ seen' = seen
      BY <2>1, StepMovesOn, BusyHasTask
    <3> QED
      BY <2>1, <3>1, StepHistory
  <2>2. ASSUME NEW i \in Jobs, Environment(i)
        PROVE  \/ UNCHANGED hist
               \/ \E k \in Jobs : \E version : Store(k, version) /\ seen' = seen
    BY <2>2 DEF Environment, UserCreates, UserEdits, UserDeletes, UserStores,
       PodStarts, PodEnds, PodRemoved, PodEvicted, KubeletSets
  <2>3. ASSUME NEW m \in Managers, NEW i \in Jobs,
               \/ Deliver(m, i) \/ Resync(m, i) \/ DelayExpires(m, i)
               \/ Reconcile(m, i) \/ FetchFails(m, i)
        PROVE  UNCHANGED hist
    BY <2>3 DEF Deliver, Resync, DelayExpires, Reconcile, FetchFails, Dequeue
  <2>4. ASSUME NEW m \in Managers, Crash(m) \/ Restart(m)
        PROVE  UNCHANGED hist
    BY <2>4 DEF Crash, Restart
  <2>5. CASE UNCHANGED vars
    BY <2>5 DEF vars
  <2> QED
    BY <2>1, <2>2, <2>3, <2>4, <2>5 DEF Next
<1> QED
  BY <1>1, <1>2, <1>3

\* A job whose stored version changes is tracked by every running manager,
\* whose cache has not seen the change.
LEMMA ChangeIsTracked ==
    ASSUME IInv, [Next]_vars, NEW m \in Managers, NEW j \in Jobs,
           hist'[j] # hist[j], Alive(m)'
    PROVE  Tracked(m, j)'
<1>1. Len(hist'[j]) = Len(hist[j]) + 1 /\ seen' = seen
  BY StoredChange
<1>2. seen[m][j] \in 1 .. Len(hist[j]) /\ Len(hist[j]) \in Nat
  BY DEF IInv, TypeOK
<1> QED
  BY <1>1, <1>2 DEF Tracked

\* A reconcile goes on, or brings its job back later, or has seen or stored a
\* phase in which the job does not wait.
LEMMA ReturnIsSafe ==
    ASSUME IInv, NEW m \in Managers, Step(m)
    PROVE  \/ Busy(m)' /\ w'[m].job = w[m].job
           \/ w[m].job \in delayed'[m]
           \/ Copy(m).phase \notin {"", "Pending"}
           \/ hist'[w[m].job] # hist[w[m].job]
<1> USE DEF IInv
<1>1. Busy(m)
  BY DEF Step, ScanFails, ScanFindsNoPod, ScanFindsPod, Nodes, Create, Cleanup,
     List, Delete, Finalizer, Write, Busy
<1>2. TaskOK(w[m], Copy(m)) /\ w[m] \in Tasks /\ w[m].job \in Jobs
  BY <1>1, BusyHasTask DEF TasksOK
<1>3. ASSUME NEW ret, Return(m, ret), ret # "done"
      PROVE  w[m].job \in delayed'[m]
  BY <1>3 DEF Return, TypeOK
<1>4. ASSUME NEW pc \in {"nodes", "create", "cleanup", "delete", "finalizer"},
             Goto(m, pc)
      PROVE  Busy(m)' /\ w'[m].job = w[m].job
  BY <1>1, <1>4, GotoOK DEF Busy
<1>5. ASSUME NEW goal \in {"Pending", "Running", "Complete", "Failed"},
             NEW ret \in {"done", "after", "error"}, PlanWrite(m, goal, ret)
      PROVE  Busy(m)' /\ w'[m].job = w[m].job
  BY <1>1, <1>5, PlanWriteOK DEF Busy
<1>6. CASE ScanFails(m)
  BY <1>5, <1>6 DEF ScanFails
<1>7. CASE ScanFindsNoPod(m)
  BY <1>4, <1>5, <1>7 DEF ScanFindsNoPod
<1>8. CASE ScanFindsPod(m)
  <2>1. \/ PlanWrite(m, "Running", "done")
        \/ PlanWrite(m, "Failed", "error")
        \/ PlanWrite(m, "Complete", "done")
        \/ Return(m, "done") /\ Copy(m).phase = "Running"
        \/ Return(m, "after")
    BY <1>8 DEF ScanFindsPod
  <2> QED
    BY <2>1, <1>3, <1>5
<1>9. CASE Nodes(m)
  BY <1>3, <1>4, <1>9 DEF Nodes
<1>10. CASE Create(m)
  BY <1>3, <1>10 DEF Create
<1>11. CASE Cleanup(m) \/ List(m) \/ Delete(m) \/ Finalizer(m)
  BY <1>2, <1>11 DEF Cleanup, List, Delete, Finalizer, TaskOK
<1>12. CASE Write(m)
  <2>1. CASE w[m].ret # "done"
    BY <1>3, <1>12, <2>1 DEF Write
  <2>2. CASE w[m].ret = "done"
    <3>1. w[m].goal \notin {"", "Pending"}
      BY <1>2, <1>12, <2>2 DEF TaskOK, Write, Tasks
    <3>2. CASE Return(m, "error")
      BY <1>3, <3>2
    <3>3. CASE Copy(m).phase = w[m].goal
      BY <3>1, <3>3
    <3>4. CASE Store(w[m].job, [Copy(m) EXCEPT !.phase = w[m].goal])
      <4> DEFINE version == [Copy(m) EXCEPT !.phase = w[m].goal]
      <4>1. hist'[w[m].job] = Append(hist[w[m].job], version)
        BY <1>2, <3>4 DEF Store, TypeOK
      <4>2. hist[w[m].job] \in Seq(Versions \cup {version})
        <5>1. hist[w[m].job] \in Seq(Versions)
          BY <1>2 DEF TypeOK
        <5> QED
          BY <5>1
      <4>3. Len(Append(hist[w[m].job], version)) = Len(hist[w[m].job]) + 1
        BY <4>2
      <4>4. Len(hist[w[m].job]) \in Nat
        BY <4>2
      <4>5. hist'[w[m].job] # hist[w[m].job]
        BY <4>1, <4>3, <4>4
      <4> QED
        BY <4>5
    <3>5. \/ Return(m, "error")
          \/ Copy(m).phase = w[m].goal
          \/ Store(w[m].job, [Copy(m) EXCEPT !.phase = w[m].goal])
      BY <1>12 DEF Write
    <3> QED
      BY <3>2, <3>3, <3>4, <3>5
  <2> QED
    BY <2>1, <2>2
<1> QED
  BY <1>6, <1>7, <1>8, <1>9, <1>10, <1>11, <1>12 DEF Step

\* A step of a reconcile loses track of no waiting job.
LEMMA StepKeepsTracked ==
    ASSUME TrackedInv, NEW m \in Managers, Step(m)
    PROVE  MovedOnIsQueued' /\ PendingJobIsTracked'
<1> USE DEF TrackedInv
<1>1. /\ Busy(m) /\ [Next]_vars
      /\ UNCHANGED <<seen, queue>>
      /\ \A n \in Managers \ {m} : w'[n] = w[n] /\ delayed'[n] = delayed[n]
      /\ delayed[m] \subseteq delayed'[m]
      /\ Busy(m)' => w'[m].job = w[m].job /\ w'[m].rv = w[m].rv
  BY StepMovesOn DEF MovesOn, Next
<1>2. MovedOnIsQueued'
  BY <1>1 DEF MovedOnIsQueued, Busy
<1>3. SUFFICES ASSUME NEW n \in Managers, NEW j \in Jobs, Alive(n)', Waits(j)',
                      hist'[j] = hist[j]
               PROVE  Tracked(n, j)'
  BY <1>1, <1>2, ChangeIsTracked DEF PendingJobIsTracked, Waits
<1>4. Alive(n) /\ Waits(j)
  BY <1>1, <1>3 DEF Alive, Busy, Waits, Stored
<1>5. Tracked(n, j)
  BY <1>4 DEF PendingJobIsTracked, Waits
<1>6. CASE ~(Busy(n) /\ w[n].job = j) \/ n # m
  BY <1>1, <1>3, <1>5, <1>6 DEF Tracked, Alive, Busy
<1>7. CASE n = m /\ Busy(m) /\ w[m].job = j
  <2>1. w[m].rv \in 1 .. seen[m][j] /\ seen[m][j] \in 1 .. Len(hist[j])
    BY <1>7, BusyHasTask DEF IInv, TypeOK
  <2>2. CASE w[m].rv < seen[m][j]
    BY <1>1, <1>3, <1>7, <2>2 DEF MovedOnIsQueued, Tracked
  <2>3. CASE seen[m][j] < Len(hist[j])
    BY <1>1, <1>3, <1>7, <2>3 DEF Tracked
  <2>4. CASE w[m].rv = Len(hist[j])
    <3>1. Copy(m) = Stored(j)
      BY <1>7, <2>4 DEF Copy, Stored
    <3>2. (Busy(m)' /\ w'[m].job = j) \/ j \in delayed'[m]
      BY <1>3, <1>4, <1>7, <3>1, ReturnIsSafe DEF Waits
    <3> QED
      BY <1>3, <1>7, <3>2 DEF Tracked
  <2> QED
    BY <2>1, <2>2, <2>3, <2>4
<1> QED
  BY <1>6, <1>7

\* The steps around a reconcile lose track of no waiting job, as long as the
\* cached read of a job does not fail.
LEMMA ManagerKeepsTracked ==
    ASSUME TrackedInv, FetchMayFail = FALSE, NEW m \in Managers, NEW i \in Jobs,
           \/ Deliver(m, i) \/ Resync(m, i) \/ DelayExpires(m, i)
           \/ Reconcile(m, i) \/ FetchFails(m, i)
    PROVE  MovedOnIsQueued' /\ PendingJobIsTracked'
<1> USE DEF TrackedInv
<1>1. /\ UNCHANGED hist
      /\ \A n \in Managers \ {m} :
            /\ w'[n] = w[n] /\ seen'[n] = seen[n]
            /\ queue'[n] = queue[n] /\ delayed'[n] = delayed[n]
      /\ ~FetchFails(m, i)
  BY DEF IInv, TypeOK, Deliver, Resync, DelayExpires, Reconcile, FetchFails,
     Dequeue, Enqueue
<1>2. \A n \in Managers, j \in Jobs :
          seen[n][j] \in 1 .. Len(hist[j]) /\ Len(hist[j]) \in Nat
  BY StoredIsVersion DEF IInv, TypeOK
<1>3. CASE Deliver(m, i)
  <2>1. /\ w' = w /\ delayed' = delayed
        /\ i \in queue'[m] /\ queue[m] \subseteq queue'[m]
        /\ \A j \in Jobs \ {i} : seen'[m][j] = seen[m][j]
    BY <1>3 DEF Deliver, Enqueue, IInv, TypeOK
  <2>2. \A n \in Managers : Busy(n) => w[n].job \in Jobs
    BY BusyHasTask DEF IInv
  <2>3. MovedOnIsQueued'
    BY <1>1, <2>1, <2>2 DEF MovedOnIsQueued, Busy
  <2>4. ASSUME NEW n \in Managers, NEW j \in Jobs, Tracked(n, j)
        PROVE  Tracked(n, j)'
    <3>1. CASE n = m /\ j = i
      BY <2>1, <2>4, <3>1 DEF Tracked, Alive
    <3>2. CASE ~(n = m /\ j = i)
      BY <1>1, <2>1, <2>4, <3>2 DEF Tracked, Alive, Busy
    <3> QED
      BY <3>1, <3>2
  <2> QED
    BY <1>1, <2>1, <2>3, <2>4 DEF PendingJobIsTracked, Alive, Stored
<1>4. CASE Resync(m, i) \/ DelayExpires(m, i)
  <2>1. /\ w' = w /\ seen' = seen
        /\ queue[m] \subseteq queue'[m]
        /\ delayed[m] \subseteq delayed'[m] \cup queue'[m]
    BY <1>4 DEF Resync, DelayExpires, Enqueue, IInv, TypeOK
  <2> QED
    BY <1>1, <2>1 DEF MovedOnIsQueued, PendingJobIsTracked, Tracked, Busy,
       Alive, Stored
<1>5. CASE Reconcile(m, i)
  <2> DEFINE copy == hist[i][seen[m][i]]
  <2>1. /\ w[m].pc = "idle" /\ seen' = seen /\ delayed' = delayed
        /\ queue'[m] = queue[m] \ {i}
        /\ \/ w' = w /\ copy.phase = "Complete"
           \/ w'[m].job = i /\ w'[m].rv = seen[m][i]
    BY <1>5 DEF Reconcile, Dequeue, IInv, TypeOK
  <2>2. MovedOnIsQueued'
    BY <1>1, <1>2, <2>1 DEF MovedOnIsQueued, Busy
  <2>3. \/ w' = w /\ copy.phase = "Complete"
        \/ Busy(m)' /\ w'[m].job = i
    BY <1>5 DEF Reconcile, Busy, Entry, IInv, TypeOK
  <2>4. ASSUME Stored(i).phase \in {"", "Pending"}
        PROVE  Tracked(m, i)'
    <3>1. CASE w' = w /\ copy.phase = "Complete"
      <4>1. seen[m][i] # Len(hist[i])
        BY <2>4, <3>1 DEF Stored
      <4> QED
        BY <1>1, <1>2, <2>1, <3>1, <4>1 DEF Tracked, Alive
    <3>2. CASE Busy(m)' /\ w'[m].job = i
      BY <3>2 DEF Tracked, Alive, Busy
    <3> QED
      BY <2>3, <3>1, <3>2
  <2>5. ASSUME NEW n \in Managers, NEW j \in Jobs, Alive(n)', Waits(j)'
        PROVE  Tracked(n, j)'
    <3>1. Alive(n) /\ Waits(j)
      BY <1>1, <2>1, <2>5 DEF Alive, Waits, Stored
    <3>2. Tracked(n, j)
      BY <3>1 DEF PendingJobIsTracked, Waits
    <3>3. CASE n # m
      BY <1>1, <2>1, <2>5, <3>2, <3>3 DEF Tracked, Busy, Alive
    <3>4. CASE n = m /\ j # i
      BY <1>1, <2>1, <2>5, <3>2, <3>4 DEF Tracked, Busy, Alive
    <3> QED
      BY <2>4, <3>1, <3>3, <3>4 DEF Waits
  <2> QED
    BY <2>2, <2>5 DEF PendingJobIsTracked, Waits
<1> QED
  BY <1>1, <1>3, <1>4, <1>5

\* A manager that restarts tracks every job that exists.
LEMMA RestartKeepsTracked ==
    ASSUME TrackedInv, NEW m \in Managers, Crash(m) \/ Restart(m)
    PROVE  MovedOnIsQueued' /\ PendingJobIsTracked'
<1> USE DEF TrackedInv
<1>1. /\ UNCHANGED hist
      /\ \A n \in Managers \ {m} :
            /\ w'[n] = w[n] /\ seen'[n] = seen[n]
            /\ queue'[n] = queue[n] /\ delayed'[n] = delayed[n]
      /\ ~Busy(m)'
  BY DEF IInv, TypeOK, Crash, Restart, Busy, Idle, Down
<1>2. MovedOnIsQueued'
  BY <1>1 DEF MovedOnIsQueued, Busy
<1>3. ASSUME Alive(m)', NEW j \in Jobs, Waits(j)
      PROVE  j \in queue'[m]
  <2>1. ~Crash(m)
    BY <1>3 DEF Crash, Alive, Down, IInv, TypeOK
  <2>2. Exists(j)
    BY <1>3 DEF Waits, Exists
  <2> QED
    BY <2>1, <2>2 DEF Restart, IInv, TypeOK
<1>4. ASSUME NEW n \in Managers, NEW j \in Jobs, Alive(n)', Waits(j)'
      PROVE  Tracked(n, j)'
  <2>1. Waits(j)
    BY <1>1, <1>4 DEF Waits, Stored
  <2>2. CASE n = m
    BY <1>3, <1>4, <2>1, <2>2 DEF Tracked
  <2>3. CASE n # m
    BY <1>1, <1>4, <2>1, <2>3 DEF PendingJobIsTracked, Tracked, Waits, Alive, Busy
  <2> QED
    BY <2>2, <2>3
<1> QED
  BY <1>2, <1>4 DEF PendingJobIsTracked, Waits

\* What users and kubelets do brings a watch event if it makes a job wait.
LEMMA EnvironmentKeepsTracked ==
    ASSUME TrackedInv, NEW i \in Jobs, Environment(i)
    PROVE  MovedOnIsQueued' /\ PendingJobIsTracked'
<1> USE DEF TrackedInv
<1>1. UNCHANGED <<seen, queue, delayed, w>> /\ [Next]_vars
  BY DEF Environment, UserCreates, UserEdits, UserDeletes, UserStores, PodStarts,
     PodEnds, PodRemoved, PodEvicted, KubeletSets, Next
<1>2. MovedOnIsQueued'
  BY <1>1 DEF MovedOnIsQueued, Busy
<1>3. ASSUME NEW n \in Managers, NEW j \in Jobs, Alive(n)', Waits(j)'
      PROVE  Tracked(n, j)'
  <2>1. CASE hist'[j] # hist[j]
    BY <1>1, <1>3, <2>1, ChangeIsTracked
  <2>2. CASE hist'[j] = hist[j]
    BY <1>1, <1>3, <2>2 DEF PendingJobIsTracked, Tracked, Waits, Alive, Busy, Stored
  <2> QED
    BY <2>1, <2>2
<1> QED
  BY <1>2, <1>3 DEF PendingJobIsTracked, Waits

\* Before a manager has seen anything there is nothing to lose.
LEMMA InitIsTracked == Init => TrackedInv
<1>1. ASSUME Init PROVE MovedOnIsQueued /\ PendingJobIsTracked
  <2>1. \A m \in Managers : ~Busy(m)
    BY <1>1 DEF Init, Idle, Busy
  <2>2. \A j \in Jobs : ~Waits(j)
    BY <1>1 DEF Init, Waits, Stored, Tombstone
  <2> QED
    BY <2>1, <2>2 DEF MovedOnIsQueued, PendingJobIsTracked, Waits
<1> QED
  BY <1>1, InitEstablishesIInv DEF TrackedInv

\* No step loses a waiting job, unless it is a cached read that fails.
LEMMA NextKeepsTracked ==
    ASSUME FetchMayFail = FALSE, TrackedInv, [Next]_vars
    PROVE  TrackedInv'
<1> SUFFICES MovedOnIsQueued' /\ PendingJobIsTracked'
  BY NextKeepsIInv DEF TrackedInv
<1>1. CASE UNCHANGED vars
  BY <1>1 DEF vars, TrackedInv, MovedOnIsQueued, PendingJobIsTracked, Tracked,
     Alive, Busy, Stored
<1>2. ASSUME NEW m \in Managers, NEW j \in Jobs,
             \/ Deliver(m, j) \/ Resync(m, j) \/ DelayExpires(m, j)
             \/ Reconcile(m, j) \/ FetchFails(m, j)
      PROVE  MovedOnIsQueued' /\ PendingJobIsTracked'
  BY <1>2, ManagerKeepsTracked
<1>3. ASSUME NEW m \in Managers, Step(m)
      PROVE  MovedOnIsQueued' /\ PendingJobIsTracked'
  BY <1>3, StepKeepsTracked
<1>4. ASSUME NEW m \in Managers, Crash(m) \/ Restart(m)
      PROVE  MovedOnIsQueued' /\ PendingJobIsTracked'
  BY <1>4, RestartKeepsTracked
<1>5. ASSUME NEW j \in Jobs, Environment(j)
      PROVE  MovedOnIsQueued' /\ PendingJobIsTracked'
  BY <1>5, EnvironmentKeepsTracked
<1> QED
  BY <1>1, <1>2, <1>3, <1>4, <1>5 DEF Next

\* No waiting job is ever lost by a running manager, through crashes, restarts,
\* conflicts and failed calls, as long as the cached read of a job does not
\* fail: Reconcile drops the job when it does.
THEOREM PendingJobsAreTracked ==
    ASSUME FetchMayFail = FALSE
    PROVE  Spec => []PendingJobIsTracked
<1>1. TrackedInv /\ [Next]_vars => TrackedInv'
  BY NextKeepsTracked
<1>2. TrackedInv => PendingJobIsTracked
  BY DEF TrackedInv
<1> QED
  BY <1>1, <1>2, InitIsTracked, PTL DEF Spec

-----------------------------------------------------------------------------
(* The refinement of JobLifecycle. *)

\* A version stored for a job becomes its stored version, and no other job's
\* changes.
LEMMA StorePhases ==
    ASSUME TypeOK, NEW j \in Jobs, NEW version \in Versions, Store(j, version)
    PROVE  [i \in Jobs |-> Stored(i).phase]' =
              [[i \in Jobs |-> Stored(i).phase] EXCEPT ![j] = version.phase]
<1>1. Stored(j)' = version
  BY StoreAppends DEF Stored
<1>2. ASSUME NEW i \in Jobs, i # j PROVE Stored(i)' = Stored(i)
  BY <1>2 DEF Store, TypeOK, Stored
<1> QED
  BY <1>1, <1>2

\* Every step moves the stored phases as the lifecycle allows, or not at all.
LEMMA NextFollowsLifecycle ==
    ASSUME IInv, [Next]_vars
    PROVE  [Lifecycle!Next]_[j \in Jobs |-> Stored(j).phase]
<1> DEFINE phase == [j \in Jobs |-> Stored(j).phase]
<1> USE DEF IInv
<1>1. CASE UNCHANGED hist
  BY <1>1 DEF Stored
<1>2. ASSUME NEW m \in Managers, Step(m)
      PROVE  [Lifecycle!Next]_phase
  <2> DEFINE j == w[m].job
             version == [Copy(m) EXCEPT !.phase = w[m].goal]
  <2>1. j \in Jobs /\ w[m] \in Tasks /\ TaskOK(w[m], Copy(m)) /\ Copy(m) \in Versions
    BY <1>2, StepMovesOn, BusyHasTask DEF TasksOK
  <2>2. CASE UNCHANGED hist
    BY <1>1, <2>2
  <2>3. CASE Write(m) /\ w[m].rv = Len(hist[j]) /\ version \in Versions /\ Store(j, version)
             /\ Copy(m).phase # w[m].goal
    <3>1. phase[j] = Copy(m).phase
      BY <2>1, <2>3 DEF Copy, Stored
    <3>2. version.phase = w[m].goal
      <4>1. Copy(m) # Tombstone
        <5>1. Copy(m).phase # "Absent"
          BY <2>1, <2>3 DEF Write, TaskOK, Active
        <5> QED
          BY <5>1 DEF Tombstone
      <4> QED
        BY <2>1, <4>1 DEF Versions
    <3>3. phase' = [phase EXCEPT ![j] = w[m].goal]
      BY <2>1, <2>3, <3>2, StorePhases
    <3>4. \/ phase[j] \in {"", "Pending"} /\ w[m].goal = "Running"
          \/ phase[j] = "Running" /\ w[m].goal = "Pending"
          \/ phase[j] \in Active /\ w[m].goal \in {"Complete", "Failed"}
      BY <2>1, <2>3, <3>1 DEF Write, TaskOK, Tasks, Active
    <3>5. Lifecycle!Start(j) \/ Lifecycle!Lose(j) \/ Lifecycle!End(j)
      BY <3>3, <3>4 DEF Lifecycle!Start, Lifecycle!Lose, Lifecycle!End,
         Lifecycle!Move, Lifecycle!Waiting, Lifecycle!Ended, Active
    <3> QED
      BY <2>1, <3>5 DEF Lifecycle!Next
  <2> QED
    BY <1>2, <2>2, <2>3, StepHistory
<1>3. ASSUME NEW j \in Jobs, UserCreates(j) \/ UserEdits(j) \/ UserDeletes(j)
      PROVE  [Lifecycle!Next]_phase
  <2>1. Stored(j) \in Versions /\ phase[j] = Stored(j).phase
    BY StoredIsVersion
  <2>2. CASE UserCreates(j)
    <3>1. PICK spec \in Specs :
              UserStores(j, [phase |-> "", spec |-> spec, deleting |-> FALSE])
      BY <2>2 DEF UserCreates
    <3>2. [phase |-> "", spec |-> spec, deleting |-> FALSE] \in Versions
      BY DEF Versions, Phases
    <3>3. phase' = [phase EXCEPT ![j] = ""]
      BY <3>1, <3>2, StorePhases DEF UserStores
    <3>4. phase[j] = "Absent"
      BY <2>1, <2>2 DEF UserCreates, Exists
    <3> QED
      BY <3>3, <3>4 DEF Lifecycle!Next, Lifecycle!Create, Lifecycle!Move
  <2>3. CASE UserEdits(j) \/ UserDeletes(j)
    <3>1. Stored(j) \in [phase : Phases, spec : Specs, deleting : BOOLEAN]
      BY <2>1, <2>3 DEF UserEdits, UserDeletes, Exists, Versions, Tombstone
    <3>2. CASE Store(j, Tombstone)
      <4>1. phase' = [phase EXCEPT ![j] = "Absent"]
        BY <3>2, StorePhases DEF Versions, Tombstone
      <4>2. phase[j] \in Phases
        BY <2>1, <3>1
      <4>3. Lifecycle!Delete(j)
        BY <4>1, <4>2 DEF Lifecycle!Delete, Lifecycle!Move, Lifecycle!Waiting,
           Lifecycle!Ended, Phases
      <4> QED
        BY <4>3 DEF Lifecycle!Next
    <3>3. ASSUME NEW version \in Versions, Store(j, version),
                 version.phase = Stored(j).phase
          PROVE  UNCHANGED phase
      BY <2>1, <3>3, StorePhases
    <3>4. ASSUME NEW spec \in Specs
          PROVE  /\ [Stored(j) EXCEPT !.spec = spec] \in Versions
                 /\ [Stored(j) EXCEPT !.spec = spec].phase = Stored(j).phase
      BY <3>1, <3>4 DEF Versions
    <3>5. /\ [Stored(j) EXCEPT !.deleting = TRUE] \in Versions
          /\ [Stored(j) EXCEPT !.deleting = TRUE].phase = Stored(j).phase
      BY <3>1 DEF Versions
    <3>6. CASE UserEdits(j)
      BY <3>3, <3>4, <3>6 DEF UserEdits, UserStores
    <3>7. CASE UserDeletes(j)
      BY <3>2, <3>3, <3>5, <3>7 DEF UserDeletes, UserStores
    <3> QED
      BY <2>3, <3>6, <3>7
  <2> QED
    BY <1>3, <2>2, <2>3
<1>4. \/ UNCHANGED hist
      \/ \E m \in Managers : Step(m)
      \/ \E j \in Jobs : UserCreates(j) \/ UserEdits(j) \/ UserDeletes(j)
  BY DEF Next, vars, Deliver, Resync, DelayExpires, Reconcile, FetchFails, Dequeue,
     Crash, Restart, Environment, PodStarts, PodEnds, PodRemoved, PodEvicted,
     KubeletSets
<1> QED
  BY <1>1, <1>2, <1>3, <1>4

\* The controller implements the lifecycle promised to users, for any number
\* of managers at once: terminal phases are left by deletion alone.
THEOREM RefinesLifecycle == Spec => FollowsLifecycle
<1>1. Init => IInv
  BY InitEstablishesIInv
<1>2. IInv /\ [Next]_vars => IInv'
  BY NextKeepsIInv
<1>3. Init => Lifecycle!Init
  <2> SUFFICES ASSUME Init PROVE [j \in Jobs |-> Stored(j).phase] = [j \in Jobs |-> "Absent"]
    BY DEF Lifecycle!Init
  <2> QED
    BY DEF Init, Stored, Tombstone
<1>4. IInv /\ [Next]_vars => [Lifecycle!Next]_[j \in Jobs |-> Stored(j).phase]
  BY NextFollowsLifecycle
<1> QED
  BY <1>1, <1>2, <1>3, <1>4, PTL DEF Spec, FollowsLifecycle, Lifecycle!Spec

=============================================================================
