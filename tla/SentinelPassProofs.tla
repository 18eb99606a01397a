------------------------- MODULE SentinelPassProofs -------------------------
(***************************************************************************)
(* Theorems about Sentinel: the operator as a whole implements GpuNodes,   *)
(* the node pass with any passes and pods around it, so that what is       *)
(* proved of the pass carries over.                                        *)
(***************************************************************************)
EXTENDS SentinelProofs

\* The pods as the node pass sees them.
Views == [j \in Jobs |-> View(pods[j], node[j])]

\* The types of what HPCJobController does not have.
BindingsOK ==
    /\ node \in [Jobs -> Hosts \cup {Nowhere}]
    /\ nodeFaults \in 0 .. MaxNodeFaults

WholeInv == Alone!IInv /\ BindingsOK

-----------------------------------------------------------------------------
(* The calls of a pass: they are those of GpuNodes, which counts the faults *)
(* of the controller's managers as well.                                   *)

\* The pods on a node have the same GPUs whoever counts.
LEMMA CountsAgree ==
    ASSUME NEW n
    PROVE  Pass!Allocated(n) = WholePass!Allocated(n) /\ Pass!Free(n) = WholePass!Free(n)
BY DEF Pass!Allocated, WholePass!Allocated, Pass!Free, WholePass!Free, Pass!On,
   WholePass!On, Pass!Requested, WholePass!Requested, Pass!MapThenSumSet,
   WholePass!MapThenSumSet, Pass!MapThenFoldSet, WholePass!MapThenFoldSet

\* A failed call of a pass is a fault of the whole, and within its bound.
LEMMA FaultAgrees ==
    ASSUME WholeInv, UNCHANGED crashes
    PROVE  /\ Pass!Fault => WholePass!Fault
           /\ nodeFaults' = nodeFaults => UNCHANGED (nodeFaults + crashes)
<1>1. MaxNodeFaults \in Nat /\ MaxCrashes \in Nat
  BY SentinelAssumption
<1>2. crashes \in 0 .. MaxCrashes /\ nodeFaults \in 0 .. MaxNodeFaults
  BY DEF WholeInv, Alone!IInv, Alone!TypeOK, BindingsOK
<1>3. Pass!Fault => WholePass!Fault
  BY <1>1, <1>2 DEF Pass!Fault, WholePass!Fault
<1> QED
  BY <1>3

\* So is every call.
LEMMA CallAgrees ==
    ASSUME WholeInv, UNCHANGED crashes, Submitted' = Submitted, NEW m \in Managers,
           Pass!Step(m)
    PROVE  WholePass!Step(m)
<1> USE FaultAgrees DEF Pass!nodeVars, WholePass!nodeVars, Pass!world, WholePass!world,
        Pass!EndPass, WholePass!EndPass, Pass!Idle, WholePass!Idle
<1>1. CASE Pass!List(m)
  BY <1>1 DEF Pass!List, WholePass!List, WholePass!Step
<1>2. CASE Pass!ScanHealth(m)
  BY <1>2 DEF Pass!ScanHealth, WholePass!ScanHealth, WholePass!Step
<1>3. CASE Pass!CountPods(m)
  BY <1>3, CountsAgree DEF Pass!CountPods, WholePass!CountPods, WholePass!Step
<1>4. CASE Pass!Restore(m)
  BY <1>4 DEF Pass!Restore, WholePass!Restore, WholePass!Step
<1>5. CASE Pass!Isolate(m)
  BY <1>5 DEF Pass!Isolate, WholePass!Isolate, WholePass!Step
<1>6. Pass!Candidates(m) = WholePass!Candidates(m) /\ (Pass!Synced(m) <=> WholePass!Synced(m))
  BY DEF Pass!Candidates, WholePass!Candidates, Pass!Synced, WholePass!Synced
<1>7. CASE Pass!NoCapacity(m)
  BY <1>6, <1>7 DEF Pass!NoCapacity, WholePass!NoCapacity, WholePass!Step
<1>8. CASE Pass!Create(m)
  BY <1>6, <1>8 DEF Pass!Create, WholePass!Create, WholePass!Step, Pass!NoPod,
     WholePass!NoPod, Pass!Unscheduled, WholePass!Unscheduled
<1> QED
  BY <1>1, <1>2, <1>3, <1>4, <1>5, <1>7, <1>8 DEF Pass!Step

-----------------------------------------------------------------------------
(* What the controller does to the jobs that were ever submitted and to the *)
(* pods as the pass sees them.                                              *)

\* A version stored for a job that exists makes it submitted, and no other.
LEMMA StoreSubmits ==
    ASSUME Alone!TypeOK, NEW j \in Jobs, NEW version \in Alone!Versions,
           Alone!Store(j, version), j \in Submitted \/ version.phase # "Absent"
    PROVE  Submitted' = Submitted \cup {j}
<1>1. \A i \in Jobs : Len(hist[i]) \in Nat
  BY DEF Alone!TypeOK
<1>2. \A i \in Jobs :
          /\ Len(hist'[i]) = IF i = j THEN Len(hist[i]) + 1 ELSE Len(hist[i])
          /\ \A v \in 1 .. Len(hist[i]) : hist'[i][v] = hist[i][v]
  BY AlonesConstants, Alone!StoreAppends
<1>3. hist'[j][Len(hist'[j])] = version
  BY AlonesConstants, Alone!StoreAppends
<1>4. ASSUME NEW i \in Jobs, i # j
      PROVE  i \in Submitted' <=> i \in Submitted
  BY <1>1, <1>2, <1>4 DEF Submitted
<1>5. Submitted \subseteq Submitted'
  BY <1>1, <1>2 DEF Submitted
<1>6. j \in Submitted'
  <2>1. CASE j \in Submitted
    BY <1>5, <2>1
  <2>2. CASE version.phase # "Absent"
    <3>1. Len(hist'[j]) \in 1 .. Len(hist'[j])
      BY <1>1, <1>2
    <3> QED
      BY <1>3, <2>2, <3>1 DEF Submitted
  <2> QED
    BY <2>1, <2>2
<1>7. Submitted \subseteq Jobs /\ Submitted' \subseteq Jobs
  BY DEF Submitted
<1> QED
  BY <1>4, <1>5, <1>6, <1>7

\* No call of a reconcile submits a job.
LEMMA CallSubmitsNone ==
    ASSUME Alone!IInv, NEW m \in Managers, Controller!Step(m)
    PROVE  Submitted' = Submitted
<1>1. Alone!Step(m)
  BY StepsAreAlones
<1>2. CASE UNCHANGED hist
  BY <1>2 DEF Submitted
<1>3. CASE ~UNCHANGED hist
  <2> DEFINE j == w[m].job
             version == [Alone!Copy(m) EXCEPT !.phase = w[m].goal]
  <2>1. /\ Alone!Write(m)
        /\ version \in Alone!Versions
        /\ Alone!Store(j, version)
    BY <1>1, <1>3, AlonesConstants, Alone!StepHistory
  <2>2. /\ Alone!Busy(m)
        /\ j \in Jobs /\ w[m].rv \in 1 .. Len(hist[j])
        /\ Alone!TaskOK(w[m], Alone!Copy(m))
    <3>1. Alone!Busy(m)
      BY <2>1 DEF Alone!Write, Alone!Busy
    <3> QED
      BY <3>1, AlonesConstants, Alone!BusyHasTask DEF Alone!IInv, Alone!TasksOK
  <2>3. Alone!Copy(m).phase # "Absent"
    BY <2>1, <2>2 DEF Alone!TaskOK, Alone!Write, Alone!Active
  <2>4. j \in Submitted
    BY <2>2, <2>3 DEF Submitted, Alone!Copy
  <2> QED
    BY <2>1, <2>2, <2>4, StoreSubmits DEF Alone!IInv
<1> QED
  BY <1>2, <1>3

\* What the pass sees of a pod that changes, or moves to another node.
LEMMA OnePodShows ==
    ASSUME WholeInv, NEW j \in Jobs, NEW pod, NEW n,
           pods' = [pods EXCEPT ![j] = pod],
           node' = [node EXCEPT ![j] = n]
    PROVE  Views' = [Views EXCEPT ![j] = View(pod, n)]
<1>1. /\ pods'[j] = pod /\ node'[j] = n
      /\ \A i \in Jobs \ {j} : pods'[i] = pods[i] /\ node'[i] = node[i]
  BY DEF WholeInv, Alone!IInv, Alone!TypeOK, BindingsOK
<1>2. \A i \in Jobs : Views'[i] = IF i = j THEN View(pod, n) ELSE Views[i]
  BY <1>1 DEF Views
<1> QED
  BY <1>2 DEF Views

\* Deleting a pod does not show until the kubelet has removed it.
LEMMA TerminatingDoesNotShow ==
    ASSUME WholeInv, NEW j \in Jobs, UNCHANGED node,
           pods' = [pods EXCEPT ![j] = [pods[j] EXCEPT !.terminating = TRUE]]
    PROVE  UNCHANGED Views
<1> DEFINE pod == [pods[j] EXCEPT !.terminating = TRUE]
<1>1. pods[j] \in Alone!Pods
  BY DEF WholeInv, Alone!IInv, Alone!TypeOK
<1>2. pod.phase = pods[j].phase
  BY <1>1 DEF Alone!Pods
<1>3. node' = [node EXCEPT ![j] = node[j]]
  BY DEF WholeInv, BindingsOK
<1>4. View(pod, node[j]) = Views[j]
  BY <1>2 DEF View, Views
<1>5. Views' = [Views EXCEPT ![j] = View(pod, node[j])]
  BY <1>3, OnePodShows
<1> QED
  BY <1>4, <1>5 DEF Views

\* The calls that have nothing to do with nodes change nothing the pass sees.
LEMMA OtherCallsDoNotShow ==
    ASSUME WholeInv, NEW m \in Managers, OtherCall(m)
    PROVE  UNCHANGED WholePass!vars
<1>1. Controller!Step(m) /\ Alone!Step(m) /\ UNCHANGED <<passVars, node, crashes>>
  BY StepsAreAlones DEF OtherCall, Controller!Step, Controller!ScanFails,
     Controller!ScanFindsPod, Controller!Cleanup, Controller!List, Controller!Delete,
     Controller!Finalizer, Controller!Write
<1>2. Submitted' = Submitted
  BY <1>1, CallSubmitsNone DEF WholeInv
<1>3. UNCHANGED pods \/ pods' = [pods EXCEPT ![w[m].job].terminating = TRUE]
  BY DEF OtherCall, Controller!ScanFails, Controller!ScanFindsPod, Controller!Cleanup,
     Controller!List, Controller!Delete, Controller!Finalizer, Controller!Write,
     Controller!Terminate
<1>4. w[m].job \in Jobs
  BY <1>1, AlonesConstants, Alone!StepMovesOn, Alone!BusyHasTask DEF WholeInv, Alone!IInv
<1>5. UNCHANGED Views
  <2>1. CASE UNCHANGED pods
    BY <1>1, <2>1 DEF Views
  <2>2. CASE pods' = [pods EXCEPT ![w[m].job].terminating = TRUE]
    <3>1. pods' = [pods EXCEPT ![w[m].job] = [pods[w[m].job] EXCEPT !.terminating = TRUE]]
      BY <2>2
    <3> QED
      BY <1>1, <1>4, <3>1, TerminatingDoesNotShow
  <2> QED
    BY <1>3, <2>1, <2>2
<1> QED
  BY <1>1, <1>2, <1>5 DEF passVars, Views, WholePass!vars

-----------------------------------------------------------------------------
(* Every step of the operator is one of GpuNodes, or shows nothing of itself *)
(* to it.                                                                    *)

\* A pass begins for a job that has been submitted.
LEMMA BeginAgrees ==
    ASSUME WholeInv, NEW m \in Managers, ScanFindsNoPod(m)
    PROVE  [WholePass!Next]_(WholePass!vars)
<1> DEFINE j == w[m].job
<1>1. /\ Controller!Step(m) /\ w[m].pc = "scan"
      /\ UNCHANGED <<pods, node, crashes>>
  BY DEF ScanFindsNoPod, Controller!ScanFindsNoPod, Controller!Step
<1>2. Submitted' = Submitted
  BY <1>1, CallSubmitsNone DEF WholeInv
<1>3. CASE w'[m].pc # "nodes"
  BY <1>1, <1>2, <1>3 DEF ScanFindsNoPod, passVars, WholePass!vars
<1>4. CASE w'[m].pc = "nodes"
  <2>1. Alone!Busy(m)
    BY <1>1 DEF Alone!Busy
  <2>2. /\ j \in Jobs /\ w[m].rv \in 1 .. Len(hist[j])
        /\ Alone!TaskOK(w[m], Alone!Copy(m))
    BY <2>1, AlonesConstants, Alone!BusyHasTask DEF WholeInv, Alone!IInv, Alone!TasksOK
  <2>3. j \in Submitted
    BY <1>1, <2>2 DEF Submitted, Alone!TaskOK, Alone!Copy, Alone!Active
  <2>4. Pass!Begin(m, j)
    BY <1>4 DEF ScanFindsNoPod
  <2>5. WholePass!Begin(m, j)
    BY <1>1, <1>2, <2>3, <2>4 DEF Pass!Begin, WholePass!Begin, Pass!Idle, WholePass!Idle,
       Pass!NoPod, WholePass!NoPod, Pass!nodeVars, WholePass!nodeVars, Pass!world,
       WholePass!world
  <2> QED
    BY <2>2, <2>5 DEF WholePass!Next
<1> QED
  BY <1>3, <1>4

\* The other steps of a worker.
LEMMA StepAgrees ==
    ASSUME WholeInv, NEW m \in Managers, Step(m)
    PROVE  [WholePass!Next]_(WholePass!vars)
<1>1. CASE ScanFindsNoPod(m)
  BY <1>1, BeginAgrees
<1>2. CASE PassGoesOn(m) \/ PassEnds(m) \/ Create(m)
  <2>1. UNCHANGED <<hist, crashes>>
    BY <1>2 DEF PassGoesOn, PassEnds, Create, Controller!Nodes, Controller!Create,
       controllerVars
  <2>2. Submitted' = Submitted
    BY <2>1 DEF Submitted
  <2>3. Pass!Step(m)
    BY <1>2 DEF PassGoesOn, PassEnds, Create, Pass!Step
  <2> QED
    BY <2>1, <2>2, <2>3, CallAgrees DEF WholePass!Next
<1>3. CASE PassFindsRoom(m)
  BY <1>3 DEF PassFindsRoom, Controller!Nodes, passVars, WholePass!vars, Submitted
<1>4. CASE OtherCall(m)
  BY <1>4, OtherCallsDoNotShow
<1> QED
  BY <1>1, <1>2, <1>3, <1>4 DEF Step

\* A manager that dies is a fault of the whole.
LEMMA CrashAgrees ==
    ASSUME WholeInv, NEW m \in Managers, Crash(m)
    PROVE  WholePass!Crash(m)
<1>1. MaxNodeFaults \in Nat /\ MaxCrashes \in Nat
  BY SentinelAssumption
<1>2. crashes \in 0 .. MaxCrashes /\ nodeFaults \in 0 .. MaxNodeFaults
  BY DEF WholeInv, Alone!IInv, Alone!TypeOK, BindingsOK
<1>3. /\ crashes < MaxCrashes /\ crashes' = crashes + 1 /\ nodeFaults' = nodeFaults
      /\ UNCHANGED <<hist, pods, node, taints, density, health, quarantined, flips>>
      /\ pass' = [pass EXCEPT ![m] = Pass!Idle]
  BY DEF Crash, Controller!Crash
<1>4. WholePass!Fault
  BY <1>1, <1>2, <1>3 DEF WholePass!Fault
<1> QED
  BY <1>3, <1>4 DEF WholePass!Crash, WholePass!EndPass, Pass!Idle, WholePass!Idle,
     WholePass!nodeVars, WholePass!world, Submitted

\* Users submit jobs; what they delete stays submitted.
LEMMA UserAgrees ==
    ASSUME WholeInv, NEW j \in Jobs, UserSubmits(j) \/ UserDeletes(j)
    PROVE  [WholePass!Next]_(WholePass!vars)
<1>1. UNCHANGED <<pods, crashes, passVars, node>>
  BY DEF UserSubmits, UserDeletes, Controller!UserCreates, Controller!UserDeletes,
     Controller!UserStores
<1>2. Alone!TypeOK /\ Alone!Stored(j) \in Alone!Versions /\ Len(hist[j]) \in Nat \ {0}
  BY AlonesConstants, Alone!StoredIsVersion DEF WholeInv, Alone!IInv
<1>3. Submitted' = Submitted \cup {j}
  <2>1. CASE UserSubmits(j)
    <3>1. PICK spec \in {[image |-> Image, gpuCount |-> GpuCount[i]] : i \in Jobs} :
              Alone!Store(j, [phase |-> "", spec |-> spec, deleting |-> FALSE])
      BY <2>1 DEF UserSubmits, Controller!UserCreates, Controller!UserStores,
         Controller!Store, Alone!Store
    <3>2. [phase |-> "", spec |-> spec, deleting |-> FALSE] \in Alone!Versions
      BY DEF Alone!Versions, Alone!Phases
    <3> QED
      BY <1>2, <3>1, <3>2, StoreSubmits
  <2>2. CASE UserDeletes(j)
    <3>1. Alone!Stored(j).phase # "Absent"
      BY <2>2 DEF UserDeletes, Controller!UserDeletes, Controller!Exists,
         Controller!Stored, Alone!Stored
    <3>2. Len(hist[j]) \in 1 .. Len(hist[j])
      BY <1>2
    <3>3. j \in Submitted
      BY <3>1, <3>2 DEF Submitted, Alone!Stored
    <3>4. PICK version \in {[Alone!Stored(j) EXCEPT !.deleting = TRUE], Alone!Tombstone} :
              Alone!Store(j, version)
      BY <2>2 DEF UserDeletes, Controller!UserDeletes, Controller!UserStores,
         Controller!Store, Alone!Store, Controller!Stored, Alone!Stored,
         Controller!Tombstone, Alone!Tombstone
    <3>5. version \in Alone!Versions
      BY <1>2, <3>1 DEF Alone!Versions, Alone!Tombstone
    <3> QED
      BY <1>2, <3>3, <3>4, <3>5, StoreSubmits
  <2> QED
    BY <2>1, <2>2
<1>4. CASE j \in Submitted
  BY <1>1, <1>3, <1>4 DEF passVars, WholePass!vars
<1>5. CASE j \notin Submitted
  <2>1. WholePass!JobWaits(j)
    BY <1>1, <1>3, <1>5 DEF WholePass!JobWaits, WholePass!nodeVars, passVars
  <2> QED
    BY <2>1 DEF WholePass!Next
<1> QED
  BY <1>4, <1>5

\* The scheduler counts the same pods and sees the same taints.
LEMMA ScheduleAgrees ==
    ASSUME NEW j \in Jobs, Schedule(j)
    PROVE  WholePass!Schedule(j)
<1>1. /\ UNCHANGED <<hist, crashes, nodeFaults>>
      /\ Pass!Schedule(j)
  BY DEF Schedule, controllerVars
<1> QED
  BY <1>1, CountsAgree DEF Pass!Schedule, WholePass!Schedule, Pass!Unscheduled,
     WholePass!Unscheduled, Pass!nodeVars, WholePass!nodeVars, Pass!world,
     WholePass!world, Submitted

\* The kubelets: only the end and the removal of a pod show.
LEMMA PodAgrees ==
    ASSUME WholeInv, NEW j \in Jobs,
           PodStarts(j) \/ PodEnds(j) \/ PodRemoved(j) \/ PodEvicted(j)
    PROVE  [WholePass!Next]_(WholePass!vars)
<1>1. UNCHANGED <<hist, crashes, passVars>>
  BY DEF PodStarts, PodEnds, PodRemoved, PodEvicted, Controller!PodStarts,
     Controller!PodEnds, Controller!PodRemoved, Controller!PodEvicted,
     Controller!KubeletSets
<1>2. pods[j] \in Alone!Pods /\ node[j] \in Hosts \cup {Nowhere}
  BY DEF WholeInv, Alone!IInv, Alone!TypeOK, BindingsOK
<1>3. Submitted' = Submitted
  BY <1>1 DEF Submitted
<1>4. UNCHANGED Views => UNCHANGED WholePass!vars
  BY <1>1, <1>3 DEF Views, passVars, WholePass!vars
<1>5. node' = node => node' = [node EXCEPT ![j] = node[j]]
  BY DEF WholeInv, BindingsOK
<1>6. CASE PodStarts(j)
  <2> DEFINE pod == [pods[j] EXCEPT !.phase = "Running"]
  <2>1. /\ pods[j].phase = "Pending" /\ node' = node
        /\ pods' = [pods EXCEPT ![j] = pod]
    BY <1>6 DEF PodStarts, Controller!PodStarts, Controller!KubeletSets
  <2>2. View(pod, node[j]) = Views[j]
    BY <1>2, <2>1 DEF View, Views, Alone!Pods
  <2>3. Views' = [Views EXCEPT ![j] = View(pod, node[j])]
    BY <1>5, <2>1, OnePodShows
  <2> QED
    BY <1>4, <2>2, <2>3 DEF Views
<1>7. CASE PodEnds(j)
  <2>1. PICK phase \in {"Succeeded", "Failed"} :
            pods' = [pods EXCEPT ![j] = [pods[j] EXCEPT !.phase = phase]]
    BY <1>7 DEF PodEnds, Controller!PodEnds, Controller!KubeletSets
  <2> DEFINE pod == [pods[j] EXCEPT !.phase = phase]
  <2>2. /\ node[j] # Nowhere /\ node' = node
        /\ pods[j].phase \in {"Pending", "Running"}
    BY <1>7 DEF PodEnds, Controller!PodEnds
  <2>3. Views[j] = [phase |-> "Active", node |-> node[j]]
    BY <2>2 DEF View, Views
  <2>4. View(pod, node[j]) = [phase |-> phase, node |-> node[j]]
    BY <1>2, <2>2 DEF View, Alone!Pods
  <2>5. Views' = [Views EXCEPT ![j] = View(pod, node[j])]
    BY <1>5, <2>1, <2>2, OnePodShows
  <2>6. [Views[j] EXCEPT !.phase = phase] = View(pod, node[j])
    BY <2>3, <2>4
  <2>7. Views' = [Views EXCEPT ![j].phase = phase]
    BY <2>5, <2>6
  <2>8. WholePass!PodEnds(j)
    <3>1. Views[j].phase = "Active"
      BY <2>3
    <3>2. \E ph \in {"Succeeded", "Failed"} : Views' = [Views EXCEPT ![j].phase = ph]
      BY <2>7
    <3>3. UNCHANGED <<taints, density, health, Submitted, flips, pass, quarantined,
                      nodeFaults + crashes>>
      BY <1>1, <1>3 DEF passVars
    <3> QED
      BY <3>1, <3>2, <3>3 DEF WholePass!PodEnds, WholePass!nodeVars, WholePass!world, Views
  <2> QED
    BY <2>8 DEF WholePass!Next
<1>8. CASE PodRemoved(j)
  <2>1. /\ pods' = [pods EXCEPT ![j] = Controller!NoPod]
        /\ node' = [node EXCEPT ![j] = Nowhere]
    BY <1>8 DEF PodRemoved, Controller!PodRemoved, Controller!KubeletSets
  <2>2. View(Controller!NoPod, Nowhere) = WholePass!NoPod
    BY DEF View, Controller!NoPod, WholePass!NoPod
  <2>3. Views' = [Views EXCEPT ![j] = WholePass!NoPod]
    BY <2>1, <2>2, OnePodShows
  <2>4. CASE Views[j] = WholePass!NoPod
    BY <1>4, <2>3, <2>4 DEF Views
  <2>5. CASE Views[j] # WholePass!NoPod
    <3>1. WholePass!PodRemoved(j)
      BY <1>1, <1>3, <2>3, <2>5 DEF WholePass!PodRemoved, WholePass!nodeVars,
         WholePass!world, passVars, Views
    <3> QED
      BY <3>1 DEF WholePass!Next
  <2> QED
    BY <2>4, <2>5
<1>9. CASE PodEvicted(j)
  <2>1. /\ pods' = [pods EXCEPT ![j] = [pods[j] EXCEPT !.terminating = TRUE]]
        /\ node' = node
    BY <1>9 DEF PodEvicted, Controller!PodEvicted, Controller!KubeletSets
  <2> QED
    BY <1>4, <2>1, TerminatingDoesNotShow
<1> QED
  BY <1>6, <1>7, <1>8, <1>9

\* A step of the operator is a step of the node pass, or of no concern to it.
LEMMA NextAgrees ==
    ASSUME WholeInv, [Next]_vars
    PROVE  [WholePass!Next]_(WholePass!vars)
<1>1. CASE UNCHANGED vars
  BY <1>1 DEF vars, controllerVars, passVars, WholePass!vars, Submitted
<1>2. ASSUME NEW m \in Managers, NEW j \in Jobs,
             Reconcile(m, j) \/ Deliver(m, j) \/ Resync(m, j) \/ DelayExpires(m, j)
      PROVE  UNCHANGED WholePass!vars
  <2>1. UNCHANGED <<hist, pods, crashes, passVars, node>>
    BY <1>2 DEF Reconcile, Deliver, Resync, DelayExpires, Controller!Reconcile,
       Controller!Dequeue, Controller!Deliver, Controller!Resync, Controller!DelayExpires
  <2> QED
    BY <2>1 DEF passVars, WholePass!vars, Submitted
<1>3. ASSUME NEW m \in Managers, Step(m) \/ Crash(m)
      PROVE  [WholePass!Next]_(WholePass!vars)
  BY <1>3, StepAgrees, CrashAgrees DEF WholePass!Next
<1>4. ASSUME NEW m \in Managers, Restart(m)
      PROVE  UNCHANGED WholePass!vars
  BY <1>4 DEF Restart, Controller!Restart, passVars, WholePass!vars, Submitted
<1>5. ASSUME NEW j \in Jobs,
             \/ UserSubmits(j) \/ UserDeletes(j)
             \/ Schedule(j) \/ PodStarts(j) \/ PodEnds(j) \/ PodRemoved(j) \/ PodEvicted(j)
      PROVE  [WholePass!Next]_(WholePass!vars)
  BY <1>5, UserAgrees, ScheduleAgrees, PodAgrees DEF WholePass!Next
<1>6. ASSUME NEW n \in Hosts, HealthChanges(n)
      PROVE  WholePass!Next
  <2>1. UNCHANGED <<hist, crashes>> /\ Pass!HealthChanges(n)
    BY <1>6 DEF HealthChanges, controllerVars
  <2>2. WholePass!HealthChanges(n)
    BY <2>1 DEF Pass!HealthChanges, WholePass!HealthChanges, Pass!Flip, WholePass!Flip,
       Pass!nodeVars, WholePass!nodeVars, Pass!Verdicts, WholePass!Verdicts, Submitted
  <2> QED
    BY <2>2 DEF WholePass!Next
<1> QED
  BY <1>1, <1>2, <1>3, <1>4, <1>5, <1>6 DEF Next

-----------------------------------------------------------------------------
(* The refinement. *)

\* Pods are bound to hosts, and the faults of the pass stay within their bound.
LEMMA NextKeepsBindings ==
    ASSUME BindingsOK, [Next]_vars
    PROVE  BindingsOK'
<1>1. MaxNodeFaults \in Nat
  BY SentinelAssumption
<1>2. Pass!Fault => nodeFaults' \in 0 .. MaxNodeFaults
  BY <1>1 DEF Pass!Fault, BindingsOK
<1>3. CASE UNCHANGED <<node, nodeFaults>>
  BY <1>3 DEF BindingsOK
<1>4. ASSUME NEW m \in Managers, PassGoesOn(m) \/ PassEnds(m) \/ Create(m) \/ ScanFindsNoPod(m)
      PROVE  node' = node /\ (nodeFaults' = nodeFaults \/ Pass!Fault)
  BY <1>4 DEF PassGoesOn, PassEnds, Create, ScanFindsNoPod, Pass!List, Pass!ScanHealth,
     Pass!CountPods, Pass!Restore, Pass!Isolate, Pass!NoCapacity, Pass!Create, Pass!Begin,
     passVars
<1>5. ASSUME NEW m \in Managers, Step(m)
      PROVE  BindingsOK'
  BY <1>2, <1>3, <1>4, <1>5 DEF Step, PassFindsRoom, OtherCall, passVars, BindingsOK
<1>6. ASSUME NEW j \in Jobs, Schedule(j) \/ PodRemoved(j)
      PROVE  BindingsOK'
  BY <1>6 DEF Schedule, PodRemoved, passVars, BindingsOK
<1>7. CASE \/ UNCHANGED vars
           \/ \E m \in Managers, j \in Jobs :
                  Reconcile(m, j) \/ Deliver(m, j) \/ Resync(m, j) \/ DelayExpires(m, j)
           \/ \E m \in Managers : Crash(m) \/ Restart(m)
           \/ \E j \in Jobs :
                  UserSubmits(j) \/ UserDeletes(j) \/ PodStarts(j) \/ PodEnds(j) \/ PodEvicted(j)
           \/ \E n \in Hosts : HealthChanges(n)
  <2>1. UNCHANGED <<node, nodeFaults>>
    BY <1>7 DEF vars, passVars, Reconcile, Deliver, Resync, DelayExpires, Crash, Restart,
       UserSubmits, UserDeletes, PodStarts, PodEnds, PodEvicted, HealthChanges,
       Pass!HealthChanges
  <2> QED
    BY <1>3, <2>1
<1> QED
  BY <1>5, <1>6, <1>7 DEF Next

\* Where the operator starts, the pass does: no pod, and no job submitted.
LEMMA InitAgrees ==
    ASSUME Init
    PROVE  WholeInv /\ WholePass!Init
<1>1. Alone!IInv
  BY InitIsAlones, AlonesConstants, Alone!InitEstablishesIInv
<1>2. BindingsOK
  BY SentinelAssumption DEF Init, BindingsOK
<1>3. Submitted = {}
  BY DEF Init, Controller!Init, Controller!Tombstone, Submitted
<1>4. Views = [j \in Jobs |-> WholePass!NoPod]
  BY DEF Init, Controller!Init, Controller!NoPod, Views, View, WholePass!NoPod
<1>5. crashes = 0
  BY DEF Init, Controller!Init
<1> QED
  BY <1>1, <1>2, <1>3, <1>4, <1>5 DEF Init, WholeInv, Views, WholePass!Init, Pass!Verdicts,
     WholePass!Verdicts, Pass!Idle, WholePass!Idle

\* The types that the refinement takes for granted hold.
LEMMA NextKeepsWhole ==
    ASSUME WholeInv, [Next]_vars
    PROVE  WholeInv'
<1>1. Alone!IInv'
  BY StepIsControllers, StepIsAlones, AlonesConstants, Alone!NextKeepsIInv DEF WholeInv
<1> QED
  BY <1>1, NextKeepsBindings DEF WholeInv

\* The operator implements the node pass: whatever the controller, the users,
\* the scheduler and the kubelets do in between, it does to the nodes and
\* their taints only what GpuNodes lets it do.
THEOREM ImplementsNodePass == Spec => FollowsNodePass
<1>1. Init => WholeInv /\ WholePass!Init
  BY InitAgrees
<1>2. WholeInv /\ [Next]_vars => WholeInv' /\ [WholePass!Next]_(WholePass!vars)
  BY NextAgrees, NextKeepsWhole
<1> QED
  BY <1>1, <1>2, PTL DEF Spec, FollowsNodePass, WholePass!Spec

-----------------------------------------------------------------------------
(* What is proved of the node pass carries over.                           *)

\* The lemmas about GpuNodes, for the pass as the whole operator runs it.
Nodewise ==
    INSTANCE GpuNodesProofs
        WITH Nodes <- Hosts,
             pods <- [j \in Jobs |-> View(pods[j], node[j])],
             waiting <- Submitted,
             faults <- nodeFaults + crashes, MaxFaults <- MaxNodeFaults + MaxCrashes

\* What they assume of the constants holds.
LEMMA NodewiseConstants == Nodewise!GpuNodesAssumption
<1>1. MaxFlips \in Nat /\ MaxNodeFaults \in Nat /\ MaxCrashes \in Nat
  BY SentinelAssumption
<1>2. MaxNodeFaults + MaxCrashes \in Nat
  BY <1>1
<1> QED
  BY <1>1, <1>2, SentinelAssumption DEF Nodewise!GpuNodesAssumption

\* The node pass of Sentinel and that of the lemmas are the same.
LEMMA StepIsNodewise ==
    ASSUME [WholePass!Next]_(WholePass!vars)
    PROVE  [Nodewise!Next]_(Nodewise!vars)
<1> USE DEF WholePass!nodeVars, Nodewise!nodeVars, WholePass!world, Nodewise!world,
           WholePass!EndPass, Nodewise!EndPass, WholePass!Idle, Nodewise!Idle,
           WholePass!Fault, Nodewise!Fault, WholePass!Flip, Nodewise!Flip,
           WholePass!NoPod, Nodewise!NoPod, WholePass!Unscheduled,
           Nodewise!Unscheduled, WholePass!Verdicts, Nodewise!Verdicts,
           WholePass!Candidates, Nodewise!Candidates, WholePass!Synced,
           Nodewise!Synced, WholePass!Allocated, Nodewise!Allocated, WholePass!Free,
           Nodewise!Free, WholePass!On, Nodewise!On, WholePass!Requested,
           Nodewise!Requested, WholePass!MapThenSumSet, Nodewise!MapThenSumSet,
           WholePass!MapThenFoldSet, Nodewise!MapThenFoldSet
<1>1. CASE UNCHANGED WholePass!vars
  BY <1>1 DEF WholePass!vars, Nodewise!vars
<1>2. ASSUME NEW m \in Managers, WholePass!Step(m)
      PROVE  Nodewise!Step(m)
  <2>1. WholePass!List(m) => Nodewise!List(m)
    BY DEF WholePass!List, Nodewise!List
  <2>2. WholePass!ScanHealth(m) => Nodewise!ScanHealth(m)
    BY DEF WholePass!ScanHealth, Nodewise!ScanHealth
  <2>3. WholePass!CountPods(m) => Nodewise!CountPods(m)
    BY DEF WholePass!CountPods, Nodewise!CountPods
  <2>4. WholePass!Restore(m) => Nodewise!Restore(m)
    BY DEF WholePass!Restore, Nodewise!Restore
  <2>5. WholePass!Isolate(m) => Nodewise!Isolate(m)
    BY DEF WholePass!Isolate, Nodewise!Isolate
  <2>6. WholePass!NoCapacity(m) => Nodewise!NoCapacity(m)
    BY DEF WholePass!NoCapacity, Nodewise!NoCapacity
  <2>7. WholePass!Create(m) => Nodewise!Create(m)
    BY DEF WholePass!Create, Nodewise!Create
  <2> QED
    BY <1>2, <2>1, <2>2, <2>3, <2>4, <2>5, <2>6, <2>7 DEF WholePass!Step, Nodewise!Step
<1>3. ASSUME NEW m \in Managers, WholePass!Crash(m)
      PROVE  Nodewise!Crash(m)
  BY <1>3 DEF WholePass!Crash, Nodewise!Crash
<1>4. ASSUME NEW m \in Managers, NEW j \in Jobs, WholePass!Begin(m, j)
      PROVE  Nodewise!Begin(m, j)
  BY <1>4 DEF WholePass!Begin, Nodewise!Begin
<1>5. ASSUME NEW j \in Jobs
      PROVE  /\ WholePass!Schedule(j) => Nodewise!Schedule(j)
             /\ WholePass!PodEnds(j) => Nodewise!PodEnds(j)
             /\ WholePass!PodRemoved(j) => Nodewise!PodRemoved(j)
             /\ WholePass!JobWaits(j) => Nodewise!JobWaits(j)
  <2>1. WholePass!Schedule(j) => Nodewise!Schedule(j)
    BY DEF WholePass!Schedule, Nodewise!Schedule
  <2>2. WholePass!PodEnds(j) => Nodewise!PodEnds(j)
    BY DEF WholePass!PodEnds, Nodewise!PodEnds
  <2>3. WholePass!PodRemoved(j) => Nodewise!PodRemoved(j)
    BY DEF WholePass!PodRemoved, Nodewise!PodRemoved
  <2>4. WholePass!JobWaits(j) => Nodewise!JobWaits(j)
    BY DEF WholePass!JobWaits, Nodewise!JobWaits
  <2> QED
    BY <2>1, <2>2, <2>3, <2>4
<1>6. ASSUME NEW n \in Hosts
      PROVE  /\ WholePass!HealthChanges(n) => Nodewise!HealthChanges(n)
             /\ WholePass!OtherTaint(n) => Nodewise!OtherTaint(n)
  BY DEF WholePass!HealthChanges, Nodewise!HealthChanges, WholePass!OtherTaint,
     Nodewise!OtherTaint
<1> QED
  BY <1>1, <1>2, <1>3, <1>4, <1>5, <1>6 DEF WholePass!Next, Nodewise!Next

\* The node pass of Sentinel starts where the lemmas have it start.
LEMMA InitIsNodewise == WholePass!Init => Nodewise!Init
BY DEF WholePass!Init, Nodewise!Init, WholePass!NoPod, Nodewise!NoPod, WholePass!Idle,
   Nodewise!Idle, WholePass!Verdicts, Nodewise!Verdicts

\* As the only manager, the operator never reopens a node it has isolated
\* before a scan finds the node healthy, whichever job a pass was for, whoever
\* deletes the job or its pod and wherever the manager dies and starts again.
THEOREM IsolatedNodesStayIsolated ==
    ASSUME \A m, n \in Managers : m = n
    PROVE  Spec => []WholePass!QuarantineHolds
<1>1. Init => WholeInv /\ Nodewise!QInv
  BY InitAgrees, InitIsNodewise, NodewiseConstants, Nodewise!InitIsQInv
<1>2. WholeInv /\ Nodewise!QInv /\ [Next]_vars => WholeInv' /\ Nodewise!QInv'
  BY NextKeepsWhole, NextAgrees, StepIsNodewise, NodewiseConstants,
     Nodewise!NextKeepsQuarantine DEF Nodewise!OneManager
<1>3. Nodewise!QInv => WholePass!QuarantineHolds
  BY DEF Nodewise!QInv, Nodewise!QuarantineHolds, WholePass!QuarantineHolds
<1> QED
  BY <1>1, <1>2, <1>3, PTL DEF Spec

-----------------------------------------------------------------------------
(* Type correctness.                                                        *)

\* The parts of TypeOK that tie the two modules together.
InStep ==
    \A m \in Managers :
        /\ pass[m] = Pass!Idle <=> w[m].pc \notin {"nodes", "create"}
        /\ pass[m] # Pass!Idle => pass[m].job = w[m].job
        /\ w[m].pc = "create" => Pass!Synced(m) /\ Pass!Candidates(m) # {}

Bound ==
    \A j \in Jobs :
        /\ pods[j].phase = "Absent" => node[j] = Nowhere
        /\ pods[j].phase \in {"Running", "Succeeded", "Failed"} => node[j] # Nowhere

SInv == WholeInv /\ Nodewise!TypeOK /\ InStep /\ Bound

\* Workers and passes as the modules type them.
LEMMA TypesOfBoth ==
    ASSUME SInv
    PROVE  /\ w \in [Managers -> {Controller!Idle, Controller!Down} \cup Alone!Tasks]
           /\ pass \in [Managers -> {Pass!Idle} \cup Nodewise!Passes]
BY DEF SInv, WholeInv, Alone!IInv, Alone!TypeOK, Alone!Idle, Alone!Down, Controller!Idle,
   Controller!Down, Nodewise!TypeOK, Nodewise!Idle, Pass!Idle

\* The managers that do not move stay in step.
LEMMA OthersStayInStep ==
    ASSUME SInv, NEW m \in Managers,
           \A n \in Managers \ {m} : w'[n] = w[n] /\ pass'[n] = pass[n],
           pass'[m] = Pass!Idle <=> w'[m].pc \notin {"nodes", "create"},
           pass'[m] # Pass!Idle => pass'[m].job = w'[m].job,
           w'[m].pc = "create" => (Pass!Synced(m) /\ Pass!Candidates(m) # {})'
    PROVE  InStep'
BY DEF SInv, InStep, Pass!Synced, Pass!Candidates, Pass!Idle

\* A step of the worker outside of its pass, neither into it nor out of it.
LEMMA NoPassStaysInStep ==
    ASSUME SInv, NEW m \in Managers, pass' = pass,
           \A n \in Managers \ {m} : w'[n] = w[n],
           w[m].pc \notin {"nodes", "create"}, w'[m].pc \notin {"nodes", "create"}
    PROVE  InStep'
<1>1. pass[m] = Pass!Idle
  BY DEF SInv, InStep
<1> QED
  BY <1>1, OthersStayInStep

\* The end of a pass and of its reconcile.
LEMMA EndStaysInStep ==
    ASSUME SInv, NEW m \in Managers, NEW t, t.pc \notin {"nodes", "create"},
           w' = [w EXCEPT ![m] = t], pass' = [pass EXCEPT ![m] = Pass!Idle]
    PROVE  InStep'
<1>1. w'[m] = t /\ pass'[m] = Pass!Idle
  BY TypesOfBoth
<1>2. \A n \in Managers \ {m} : w'[n] = w[n] /\ pass'[n] = pass[n]
  BY TypesOfBoth
<1> QED
  BY <1>1, <1>2, OthersStayInStep

\* A call after which the pass goes on is one of a pass that is not at its
\* end, and the pass is still for the same job.
LEMMA PassStaysInStep ==
    ASSUME SInv, NEW m \in Managers, PassGoesOn(m)
    PROVE  InStep'
<1>1. pass[m].pc \in {"list", "health", "sync"} /\ ~Pass!Synced(m)
  BY DEF PassGoesOn, Pass!List, Pass!ScanHealth, Pass!CountPods, Pass!Restore,
     Pass!Isolate, Pass!Synced
<1>2. pass[m] # Pass!Idle
  BY <1>1 DEF Pass!Idle
<1>3. w[m].pc = "nodes" /\ pass[m].job = w[m].job
  BY <1>1, <1>2 DEF SInv, InStep
<1>4. pass[m] \in Nodewise!Passes
  BY <1>2, TypesOfBoth
<1>5. w' = w /\ pass'[m] # Pass!Idle
  BY DEF PassGoesOn, controllerVars
<1>6. /\ pass'[m].job = pass[m].job
      /\ \A n \in Managers \ {m} : pass'[n] = pass[n]
  <2>1. CASE Pass!List(m)
    BY <1>4, <1>5, <2>1, TypesOfBoth DEF Pass!List, Pass!EndPass, Nodewise!Passes
  <2>2. CASE Pass!ScanHealth(m)
    <3> DEFINE Up == {n \in Hosts : health[n] = "healthy"}
               Sick == {n \in Hosts : health[n] = "unhealthy"}
               p == [pass[m] EXCEPT !.pc = "sync", !.healthy = Up, !.toRestore = Up,
                                    !.toIsolate = Sick]
    <3>1. pass' = [pass EXCEPT ![m] = p] \/ Pass!EndPass(m)
      BY <2>2 DEF Pass!ScanHealth
    <3> HIDE DEF Up, Sick
    <3>2. p.job = pass[m].job
      BY <1>4 DEF Nodewise!Passes
    <3> HIDE DEF p
    <3> QED
      BY <1>5, <3>1, <3>2, TypesOfBoth DEF Pass!EndPass
  <2>3. CASE Pass!CountPods(m)
    BY <1>4, <1>5, <2>3, TypesOfBoth DEF Pass!CountPods, Nodewise!Passes
  <2>4. CASE Pass!Restore(m)
    BY <1>4, <1>5, <2>4, TypesOfBoth DEF Pass!Restore, Nodewise!Passes
  <2>5. CASE Pass!Isolate(m)
    BY <1>4, <1>5, <2>5, TypesOfBoth DEF Pass!Isolate, Nodewise!Passes
  <2> QED
    BY <2>1, <2>2, <2>3, <2>4, <2>5 DEF PassGoesOn
<1> QED
  BY <1>3, <1>5, <1>6, OthersStayInStep

\* Every step of a worker keeps it in step with its pass.
LEMMA StepStaysInStep ==
    ASSUME SInv, NEW m \in Managers, Step(m)
    PROVE  InStep'
<1>1. CASE PassGoesOn(m)
  BY <1>1, PassStaysInStep
<1>2. ASSUME Controller!Step(m)
      PROVE  /\ \A n \in Managers \ {m} : w'[n] = w[n]
             /\ w'[m].pc \in {"nodes", "create"} => w'[m].job = w[m].job
  <2>1. Alone!MovesOn(m)
    BY <1>2, StepsAreAlones, AlonesConstants, Alone!StepMovesOn DEF SInv, WholeInv
  <2> QED
    BY <2>1 DEF Alone!MovesOn, Alone!Busy
<1>3. CASE ScanFindsNoPod(m)
  <2>1. /\ Controller!Step(m) /\ w[m].pc = "scan"
        /\ w'[m].pc = "nodes" => Pass!Begin(m, w[m].job)
        /\ w'[m].pc # "nodes" => pass' = pass
    BY <1>3 DEF ScanFindsNoPod, Controller!ScanFindsNoPod, Controller!Step, passVars
  <2>2. w'[m].pc \in {"nodes", "write"}
    BY <1>3, TypesOfBoth DEF ScanFindsNoPod, Controller!ScanFindsNoPod,
       Controller!PlanWrite, Controller!Goto, Alone!Tasks, Controller!Idle, Controller!Down
  <2>3. CASE w'[m].pc = "write"
    BY <1>2, <2>1, <2>3, NoPassStaysInStep
  <2>4. CASE w'[m].pc = "nodes"
    <3>1. /\ pass'[m].pc = "list" /\ pass'[m].job = w[m].job
          /\ \A n \in Managers \ {m} : pass'[n] = pass[n]
      BY <2>1, <2>4, TypesOfBoth DEF Pass!Begin
    <3>2. w'[m].job = w[m].job
      BY <1>2, <2>1, <2>4
    <3> QED
      BY <1>2, <2>1, <2>4, <3>1, <3>2, OthersStayInStep DEF Pass!Idle
  <2> QED
    BY <2>2, <2>3, <2>4
<1>4. CASE PassEnds(m) \/ Create(m)
  <2>1. w' = [w EXCEPT ![m] = Controller!Idle]
    BY <1>4, TypesOfBoth DEF PassEnds, Create, Controller!Nodes, Controller!Create,
       Controller!Return, Controller!Goto, Controller!Idle
  <2>2. pass' = [pass EXCEPT ![m] = Pass!Idle]
    BY <1>4, TypesOfBoth DEF PassEnds, Create, Pass!List, Pass!ScanHealth, Pass!NoCapacity,
       Pass!Create, Pass!EndPass, Pass!Idle
  <2> QED
    BY <2>1, <2>2, EndStaysInStep DEF Controller!Idle
<1>5. CASE PassFindsRoom(m)
  <2>1. /\ Controller!Step(m) /\ w[m].pc = "nodes" /\ w'[m].pc = "create"
        /\ Pass!Synced(m) /\ Pass!Candidates(m) # {} /\ pass' = pass
    BY <1>5 DEF PassFindsRoom, Controller!Nodes, Controller!Step, passVars
  <2>2. w'[m].job = w[m].job
    BY <1>2, <2>1
  <2>3. pass[m] # Pass!Idle /\ pass[m].job = w[m].job
    BY <2>1 DEF SInv, InStep
  <2>4. (Pass!Synced(m) /\ Pass!Candidates(m) # {})'
    BY <2>1, <2>2, <2>3 DEF Pass!Synced, Pass!Candidates
  <2> QED
    BY <1>2, <2>1, <2>2, <2>3, <2>4, OthersStayInStep
<1>6. CASE OtherCall(m)
  <2>1. /\ Controller!Step(m) /\ pass' = pass
        /\ w[m].pc \in {"scan", "cleanup", "list", "delete", "finalizer", "write"}
    BY <1>6 DEF OtherCall, Controller!Step, Controller!ScanFails, Controller!ScanFindsPod,
       Controller!Cleanup, Controller!List, Controller!Delete, Controller!Finalizer,
       Controller!Write, passVars
  <2>2. w'[m].pc \notin {"nodes", "create"}
    BY <1>6, <2>1, TypesOfBoth DEF OtherCall, Controller!ScanFails,
       Controller!ScanFindsPod, Controller!Cleanup, Controller!List, Controller!Delete,
       Controller!Finalizer, Controller!Write, Controller!PlanWrite, Controller!Goto,
       Controller!Return, Controller!PodsGone, Controller!Idle, Controller!Down, Alone!Tasks
  <2> QED
    BY <1>2, <2>1, <2>2, NoPassStaysInStep
<1> QED
  BY <1>1, <1>3, <1>4, <1>5, <1>6 DEF Step

\* So does every step of the operator: a pass is born and dies with its
\* reconcile, and nobody else touches it.
LEMMA NextKeepsInStep ==
    ASSUME SInv, [Next]_vars
    PROVE  InStep'
<1>1. CASE UNCHANGED <<w, pass>>
  BY <1>1 DEF SInv, InStep, Pass!Synced, Pass!Candidates
<1>2. ASSUME NEW m \in Managers, NEW j \in Jobs, Reconcile(m, j)
      PROVE  InStep'
  <2> DEFINE t == [pc |-> Controller!Entry(hist[j][seen[m][j]].phase), job |-> j,
                   rv |-> seen[m][j], goal |-> "Failed", ret |-> "done"]
  <2>1. /\ w[m].pc = "idle" /\ pass' = pass
        /\ w' = w \/ w' = [w EXCEPT ![m] = t]
    BY <1>2 DEF Reconcile, Controller!Reconcile, Controller!Dequeue, passVars
  <2>2. t.pc \in {"scan", "cleanup", "list"}
    BY DEF Controller!Entry, Controller!Active
  <2>3. w'[m].pc \notin {"nodes", "create"} /\ \A n \in Managers \ {m} : w'[n] = w[n]
    <3> HIDE DEF t
    <3> QED
      BY <2>1, <2>2, TypesOfBoth
  <2> QED
    BY <2>1, <2>3, NoPassStaysInStep
<1>3. ASSUME NEW m \in Managers, Step(m)
      PROVE  InStep'
  BY <1>3, StepStaysInStep
<1>4. ASSUME NEW m \in Managers, Crash(m)
      PROVE  InStep'
  BY <1>4, EndStaysInStep DEF Crash, Controller!Crash, Controller!Down
<1>5. ASSUME NEW m \in Managers, Restart(m)
      PROVE  InStep'
  <2>1. /\ w[m].pc = "down" /\ pass' = pass /\ w' = [w EXCEPT ![m] = Controller!Idle]
    BY <1>5 DEF Restart, Controller!Restart, Controller!Alive, passVars
  <2>2. w'[m].pc = "idle" /\ \A n \in Managers \ {m} : w'[n] = w[n]
    BY <2>1, TypesOfBoth DEF Controller!Idle
  <2> QED
    BY <2>1, <2>2, NoPassStaysInStep
<1>6. CASE \/ UNCHANGED vars
           \/ \E m \in Managers, j \in Jobs :
                  Deliver(m, j) \/ Resync(m, j) \/ DelayExpires(m, j)
           \/ \E j \in Jobs :
                  \/ UserSubmits(j) \/ UserDeletes(j) \/ Schedule(j)
                  \/ PodStarts(j) \/ PodEnds(j) \/ PodRemoved(j) \/ PodEvicted(j)
           \/ \E n \in Hosts : HealthChanges(n)
  <2>1. UNCHANGED <<w, pass>>
    BY <1>6 DEF vars, controllerVars, passVars, Deliver, Resync, DelayExpires, UserSubmits,
       UserDeletes, Schedule, PodStarts, PodEnds, PodRemoved, PodEvicted, HealthChanges,
       Controller!Deliver, Controller!Resync, Controller!DelayExpires,
       Controller!UserCreates, Controller!UserDeletes, Controller!UserStores,
       Controller!PodStarts, Controller!PodEnds, Controller!PodRemoved,
       Controller!PodEvicted, Controller!KubeletSets, Pass!HealthChanges
  <2> QED
    BY <1>1, <2>1
<1> QED
  BY <1>2, <1>3, <1>4, <1>5, <1>6 DEF Next

\* A pod is bound once it has been scheduled, and until it is removed.
LEMMA NextKeepsBound ==
    ASSUME SInv, [Next]_vars
    PROVE  Bound'
<1>1. /\ pods \in [Jobs -> Alone!Pods]
      /\ node \in [Jobs -> Hosts \cup {Nowhere}]
      /\ Nowhere \notin Hosts
  BY SentinelAssumption DEF SInv, WholeInv, Alone!IInv, Alone!TypeOK, BindingsOK
<1>2. ASSUME UNCHANGED node, \A j \in Jobs : pods'[j].phase = pods[j].phase
      PROVE  Bound'
  BY <1>2 DEF SInv, Bound
<1>3. ASSUME NEW j \in Jobs, UNCHANGED node,
             pods' = [pods EXCEPT ![j] = [pods[j] EXCEPT !.terminating = TRUE]]
      PROVE  Bound'
  <2>1. [pods[j] EXCEPT !.terminating = TRUE].phase = pods[j].phase
    BY <1>1 DEF Alone!Pods
  <2>2. \A i \in Jobs : pods'[i].phase = pods[i].phase
    BY <1>1, <1>3, <2>1
  <2> QED
    BY <1>2, <1>3, <2>2
<1>4. ASSUME NEW m \in Managers, Step(m)
      PROVE  Bound'
  <2>1. Controller!Step(m) \/ UNCHANGED pods
    BY <1>4 DEF Step, ScanFindsNoPod, PassGoesOn, PassEnds, PassFindsRoom, Create,
       OtherCall, Controller!Step, controllerVars
  <2>2. UNCHANGED node
    BY <1>4 DEF Step, ScanFindsNoPod, PassGoesOn, PassEnds, PassFindsRoom, Create, OtherCall
  <2>3. CASE UNCHANGED pods
    BY <1>2, <2>2, <2>3
  <2>4. CASE Controller!Step(m)
    <3>1. w[m].job \in Jobs
      BY <2>4, StepsAreAlones, AlonesConstants, Alone!StepMovesOn, Alone!BusyHasTask
      DEF SInv, WholeInv, Alone!IInv
    <3>2. \/ UNCHANGED pods
          \/ pods' = [pods EXCEPT ![w[m].job] = [pods[w[m].job] EXCEPT !.terminating = TRUE]]
          \/ \E pod : pod.phase = "Pending" /\ pods' = [pods EXCEPT ![w[m].job] = pod]
      BY <2>4 DEF Controller!Step, Controller!ScanFails, Controller!ScanFindsNoPod,
         Controller!ScanFindsPod, Controller!Nodes, Controller!Create, Controller!Cleanup,
         Controller!List, Controller!Delete, Controller!Finalizer, Controller!Write,
         Controller!Terminate
    <3>3. ASSUME NEW pod, pod.phase = "Pending", pods' = [pods EXCEPT ![w[m].job] = pod]
          PROVE  Bound'
      BY <1>1, <2>2, <3>1, <3>3 DEF SInv, Bound
    <3> QED
      BY <1>2, <1>3, <2>2, <3>1, <3>2, <3>3
  <2> QED
    BY <2>1, <2>3, <2>4
<1>5. ASSUME NEW j \in Jobs, Schedule(j)
      PROVE  Bound'
  <2>1. PICK n \in Hosts : node' = [node EXCEPT ![j] = n]
    BY <1>5 DEF Schedule
  <2>2. pods[j].phase # "Absent" /\ UNCHANGED pods
    BY <1>5 DEF Schedule, Pass!Schedule, Pass!Unscheduled, View, controllerVars
  <2> QED
    BY <1>1, <2>1, <2>2 DEF SInv, Bound
<1>6. ASSUME NEW j \in Jobs, PodStarts(j) \/ PodEnds(j)
      PROVE  Bound'
  <2>1. PICK phase \in {"Running", "Failed", "Succeeded"} :
            pods' = [pods EXCEPT ![j] = [pods[j] EXCEPT !.phase = phase]]
    BY <1>6 DEF PodStarts, PodEnds, Controller!PodStarts, Controller!PodEnds,
       Controller!KubeletSets
  <2>2. node[j] # Nowhere /\ UNCHANGED node
    BY <1>6 DEF PodStarts, PodEnds
  <2>3. [pods[j] EXCEPT !.phase = phase].phase = phase
    BY <1>1 DEF Alone!Pods
  <2>4. /\ pods'[j].phase = phase
        /\ \A i \in Jobs \ {j} : pods'[i] = pods[i]
    BY <1>1, <2>1, <2>3
  <2> QED
    BY <2>2, <2>4 DEF SInv, Bound
<1>7. ASSUME NEW j \in Jobs, PodRemoved(j)
      PROVE  Bound'
  BY <1>1, <1>7 DEF PodRemoved, Controller!PodRemoved, Controller!KubeletSets,
     Controller!NoPod, SInv, Bound
<1>8. ASSUME NEW j \in Jobs, PodEvicted(j)
      PROVE  Bound'
  BY <1>3, <1>8 DEF PodEvicted, Controller!PodEvicted, Controller!KubeletSets
<1>9. CASE \/ UNCHANGED vars
           \/ \E m \in Managers, j \in Jobs :
                  Reconcile(m, j) \/ Deliver(m, j) \/ Resync(m, j) \/ DelayExpires(m, j)
           \/ \E m \in Managers : Crash(m) \/ Restart(m)
           \/ \E j \in Jobs : UserSubmits(j) \/ UserDeletes(j)
           \/ \E n \in Hosts : HealthChanges(n)
  <2>1. UNCHANGED <<pods, node>>
    BY <1>9 DEF vars, controllerVars, Reconcile, Deliver, Resync, DelayExpires, Crash,
       Restart, UserSubmits, UserDeletes, HealthChanges, Controller!Reconcile,
       Controller!Dequeue, Controller!Deliver, Controller!Resync, Controller!DelayExpires,
       Controller!Crash, Controller!Restart, Controller!UserCreates,
       Controller!UserDeletes, Controller!UserStores
  <2> QED
    BY <1>2, <2>1
<1> QED
  BY <1>4, <1>5, <1>6, <1>7, <1>8, <1>9 DEF Next

\* What TypeOK says, taken from the modules and the parts above.
LEMMA SInvIsTypeOK == SInv => TypeOK
<1> SUFFICES ASSUME SInv
             PROVE  TypeOK
  OBVIOUS
<1>1. Controller!TypeOK
  BY DEF SInv, WholeInv, Alone!IInv, Alone!TypeOK, Controller!TypeOK, Alone!Versions,
     Controller!Versions, Alone!Tombstone, Controller!Tombstone, Alone!Phases,
     Controller!Phases, Alone!Tasks, Controller!Tasks, Alone!Idle, Controller!Idle,
     Alone!Down, Controller!Down, Alone!Pods, Controller!Pods, Alone!Busy, Controller!Busy
<1>2. WholePass!TypeOK
  <2>1. WholePass!Counts = Nodewise!Counts
    BY DEF WholePass!Counts, Nodewise!Counts, WholePass!Requested, Nodewise!Requested,
       WholePass!MapThenSumSet, Nodewise!MapThenSumSet, WholePass!MapThenFoldSet,
       Nodewise!MapThenFoldSet
  <2>2. WholePass!Passes = Nodewise!Passes /\ WholePass!Labels = Nodewise!Labels
    BY <2>1 DEF WholePass!Passes, Nodewise!Passes, WholePass!Labels, Nodewise!Labels,
       WholePass!TaintKeys, Nodewise!TaintKeys
  <2> QED
    BY <2>2 DEF SInv, Nodewise!TypeOK, WholePass!TypeOK, WholePass!TaintKeys,
       Nodewise!TaintKeys, WholePass!Verdicts, Nodewise!Verdicts, WholePass!NoPod,
       Nodewise!NoPod, WholePass!Unscheduled, Nodewise!Unscheduled, WholePass!Placed,
       Nodewise!Placed, WholePass!Idle, Nodewise!Idle
<1> QED
  BY <1>1, <1>2 DEF SInv, WholeInv, BindingsOK, InStep, Bound, TypeOK

\* Both modules' types hold of the operator as a whole, and a worker is in step
\* with its pass: the pod is made for the job the pass was for, after both
\* goroutines are done, on a cluster with a candidate.
THEOREM TypeCorrect == Spec => []TypeOK
<1>1. Init => SInv
  <2> SUFFICES ASSUME Init
               PROVE  SInv
    OBVIOUS
  <2>1. WholeInv /\ Nodewise!TypeOK
    BY InitAgrees, InitIsNodewise, NodewiseConstants, Nodewise!InitIsQInv DEF Nodewise!QInv
  <2>2. InStep /\ Bound
    BY DEF Init, Controller!Init, Controller!Idle, Controller!NoPod, InStep, Bound
  <2> QED
    BY <2>1, <2>2 DEF SInv
<1>2. SInv /\ [Next]_vars => SInv'
  <2> SUFFICES ASSUME SInv, [Next]_vars
               PROVE  SInv'
    OBVIOUS
  <2>1. WholeInv'
    BY NextKeepsWhole DEF SInv
  <2>2. Nodewise!TypeOK'
    BY NextAgrees, StepIsNodewise, NodewiseConstants, Nodewise!NextKeepsTypeOK DEF SInv
  <2> QED
    BY <2>1, <2>2, NextKeepsInStep, NextKeepsBound DEF SInv
<1> QED
  BY <1>1, <1>2, SInvIsTypeOK, PTL DEF Spec
=============================================================================
