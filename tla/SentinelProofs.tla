---------------------------- MODULE SentinelProofs ----------------------------
(***************************************************************************)
(* Theorems about Sentinel: the operator as a whole does what the          *)
(* controller alone does, so that what is proved of it carries over.       *)
(***************************************************************************)
EXTENDS Sentinel, TLAPS

\* The controller's lemmas, at the jobs and the pods of the whole.
Alone ==
    INSTANCE DoomedPodProofs
        WITH Specs <- {[image |-> Image, gpuCount |-> GpuCount[j]] : j \in Jobs},
             FetchMayFail <- FALSE

\* A step of the operator is one of the controller or leaves it alone.
LEMMA StepIsControllers ==
    ASSUME [Next]_vars
    PROVE  [Controller!Next]_(Controller!vars)
<1> USE DEF Controller!Next, controllerVars, Controller!vars
<1>1. CASE UNCHANGED vars
  BY <1>1 DEF vars
<1>2. ASSUME NEW m \in Managers, NEW j \in Jobs,
             Reconcile(m, j) \/ Deliver(m, j) \/ Resync(m, j) \/ DelayExpires(m, j)
      PROVE  Controller!Next
  BY <1>2 DEF Reconcile, Deliver, Resync, DelayExpires
<1>3. ASSUME NEW m \in Managers, Step(m)
      PROVE  [Controller!Next]_(Controller!vars)
  BY <1>3 DEF Step, Controller!Step, ScanFindsNoPod, PassGoesOn, PassEnds, PassFindsRoom,
     Create, OtherCall
<1>4. ASSUME NEW m \in Managers, Crash(m) \/ Restart(m)
      PROVE  Controller!Next
  BY <1>4 DEF Crash, Restart
<1>5. ASSUME NEW j \in Jobs,
             \/ UserSubmits(j) \/ UserDeletes(j)
             \/ Schedule(j) \/ PodStarts(j) \/ PodEnds(j) \/ PodRemoved(j) \/ PodEvicted(j)
      PROVE  [Controller!Next]_(Controller!vars)
  BY <1>5 DEF Controller!Environment, UserSubmits, UserDeletes, Schedule, PodStarts,
     PodEnds, PodRemoved, PodEvicted
<1>6. ASSUME NEW n \in Hosts, HealthChanges(n)
      PROVE  UNCHANGED Controller!vars
  BY <1>6 DEF HealthChanges
<1> QED
  BY <1>1, <1>2, <1>3, <1>4, <1>5, <1>6 DEF Next

\* The operator, with its node passes and under its scheduler, implements
\* HPCJobController.
THEOREM ImplementsController == Spec => Controller!Spec
<1>1. Init => Controller!Init
  BY DEF Init
<1> QED
  BY <1>1, StepIsControllers, PTL DEF Spec, Controller!Spec

\* The controller of Sentinel and that of the lemmas above are the same, in
\* what a worker does ...
LEMMA StepsAreAlones ==
    ASSUME NEW m \in Managers, Controller!Step(m)
    PROVE  Alone!Step(m)
<1> USE DEF Controller!Alive, Alone!Alive, Controller!Busy, Alone!Busy,
           Controller!Stored, Alone!Stored, Controller!Copy, Alone!Copy,
           Controller!Exists, Alone!Exists, Controller!Valid, Alone!Valid,
           Controller!Store, Alone!Store, Controller!Return, Alone!Return,
           Controller!Enqueue, Alone!Enqueue, Controller!Fault, Alone!Fault,
           Controller!Goto, Alone!Goto, Controller!PlanWrite, Alone!PlanWrite,
           Controller!Terminate, Alone!Terminate, Controller!Entry, Alone!Entry,
           Controller!Active, Alone!Active, Controller!Tombstone, Alone!Tombstone,
           Controller!NoPod, Alone!NoPod, Controller!Idle, Alone!Idle, Controller!Down,
           Alone!Down, Controller!Dequeue, Alone!Dequeue, Controller!PodsGone,
           Alone!PodsGone, Controller!UserStores, Alone!UserStores,
           Controller!KubeletSets, Alone!KubeletSets
<1>1. Controller!ScanFails(m) => Alone!ScanFails(m)
  BY DEF Controller!ScanFails, Alone!ScanFails
<1>2. Controller!ScanFindsNoPod(m) => Alone!ScanFindsNoPod(m)
  BY DEF Controller!ScanFindsNoPod, Alone!ScanFindsNoPod
<1>3. Controller!ScanFindsPod(m) => Alone!ScanFindsPod(m)
  BY DEF Controller!ScanFindsPod, Alone!ScanFindsPod
<1>4. Controller!Nodes(m) => Alone!Nodes(m)
  BY DEF Controller!Nodes, Alone!Nodes
<1>5. Controller!Create(m) => Alone!Create(m)
  BY DEF Controller!Create, Alone!Create
<1>6. Controller!Cleanup(m) => Alone!Cleanup(m)
  BY DEF Controller!Cleanup, Alone!Cleanup
<1>7. Controller!List(m) => Alone!List(m)
  BY DEF Controller!List, Alone!List
<1>8. Controller!Delete(m) => Alone!Delete(m)
  BY DEF Controller!Delete, Alone!Delete
<1>9. Controller!Finalizer(m) => Alone!Finalizer(m)
  BY DEF Controller!Finalizer, Alone!Finalizer
<1>10. Controller!Write(m) => Alone!Write(m)
  BY DEF Controller!Write, Alone!Write
<1> QED
  BY <1>1, <1>2, <1>3, <1>4, <1>5, <1>6, <1>7, <1>8, <1>9, <1>10 DEF Controller!Step, Alone!Step

\* ... and in everything else.
LEMMA StepIsAlones ==
    ASSUME [Controller!Next]_(Controller!vars)
    PROVE  [Alone!Next]_(Alone!vars)
<1> USE DEF Controller!Alive, Alone!Alive, Controller!Busy, Alone!Busy,
           Controller!Stored, Alone!Stored, Controller!Copy, Alone!Copy,
           Controller!Exists, Alone!Exists, Controller!Valid, Alone!Valid,
           Controller!Store, Alone!Store, Controller!Return, Alone!Return,
           Controller!Enqueue, Alone!Enqueue, Controller!Fault, Alone!Fault,
           Controller!Goto, Alone!Goto, Controller!PlanWrite, Alone!PlanWrite,
           Controller!Terminate, Alone!Terminate, Controller!Entry, Alone!Entry,
           Controller!Active, Alone!Active, Controller!Tombstone, Alone!Tombstone,
           Controller!NoPod, Alone!NoPod, Controller!Idle, Alone!Idle, Controller!Down,
           Alone!Down, Controller!Dequeue, Alone!Dequeue, Controller!PodsGone,
           Alone!PodsGone, Controller!UserStores, Alone!UserStores,
           Controller!KubeletSets, Alone!KubeletSets
<1>1. CASE UNCHANGED Controller!vars
  BY <1>1 DEF Controller!vars, Alone!vars
<1>2. ASSUME NEW m \in Managers, NEW j \in Jobs
      PROVE  /\ Controller!Deliver(m, j) => Alone!Deliver(m, j)
             /\ Controller!Resync(m, j) => Alone!Resync(m, j)
             /\ Controller!DelayExpires(m, j) => Alone!DelayExpires(m, j)
             /\ Controller!Reconcile(m, j) => Alone!Reconcile(m, j)
             /\ Controller!FetchFails(m, j) => Alone!FetchFails(m, j)
  <2>1. Controller!Deliver(m, j) => Alone!Deliver(m, j)
    BY DEF Controller!Deliver, Alone!Deliver
  <2>2. Controller!Resync(m, j) => Alone!Resync(m, j)
    BY DEF Controller!Resync, Alone!Resync
  <2>3. Controller!DelayExpires(m, j) => Alone!DelayExpires(m, j)
    BY DEF Controller!DelayExpires, Alone!DelayExpires
  <2>4. Controller!Reconcile(m, j) => Alone!Reconcile(m, j)
    BY DEF Controller!Reconcile, Alone!Reconcile
  <2>5. Controller!FetchFails(m, j) => Alone!FetchFails(m, j)
    BY DEF Controller!FetchFails, Alone!FetchFails
  <2> QED
    BY <2>1, <2>2, <2>3, <2>4, <2>5
<1>3. ASSUME NEW m \in Managers
      PROVE  /\ Controller!Crash(m) => Alone!Crash(m)
             /\ Controller!Restart(m) => Alone!Restart(m)
  <2>1. Controller!Crash(m) => Alone!Crash(m)
    BY DEF Controller!Crash, Alone!Crash
  <2>2. Controller!Restart(m) => Alone!Restart(m)
    BY DEF Controller!Restart, Alone!Restart
  <2> QED
    BY <2>1, <2>2
<1>4. ASSUME NEW j \in Jobs
      PROVE  /\ Controller!UserCreates(j) => Alone!UserCreates(j)
             /\ Controller!UserEdits(j) => Alone!UserEdits(j)
             /\ Controller!UserDeletes(j) => Alone!UserDeletes(j)
             /\ Controller!PodStarts(j) => Alone!PodStarts(j)
             /\ Controller!PodEnds(j) => Alone!PodEnds(j)
             /\ Controller!PodRemoved(j) => Alone!PodRemoved(j)
             /\ Controller!PodEvicted(j) => Alone!PodEvicted(j)
  <2>1. Controller!UserCreates(j) => Alone!UserCreates(j)
    BY DEF Controller!UserCreates, Alone!UserCreates
  <2>2. Controller!UserEdits(j) => Alone!UserEdits(j)
    BY DEF Controller!UserEdits, Alone!UserEdits
  <2>3. Controller!UserDeletes(j) => Alone!UserDeletes(j)
    BY DEF Controller!UserDeletes, Alone!UserDeletes
  <2>4. Controller!PodStarts(j) => Alone!PodStarts(j)
    BY DEF Controller!PodStarts, Alone!PodStarts
  <2>5. Controller!PodEnds(j) => Alone!PodEnds(j)
    BY DEF Controller!PodEnds, Alone!PodEnds
  <2>6. Controller!PodRemoved(j) => Alone!PodRemoved(j)
    BY DEF Controller!PodRemoved, Alone!PodRemoved
  <2>7. Controller!PodEvicted(j) => Alone!PodEvicted(j)
    BY DEF Controller!PodEvicted, Alone!PodEvicted
  <2> QED
    BY <2>1, <2>2, <2>3, <2>4, <2>5, <2>6, <2>7
<1>5. \A m \in Managers : Controller!Step(m) => Alone!Step(m)
  BY StepsAreAlones
<1>6. \A j \in Jobs : Controller!Environment(j) => Alone!Environment(j)
  BY <1>4 DEF Controller!Environment, Alone!Environment
<1> QED
  BY <1>1, <1>2, <1>3, <1>5, <1>6 DEF Controller!Next, Alone!Next

\* The controller starts as the lemmas have it.
LEMMA InitIsAlones == Init => Alone!Init
BY DEF Init, Controller!Init, Alone!Init, Controller!Tombstone, Alone!Tombstone,
   Controller!Idle, Alone!Idle, Controller!NoPod, Alone!NoPod

\* What the controller assumes of its constants holds.
LEMMA AlonesConstants == Alone!ConstantsAssumption
<1>1. {[image |-> Image, gpuCount |-> GpuCount[j]] : j \in Jobs}
          \subseteq [image : STRING, gpuCount : Int]
  BY SentinelAssumption
<1>2. MaxVersions \in Nat /\ MaxFaults \in Nat /\ MaxCrashes \in Nat
  BY SentinelAssumption
<1> QED
  BY <1>1, <1>2 DEF Alone!ConstantsAssumption

-----------------------------------------------------------------------------
\* The operator never loses a waiting job, wherever a node pass fails, however
\* long the scheduler takes and however often a manager crashes.
THEOREM WaitingJobsAreTracked == Spec => []Controller!PendingJobIsTracked
<1>1. Init => Alone!TrackedInv
  BY InitIsAlones, AlonesConstants, Alone!InitIsTracked
<1>2. Alone!TrackedInv /\ [Next]_vars => Alone!TrackedInv'
  BY StepIsControllers, StepIsAlones, AlonesConstants, Alone!NextKeepsTracked
<1>3. Alone!TrackedInv => Controller!PendingJobIsTracked
  BY DEF Alone!TrackedInv, Alone!PendingJobIsTracked, Controller!PendingJobIsTracked,
     Alone!Tracked, Controller!Tracked, Alone!Alive, Controller!Alive, Alone!Busy,
     Controller!Busy, Alone!Stored, Controller!Stored
<1> QED
  BY <1>1, <1>2, <1>3, PTL DEF Spec

\* Nor does it forget the pod of a failed or deleted job, as long as no manager
\* crashes.
THEOREM LeftoverPodsAreTracked ==
    ASSUME MaxCrashes = 0, Managers # {}
    PROVE  Spec => []Controller!LeftoverPodIsTracked
<1>1. Init => Alone!ChasedInv
  BY InitIsAlones, AlonesConstants, Alone!InitIsChased
<1>2. Alone!ChasedInv /\ [Next]_vars => Alone!ChasedInv'
  BY StepIsControllers, StepIsAlones, AlonesConstants, Alone!NextKeepsChased
<1>3. Alone!ChasedInv => Alone!LeftoverPodIsTracked
  BY AlonesConstants, Alone!ChasedIsTracked
<1>4. Alone!LeftoverPodIsTracked => Controller!LeftoverPodIsTracked
  BY DEF Alone!LeftoverPodIsTracked, Controller!LeftoverPodIsTracked, Alone!Leftover,
     Controller!Leftover, Alone!Tracked, Controller!Tracked, Alone!Alive,
     Controller!Alive, Alone!Busy, Controller!Busy, Alone!Stored, Controller!Stored
<1> QED
  BY <1>1, <1>2, <1>3, <1>4, PTL DEF Spec

\* As the only manager, the operator deletes the pods of jobs that have failed,
\* are complete and being deleted, or are gone, and no others.
THEOREM OnlyDoomedPodsAreDeleted ==
    ASSUME \A m, n \in Managers : m = n
    PROVE  Spec => Controller!OnlyDoomedPodsDeleted
<1>1. Init => Alone!DoomedInv
  BY InitIsAlones, AlonesConstants, Alone!InitIsDoomedInv
<1>2. Alone!DoomedInv /\ [Next]_vars => Alone!DoomedInv'
  BY StepIsControllers, StepIsAlones, AlonesConstants, Alone!NextKeepsDoomedInv
  DEF Alone!OneManager
<1>3. Alone!DoomedInv /\ [Next]_vars =>
          [\A m \in Managers :
              w[m].pc \in {"cleanup", "delete"} /\ w'[m] # w[m] =>
                  LET j == w[m].job IN
                  pods'[j].terminating /\ ~pods[j].terminating =>
                      \/ Controller!Stored(j).phase = "Failed"
                      \/ Controller!Stored(j).phase = "Complete" /\ Controller!Stored(j).deleting
                      \/ Controller!Outlived(j)]_(Controller!vars)
  <2>1. ASSUME Alone!DoomedInv, NEW m \in Managers, w[m].pc \in {"cleanup", "delete"}
        PROVE  \/ Controller!Stored(w[m].job).phase = "Failed"
               \/ /\ Controller!Stored(w[m].job).phase = "Complete"
                  /\ Controller!Stored(w[m].job).deleting
               \/ Controller!Outlived(w[m].job)
    BY <2>1, AlonesConstants, Alone!DeletesTheDoomed
    DEF Alone!Doomed, Alone!Outlived, Controller!Outlived, Alone!Stored, Controller!Stored
  <2> QED
    BY <2>1
<1> QED
  BY <1>1, <1>2, <1>3, PTL DEF Spec, Controller!OnlyDoomedPodsDeleted

\* The operator implements the lifecycle promised to users, for any number of
\* managers at once.
THEOREM RefinesLifecycle == Spec => Controller!FollowsLifecycle
<1>1. Init => Alone!IInv
  BY InitIsAlones, AlonesConstants, Alone!InitEstablishesIInv
<1>2. Alone!IInv /\ [Next]_vars => Alone!IInv'
  BY StepIsControllers, StepIsAlones, AlonesConstants, Alone!NextKeepsIInv
<1>3. Init => Controller!Lifecycle!Init
  <2> SUFFICES ASSUME Init
               PROVE  [j \in Jobs |-> Controller!Stored(j).phase] = [j \in Jobs |-> "Absent"]
    BY DEF Controller!Lifecycle!Init
  <2> QED
    BY DEF Init, Controller!Init, Controller!Stored, Controller!Tombstone
<1>4. Alone!IInv /\ [Next]_vars =>
          [Controller!Lifecycle!Next]_[j \in Jobs |-> Controller!Stored(j).phase]
  <2>1. Alone!IInv /\ [Next]_vars =>
            [Alone!Lifecycle!Next]_[j \in Jobs |-> Alone!Stored(j).phase]
    BY StepIsControllers, StepIsAlones, AlonesConstants, Alone!NextFollowsLifecycle
  <2> QED
    BY <2>1 DEF Alone!Stored, Controller!Stored, Alone!Lifecycle!Next,
       Controller!Lifecycle!Next, Alone!Lifecycle!Create, Controller!Lifecycle!Create,
       Alone!Lifecycle!Start, Controller!Lifecycle!Start, Alone!Lifecycle!Lose,
       Controller!Lifecycle!Lose, Alone!Lifecycle!End, Controller!Lifecycle!End,
       Alone!Lifecycle!Delete, Controller!Lifecycle!Delete, Alone!Lifecycle!Move,
       Controller!Lifecycle!Move, Alone!Lifecycle!Waiting, Controller!Lifecycle!Waiting,
       Alone!Lifecycle!Ended, Controller!Lifecycle!Ended
<1> QED
  BY <1>1, <1>2, <1>3, <1>4, PTL DEF Spec, Controller!FollowsLifecycle,
     Controller!Lifecycle!Spec
=============================================================================
