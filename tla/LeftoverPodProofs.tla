------------------------- MODULE LeftoverPodProofs -------------------------
(***************************************************************************)
(* Theorem about HPCJobController: as long as no manager crashes, no pod   *)
(* that has to go is forgotten.                                            *)
(***************************************************************************)
EXTENDS HPCJobControllerProofs

\* Manager m will look at job j again, or is about to delete its pod.  This is
\* less than Tracked: a worker that has deleted the pod and has yet to write
\* the status does not notice a pod that another manager creates meanwhile.
Chases(m, j) ==
    \/ j \in queue[m] \cup delayed[m]
    \/ seen[m][j] < Len(hist[j])
    \/ w[m].pc \in {"cleanup", "list", "delete"} /\ w[m].job = j

LeftoverIsChased == \A j \in Jobs : Leftover(j) => \E m \in Managers : Chases(m, j)

NoneDown == \A m \in Managers : Alive(m)

ChasedInv == IInv /\ NoneDown /\ LeftoverIsChased

-----------------------------------------------------------------------------
\* Every manager chases the pod of a job whose stored version changes: its
\* cache has not seen the change.
LEMMA ChangeIsChased ==
    ASSUME IInv, [Next]_vars, NEW m \in Managers, NEW j \in Jobs, hist'[j] # hist[j]
    PROVE  Chases(m, j)'
<1>1. Len(hist'[j]) = Len(hist[j]) + 1 /\ seen' = seen
  BY StoredChange
<1>2. seen[m][j] \in 1 .. Len(hist[j]) /\ Len(hist[j]) \in Nat
  BY StoredIsVersion DEF IInv, TypeOK
<1> QED
  BY <1>1, <1>2 DEF Chases

\* A call of a reconcile makes a pod and will look at it again, deletes the
\* pod of its job, or leaves the pods alone.
LEMMA StepOnPods ==
    ASSUME IInv, NEW m \in Managers, Step(m)
    PROVE  \/ UNCHANGED pods
           \/ Terminate(w[m].job)
           \/ /\ w[m].job \in delayed'[m]
              /\ \A j \in Jobs \ {w[m].job} : pods'[j] = pods[j]
<1>1. CASE Create(m)
  BY <1>1 DEF Create, Return, IInv, TypeOK
<1>2. CASE ~Create(m)
  BY <1>2 DEF Step, ScanFails, ScanFindsNoPod, ScanFindsPod, Nodes, Cleanup, List,
     Delete, Finalizer, Write
<1> QED
  BY <1>1, <1>2

\* A worker that is about to delete a pod does so, goes on to do so, or comes
\* back to it.
LEMMA ChaserDeletes ==
    ASSUME IInv, NEW m \in Managers, Step(m), w[m].pc \in {"cleanup", "list", "delete"},
           pods[w[m].job].phase # "Absent"
    PROVE  \/ Terminate(w[m].job)
           \/ w[m].job \in delayed'[m]
           \/ w'[m].pc = "delete" /\ w'[m].job = w[m].job
<1>1. w[m] \in Tasks
  BY BusyHasTask DEF IInv, Busy
<1>2. Cleanup(m) \/ List(m) \/ Delete(m)
  BY DEF Step, ScanFails, ScanFindsNoPod, ScanFindsPod, Nodes, Create, Finalizer, Write
<1>3. Return(m, "error") => w[m].job \in delayed'[m]
  BY DEF Return, IInv, TypeOK
<1>4. Goto(m, "delete") => w'[m].pc = "delete" /\ w'[m].job = w[m].job
  BY <1>1 DEF Goto, IInv, TypeOK, Tasks
<1> QED
  BY <1>2, <1>3, <1>4 DEF Cleanup, List, Delete

\* A call of a reconcile loses no leftover pod.
LEMMA StepKeepsChased ==
    ASSUME ChasedInv, NEW m \in Managers, Step(m)
    PROVE  LeftoverIsChased'
<1> USE DEF ChasedInv
<1>1. /\ Busy(m) /\ [Next]_vars
      /\ UNCHANGED <<seen, queue>>
      /\ \A n \in Managers \ {m} : w'[n] = w[n] /\ delayed'[n] = delayed[n]
      /\ delayed[m] \subseteq delayed'[m]
      /\ w[m].job \in Jobs
  BY StepMovesOn, BusyHasTask DEF MovesOn, Next, IInv
<1> SUFFICES ASSUME NEW j \in Jobs, Leftover(j)', hist'[j] = hist[j],
                    ~(w[m].job = j /\ j \in delayed'[m])
             PROVE  \E n \in Managers : Chases(n, j)'
  BY <1>1, ChangeIsChased DEF LeftoverIsChased, Chases
<1>2. ~(Terminate(w[m].job) /\ w[m].job = j)
  BY DEF Terminate, Leftover, IInv, TypeOK, Pods
<1>3. pods'[j] = pods[j]
  BY <1>1, <1>2, StepOnPods DEF Terminate, IInv, TypeOK
<1>4. Leftover(j)
  BY <1>3 DEF Leftover, Stored
<1>5. PICK n \in Managers : Chases(n, j)
  BY <1>4 DEF LeftoverIsChased
<1>6. CASE w[n].pc \in {"cleanup", "list", "delete"} /\ w[n].job = j /\ n = m
  <2>1. w'[m].pc = "delete" /\ w'[m].job = j
    BY <1>2, <1>4, <1>6, ChaserDeletes DEF Leftover
  <2> QED
    BY <2>1 DEF Chases
<1>7. CASE ~(w[n].pc \in {"cleanup", "list", "delete"} /\ w[n].job = j) \/ n # m
  BY <1>1, <1>5, <1>7 DEF Chases
<1> QED
  BY <1>6, <1>7

\* The steps around a reconcile lose none, as long as cached reads succeed: a
\* job that is taken from the queue is of a phase whose handler deletes its
\* pod, or the cache is behind.
LEMMA ManagerKeepsChased ==
    ASSUME ChasedInv, FetchMayFail = FALSE, NEW m \in Managers, NEW i \in Jobs,
           \/ Deliver(m, i) \/ Resync(m, i) \/ DelayExpires(m, i)
           \/ Reconcile(m, i) \/ FetchFails(m, i)
    PROVE  LeftoverIsChased'
<1> USE DEF ChasedInv
<1>1. UNCHANGED <<hist, pods>> /\ ~FetchFails(m, i)
  BY DEF Deliver, Resync, DelayExpires, Reconcile, FetchFails, Dequeue
<1> SUFFICES ASSUME NEW j \in Jobs, NEW n \in Managers, Leftover(j), Chases(n, j)
             PROVE  Chases(n, j)'
  BY <1>1 DEF LeftoverIsChased, Leftover, Stored
<1>2. CASE Deliver(m, i)
  BY <1>1, <1>2 DEF Deliver, Enqueue, Chases, IInv, TypeOK
<1>3. CASE Resync(m, i) \/ DelayExpires(m, i)
  BY <1>1, <1>3 DEF Resync, DelayExpires, Enqueue, Chases, IInv, TypeOK
<1>4. CASE Reconcile(m, i)
  <2>1. /\ w[m].pc = "idle" /\ UNCHANGED <<seen, delayed>>
        /\ queue' = [queue EXCEPT ![m] = @ \ {i}]
        /\ \A k \in Managers \ {m} : w'[k] = w[k]
    BY <1>4 DEF Reconcile, Dequeue, IInv, TypeOK
  <2>2. CASE n = m /\ j = i
    <3>1. seen[m][i] \in 1 .. Len(hist[i]) /\ Len(hist[i]) \in Nat
      BY StoredIsVersion DEF IInv, TypeOK
    <3>2. CASE seen[m][i] = Len(hist[i])
      <4>1. hist[i][seen[m][i]].phase \in {"Absent", "Failed"}
        BY <2>2, <3>2 DEF Leftover, Stored
      <4>2. w' = [w EXCEPT ![m] =
                     [pc |-> Entry(hist[i][seen[m][i]].phase), job |-> i,
                      rv |-> seen[m][i], goal |-> "Failed", ret |-> "done"]]
        BY <1>4, <4>1 DEF Reconcile
      <4>3. Entry(hist[i][seen[m][i]].phase) \in {"cleanup", "list"}
        BY <4>1 DEF Entry, Active
      <4>4. w'[m].pc \in {"cleanup", "list"} /\ w'[m].job = i
        BY <4>2, <4>3 DEF IInv, TypeOK
      <4> QED
        BY <2>2, <4>4 DEF Chases
    <3>3. CASE seen[m][i] < Len(hist[i])
      BY <1>1, <2>1, <2>2, <3>3 DEF Chases
    <3> QED
      BY <3>1, <3>2, <3>3
  <2>3. CASE ~(n = m /\ j = i)
    BY <1>1, <2>1, <2>3 DEF Chases, IInv, TypeOK
  <2> QED
    BY <2>2, <2>3
<1> QED
  BY <1>1, <1>2, <1>3, <1>4

\* Users make a pod a leftover by a write that every cache has yet to see;
\* kubelets make none.
LEMMA EnvironmentKeepsChased ==
    ASSUME ChasedInv, Managers # {}, NEW i \in Jobs, Environment(i)
    PROVE  LeftoverIsChased'
<1> USE DEF ChasedInv
<1>1. UNCHANGED <<seen, queue, delayed, w>> /\ [Next]_vars
  BY DEF Environment, UserCreates, UserEdits, UserDeletes, UserStores, PodStarts,
     PodEnds, PodRemoved, PodEvicted, KubeletSets, Next
<1> SUFFICES ASSUME NEW j \in Jobs, Leftover(j)', hist'[j] = hist[j]
             PROVE  \E n \in Managers : Chases(n, j)'
  BY <1>1, ChangeIsChased DEF LeftoverIsChased
<1>2. pods[j].phase # "Absent" /\ ~pods[j].terminating
  <2>1. CASE pods' = pods
    BY <2>1 DEF Leftover
  <2>2. CASE \E pod \in {NoPod} \cup {p \in Pods : p.terminating}
                             \cup {p \in Pods : pods[i].phase # "Absent"
                                              /\ p.terminating = pods[i].terminating} :
                 pods' = [pods EXCEPT ![i] = pod]
    BY <2>2 DEF NoPod, Leftover, IInv, TypeOK, Pods
  <2>3. CASE PodStarts(i)
    BY <2>2, <2>3 DEF PodStarts, KubeletSets, IInv, TypeOK, Pods
  <2>4. CASE PodEnds(i)
    BY <2>2, <2>4 DEF PodEnds, KubeletSets, IInv, TypeOK, Pods
  <2>5. CASE PodRemoved(i)
    BY <2>2, <2>5 DEF PodRemoved, KubeletSets
  <2>6. CASE PodEvicted(i)
    BY <2>2, <2>6 DEF PodEvicted, KubeletSets, IInv, TypeOK, Pods
  <2> QED
    BY <2>1, <2>3, <2>4, <2>5, <2>6
    DEF Environment, UserCreates, UserEdits, UserDeletes, UserStores
<1>3. Leftover(j)
  BY <1>2 DEF Leftover, Stored
<1> QED
  BY <1>1, <1>3 DEF LeftoverIsChased, Chases

\* A call of a reconcile leaves its worker idle or with a task.
LEMMA StepStaysUp ==
    ASSUME IInv, NEW m \in Managers, Step(m)
    PROVE  w'[m].pc # "down"
<1>1. w[m] \in Tasks /\ w \in [Managers -> {Idle, Down} \cup Tasks]
  BY BusyHasTask, StepMovesOn DEF IInv, TypeOK
<1>2. ASSUME NEW r, Return(m, r)
      PROVE  w'[m].pc # "down"
  BY <1>1, <1>2 DEF Return, Idle
<1>3. ASSUME NEW pc \in {"nodes", "create", "delete", "finalizer"}, Goto(m, pc)
      PROVE  w'[m].pc # "down"
  BY <1>1, <1>3 DEF Goto, Tasks
<1>4. ASSUME NEW goal, NEW ret, PlanWrite(m, goal, ret)
      PROVE  w'[m].pc # "down"
  BY <1>1, <1>4 DEF PlanWrite, Tasks
<1>5. CASE ScanFails(m) \/ ScanFindsNoPod(m)
  BY <1>2, <1>3, <1>4, <1>5 DEF ScanFails, ScanFindsNoPod
<1>6. CASE ScanFindsPod(m)
  BY <1>2, <1>4, <1>6 DEF ScanFindsPod
<1>7. CASE Nodes(m) \/ Create(m)
  BY <1>2, <1>3, <1>7 DEF Nodes, Create
<1>8. CASE Cleanup(m) \/ List(m) \/ Delete(m) \/ Finalizer(m) \/ Write(m)
  BY <1>2, <1>3, <1>4, <1>8 DEF Cleanup, List, Delete, PodsGone, Finalizer, Write
<1> QED
  BY <1>5, <1>6, <1>7, <1>8 DEF Step

\* Without crashes every manager stays up.
LEMMA NoneGoesDown ==
    ASSUME ChasedInv, MaxCrashes = 0, [Next]_vars
    PROVE  NoneDown' /\ \A m \in Managers : ~Crash(m) /\ ~Restart(m)
<1> USE DEF ChasedInv
<1>1. \A m \in Managers : ~Crash(m) /\ ~Restart(m)
  BY DEF Crash, Restart, NoneDown, IInv, TypeOK
<1>2. CASE \E m \in Managers : Step(m)
  <2>1. PICK m \in Managers : Step(m)
    BY <1>2
  <2>2. \A n \in Managers \ {m} : w'[n] = w[n]
    BY <2>1, StepMovesOn DEF MovesOn
  <2> QED
    BY <1>1, <2>1, <2>2, StepStaysUp DEF NoneDown, Alive
<1>3. CASE \E m \in Managers, j \in Jobs : Reconcile(m, j)
  <2>1. PICK m \in Managers, j \in Jobs : Reconcile(m, j)
    BY <1>3
  <2>2. \A phase : Entry(phase) # "down"
    BY DEF Entry
  <2>3. w'[m] = w[m] \/ w'[m].pc = Entry(hist[j][seen[m][j]].phase)
    BY <2>1 DEF Reconcile, IInv, TypeOK
  <2>4. \A n \in Managers \ {m} : w'[n] = w[n]
    BY <2>1 DEF Reconcile, IInv, TypeOK
  <2> QED
    BY <1>1, <2>2, <2>3, <2>4 DEF NoneDown, Alive
<1>4. CASE w' = w
  BY <1>1, <1>4 DEF NoneDown, Alive
<1>5. (\E m \in Managers : Step(m))
      \/ (\E m \in Managers, j \in Jobs : Reconcile(m, j))
      \/ w' = w
  BY <1>1 DEF Next, vars, Deliver, Resync, DelayExpires, FetchFails, Environment,
     UserCreates, UserEdits, UserDeletes, UserStores, PodStarts, PodEnds, PodRemoved,
     PodEvicted, KubeletSets
<1> QED
  BY <1>2, <1>3, <1>4, <1>5

\* No step forgets a leftover pod, as long as cached reads succeed and no
\* manager crashes.
LEMMA NextKeepsChased ==
    ASSUME ChasedInv, FetchMayFail = FALSE, MaxCrashes = 0, Managers # {}, [Next]_vars
    PROVE  ChasedInv'
<1>1. IInv'
  BY NextKeepsIInv DEF ChasedInv
<1>2. NoneDown' /\ \A m \in Managers : ~Crash(m) /\ ~Restart(m)
  BY NoneGoesDown
<1>3. LeftoverIsChased'
  <2>1. CASE UNCHANGED vars
    <3>1. \A j \in Jobs, m \in Managers :
              (Leftover(j)' <=> Leftover(j)) /\ (Chases(m, j)' <=> Chases(m, j))
      BY <2>1 DEF vars, Leftover, Stored, Chases
    <3> QED
      BY <3>1 DEF ChasedInv, LeftoverIsChased
  <2>2. CASE \E m \in Managers : Step(m)
    BY <2>2, StepKeepsChased
  <2>3. CASE \E m \in Managers, j \in Jobs :
                 \/ Deliver(m, j) \/ Resync(m, j) \/ DelayExpires(m, j)
                 \/ Reconcile(m, j) \/ FetchFails(m, j)
    <3>1. PICK m \in Managers, j \in Jobs :
                 \/ Deliver(m, j) \/ Resync(m, j) \/ DelayExpires(m, j)
                 \/ Reconcile(m, j) \/ FetchFails(m, j)
      BY <2>3
    <3> QED
      BY <3>1, ManagerKeepsChased
  <2>4. CASE \E j \in Jobs : Environment(j)
    BY <2>4, EnvironmentKeepsChased
  <2> QED
    BY <1>2, <2>1, <2>2, <2>3, <2>4 DEF Next
<1> QED
  BY <1>1, <1>2, <1>3 DEF ChasedInv

\* Initially there are no pods.
LEMMA InitIsChased == Init => ChasedInv
<1>1. Init => IInv
  BY InitEstablishesIInv
<1> QED
  BY <1>1 DEF Init, ChasedInv, NoneDown, LeftoverIsChased, Leftover, NoPod, Alive, Idle

\* A pod that is chased is tracked, the chaser being up.
LEMMA ChasedIsTracked == ChasedInv => LeftoverPodIsTracked
BY DEF ChasedInv, NoneDown, LeftoverIsChased, LeftoverPodIsTracked, Chases, Tracked, Busy

\* As long as no manager crashes and cached reads succeed, every pod of a
\* failed or deleted job is one that some manager will look at: handleFailed
\* and handleDeletedByName are retried until the pod is deleted.
THEOREM LeftoverPodsAreTracked ==
    ASSUME FetchMayFail = FALSE, MaxCrashes = 0, Managers # {}
    PROVE  Spec => []LeftoverPodIsTracked
<1>1. ChasedInv /\ [Next]_vars => ChasedInv'
  BY NextKeepsChased
<1> QED
  BY <1>1, InitIsChased, ChasedIsTracked, PTL DEF Spec
=============================================================================
