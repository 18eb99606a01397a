--------------------------- MODULE DoomedPodProofs ---------------------------
(***************************************************************************)
(* Theorem about HPCJobController: a lone manager only deletes pods that   *)
(* have to go, although it acts on a cached copy and deletes by name.      *)
(***************************************************************************)
EXTENDS LeftoverPodProofs

\* The versions of a job whose handlers delete its pod.
Doomed(version) ==
    \/ version.phase = "Failed"
    \/ version.phase = "Complete" /\ version.deleting

\* A doomed job stays doomed until it is gone.
DoomStays ==
    \A j \in Jobs : \A u \in 1 .. Len(hist[j]) :
        Doomed(hist[j][u]) =>
            \/ Doomed(Stored(j))
            \/ \E v \in u .. Len(hist[j]) : hist[j][v].phase = "Absent"

\* The copy of a worker that is about to delete a pod is doomed, or gone.
\* "list" is included, as the call before the deletion.
ActsOnDoomed ==
    \A m \in Managers :
        w[m].pc \in {"cleanup", "list", "delete"} =>
            Doomed(Copy(m)) \/ Copy(m).phase = "Absent"

\* A lone manager has seen the version of the job its pod was created from,
\* and works on no earlier one: it created the pod itself, from its copy.
PodsAreSeen ==
    \A m \in Managers, j \in Jobs :
        /\ pods[j].born <= seen[m][j]
        /\ Busy(m) /\ w[m].job = j => pods[j].born <= w[m].rv

\* There is at most one manager.
OneManager == \A m, n \in Managers : m = n

DoomedInv == IInv /\ DoomStays /\ ActsOnDoomed /\ PodsAreSeen

-----------------------------------------------------------------------------
(* The three parts of the invariant, one lemma each. *)

\* A version that follows a doomed one is doomed, or a deletion.
LEMMA StoreKeepsDoom ==
    ASSUME IInv, DoomStays, NEW i \in Jobs, NEW version \in Versions, Store(i, version),
           Doomed(Stored(i)) => Doomed(version) \/ version.phase = "Absent"
    PROVE  DoomStays'
<1> SUFFICES ASSUME NEW j \in Jobs, NEW u \in 1 .. Len(hist'[j]), Doomed(hist'[j][u])
             PROVE  \/ Doomed(Stored(j)')
                    \/ \E v \in u .. Len(hist'[j]) : hist'[j][v].phase = "Absent"
  BY DEF DoomStays, Doomed
<1>1. /\ Len(hist[j]) \in Nat \ {0}
      /\ Len(hist'[j]) = IF i = j THEN Len(hist[j]) + 1 ELSE Len(hist[j])
      /\ \A v \in 1 .. Len(hist[j]) : hist'[j][v] = hist[j][v]
      /\ Stored(i)' = version
  BY StoreAppends, StoredIsVersion DEF IInv, Stored
<1>2. CASE u \in 1 .. Len(hist[j]) /\ \E v \in u .. Len(hist[j]) : hist[j][v].phase = "Absent"
  BY <1>1, <1>2
<1>3. CASE u \in 1 .. Len(hist[j]) /\ Doomed(Stored(j))
  <2>1. CASE i = j
    <3>1. version = hist'[j][Len(hist'[j])] /\ Len(hist'[j]) \in u .. Len(hist'[j])
      BY <1>1, <2>1 DEF Stored
    <3> QED
      BY <1>1, <1>3, <2>1, <3>1
  <2>2. CASE i # j
    BY <1>1, <1>3, <2>2 DEF Stored
  <2> QED
    BY <2>1, <2>2
<1>4. CASE u \notin 1 .. Len(hist[j])
  BY <1>1, <1>4 DEF Stored
<1> QED
  BY <1>1, <1>2, <1>3, <1>4 DEF DoomStays

\* No step takes a job out of its doom: statuses are written on the stored
\* version only and never over a terminal phase, and users change neither the
\* phase nor a deletion under way.
LEMMA NextKeepsDoom ==
    ASSUME IInv, DoomStays, [Next]_vars
    PROVE  DoomStays'
<1> USE DEF IInv
<1>1. CASE UNCHANGED hist
  BY <1>1 DEF DoomStays, Stored
<1>2. ASSUME NEW m \in Managers, Step(m), ~UNCHANGED hist
      PROVE  DoomStays'
  <2> DEFINE j == w[m].job
             version == [Copy(m) EXCEPT !.phase = w[m].goal]
  <2>1. /\ Write(m) /\ w[m].rv = Len(hist[j]) /\ Copy(m).phase # w[m].goal
        /\ version \in Versions /\ Store(j, version)
    BY <1>2, StepHistory
  <2>2. j \in Jobs /\ TaskOK(w[m], Copy(m)) /\ Stored(j) = Copy(m)
    BY <1>2, <2>1, StepMovesOn, BusyHasTask DEF TasksOK, Copy, Stored
  <2>3. ~Doomed(Stored(j))
    BY <2>1, <2>2 DEF Write, TaskOK, Doomed, Active
  <2> QED
    BY <2>1, <2>2, <2>3, StoreKeepsDoom
<1>3. ASSUME NEW j \in Jobs, UserCreates(j)
      PROVE  DoomStays'
  <2>1. PICK spec \in Specs :
            Store(j, [phase |-> "", spec |-> spec, deleting |-> FALSE])
    BY <1>3 DEF UserCreates, UserStores
  <2>2. [phase |-> "", spec |-> spec, deleting |-> FALSE] \in Versions
    BY DEF Versions, Phases
  <2>3. ~Doomed(Stored(j))
    BY <1>3 DEF UserCreates, Exists, Doomed
  <2> QED
    BY <2>1, <2>2, <2>3, StoreKeepsDoom
<1>4. ASSUME NEW j \in Jobs, UserEdits(j) \/ UserDeletes(j)
      PROVE  DoomStays'
  <2>1. Stored(j) \in [phase : Phases, spec : Specs, deleting : BOOLEAN]
    BY <1>4, StoredIsVersion DEF UserEdits, UserDeletes, Exists, Versions, Tombstone
  <2>2. ASSUME NEW spec \in Specs
        PROVE  LET version == [Stored(j) EXCEPT !.spec = spec] IN
               version \in Versions /\ (Doomed(Stored(j)) => Doomed(version))
    BY <2>1 DEF Versions, Doomed
  <2>3. LET version == [Stored(j) EXCEPT !.deleting = TRUE] IN
        version \in Versions /\ (Doomed(Stored(j)) => Doomed(version))
    BY <2>1 DEF Versions, Doomed
  <2>4. Tombstone \in Versions /\ Tombstone.phase = "Absent"
    BY DEF Versions, Tombstone
  <2>5. CASE UserEdits(j)
    BY <2>2, <2>5, StoreKeepsDoom DEF UserEdits, UserStores
  <2>6. CASE UserDeletes(j)
    BY <2>3, <2>4, <2>6, StoreKeepsDoom DEF UserDeletes, UserStores
  <2> QED
    BY <1>4, <2>5, <2>6
<1>5. \/ UNCHANGED hist
      \/ \E m \in Managers : Step(m)
      \/ \E j \in Jobs : UserCreates(j) \/ UserEdits(j) \/ UserDeletes(j)
  BY DEF Next, vars, Deliver, Resync, DelayExpires, Reconcile, FetchFails, Dequeue,
     Crash, Restart, Environment, PodStarts, PodEnds, PodRemoved, PodEvicted,
     KubeletSets
<1> QED
  BY <1>1, <1>2, <1>3, <1>4, <1>5

\* A call before which a pod is about to be deleted is a listing after which
\* it is, with the same copy.
LEMMA StepDeletesNext ==
    ASSUME IInv, NEW m \in Managers, Step(m), w'[m].pc \in {"cleanup", "list", "delete"}
    PROVE  w[m].pc = "list" /\ Copy(m)' = Copy(m)
<1>1. w[m] \in Tasks /\ Busy(m) /\ IInv' /\ HistoriesGrow /\ MovesOn(m)
  BY StepMovesOn, StepKeepsIInv, BusyHasTask DEF IInv
<1>2. Copy(m)' = Copy(m)
  BY <1>1, SameCopy DEF MovesOn, Busy, IInv
<1>3. List(m)
  <2>1. ASSUME NEW ret, Return(m, ret) PROVE FALSE
    BY <1>1, <2>1, ReturnOK DEF IInv, Idle
  <2>2. ASSUME NEW pc \in {"nodes", "create", "finalizer"}, Goto(m, pc) PROVE FALSE
    BY <1>1, <2>2, GotoOK DEF IInv
  <2>3. ASSUME NEW goal, NEW ret, PlanWrite(m, goal, ret) PROVE FALSE
    BY <1>1, <2>3 DEF PlanWrite, IInv, TypeOK, Tasks
  <2>4. ~ScanFails(m) /\ ~ScanFindsNoPod(m) /\ ~ScanFindsPod(m)
    BY <2>1, <2>2, <2>3 DEF ScanFails, ScanFindsNoPod, ScanFindsPod
  <2>5. ~Nodes(m) /\ ~Create(m) /\ ~Cleanup(m)
    BY <2>1, <2>2, <2>3 DEF Nodes, Create, Cleanup
  <2>6. ~Delete(m) /\ ~Finalizer(m) /\ ~Write(m)
    BY <2>1, <2>2 DEF Delete, PodsGone, Finalizer, Write
  <2> QED
    BY <2>4, <2>5, <2>6 DEF Step
<1> QED
  BY <1>2, <1>3 DEF List

\* Only jobs that are doomed or gone reach the calls that delete pods.
LEMMA NextKeepsActsOnDoomed ==
    ASSUME IInv, ActsOnDoomed, [Next]_vars
    PROVE  ActsOnDoomed'
<1> USE DEF IInv
<1> SUFFICES ASSUME NEW m \in Managers, w'[m].pc \in {"cleanup", "list", "delete"}
             PROVE  Doomed(Copy(m)') \/ Copy(m)'.phase = "Absent"
  BY DEF ActsOnDoomed, Doomed
<1>1. CASE w'[m] = w[m]
  <2>1. Busy(m) /\ HistoriesGrow
    BY <1>1, NextKeepsIInv DEF Busy
  <2>2. Copy(m)' = Copy(m)
    BY <1>1, <2>1, SameCopy
  <2> QED
    BY <1>1, <2>2 DEF ActsOnDoomed
<1>2. CASE Step(m)
  BY <1>2, StepDeletesNext DEF ActsOnDoomed
<1>3. CASE \E j \in Jobs : Reconcile(m, j)
  <2>1. PICK j \in Jobs : Reconcile(m, j)
    BY <1>3
  <2> DEFINE copy == hist[j][seen[m][j]]
  <2>2. copy \in Versions
    BY DEF TypeOK
  <2>3. CASE w' = w
    BY <2>3, <1>1
  <2>4. CASE /\ ~(copy.phase = "Complete" /\ ~copy.deleting)
             /\ w' = [w EXCEPT ![m] =
                         [pc |-> Entry(copy.phase), job |-> j, rv |-> seen[m][j],
                          goal |-> "Failed", ret |-> "done"]]
    <3>1. w'[m].pc = Entry(copy.phase) /\ w'[m].job = j /\ w'[m].rv = seen[m][j]
      BY <2>4 DEF TypeOK
    <3>2. Copy(m)' = copy
      BY <2>1, <3>1 DEF Copy, Reconcile, Dequeue
    <3>3. copy.phase \in {"Complete", "Failed", "Absent"}
      <4>1. copy.phase \in Active => Entry(copy.phase) = "scan"
        BY DEF Entry, Active
      <4>2. copy.phase \in Phases \cup {"Absent"}
        BY <2>2 DEF Versions, Tombstone
      <4> QED
        BY <3>1, <4>1, <4>2 DEF Phases, Active
    <3>4. copy.phase = "Complete" => copy.deleting
      <4>1. copy.phase = "Complete" => copy.deleting \in BOOLEAN
        BY <2>2 DEF Versions, Tombstone
      <4> QED
        BY <2>4, <4>1
    <3> QED
      BY <3>2, <3>3, <3>4 DEF Doomed
  <2> QED
    BY <2>1, <2>3, <2>4 DEF Reconcile
<1>4. CASE Crash(m) \/ Restart(m)
  BY <1>4 DEF Crash, Restart, TypeOK, Idle, Down
<1>5. \/ w'[m] = w[m]
      \/ Step(m)
      \/ \E j \in Jobs : Reconcile(m, j)
      \/ Crash(m) \/ Restart(m)
  <2>1. ASSUME NEW n \in Managers, Step(n), n # m
        PROVE  w'[m] = w[m]
    BY <2>1, StepMovesOn DEF MovesOn
  <2>2. ASSUME NEW n \in Managers, NEW j \in Jobs, Reconcile(n, j), n # m
        PROVE  w'[m] = w[m]
    BY <2>2 DEF Reconcile, TypeOK
  <2>3. ASSUME NEW n \in Managers, Crash(n) \/ Restart(n), n # m
        PROVE  w'[m] = w[m]
    BY <2>3 DEF Crash, Restart, TypeOK
  <2>4. \/ w' = w
        \/ \E n \in Managers : Step(n) \/ Crash(n) \/ Restart(n)
        \/ \E n \in Managers, j \in Jobs : Reconcile(n, j)
    BY DEF Next, vars, Deliver, Resync, DelayExpires, FetchFails, Environment,
       UserCreates, UserEdits, UserDeletes, UserStores, PodStarts, PodEnds,
       PodRemoved, PodEvicted, KubeletSets
  <2> QED
    BY <2>1, <2>2, <2>3, <2>4
<1> QED
  BY <1>1, <1>2, <1>3, <1>4, <1>5

\* A pod is left as it was, or made from the copy of the only worker, or its
\* version is that of a pod that was there, or of none.
LEMMA NextOnBorn ==
    ASSUME IInv, [Next]_vars, NEW j \in Jobs
    PROVE  \/ pods'[j].born = pods[j].born
           \/ pods'[j].born = 0
           \/ \E m \in Managers : /\ Create(m) /\ w[m].job = j
                                  /\ pods'[j].born = w[m].rv
<1> USE DEF IInv, TypeOK
<1>1. \A i \in Jobs : pods[i] \in Pods
  OBVIOUS
<1>2. ASSUME NEW i \in Jobs, Terminate(i)
      PROVE  pods'[j].born = pods[j].born
  BY <1>1, <1>2 DEF Terminate, Pods
<1>3. ASSUME NEW m \in Managers, Create(m)
      PROVE  \/ pods'[j].born = pods[j].born
             \/ w[m].job = j /\ pods'[j].born = w[m].rv
  BY <1>3 DEF Create
<1>4. ASSUME NEW m \in Managers, Step(m), ~Create(m)
      PROVE  pods'[j].born = pods[j].born
  <2>1. w[m].job \in Jobs
    BY <1>4, StepMovesOn, BusyHasTask
  <2>2. UNCHANGED pods \/ Terminate(w[m].job)
    BY <1>4 DEF Step, ScanFails, ScanFindsNoPod, ScanFindsPod, Nodes, Cleanup, List,
       Delete, Finalizer, Write
  <2> QED
    BY <1>2, <2>1, <2>2
<1>5. ASSUME NEW i \in Jobs, Environment(i)
      PROVE  pods'[j].born = pods[j].born \/ pods'[j].born = 0
  <2>1. CASE UNCHANGED pods
    BY <2>1
  <2>2. CASE PodStarts(i)
    BY <1>1, <2>2 DEF PodStarts, KubeletSets, Pods
  <2>3. CASE PodEnds(i)
    <3>1. PICK phase \in {"Failed", "Succeeded"} :
              pods' = [pods EXCEPT ![i] = [pods[i] EXCEPT !.phase = phase]]
      BY <2>3 DEF PodEnds, KubeletSets
    <3>2. [pods[i] EXCEPT !.phase = phase].born = pods[i].born
      BY <1>1 DEF Pods
    <3> QED
      BY <3>1, <3>2
  <2>4. CASE PodRemoved(i)
    BY <1>1, <2>4 DEF PodRemoved, KubeletSets, NoPod
  <2>5. CASE PodEvicted(i)
    BY <1>1, <2>5 DEF PodEvicted, KubeletSets, Pods
  <2> QED
    BY <1>5, <2>1, <2>2, <2>3, <2>4, <2>5
    DEF Environment, UserCreates, UserEdits, UserDeletes, UserStores
<1>6. \/ UNCHANGED pods
      \/ \E m \in Managers : Step(m)
      \/ \E i \in Jobs : Environment(i)
  BY DEF Next, vars, Deliver, Resync, DelayExpires, Reconcile, FetchFails, Dequeue,
     Crash, Restart
<1> QED
  BY <1>3, <1>4, <1>5, <1>6

\* A cache never goes back, and the worker takes up the version in it.
LEMMA NextOnCaches ==
    ASSUME IInv, [Next]_vars, NEW m \in Managers, NEW j \in Jobs
    PROVE  /\ seen'[m][j] >= seen[m][j]
           /\ Busy(m)' => \/ Busy(m) /\ w'[m].job = w[m].job /\ w'[m].rv = w[m].rv
                          \/ w'[m].rv = seen[m][w'[m].job]
<1> USE DEF IInv, TypeOK
<1>1. seen[m][j] \in 1 .. Len(hist[j]) /\ Len(hist[j]) \in Nat
  BY StoredIsVersion
<1>2. seen'[m][j] >= seen[m][j]
  <2>1. CASE UNCHANGED seen
    BY <1>1, <2>1
  <2>2. CASE \E n \in Managers, i \in Jobs : Deliver(n, i)
    BY <1>1, <2>2 DEF Deliver
  <2>3. CASE \E n \in Managers : Restart(n)
    BY <1>1, <2>3 DEF Restart
  <2>4. (\E n \in Managers : Step(n)) => UNCHANGED seen
    BY StepMovesOn
  <2> QED
    BY <2>1, <2>2, <2>3, <2>4 DEF Next, vars, Resync, DelayExpires, Reconcile,
       FetchFails, Dequeue, Crash, Environment, UserCreates, UserEdits, UserDeletes,
       UserStores, PodStarts, PodEnds, PodRemoved, PodEvicted, KubeletSets
<1>3. ASSUME Busy(m)'
      PROVE  \/ Busy(m) /\ w'[m].job = w[m].job /\ w'[m].rv = w[m].rv
             \/ w'[m].rv = seen[m][w'[m].job]
  <2>1. CASE w' = w
    BY <1>3, <2>1 DEF Busy
  <2>2. ASSUME NEW n \in Managers, Step(n)
        PROVE  Busy(m) /\ w'[m].job = w[m].job /\ w'[m].rv = w[m].rv
    BY <1>3, <2>2, StepMovesOn DEF MovesOn, Busy
  <2>3. ASSUME NEW n \in Managers, NEW i \in Jobs, Reconcile(n, i)
        PROVE  \/ Busy(m) /\ w'[m].job = w[m].job /\ w'[m].rv = w[m].rv
               \/ w'[m].rv = seen[m][w'[m].job]
    <3>1. w'[m] = w[m] \/ (w'[m].job = i /\ w'[m].rv = seen[m][i])
      BY <2>3 DEF Reconcile
    <3> QED
      BY <1>3, <3>1 DEF Busy
  <2>4. ASSUME NEW n \in Managers, Crash(n) \/ Restart(n)
        PROVE  Busy(m) /\ w'[m].job = w[m].job /\ w'[m].rv = w[m].rv
    <3>1. w'[m] = w[m] \/ w'[m] \in {Idle, Down}
      BY <2>4 DEF Crash, Restart
    <3> QED
      BY <1>3, <3>1 DEF Busy, Idle, Down
  <2> QED
    BY <2>1, <2>2, <2>3, <2>4 DEF Next, vars, Deliver, Resync, DelayExpires,
       FetchFails, Environment, UserCreates, UserEdits, UserDeletes, UserStores,
       PodStarts, PodEnds, PodRemoved, PodEvicted, KubeletSets
<1> QED
  BY <1>2, <1>3

\* A lone manager stays ahead of the pods it creates.
LEMMA NextKeepsPodsSeen ==
    ASSUME IInv, PodsAreSeen, OneManager, [Next]_vars
    PROVE  PodsAreSeen'
<1> USE DEF IInv
<1> SUFFICES ASSUME NEW m \in Managers, NEW j \in Jobs
             PROVE  /\ pods'[j].born <= seen'[m][j]
                    /\ Busy(m)' /\ w'[m].job = j => pods'[j].born <= w'[m].rv
  BY DEF PodsAreSeen, Busy
<1>1. IInv' /\ pods[j].born \in Nat /\ seen[m][j] \in Nat \ {0} /\ seen'[m][j] \in Nat
  BY NextKeepsIInv DEF TypeOK, Pods
<1>2. /\ seen'[m][j] >= seen[m][j]
      /\ Busy(m)' => \/ Busy(m) /\ w'[m].job = w[m].job /\ w'[m].rv = w[m].rv
                     \/ w'[m].rv = seen[m][w'[m].job]
  BY NextOnCaches
<1>3. pods[j].born <= seen[m][j] /\ (Busy(m) /\ w[m].job = j => pods[j].born <= w[m].rv)
  BY DEF PodsAreSeen
<1>4. Busy(m) => w[m].rv \in 1 .. seen[m][w[m].job]
  BY BusyHasTask
<1>5. CASE pods'[j].born = pods[j].born \/ pods'[j].born = 0
  <2>1. pods'[j].born <= pods[j].born
    BY <1>1, <1>5
  <2> QED
    BY <1>1, <1>2, <1>3, <1>4, <1>5, <2>1
<1>6. CASE \E n \in Managers : Create(n) /\ w[n].job = j /\ pods'[j].born = w[n].rv
  <2>1. Create(m) /\ w[m].job = j /\ pods'[j].born = w[m].rv
    BY <1>6 DEF OneManager
  <2>2. Step(m) /\ Busy(m)
    BY <2>1 DEF Step, Create, Busy
  <2>3. w[m].rv \in 1 .. seen[m][j]
    BY <1>4, <2>1, <2>2
  <2>4. Busy(m)' => w'[m].rv = w[m].rv
    BY <2>2, StepMovesOn DEF MovesOn
  <2> QED
    BY <1>1, <1>2, <2>1, <2>3, <2>4
<1> QED
  BY <1>5, <1>6, NextOnBorn

-----------------------------------------------------------------------------
\* Nothing is doomed and there are no pods at first.
LEMMA InitIsDoomedInv == Init => DoomedInv
<1> SUFFICES ASSUME Init PROVE DoomStays /\ ActsOnDoomed /\ PodsAreSeen
  BY InitEstablishesIInv DEF DoomedInv
<1>1. DoomStays
  BY DEF Init, DoomStays, Doomed, Tombstone
<1>2. ActsOnDoomed
  BY DEF Init, ActsOnDoomed, Idle
<1>3. PodsAreSeen
  <2>1. \A m \in Managers, j \in Jobs : pods[j].born = 0 /\ seen[m][j] = 1
    BY DEF Init, NoPod
  <2>2. \A m \in Managers : ~Busy(m)
    BY DEF Init, Busy, Idle
  <2> QED
    BY <2>1, <2>2 DEF PodsAreSeen
<1> QED
  BY <1>1, <1>2, <1>3

\* No step of a lone manager or of its environment breaks the invariant.
LEMMA NextKeepsDoomedInv ==
    ASSUME OneManager, DoomedInv, [Next]_vars
    PROVE  DoomedInv'
BY NextKeepsIInv, NextKeepsDoom, NextKeepsActsOnDoomed, NextKeepsPodsSeen DEF DoomedInv

\* A pod that a lone manager is about to delete has to go: its job has been
\* doomed since the worker's copy was stored, or was deleted after the pod was
\* created.
LEMMA DeletesTheDoomed ==
    ASSUME DoomedInv, NEW m \in Managers, w[m].pc \in {"cleanup", "delete"}
    PROVE  Doomed(Stored(w[m].job)) \/ Outlived(w[m].job)
<1> DEFINE j == w[m].job
<1>1. /\ Busy(m) /\ j \in Jobs /\ w[m].rv \in 1 .. Len(hist[j])
      /\ pods[j].born \in Nat /\ Len(hist[j]) \in Nat
      /\ pods[j].born <= w[m].rv
  <2>1. Busy(m)
    BY DEF Busy
  <2> QED
    BY <2>1, BusyHasTask, StoredIsVersion DEF DoomedInv, IInv, TypeOK, Pods, PodsAreSeen
<1>2. \/ Doomed(Stored(j))
      \/ \E v \in w[m].rv .. Len(hist[j]) : hist[j][v].phase = "Absent"
  <2>1. CASE Doomed(Copy(m))
    BY <1>1, <2>1 DEF DoomedInv, DoomStays, Copy
  <2>2. CASE Copy(m).phase = "Absent"
    BY <1>1, <2>2 DEF Copy
  <2> QED
    BY <2>1, <2>2 DEF DoomedInv, ActsOnDoomed
<1> QED
  BY <1>1, <1>2 DEF Outlived

\* A lone manager, however often it crashes, fails or reads stale copies, only
\* deletes the pod of a job that has failed, is complete and being deleted, or
\* is gone: never that of a job of the same name created since.
THEOREM OnlyDoomedPodsAreDeleted ==
    ASSUME OneManager
    PROVE  Spec => OnlyDoomedPodsDeleted
<1>1. DoomedInv /\ [Next]_vars => DoomedInv'
  BY NextKeepsDoomedInv
<1>2. DoomedInv /\ [Next]_vars =>
          [\A m \in Managers :
              w[m].pc \in {"cleanup", "delete"} /\ w'[m] # w[m] =>
                  LET j == w[m].job IN
                  pods'[j].terminating /\ ~pods[j].terminating =>
                      \/ Stored(j).phase = "Failed"
                      \/ Stored(j).phase = "Complete" /\ Stored(j).deleting
                      \/ Outlived(j)]_vars
  BY DeletesTheDoomed DEF Doomed
<1> QED
  BY <1>1, <1>2, InitIsDoomedInv, PTL DEF Spec, OnlyDoomedPodsDeleted
=============================================================================
