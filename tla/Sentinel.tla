------------------------------ MODULE Sentinel ------------------------------
(***************************************************************************)
(* The operator as a whole: HPCJobController with its step Nodes replaced  *)
(* by the node pass of GpuNodes, under a scheduler and kubelets that see   *)
(* the pods of the one and the taints of the other.                        *)
(*                                                                         *)
(* A step of the composition is a step of either module or, where one      *)
(* call belongs to both (the first and the last of a pass, the creation of *)
(* a pod), the conjunction of the two.                                     *)
(***************************************************************************)
EXTENDS Integers, Sequences

CONSTANTS
    Jobs, Managers,
    Hosts,          \* the GPU nodes
    Gpus, GpuCount,
    Image,          \* the image users submit
    Nowhere,        \* the node of a pod that is not scheduled
    NoLabel, MaxVersions, MaxFaults, MaxCrashes, MaxFlips, MaxNodeFaults

ASSUME SentinelAssumption ==
    /\ Gpus \in [Hosts -> Nat]
    /\ GpuCount \in [Jobs -> Nat \ {0}]
    /\ Image \in STRING
    /\ Nowhere \notin Hosts
    /\ NoLabel \notin Int
    /\ {MaxVersions, MaxFaults, MaxCrashes, MaxFlips, MaxNodeFaults} \subseteq Nat

VARIABLES
    \* of HPCJobController
    hist, seen, queue, delayed, w, pods, faults, crashes,
    \* of GpuNodes
    taints, density, health, pass, quarantined, flips, nodeFaults,
    \* node[j]: the node job j's pod is bound to
    node

\* Users submit jobs that ask for what GpuCount says.
Controller ==
    INSTANCE HPCJobController
        WITH Specs <- {[image |-> Image, gpuCount |-> GpuCount[j]] : j \in Jobs},
             FetchMayFail <- FALSE

\* A pod as the node pass and the scheduler see it.
View(pod, n) ==
    IF pod.phase = "Absent" THEN [phase |-> "Absent"]
    ELSE IF n = Nowhere THEN [phase |-> "Unscheduled"]
    ELSE [phase |-> IF pod.phase \in {"Pending", "Running"} THEN "Active"
                    ELSE pod.phase,
          node |-> n]

\* Which job is looked at is the controller's business: for GpuNodes each may
\* be, any time.
Pass ==
    INSTANCE GpuNodes
        WITH Nodes <- Hosts,
             pods <- [j \in Jobs |-> View(pods[j], node[j])],
             waiting <- DOMAIN pods, faults <- nodeFaults, MaxFaults <- MaxNodeFaults

\* The jobs that have ever been submitted.
Submitted == {j \in Jobs : \E v \in 1 .. Len(hist[j]) : hist[j][v].phase # "Absent"}

\* What the operator as a whole is to GpuNodes: any submitted job may be looked
\* at, and a manager that dies is one of the faults.
WholePass ==
    INSTANCE GpuNodes
        WITH Nodes <- Hosts,
             pods <- [j \in Jobs |-> View(pods[j], node[j])],
             waiting <- Submitted,
             faults <- nodeFaults + crashes, MaxFaults <- MaxNodeFaults + MaxCrashes

controllerVars == <<hist, seen, queue, delayed, w, pods, faults, crashes>>
passVars == <<taints, density, health, pass, quarantined, flips, nodeFaults>>
vars == <<controllerVars, passVars, node>>

-----------------------------------------------------------------------------
(* The manager. *)

\* handlePending after the scan for the job's pod: the pass begins.
ScanFindsNoPod(m) ==
    /\ Controller!ScanFindsNoPod(m)
    /\ UNCHANGED node
    /\ IF w'[m].pc = "nodes" THEN Pass!Begin(m, w[m].job) ELSE UNCHANGED passVars

\* A call of the pass after which it goes on.
PassGoesOn(m) ==
    /\ UNCHANGED <<controllerVars, node>>
    /\ \/ Pass!List(m) \/ Pass!ScanHealth(m)
       \/ Pass!CountPods(m) \/ Pass!Restore(m) \/ Pass!Isolate(m)
    /\ pass'[m] # Pass!Idle

\* Mutant: the worker looks for room without waiting for the goroutines of
\* its pass.
DoesNotWait(m) ==
    /\ Controller!Nodes(m)
    /\ w'[m] = Controller!Idle
    /\ \/ Pass!List(m) \/ Pass!ScanHealth(m)
       \/ /\ pass[m].pc = "sync"
          /\ Pass!Candidates(m) = {}
          /\ Pass!EndPass(m)
          /\ UNCHANGED <<taints, density, health, quarantined, flips, nodeFaults>>
    /\ pass'[m] = Pass!Idle
    /\ UNCHANGED node

\* The pass fails or finds no room, and the job is looked at again later.
PassEnds(m) ==
    /\ Controller!Nodes(m)
    /\ w'[m] = Controller!Idle
    /\ UNCHANGED node
    /\ Pass!List(m) \/ Pass!ScanHealth(m) \/ Pass!NoCapacity(m)
    /\ pass'[m] = Pass!Idle

\* Mutant: the worker does not wait for the goroutines if it finds room.
DoesNotWaitForRoom(m) ==
    /\ pass[m].pc = "sync"
    /\ Pass!Candidates(m) # {}
    /\ Controller!Nodes(m)
    /\ w'[m].pc = "create"
    /\ UNCHANGED <<passVars, node>>

\* handlePending: both goroutines are done and there is a candidate.
PassFindsRoom(m) ==
    /\ Pass!Synced(m)
    /\ Pass!Candidates(m) # {}
    /\ Controller!Nodes(m)
    /\ w'[m].pc = "create"
    /\ UNCHANGED <<passVars, node>>

\* One call, one outcome: the two modules agree on whether it fails.
Create(m) ==
    /\ Controller!Create(m)
    /\ UNCHANGED node
    /\ Pass!Create(m)
    /\ (faults' = faults) <=> (nodeFaults' = nodeFaults)

\* The calls that have nothing to do with nodes.
OtherCall(m) ==
    /\ \/ Controller!ScanFails(m) \/ Controller!ScanFindsPod(m)
       \/ Controller!Cleanup(m) \/ Controller!List(m) \/ Controller!Delete(m)
       \/ Controller!Finalizer(m) \/ Controller!Write(m)
    /\ UNCHANGED <<passVars, node>>

Step(m) ==
    \/ ScanFindsNoPod(m) \/ PassGoesOn(m) \/ PassEnds(m) \/ PassFindsRoom(m)
    \/ Create(m) \/ OtherCall(m)

Reconcile(m, j) == Controller!Reconcile(m, j) /\ UNCHANGED <<passVars, node>>

Deliver(m, j) == Controller!Deliver(m, j) /\ UNCHANGED <<passVars, node>>

Resync(m, j) == Controller!Resync(m, j) /\ UNCHANGED <<passVars, node>>

DelayExpires(m, j) == Controller!DelayExpires(m, j) /\ UNCHANGED <<passVars, node>>

\* A manager that dies takes its pass with it.
Crash(m) ==
    /\ Controller!Crash(m)
    /\ pass' = [pass EXCEPT ![m] = Pass!Idle]
    /\ UNCHANGED <<taints, density, health, quarantined, flips, nodeFaults, node>>

Restart(m) == Controller!Restart(m) /\ UNCHANGED <<passVars, node>>

-----------------------------------------------------------------------------
(* Users, the scheduler and the kubelets. *)

UserSubmits(j) ==
    /\ Controller!UserCreates(j)
    /\ Controller!Stored(j)'.spec.gpuCount = GpuCount[j]
    /\ UNCHANGED <<passVars, node>>

UserDeletes(j) == Controller!UserDeletes(j) /\ UNCHANGED <<passVars, node>>

Schedule(j) ==
    /\ ~pods[j].terminating
    /\ \E n \in Hosts : node' = [node EXCEPT ![j] = n]
    /\ UNCHANGED <<controllerVars, taints, density, health, pass, quarantined, flips, nodeFaults>>
    /\ Pass!Schedule(j)

PodStarts(j) ==
    /\ node[j] # Nowhere
    /\ Controller!PodStarts(j)
    /\ UNCHANGED <<passVars, node>>

PodEnds(j) ==
    /\ node[j] # Nowhere
    /\ Controller!PodEnds(j)
    /\ UNCHANGED <<passVars, node>>

PodRemoved(j) ==
    /\ Controller!PodRemoved(j)
    /\ node' = [node EXCEPT ![j] = Nowhere]
    /\ UNCHANGED passVars

PodEvicted(j) == Controller!PodEvicted(j) /\ UNCHANGED <<passVars, node>>

HealthChanges(n) == UNCHANGED <<controllerVars, node>> /\ Pass!HealthChanges(n)

-----------------------------------------------------------------------------
Init ==
    /\ Controller!Init
    /\ node = [j \in Jobs |-> Nowhere]
    /\ taints = [n \in Hosts |-> {"gpu"}]
    /\ density = [n \in Hosts |-> NoLabel]
    /\ health \in [Hosts -> Pass!Verdicts]
    /\ pass = [m \in Managers |-> Pass!Idle]
    /\ quarantined = {}
    /\ flips = 0
    /\ nodeFaults = 0

Next ==
    \/ \E m \in Managers, j \in Jobs :
           Reconcile(m, j) \/ Deliver(m, j) \/ Resync(m, j) \/ DelayExpires(m, j)
    \/ \E m \in Managers : Step(m) \/ Crash(m) \/ Restart(m)
    \/ \E j \in Jobs :
           \/ UserSubmits(j) \/ UserDeletes(j)
           \/ Schedule(j) \/ PodStarts(j) \/ PodEnds(j) \/ PodRemoved(j) \/ PodEvicted(j)
    \/ \E n \in Hosts : HealthChanges(n)

Spec == Init /\ [][Next]_vars

\* As in HPCJobController.  The passes need no fairness of their own, they
\* are steps of the worker; here pods are scheduled, start and end as well.
Fairness ==
    /\ \A m \in Managers, j \in Jobs :
           /\ SF_vars(Reconcile(m, j))
           /\ WF_vars(Deliver(m, j)) /\ WF_vars(Resync(m, j)) /\ WF_vars(DelayExpires(m, j))
    /\ \A m \in Managers : WF_vars(Step(m)) /\ WF_vars(Restart(m))
    /\ \A j \in Jobs :
           /\ WF_vars(Schedule(j))
           /\ WF_vars(PodStarts(j))
           /\ WF_vars(PodEnds(j))
           /\ WF_vars(PodRemoved(j))

FairSpec == Spec /\ Fairness

-----------------------------------------------------------------------------
(* Properties. *)

\* Both modules' types, and what ties the two together.  A worker has a pass,
\* for the job of its reconcile, from the scan for its pod to the call that
\* creates one; when it makes that call both goroutines are done and there
\* is a candidate.  A pod is bound to a node if it ever ran, and no node is
\* left over from the pod before (handlePending, fetchNodesAndSyncStatus).
TypeOK ==
    /\ Controller!TypeOK
    /\ WholePass!TypeOK
    /\ node \in [Jobs -> Hosts \cup {Nowhere}]
    /\ nodeFaults \in 0 .. MaxNodeFaults
    /\ \A m \in Managers :
           /\ pass[m] = Pass!Idle <=> w[m].pc \notin {"nodes", "create"}
           /\ pass[m] # Pass!Idle => pass[m].job = w[m].job
           /\ w[m].pc = "create" => Pass!Synced(m) /\ Pass!Candidates(m) # {}
    /\ \A j \in Jobs :
           /\ pods[j].phase = "Absent" => node[j] = Nowhere
           /\ pods[j].phase \in {"Running", "Succeeded", "Failed"} => node[j] # Nowhere

Ends(j) ==
    Controller!Stored(j).phase = "" ~> Controller!Stored(j).phase \notin Controller!Active

\* Every job a user submits ends, one after the other if there is no room for
\* all, once its nodes are healthy for good: neither the isolation of a node,
\* nor a label read too early, nor a pod that waits for the scheduler leaves
\* a job waiting for ever.  That takes a pass in which the restore patch
\* succeeds; RestoreHealthyNodes only logs a failed one, the job gets its pod,
\* and with the last waiting job gone no pass ever opens the node.
NodesHealthy == <>[](\A n \in Hosts : health[n] = "healthy")

JobsEndOnceHealthy == NodesHealthy => \A j \in Jobs : Ends(j)

\* Once the nodes are healthy and open for good, a job ends whatever calls
\* have failed before and wherever its manager died: delays, retries, resyncs
\* and the first list of a new manager bring it back to a pass that now finds
\* its node healthy and has refreshed its label.
NodesOpen ==
    <>[](\A n \in Hosts : health[n] = "healthy" /\ "unhealthy" \notin taints[n])

JobsEnd == NodesOpen => \A j \in Jobs : Ends(j)

\* The pods of failed and deleted jobs are eventually deleted, bound to a node
\* or not, through failed calls and conflicts; but a deletion that is seen
\* by no manager, because its manager is down, leaves the pod behind.
LeftoverPodsGo == [](crashes = 0) => Controller!LeftoverPodsGo

\* Interleaved with the controller, the scheduler and the kubelets, and cut
\* short wherever a manager dies, the node passes do what GpuNodes says, so
\* that what holds of passes that only other passes disturb holds here.
FollowsNodePass == WholePass!Spec
=============================================================================
