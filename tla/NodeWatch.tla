------------------------------ MODULE NodeWatch ------------------------------
(***************************************************************************)
(* CheckClusterHealth and WaitForNodesReady (pkg/k8s): the health gate of  *)
(* the upgrade and restore tests.  The nodes are listed, and when too few  *)
(* are ready a watch is opened whose events update a count of ready nodes. *)
(* Nodes come, go and change readiness between all of these calls.         *)
(***************************************************************************)
EXTENDS Naturals, FiniteSets, Sequences, Functions

CONSTANTS
    Nodes,       \* every node that may ever be part of the cluster
    MinReady,    \* values of the argument minReadyNodes
    MaxChanges   \* bound: changes of the cluster

ASSUME NodeWatchConstants ==
    /\ IsFiniteSet(Nodes)
    /\ MinReady \subseteq Nat
    /\ MaxChanges \in Nat

VARIABLES
    cluster,        \* each node: "absent", "notReady" or "ready"
    changes,        \* changes of the cluster so far
    call,           \* the next call, "ok" or "err" once CheckClusterHealth has returned
    minReadyNodes,  \* the threshold, clamped once the nodes are listed
    readyNodesMap,  \* the readiness last heard of each node
    nodesReady,     \* the count the threshold is compared with
    events,         \* events sent and not yet received, empty without a watch
    everReady       \* history: nodes that have been ready since the list was taken

watchVars == <<cluster, changes, call, minReadyNodes, readyNodesMap, nodesReady, events, everReady>>
waiter == <<call, minReadyNodes, readyNodesMap, nodesReady>>

Present    == {n \in Nodes : cluster[n] # "absent"}
ReadyNodes == {n \in Nodes : cluster[n] = "ready"}

Event(n, ready) == [node |-> n, ready |-> ready]

WatchInit ==
    /\ cluster \in [Nodes -> {"absent", "notReady", "ready"}]
    /\ changes = 0
    /\ call = "health"
    /\ minReadyNodes \in MinReady
    /\ readyNodesMap = [n \in Nodes |-> FALSE]
    /\ nodesReady = 0
    /\ events = <<>>
    /\ everReady = {}

-----------------------------------------------------------------------------
(* The cluster (external) *)

\* A node joins, changes its readiness or is deleted.  A watch is told of it with the
\* node object; the object of a DELETED event is the last one the node had.
Change(n) ==
    /\ changes < MaxChanges
    /\ changes' = changes + 1
    /\ \E status \in {"absent", "notReady", "ready"} \ {cluster[n]} :
          /\ cluster' = [cluster EXCEPT ![n] = status]
          /\ events' = IF call # "select" THEN events
                       ELSE Append(events, Event(n, IF status = "absent" THEN cluster[n] = "ready"
                                                                         ELSE status = "ready"))
          /\ everReady' = IF status = "ready" THEN everReady \cup {n} ELSE everReady
    /\ UNCHANGED waiter

-----------------------------------------------------------------------------
(* CheckClusterHealth and checkInitialNodesReady *)

Return(result) ==
    /\ call' = result
    /\ events' = <<>>
    /\ UNCHANGED <<cluster, changes, everReady>>

\* GetAPIServerHealth answers ok, or fails after its last attempt.
Health ==
    /\ call = "health"
    /\ \/ /\ call' = "list"
          /\ UNCHANGED <<cluster, changes, events, everReady>>
       \/ Return("err")
    /\ UNCHANGED <<minReadyNodes, readyNodesMap, nodesReady>>

\* A threshold of zero, or one above the number of nodes, is the number of nodes.
Threshold(min) ==
    IF min = 0 \/ min > Cardinality(Present) THEN Cardinality(Present) ELSE min

\* The list of nodes is taken.  No node at all is an error.
List ==
    /\ call = "list"
    /\ \/ /\ Present # {}
          /\ minReadyNodes' = Threshold(minReadyNodes)
          /\ readyNodesMap' = [n \in Nodes |-> n \in ReadyNodes]
          /\ nodesReady' = Cardinality(ReadyNodes)
          /\ everReady' = ReadyNodes
          /\ call' = IF nodesReady' >= minReadyNodes' THEN "ok" ELSE "watch"
          /\ UNCHANGED <<cluster, changes, events>>
       \/ Return("err") /\ UNCHANGED <<minReadyNodes, readyNodesMap, nodesReady>>

-----------------------------------------------------------------------------
(* watchNodesReady *)

\* mutant: the watch starts without the nodes that are there
WatchFromNow ==
    /\ call = "watch"
    /\ call' = "select"
    /\ UNCHANGED <<cluster, changes, minReadyNodes, readyNodesMap, nodesReady, events, everReady>>

\* A watch without a resource version first sends an ADDED event for every node there
\* is, in some order.  Opening it may fail, and the five minutes may have passed.
Watch ==
    /\ call = "watch"
    /\ \/ /\ call' = "select"
          /\ events' \in {[i \in DOMAIN order |-> Event(order[i], order[i] \in ReadyNodes)] :
                            order \in Bijection(1..Cardinality(Present), Present)}
          /\ UNCHANGED <<cluster, changes, everReady>>
       \/ Return("err")
    /\ UNCHANGED <<minReadyNodes, readyNodesMap, nodesReady>>

\* mutant: a node that is not ready is subtracted, whatever it was before
CountedDownAlways(n, ready) == IF ready THEN nodesReady + 1 ELSE nodesReady - 1

\* mutant: every event of a ready node counts
CountedAlways(n, ready) == IF ready THEN nodesReady + 1 ELSE nodesReady

\* mutant: a node that is no longer ready is not subtracted
CountedUpOnly(n, ready) ==
    IF ready /\ ~readyNodesMap[n] THEN nodesReady + 1 ELSE nodesReady

\* A node that changes its readiness, as far as the map knows, changes the count.
Counted(n, ready) ==
    CASE ready /\ ~readyNodesMap[n] -> nodesReady + 1
      [] ~ready /\ readyNodesMap[n] -> nodesReady - 1
      [] ready = readyNodesMap[n]   -> nodesReady

\* An event is received.  Its type is not looked at.
Receive ==
    /\ call = "select"
    /\ events # <<>>
    /\ LET e == Head(events)
       IN  /\ readyNodesMap' = [readyNodesMap EXCEPT ![e.node] = e.ready]
           /\ nodesReady' = Counted(e.node, e.ready)
    /\ IF nodesReady' >= minReadyNodes
       THEN Return("ok")
       ELSE events' = Tail(events) /\ UNCHANGED <<cluster, changes, call, everReady>>
    /\ UNCHANGED minReadyNodes

\* The context expires, or the API server closes the watch, with or without events left.
GiveUp ==
    /\ call = "select"
    /\ Return("err")
    /\ UNCHANGED <<minReadyNodes, readyNodesMap, nodesReady>>

Returned == call \in {"ok", "err"} /\ UNCHANGED watchVars

WaiterStep == Health \/ List \/ Watch \/ Receive

WatchNext == (\E n \in Nodes : Change(n)) \/ WaiterStep \/ GiveUp \/ Returned

WatchSpec == WatchInit /\ [][WatchNext]_watchVars

\* The goroutine that waits runs.  Nothing is assumed of the timer or of the cluster.
FairSpec == WatchSpec /\ WF_watchVars(WaiterStep)

-----------------------------------------------------------------------------
(* Properties *)

WatchTypeOK ==
    /\ cluster \in [Nodes -> {"absent", "notReady", "ready"}]
    /\ changes \in 0..MaxChanges
    /\ call \in {"health", "list", "watch", "select", "ok", "err"}
    /\ minReadyNodes \in Nat
    /\ readyNodesMap \in [Nodes -> BOOLEAN]
    /\ nodesReady \in Nat
    /\ events \in Seq([node : Nodes, ready : BOOLEAN])
    /\ everReady \subseteq Nodes

\* The incremental count never drifts from the map it is derived from: repeated, late and
\* synthetic events are counted once.
CountIsOfTheMap == nodesReady = Cardinality({n \in Nodes : readyNodesMap[n]})

\* A node is counted once, and only if it has been ready since the list was taken, so the
\* health check does not pass on readiness that never was.
OkNodesWereReady ==
    /\ CountIsOfTheMap
    /\ {n \in Nodes : readyNodesMap[n]} \subseteq everReady
    /\ call = "ok" => Cardinality(everReady) >= minReadyNodes /\ minReadyNodes > 0

\* Once enough nodes stay ready the check passes without the timer: no change between the
\* list and the watch is missed.
PassesWhenReady ==
    (<>[](Cardinality(ReadyNodes) >= minReadyNodes) /\ [](call # "err")) => <>(call = "ok")
=============================================================================
