------------------------ MODULE ClusterRestoreProofs ------------------------
(* Proofs about ClusterRestore: no snapshot is lost but the one that has been *)
(* restored, the two clusters never serve together, and the health gate sees  *)
(* the new server or an old node that has been asked to go.                   *)
EXTENDS ClusterRestore, TLAPS

\* Steps has every step once, so that the step after each of them is the next one.
LEMMA Successors ==
    /\ After("token") = "workload"       /\ After("workload") = "findProduct"
    /\ After("findProduct") = "take"     /\ After("take") = "list"
    /\ After("list") = "validate"        /\ After("validate") = "stop"
    /\ After("stop") = "create"          /\ After("create") = "install"
    /\ After("install") = "findOnNew"    /\ After("findOnNew") = "restore"
    /\ After("restore") = "start"        /\ After("start") = "kubeconfig"
    /\ After("kubeconfig") = "client"    /\ After("client") = "deleteOld"
    /\ After("deleteOld") = "health"     /\ After("health") = "update"
    /\ After("update") = "deleteSnapshot"
  <1>1. DOMAIN Steps = 1 .. 19
    BY DEF Steps
  <1>2. ASSUME NEW k \in 1 .. 18, NEW name, Steps[k] = name,
               \A j \in 1 .. 19 : Steps[j] = name => j = k
        PROVE  After(name) = Steps[k + 1]
    <2>1. \E j \in DOMAIN Steps : Steps[j] = name
      BY <1>1, <1>2
    <2>2. (CHOOSE j \in DOMAIN Steps : Steps[j] = name) = k
      BY <1>1, <1>2
    <2> QED
      BY <2>2 DEF After
  <1> QED
    BY <1>2 DEF Steps

\* Where the test is: before the snapshot has been taken, before the old cluster has
\* been stopped, before the old nodes are deleted, and after it.
ToTake   == {"token", "workload", "findProduct", "take"}
ToStop   == ToTake \cup {"list", "validate", "stop"}
ToStart  == ToStop \cup {"create", "install", "findOnNew", "restore"}
Deleted  == {"health", "update", "deleteSnapshot", "end"}
Labels   == ToStart \cup {"start", "kubeconfig", "client", "deleteOld"} \cup Deleted

TypeInv == TypeOK /\ pc \in Labels

\* The snapshot of the test is in the directory from the step that takes it, and in the
\* path from the step that lists it; what has been restored is in the path.
SnapshotInv ==
    /\ pc \notin ToTake => "onDemand" \in dir
    /\ pc \notin ToTake \cup {"list"} => "onDemand" \in onDemandPath
    /\ pc \notin ToStart => db \in onDemandPath

\* The loop over the instances has stopped those before i, and nothing starts them again.
StoppedInv ==
    /\ pc = "stop" => \A s \in 1 .. i - 1 : instance[s] = "stopped"
    /\ pc \notin ToStop => \A s \in Old : instance[s] = "stopped"
    /\ service \in {"starting", "active"} => pc \notin ToStart

\* The loop over the nodes has asked for the deletion of those before i.
DeletedInv ==
    /\ pc = "deleteOld" => \A s \in 1 .. i - 1 : s \in deleting
    /\ pc \in Deleted => Old \subseteq deleting

RestoreInv == TypeInv /\ SnapshotInv /\ StoppedInv /\ DeletedInv

\* The restore begins in its invariant.
LEMMA RestoreInvInit == Init => RestoreInv
  <1> SUFFICES ASSUME Init PROVE RestoreInv
    OBVIOUS
  <1>1. OldNodes \in Nat \ {0}
    BY RestoreConstants
  <1>2. TypeInv
    BY <1>1 DEF Init, TypeInv, TypeOK, Labels, ToStart, ToStop, ToTake, Steps, Old, New, Nodes,
                Snapshots
  <1>3. SnapshotInv /\ StoppedInv /\ DeletedInv
    BY <1>1 DEF Init, SnapshotInv, StoppedInv, DeletedInv, ToStart, ToStop, ToTake, Deleted, Old,
                New, Nodes
  <1> QED
    BY <1>2, <1>3 DEF RestoreInv

\* The labels are the steps of the script.
LEMMA LabelsAreSteps == \A label \in Labels : \E k \in DOMAIN Steps : Steps[k] = label
  <1>1. DOMAIN Steps = 1 .. 19
    BY DEF Steps
  <1> QED
    BY <1>1 DEF Steps, Labels, ToStart, ToStop, ToTake, Deleted

\* Each step keeps it.
LEMMA RestoreInvStep == RestoreInv /\ [Next]_vars => RestoreInv'
  <1> SUFFICES ASSUME RestoreInv, [Next]_vars PROVE RestoreInv'
    OBVIOUS
  <1> USE Successors, RestoreConstants
      DEF At, Pass, PassEach, Fail, Set, outside, driver, Old, New, Nodes, Snapshots, ApiServes,
          RestoreInv, TypeInv, TypeOK, SnapshotInv, StoppedInv, DeletedInv, Labels, ToStart,
          ToStop, ToTake, Deleted
  <1>1. CASE Plain
    <2>1. TypeInv'
      BY <1>1, LabelsAreSteps DEF Plain
    <2>2. SnapshotInv'
      BY <1>1 DEF Plain
    <2>3. StoppedInv' /\ DeletedInv'
      BY <1>1 DEF Plain
    <2> QED
      BY <2>1, <2>2, <2>3
  <1>2. CASE FindPath
    <2>1. TypeInv'
      BY <1>2, LabelsAreSteps DEF FindPath
    <2>2. SnapshotInv'
      BY <1>2 DEF FindPath
    <2>3. StoppedInv' /\ DeletedInv'
      BY <1>2 DEF FindPath
    <2> QED
      BY <2>1, <2>2, <2>3
  <1>3. CASE TakeSnapshot
    <2>a. /\ dir' \in {dir, dir \cup {"onDemand"}}
          /\ pc = "take"
          /\ UNCHANGED <<instance, service, db, api, deleting, onDemandPath, kubeConfig, serverIPs>>
          /\ \/ dir' = dir \cup {"onDemand"} /\ Pass
             \/ Fail
      BY <1>3 DEF TakeSnapshot
    <2>b. dir' \subseteq Snapshots /\ (Pass => "onDemand" \in dir')
      <3>1. "onDemand" \in dir \cup {"onDemand"}
        OBVIOUS
      <3> QED
        BY <2>a, <3>1
    <2>c. bucket' \subseteq Snapshots
      BY <1>3 DEF TakeSnapshot
    <2>1. TypeInv'
      BY <2>a, <2>b, <2>c, LabelsAreSteps
    <2>2. SnapshotInv'
      BY <2>a, <2>b
    <2>3. StoppedInv' /\ DeletedInv'
      BY <1>3 DEF TakeSnapshot
    <2> QED
      BY <2>1, <2>2, <2>3
  <1>4. CASE List
    <2>1. /\ UNCHANGED <<instance, dir, bucket, service, db, api, deleting, kubeConfig, serverIPs>>
          /\ pc = "list" /\ verdict = "running"
      BY <1>4 DEF List
    <2>2. \/ onDemandPath' = dir /\ pc' = "validate" /\ i' = 1 /\ verdict' = "running"
          \/ onDemandPath' = onDemandPath /\ pc' = "list" /\ i' = i /\ verdict' = "failed"
      BY <1>4 DEF List
    <2>3. "onDemand" \in dir
      BY <2>1
    <2>4. TypeInv'
      <3>1. onDemandPath' \subseteq Snapshots
        BY <2>2
      <3>2. pc' \in Labels /\ i' \in Old
        BY <2>2
      <3> QED
        BY <2>1, <2>2, <3>1, <3>2, LabelsAreSteps
    <2>5. SnapshotInv'
      BY <2>1, <2>2, <2>3
    <2>6. StoppedInv' /\ DeletedInv'
      BY <1>4 DEF List
    <2> QED
      BY <2>4, <2>5, <2>6
  <1>5. CASE Validate
    <2>1. TypeInv'
      BY <1>5, LabelsAreSteps DEF Validate
    <2>2. SnapshotInv'
      BY <1>5 DEF Validate
    <2>3. StoppedInv' /\ DeletedInv'
      BY <1>5 DEF Validate
    <2> QED
      BY <2>1, <2>2, <2>3
  <1>6. CASE StopInstance
    <2>1. TypeInv'
      BY <1>6, LabelsAreSteps DEF StopInstance
    <2>2. SnapshotInv'
      BY <1>6 DEF StopInstance
    <2>3. StoppedInv' /\ DeletedInv'
      BY <1>6 DEF StopInstance
    <2> QED
      BY <2>1, <2>2, <2>3
  <1>7. CASE NewInstance
    <2>1. TypeInv'
      BY <1>7, LabelsAreSteps DEF NewInstance
    <2>2. SnapshotInv'
      BY <1>7 DEF NewInstance
    <2>3. StoppedInv' /\ DeletedInv'
      BY <1>7 DEF NewInstance
    <2> QED
      BY <2>1, <2>2, <2>3
  <1>8. CASE InstallProduct
    <2>1. TypeInv'
      BY <1>8, LabelsAreSteps DEF InstallProduct
    <2>2. SnapshotInv'
      BY <1>8 DEF InstallProduct
    <2>3. StoppedInv' /\ DeletedInv'
      BY <1>8 DEF InstallProduct
    <2> QED
      BY <2>1, <2>2, <2>3
  <1>9. CASE RestoreSnapshot
    <2>1. TypeInv'
      BY <1>9, LabelsAreSteps DEF RestoreSnapshot
    <2>2. SnapshotInv'
      BY <1>9 DEF RestoreSnapshot
    <2>3. StoppedInv' /\ DeletedInv'
      BY <1>9 DEF RestoreSnapshot
    <2> QED
      BY <2>1, <2>2, <2>3
  <1>10. CASE EnableAndStart
    <2>1. TypeInv'
      BY <1>10, LabelsAreSteps DEF EnableAndStart
    <2>2. SnapshotInv'
      BY <1>10 DEF EnableAndStart
    <2>3. StoppedInv' /\ DeletedInv'
      BY <1>10 DEF EnableAndStart
    <2> QED
      BY <2>1, <2>2, <2>3
  <1>11. CASE NewLocalKubeconfig
    <2>1. TypeInv'
      BY <1>11, LabelsAreSteps DEF NewLocalKubeconfig
    <2>2. SnapshotInv'
      BY <1>11 DEF NewLocalKubeconfig
    <2>3. StoppedInv' /\ DeletedInv'
      BY <1>11 DEF NewLocalKubeconfig
    <2> QED
      BY <2>1, <2>2, <2>3
  <1>12. CASE DeleteOldNode
    <2>a. /\ deleting' \subseteq deleting \cup {i}
          /\ PassEach \/ Fail
          /\ UNCHANGED <<dir, bucket, instance, service, db, api, onDemandPath, kubeConfig, serverIPs>>
          /\ pc = "deleteOld"
      BY <1>12 DEF DeleteOldNode
    <2>b. deleting' \subseteq Old
      BY <2>a
    <2>c. pc' \in Labels /\ i' \in Old /\ verdict' \in {"running", "passed", "failed"}
      BY <2>a
    <2>1. TypeInv'
      <3>1. \E k \in DOMAIN Steps : Steps[k] = pc'
        BY <2>c, LabelsAreSteps
      <3> QED
        BY <2>a, <2>b, <2>c, <3>1
    <2>2. SnapshotInv'
      BY <1>12 DEF DeleteOldNode
    <2>3. StoppedInv' /\ DeletedInv'
      BY <1>12 DEF DeleteOldNode
    <2> QED
      BY <2>1, <2>2, <2>3
  <1>13. CASE CheckHealth
    <2>1. TypeInv'
      BY <1>13, LabelsAreSteps DEF CheckHealth
    <2>2. SnapshotInv'
      BY <1>13 DEF CheckHealth
    <2>3. StoppedInv' /\ DeletedInv'
      BY <1>13 DEF CheckHealth
    <2> QED
      BY <2>1, <2>2, <2>3
  <1>14. CASE UpdateClusterIPs
    <2>1. TypeInv'
      BY <1>14, LabelsAreSteps DEF UpdateClusterIPs
    <2>2. SnapshotInv'
      BY <1>14 DEF UpdateClusterIPs
    <2>3. StoppedInv' /\ DeletedInv'
      BY <1>14 DEF UpdateClusterIPs
    <2> QED
      BY <2>1, <2>2, <2>3
  <1>15. CASE DeleteSnapshot
    <2>a. bucket' \subseteq bucket /\ verdict' = "passed" /\ pc' = "end" /\ pc = "deleteSnapshot"
          /\ UNCHANGED <<i, dir, instance, service, db, api, deleting, onDemandPath, kubeConfig, serverIPs>>
      BY <1>15 DEF DeleteSnapshot
    <2>1. TypeInv'
      BY <2>a, LabelsAreSteps
    <2>2. SnapshotInv'
      BY <2>a
    <2>3. StoppedInv' /\ DeletedInv'
      BY <2>a
    <2> QED
      BY <2>1, <2>2, <2>3
  <1>16. CASE ServiceStarts
    <2>1. TypeInv'
      BY <1>16, LabelsAreSteps DEF ServiceStarts
    <2>2. SnapshotInv'
      BY <1>16 DEF ServiceStarts
    <2>3. StoppedInv' /\ DeletedInv'
      BY <1>16 DEF ServiceStarts
    <2> QED
      BY <2>1, <2>2, <2>3
  <1>17. ASSUME NEW name \in Scheduled, ScheduledSnapshot(name) PROVE RestoreInv'
    <2>1. TypeInv'
      BY <1>17, LabelsAreSteps DEF ScheduledSnapshot
    <2>2. SnapshotInv'
      BY <1>17 DEF ScheduledSnapshot
    <2>3. StoppedInv' /\ DeletedInv'
      BY <1>17 DEF ScheduledSnapshot
    <2> QED
      BY <2>1, <2>2, <2>3
  <1>18. ASSUME NEW s \in Nodes, InstanceStops(s) PROVE RestoreInv'
    <2>1. TypeInv'
      BY <1>18, LabelsAreSteps DEF InstanceStops
    <2>2. SnapshotInv'
      BY <1>18 DEF InstanceStops
    <2>3. StoppedInv' /\ DeletedInv'
      BY <1>18 DEF InstanceStops
    <2> QED
      BY <2>1, <2>2, <2>3
  <1>19. ASSUME NEW s \in Nodes, NodeChanges(s) PROVE RestoreInv'
    <2>1. TypeInv'
      BY <1>19, LabelsAreSteps DEF NodeChanges
    <2>2. SnapshotInv'
      BY <1>19 DEF NodeChanges
    <2>3. StoppedInv' /\ DeletedInv'
      BY <1>19 DEF NodeChanges
    <2> QED
      BY <2>1, <2>2, <2>3
  <1>21. ASSUME NEW s \in Nodes, NodeGone(s) PROVE RestoreInv'
    <2>1. TypeInv'
      BY <1>21, LabelsAreSteps DEF NodeGone
    <2>2. SnapshotInv'
      BY <1>21 DEF NodeGone
    <2>3. StoppedInv' /\ DeletedInv'
      BY <1>21 DEF NodeGone
    <2> QED
      BY <2>1, <2>2, <2>3
  <1>20. CASE UNCHANGED vars
    BY <1>20 DEF vars
  <1> HIDE DEF RestoreInv
  <1> QED
    BY <1>1, <1>2, <1>3, <1>4, <1>5, <1>6, <1>7, <1>8, <1>9, <1>10, <1>11, <1>12, <1>13, <1>14, <1>15, <1>16, <1>17, <1>18, <1>19, <1>20, <1>21 DEF Next

\* For every size of the cluster and every schedule of snapshots, type correctness.
THEOREM RestoreTypes == Spec => []TypeOK
  <1>1. RestoreInv => TypeOK
    BY DEF RestoreInv, TypeInv
  <1> QED
    BY <1>1, RestoreInvInit, RestoreInvStep, PTL DEF Spec

\* For every size of the cluster and every schedule of snapshots, the test deletes no
\* snapshot from S3 but its own, once it has been restored, and passes with a snapshot of
\* the old cluster restored, its own if it is the only one.
THEOREM TheDataIsKept == Spec => DataIsKept
  <1> DEFINE Kept == /\ \A name \in bucket \ bucket' : name = "onDemand" /\ db = name
                     /\ verdict # "passed" /\ verdict' = "passed" =>
                           /\ db \in onDemandPath
                           /\ onDemandPath \cap Scheduled = {} => db = "onDemand"
  <1>1. RestoreInv /\ [Next]_vars => [Kept]_vars
    <2> SUFFICES ASSUME RestoreInv, Next PROVE Kept
      OBVIOUS
    <2>1. CASE DeleteSnapshot
      <3>1. "onDemand" \in onDemandPath /\ db \in onDemandPath /\ onDemandPath \subseteq Snapshots
        BY <2>1 DEF DeleteSnapshot, At, RestoreInv, SnapshotInv, TypeInv, TypeOK, ToTake, ToStop, ToStart
      <3>2. \A name \in bucket \ bucket' : onDemandPath = {name}
        BY <2>1 DEF DeleteSnapshot
      <3> QED
        BY <3>1, <3>2 DEF Snapshots
    <2>2. CASE ~DeleteSnapshot
      <3>1. bucket \subseteq bucket' /\ (verdict' = "passed" => verdict = "passed")
        BY <2>2 DEF Next, Plain, FindPath, TakeSnapshot, List, Validate, StopInstance,
           NewInstance, InstallProduct, RestoreSnapshot, EnableAndStart, NewLocalKubeconfig,
           DeleteOldNode, CheckHealth, UpdateClusterIPs, ServiceStarts, ScheduledSnapshot,
           InstanceStops, NodeChanges, NodeGone, At, Pass, PassEach, Fail, outside, driver
      <3> QED
        BY <3>1
    <2> QED
      BY <2>1, <2>2
  <1> QED
    BY <1>1, RestoreInvInit, RestoreInvStep, PTL DEF Spec, DataIsKept

\* For every size of the cluster, the restored cluster only comes up when every instance
\* of the old one has stopped.
THEOREM OnlyOneClusterServes == Spec => []OneClusterServes
  <1>1. RestoreInv => OneClusterServes
    BY DEF RestoreInv, StoppedInv, OneClusterServes, ToStart
  <1> QED
    BY <1>1, RestoreInvInit, RestoreInvStep, PTL DEF Spec

\* For every size of the cluster, the health gate passes on the new server unless an old
\* node that has been asked to go is late; none is left unasked.
THEOREM TheGateSeesNewServer == Spec => GateSeesNewServer
  <1>1. RestoreInv /\ [Next]_vars =>
            [pc # "update" /\ pc' = "update" =>
                /\ \A s \in Old : api[s] = "absent" \/ s \in deleting
                /\ (\A s \in deleting : api[s] # "ready") => api[New] = "ready"]_vars
    <2> SUFFICES ASSUME RestoreInv, Next, pc # "update", pc' = "update"
                 PROVE  /\ \A s \in Old : api[s] = "absent" \/ s \in deleting
                        /\ (\A s \in deleting : api[s] # "ready") => api[New] = "ready"
      OBVIOUS
    <2>1. pc = "health" /\ CheckHealth
      BY Successors DEF Next, Plain, FindPath, TakeSnapshot, List, Validate, StopInstance,
           NewInstance, InstallProduct, RestoreSnapshot, EnableAndStart, NewLocalKubeconfig,
           DeleteOldNode, CheckHealth, UpdateClusterIPs, DeleteSnapshot, ServiceStarts,
           ScheduledSnapshot, InstanceStops, NodeChanges, NodeGone, At, Pass, PassEach, Fail, driver
    <2>2. \E s \in Nodes : api[s] = "ready"
      BY <2>1 DEF CheckHealth, Fail
    <2>3. Old \subseteq deleting
      BY <2>1 DEF RestoreInv, DeletedInv, Deleted
    <2> QED
      BY <2>2, <2>3 DEF Nodes
  <1> QED
    BY <1>1, RestoreInvInit, RestoreInvStep, PTL DEF Spec, GateSeesNewServer
=============================================================================
