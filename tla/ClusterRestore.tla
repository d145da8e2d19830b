--------------------------- MODULE ClusterRestore ---------------------------
(***************************************************************************)
(* TestClusterRestore: a snapshot of etcd goes to S3, every instance of    *)
(* the cluster is stopped, and a fresh server is restored from the         *)
(* snapshot.  The restored API still has the nodes of the old cluster, as  *)
(* ready as they were, until it notices or deletes them, some time after   *)
(* the test has asked it to.                                               *)
(*                                                                         *)
(* Every call may fail, which ends the test.  Assumed of etcd-snapshot: a  *)
(* save that succeeds has written its file to the directory, and a restore *)
(* is from a snapshot of the bucket that its arguments name.               *)
(***************************************************************************)
EXTENDS Integers, Sequences, FiniteSets

CONSTANTS
    OldNodes,   \* how many servers and agents the cluster has; 1 is the first server
    Scheduled   \* the snapshots etcd may take on its own

ASSUME RestoreConstants ==
    /\ OldNodes \in Nat \ {0}
    /\ "onDemand" \notin Scheduled

Old   == 1 .. OldNodes
New   == OldNodes + 1
Nodes == Old \cup {New}
Snapshots == Scheduled \cup {"onDemand"}

VARIABLES
    pc,          \* the next step of TestClusterRestore
    i,           \* the node a loop is at
    verdict,     \* "running", "passed" or "failed"
    dir,         \* the snapshots in the directory of the first server
    bucket,      \* the snapshots in S3
    onDemandPath,\* what ls has printed
    instance,    \* the EC2 instances
    service,     \* the unit of the new server
    db,          \* the snapshot the new server holds, or "none"
    api,         \* the nodes as the restored API has them
    deleting,    \* the old nodes whose deletion the API has been asked for
    kubeConfig,  \* whose API KubeConfigFile names: "old" or "new"
    serverIPs    \* cluster.ServerIPs and AgentIPs

outside == <<dir, bucket, instance, service, db, api, deleting>>
driver  == <<pc, i, verdict, onDemandPath, kubeConfig, serverIPs>>
vars == <<outside, driver>>

Steps == <<"token", "workload", "findProduct", "take", "list", "validate", "stop", "create", "install",
           "findOnNew", "restore", "start", "kubeconfig", "client", "deleteOld", "health", "update",
           "deleteSnapshot", "end">>

Init ==
    /\ pc = "token" /\ i = 1 /\ verdict = "running"
    /\ dir = {} /\ bucket = {}
    /\ onDemandPath = {}
    /\ instance = [s \in Nodes |-> IF s \in Old THEN "running" ELSE "none"]
    /\ service = "absent"
    /\ db = "none"
    /\ api = [s \in Nodes |-> "absent"]
    /\ deleting = {}
    /\ kubeConfig = "old"
    /\ serverIPs = Old

-----------------------------------------------------------------------------

At(step) == verdict = "running" /\ pc = step

After(step) == LET k == CHOOSE k \in DOMAIN Steps : Steps[k] = step IN Steps[k + 1]

\* The step is done; or it is one of a loop over the old nodes.
Pass == pc' = After(pc) /\ i' = 1 /\ UNCHANGED verdict

\* mutant: one more turn than there are nodes
PassEachAndOne ==
    IF i <= OldNodes THEN i' = i + 1 /\ UNCHANGED <<pc, verdict>> ELSE Pass

PassEach == IF i < OldNodes THEN i' = i + 1 /\ UNCHANGED <<pc, verdict>> ELSE Pass
Fail == verdict' = "failed" /\ UNCHANGED <<pc, i>>

\* The steps that change nothing the properties are about: the token, the extra
\* metadata, and the client, which is built without a call.
Plain ==
    /\ At("token") \/ At("workload") \/ At("client")
    /\ Pass \/ Fail
    /\ UNCHANGED <<outside, onDemandPath, kubeConfig, serverIPs>>

\* FindPath: the binary is found on PATH, by which, command -v or type, or else by find,
\* where the product is installed.
FindPath ==
    /\ At("findProduct") \/ At("findOnNew")
    /\ ((pc = "findOnNew" => service # "absent") /\ Pass) \/ Fail
    /\ UNCHANGED <<outside, onDemandPath, kubeConfig, serverIPs>>

\* mutant: the error of the snapshot command is only logged
TakeSnapshotUnchecked ==
    /\ At("take")
    /\ dir' \in {dir, dir \cup {"onDemand"}} /\ bucket' \in {bucket, bucket \cup {"onDemand"}}
    /\ Pass
    /\ UNCHANGED <<instance, service, db, api, deleting, onDemandPath, kubeConfig, serverIPs>>

\* etcd-snapshot save --s3: to the directory first, then to the bucket.  The test sees
\* the outcome of the command only, not whether the upload has been made.
TakeSnapshot ==
    /\ At("take")
    /\ \/ dir' = dir \cup {"onDemand"} /\ Pass
       \/ dir' \in {dir, dir \cup {"onDemand"}} /\ Fail
    /\ bucket' \in {bucket} \cup {bucket \cup {name} : name \in {"onDemand"} \cap dir'}
    /\ UNCHANGED <<instance, service, db, api, deleting, onDemandPath, kubeConfig, serverIPs>>

\* mutant: one name of the listing is taken
ListOne ==
    /\ At("list")
    /\ \/ \E name \in dir : onDemandPath' = {name} /\ Pass
       \/ UNCHANGED onDemandPath /\ Fail
    /\ UNCHANGED <<outside, kubeConfig, serverIPs>>

\* The path of the snapshot is all that ls prints of the directory.
List ==
    /\ At("list")
    /\ (onDemandPath' = dir /\ Pass) \/ (UNCHANGED onDemandPath /\ Fail)
    /\ UNCHANGED <<outside, kubeConfig, serverIPs>>

\* validateS3snapshot fails if the bucket cannot be listed, whatever is in it.
Validate ==
    /\ At("validate")
    /\ Pass \/ Fail
    /\ UNCHANGED <<outside, onDemandPath, kubeConfig, serverIPs>>

Set(s, state) == instance' = [instance EXCEPT ![s] = state]

\* mutant: the instances are not waited for
StopInstanceNoWait ==
    /\ At("stop")
    /\ (Set(i, "stopping") /\ PassEach) \/ (UNCHANGED instance /\ Fail)
    /\ UNCHANGED <<dir, bucket, service, db, api, deleting, onDemandPath, kubeConfig, serverIPs>>

\* stopInstances: an instance is stopped, and waited for, before the next one.
StopInstance ==
    /\ At("stop")
    /\ \/ instance[i] = "running" /\ Set(i, "stopping") /\ UNCHANGED <<pc, i, verdict>>
       \/ instance[i] = "stopped" /\ PassEach /\ UNCHANGED instance
       \/ Fail /\ UNCHANGED instance
    /\ UNCHANGED <<dir, bucket, service, db, api, deleting, onDemandPath, kubeConfig, serverIPs>>

NewInstance ==
    /\ At("create")
    /\ (Set(New, "running") /\ Pass) \/ (instance' \in {instance, [instance EXCEPT ![New] = "running"]} /\ Fail)
    /\ UNCHANGED <<dir, bucket, service, db, api, deleting, onDemandPath, kubeConfig, serverIPs>>

\* InstallProduct, without enabling the service.
InstallProduct ==
    /\ At("install")
    /\ (service' = "inactive" /\ Pass) \/ (service' \in {service, "inactive"} /\ Fail)
    /\ UNCHANGED <<dir, bucket, instance, db, api, deleting, onDemandPath, kubeConfig, serverIPs>>

\* The output is expected to say that the cluster has been reset.  A path of several
\* names splits the command at the ends of their lines: the first line may restore one of
\* them, and the error of the others is swallowed when stderr has the word "restart".
RestoreSnapshot ==
    /\ At("restore")
    /\ \/ \E name \in onDemandPath \cap bucket :
             /\ db' = name /\ api' = [s \in Nodes |-> IF s \in Old THEN "ready" ELSE "absent"]
             /\ Pass \/ Fail
       \/ Fail /\ UNCHANGED <<db, api>>
    /\ UNCHANGED <<dir, bucket, instance, service, deleting, onDemandPath, kubeConfig, serverIPs>>

\* EnableAndStartService: enable, start, and the status until it is active.
EnableAndStart ==
    /\ At("start")
    /\ \/ service = "inactive" /\ service' = "starting" /\ UNCHANGED <<pc, i, verdict>>
       \/ service = "active" /\ Pass /\ UNCHANGED service
       \/ Fail /\ UNCHANGED service
    /\ UNCHANGED <<dir, bucket, instance, db, api, deleting, onDemandPath, kubeConfig, serverIPs>>

\* NewLocalKubeconfigFile sets the package variable as well.
NewLocalKubeconfig ==
    /\ At("kubeconfig")
    /\ (kubeConfig' = "new" /\ Pass) \/ (UNCHANGED kubeConfig /\ Fail)
    /\ UNCHANGED <<outside, onDemandPath, serverIPs>>

ApiServes == kubeConfig = "new" /\ service = "active"

\* mutant: the cluster is checked as it comes up
DeleteOldAfterHealth ==
    /\ At("deleteOld")
    /\ \/ /\ ApiServes
          /\ \E s \in Nodes : api[s] = "ready"
          /\ pc' = "update" /\ UNCHANGED <<i, verdict>>
       \/ Fail
    /\ UNCHANGED <<outside, onDemandPath, kubeConfig, serverIPs>>

\* deleteOldNodes: DeleteNode fails for a node that the API does not have, and asks for
\* the deletion of one that it has, with --wait=false.
DeleteOldNode ==
    /\ At("deleteOld")
    /\ \/ ApiServes /\ api[i] # "absent" /\ deleting' = deleting \cup {i} /\ PassEach
       \/ deleting' \in {deleting, deleting \cup {i}} /\ Fail
    /\ UNCHANGED <<dir, bucket, instance, service, db, api, onDemandPath, kubeConfig, serverIPs>>

\* postValidationRestore: CheckClusterHealth(1) passes with the first ready node.
CheckHealth ==
    /\ At("health")
    /\ (ApiServes /\ (\E s \in Nodes : api[s] = "ready") /\ Pass) \/ Fail
    /\ UNCHANGED <<outside, onDemandPath, kubeConfig, serverIPs>>

UpdateClusterIPs ==
    /\ At("update")
    /\ serverIPs' = {New}
    /\ Pass
    /\ UNCHANGED <<outside, onDemandPath, kubeConfig>>

\* mutant: each name of the listing is deleted
DeleteEachSnapshot ==
    /\ At("deleteSnapshot")
    /\ bucket' \in {bucket, bucket \ onDemandPath}
    /\ verdict' = "passed" /\ pc' = "end"
    /\ UNCHANGED <<i, dir, instance, service, db, api, deleting, onDemandPath, kubeConfig, serverIPs>>

\* deleteS3Snapshot: an error is only logged; a key that is not there is no error, and
\* several names together are no key.
DeleteSnapshot ==
    /\ At("deleteSnapshot")
    /\ bucket' \in {bucket} \cup {bucket \ {name} : name \in {x \in bucket : onDemandPath = {x}}}
    /\ verdict' = "passed" /\ pc' = "end"
    /\ UNCHANGED <<i, dir, instance, service, db, api, deleting, onDemandPath, kubeConfig, serverIPs>>

-----------------------------------------------------------------------------
(* EC2, systemd and the restored API (external) *)

\* etcd takes a snapshot when its schedule says so, and uploads it if told to.
ScheduledSnapshot(name) ==
    /\ instance[1] = "running" /\ name \notin dir
    /\ dir' = dir \cup {name}
    /\ bucket' \in {bucket, bucket \cup {name}}
    /\ UNCHANGED <<instance, service, db, api, deleting, driver>>

InstanceStops(s) ==
    /\ instance[s] = "stopping" /\ Set(s, "stopped")
    /\ UNCHANGED <<dir, bucket, service, db, api, deleting, driver>>

ServiceStarts ==
    /\ service = "starting" /\ service' = "active"
    /\ UNCHANGED <<dir, bucket, instance, db, api, deleting, driver>>

\* The API hears nothing of an old node any more; the new one comes, and may go.
NodeChanges(s) ==
    /\ service = "active"
    /\ \E state \in {"ready", "notReady"} :
          /\ s \in Old => api[s] = "ready" /\ state = "notReady"
          /\ s = New => state # api[s]
          /\ api' = [api EXCEPT ![s] = state]
    /\ UNCHANGED <<dir, bucket, instance, service, db, deleting, driver>>

\* The API deletes a node some time after it has been asked to.
NodeGone(s) ==
    /\ service = "active" /\ s \in deleting /\ api[s] # "absent"
    /\ api' = [api EXCEPT ![s] = "absent"]
    /\ UNCHANGED <<dir, bucket, instance, service, db, deleting, driver>>

Next ==
    \/ Plain \/ FindPath \/ TakeSnapshot \/ List \/ Validate \/ StopInstance \/ NewInstance
    \/ InstallProduct \/ RestoreSnapshot \/ EnableAndStart \/ NewLocalKubeconfig
    \/ DeleteOldNode \/ CheckHealth \/ UpdateClusterIPs \/ DeleteSnapshot
    \/ ServiceStarts \/ \E name \in Scheduled : ScheduledSnapshot(name)
    \/ \E s \in Nodes : InstanceStops(s) \/ NodeChanges(s) \/ NodeGone(s)

Spec == Init /\ [][Next]_vars

-----------------------------------------------------------------------------
(* Properties *)

\* Every variable keeps its type.
TypeOK ==
    /\ \E k \in DOMAIN Steps : Steps[k] = pc
    /\ i \in Old
    /\ verdict \in {"running", "passed", "failed"}
    /\ dir \subseteq Snapshots /\ bucket \subseteq Snapshots
    /\ onDemandPath \subseteq Snapshots
    /\ instance \in [Nodes -> {"none", "running", "stopping", "stopped"}]
    /\ service \in {"absent", "inactive", "starting", "active"}
    /\ db \in Snapshots \cup {"none"}
    /\ api \in [Nodes -> {"absent", "ready", "notReady"}]
    /\ deleting \subseteq Old
    /\ kubeConfig \in {"old", "new"}
    /\ serverIPs \subseteq Nodes

\* The only snapshot the test deletes from S3 is its own, and not before the new server
\* has been restored from it; and a test that passes has restored a snapshot of the old
\* cluster, its own if etcd has taken no other.  validateS3snapshot, which takes any listing
\* of the bucket for a success, and the outcomes of the two commands are no help.
DataIsKept ==
    [][/\ \A name \in bucket \ bucket' : name = "onDemand" /\ db = name
       /\ verdict # "passed" /\ verdict' = "passed" =>
             /\ db \in onDemandPath
             /\ onDemandPath \cap Scheduled = {} => db = "onDemand"]_vars

\* The restored cluster and the old one are never up together.
OneClusterServes ==
    service \in {"starting", "active"} => \A s \in Old : instance[s] = "stopped"

\* The health gate passes on the new server, or on an old node that has been asked to go
\* and has not gone yet: --wait=false and a fixed sleep allow that, but no old node is
\* left unasked, as ready as the snapshot has it.
GateSeesNewServer ==
    [][pc # "update" /\ pc' = "update" =>
          /\ \A s \in Old : api[s] = "absent" \/ s \in deleting
          /\ (\A s \in deleting : api[s] # "ready") => api[New] = "ready"]_vars
=============================================================================
