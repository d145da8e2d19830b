--------------------------- MODULE NodeReplacement ---------------------------
(***************************************************************************)
(* TestUpgradeReplaceNode (pkg/testcase/upgradenodereplacement.go): an     *)
(* upgrade that replaces every node of a cluster by a new EC2 instance.    *)
(* One sequential driver acts on three things it does not control: the     *)
(* instances of the account, the nodes registered in the cluster, and the  *)
(* kubeconfig that says which server kubectl talks to.  Every remote call  *)
(* is a step, and may fail.  The deletion of a node is only asked for      *)
(* (--wait=false); the driver goes on after a fixed sleep, whether or not  *)
(* the node has left.  A node that has left does not register again.       *)
(***************************************************************************)
EXTENDS Integers, FiniteSets

CONSTANTS
    ServerCounts,  \* numbers of servers a cluster may start with
    AgentCounts    \* numbers of agents

ASSUME CountConstants == ServerCounts \subseteq Nat \ {0} /\ AgentCounts \subseteq Nat

VARIABLES
    n, m,        \* servers and agents of the cluster to upgrade
    pc,          \* the next call of the driver
    k,           \* the new server, the old agent or the new agent it is about
    members,     \* nodes registered in the cluster that nobody has asked to delete
    leaving,     \* nodes still registered whose deletion has been asked for
    instances,   \* running EC2 instances
    kubeconfig,  \* the server the kubeconfig file names
    fault        \* has a remote call failed on its own, or a node left late?

vars == <<n, m, pc, k, members, leaving, instances, kubeconfig, fault>>
world == <<members, leaving, instances, kubeconfig>>

OldServer(j) == <<"oldServer", j>>
NewServer(j) == <<"newServer", j>>
OldAgent(j)  == <<"oldAgent", j>>
NewAgent(j)  == <<"newAgent", j>>

OldServers == {OldServer(j) : j \in 1..n}
NewServers == {NewServer(j) : j \in 1..n}
OldAgents  == {OldAgent(j) : j \in 1..m}
NewAgents  == {NewAgent(j) : j \in 1..m}
Servers    == OldServers \cup NewServers
Nodes      == Servers \cup OldAgents \cup NewAgents

Leader == OldServer(1)

Works(node) == node \in members /\ node \in instances

\* A server is a voter of the datastore until its node has left.
Voters == (members \cup leaving) \cap Servers
Quorum == 2 * Cardinality(Voters \cap instances) > Cardinality(Voters)

\* A server answers if it runs and the datastore has a majority.
Answers(node) == Works(node) /\ Quorum

\* mutant: the first server to go is taken from the front of the list
FirstTargetFront == OldServer(1)

\* oldServerIPs[len(oldServerIPs)-2]
FirstTarget == OldServer(n - 1)

\* mutant: the servers are deleted in the order they are joined
NextTargetByIndex == OldServer(k)

\* oldServerIPs[len(oldServerIPs)-1], in every round of the loop
NextTarget == OldServer(n)

DeleteSteps    == {"deleteFirst", "deleteNext", "deleteAgent", "deleteLeader"}
TerminateSteps == {"terminateFirst", "terminateNext", "terminateAgent", "terminateLeader"}

\* The node a delete or terminate call is about.
Target ==
    CASE pc \in {"deleteFirst", "terminateFirst"}   -> FirstTarget
      [] pc \in {"deleteNext", "terminateNext"}     -> NextTarget
      [] pc \in {"deleteAgent", "terminateAgent"}   -> OldAgent(k)
      [] pc \in {"deleteLeader", "terminateLeader"} -> Leader

Init ==
    /\ n \in ServerCounts /\ m \in AgentCounts
    /\ pc = "createServers"
    /\ k = 1
    /\ members = OldServers \cup OldAgents /\ leaving = {}
    /\ instances = OldServers \cup OldAgents
    /\ kubeconfig = Leader
    /\ fault = FALSE

\* An error is returned up to an Expect, or the test panics: the upgrade stops here.
Abort == pc' = "failed" /\ UNCHANGED <<n, m, k>>

\* A call that can fail for a reason of its own does, and the test stops.
Fault == Abort /\ fault' = TRUE

\* A call that must fail: what it needs is not there.
Refused == Abort /\ UNCHANGED <<world, fault>>

Go(l, j) == pc' = l /\ k' = j /\ UNCHANGED <<n, m>>

Step(l, j) == Go(l, j) /\ UNCHANGED fault

-----------------------------------------------------------------------------
(* createAndPrepNodes, FetchToken *)

\* CreateInstances starts all the instances or reports an error and leaves those it
\* has started running; one failing copy in scpToNewNodes closes a closed channel.
Create(new, next) ==
    \/ /\ instances' = instances \cup new
       /\ Step(next, 1)
       /\ UNCHANGED <<members, leaving, kubeconfig>>
    \/ /\ \E started \in SUBSET new : instances' = instances \cup started
       /\ Fault
       /\ UNCHANGED <<members, leaving, kubeconfig>>

CreateServers == pc = "createServers" /\ Create(NewServers, "fetchToken")

FetchToken ==
    /\ pc = "fetchToken"
    /\ \/ Answers(Leader) /\ Step("join", 1) /\ UNCHANGED world
       \/ ~Answers(Leader) /\ Refused
       \/ Fault /\ UNCHANGED world

-----------------------------------------------------------------------------
(* serverJoin, joinAgent: the join script runs on the new node and goes to the leader *)

\* A join may fail before or after the node has registered, and it may succeed for
\* executeJoinCmd, which looks for "service failed" only, without registering it.
Join(node, next, j) ==
    \/ /\ Answers(Leader)
       /\ members' \in {members \cup {node}, members}
       /\ UNCHANGED <<leaving, instances, kubeconfig>>
       /\ Go(next, j)
       /\ fault' = (fault \/ node \notin members')
    \/ /\ members' \in IF Answers(Leader) THEN {members \cup {node}, members} ELSE {members}
       /\ Fault
       /\ UNCHANGED <<leaving, instances, kubeconfig>>
    \/ ~Answers(Leader) /\ Refused

JoinServer ==
    /\ pc = "join"
    /\ Join(NewServer(k), IF k = 1 THEN "deleteFirst" ELSE "validate", k)

JoinAgent ==
    /\ pc = "joinAgent"
    /\ Join(NewAgent(k), IF k < m THEN "joinAgent" ELSE "deleteLeader", k + 1)

-----------------------------------------------------------------------------
(* deleteRemainServer and deleteAgents: DeleteNode, then DeleteInstance *)

AfterDelete ==
    CASE pc = "deleteFirst"  -> "terminateFirst"
      [] pc = "deleteNext"   -> "terminateNext"
      [] pc = "deleteAgent"  -> "terminateAgent"
      [] pc = "deleteLeader" -> "terminateLeader"

\* kubectl delete node --wait=false: the node will leave the cluster.
AskToLeave == members' = members \ {Target} /\ leaving' = leaving \cup {Target}

\* mutant: the instance goes first, the node object is left for the next call
DeleteNodeTerminates ==
    /\ pc \in DeleteSteps
    /\ instances' = instances \ {Target}
    /\ Step(AfterDelete, k)
    /\ UNCHANGED <<members, leaving, kubeconfig>>

\* kubectl looks the node up by its address and asks for its deletion; it finds a node
\* that has not left yet a second time.  The lookup times out when the server of the
\* kubeconfig does not answer or no node has the address; oldServerIPs[-1] is a panic.
\* A call that fails may have had its effect.
DeleteNode ==
    /\ pc \in DeleteSteps
    /\ LET found == Answers(kubeconfig) /\ Target \in members \cup leaving IN
       \/ found /\ AskToLeave /\ Step(AfterDelete, k) /\ UNCHANGED <<instances, kubeconfig>>
       \/ ~found /\ Refused
       \/ /\ (found /\ AskToLeave) \/ UNCHANGED <<members, leaving>>
          /\ Fault
          /\ UNCHANGED <<instances, kubeconfig>>

\* A node whose deletion has been asked for leaves, at any time, while there is a majority.
NodeLeaves(node) ==
    /\ node \in leaving /\ Quorum
    /\ leaving' = leaving \ {node}
    /\ UNCHANGED <<n, m, pc, k, members, instances, kubeconfig, fault>>

\* The instance with that address is terminated if it is running, its node registered or not.
DeleteInstance ==
    /\ pc \in TerminateSteps
    /\ \/ /\ Target \in instances
          /\ instances' = instances \ {Target}
          /\ CASE pc = "terminateFirst"  -> Go("updateKubeConfig", k)
               [] pc = "terminateNext"   -> Go("join", k)
               [] pc = "terminateAgent"  -> IF k < m THEN Go("deleteAgent", k + 1)
                                                     ELSE Go("joinAgent", 1)
               [] pc = "terminateLeader" -> Go("health", k)
          /\ fault' = (fault \/ Target \in leaving)
          /\ UNCHANGED <<members, leaving, kubeconfig>>
       \/ Target \notin instances /\ Refused
       \/ /\ instances' \in {instances, instances \ {Target}}
          /\ Fault
          /\ UNCHANGED <<members, leaving, kubeconfig>>

-----------------------------------------------------------------------------
(* nodeReplaceServers and joinRemainServers *)

\* mutant: the kubeconfig keeps naming the leader
UpdateKubeConfigSkipped ==
    /\ pc = "updateKubeConfig"
    /\ Step("validate", k)
    /\ UNCHANGED world

\* mutant: the new address is taken one entry too far in the list
UpdateKubeConfigPastEnd ==
    /\ pc = "updateKubeConfig"
    /\ kubeconfig' = NewServer(n + 1)
    /\ Step("validate", k)
    /\ UNCHANGED <<members, leaving, instances>>

\* The kubeconfig file is rewritten to name the first new server.
UpdateKubeConfig ==
    /\ pc = "updateKubeConfig"
    /\ \/ /\ kubeconfig' = NewServer(1)
          /\ Step("validate", k)
          /\ UNCHANGED <<members, leaving, instances>>
       \/ Fault /\ UNCHANGED world

\* The servers are done: the agents, if there are any, then the leader.
AfterServers == IF m > 0 THEN "createAgents" ELSE "deleteLeader"

\* Round j of the loop deletes an old server first, except in the last round.
NextRound(j) == IF j < n THEN "deleteNext" ELSE "join"

\* mutant: a node that did not join is only reported in the log
ValidateNodeJoinLogs ==
    /\ pc = "validate"
    /\ Answers(kubeconfig)
    /\ IF k < n THEN Step(NextRound(k + 1), k + 1) ELSE Step(AfterServers, 1)
    /\ UNCHANGED world

\* validateNodeJoin asks kubectl for the node that has just joined.
ValidateNodeJoin ==
    /\ pc = "validate"
    /\ \/ /\ Answers(kubeconfig) /\ NewServer(k) \in members
          /\ IF k < n THEN Step(NextRound(k + 1), k + 1) ELSE Step(AfterServers, 1)
          /\ UNCHANGED world
       \/ ~(Answers(kubeconfig) /\ NewServer(k) \in members) /\ Refused
       \/ Fault /\ UNCHANGED world

CreateAgents == pc = "createAgents" /\ Create(NewAgents, "deleteAgent")

\* validateClusterHealth: an error is logged, and the test goes on.
ValidateClusterHealth ==
    /\ pc = "health"
    /\ Step("done", k)
    /\ UNCHANGED world

Stopped == pc \in {"done", "failed"} /\ UNCHANGED vars

Next ==
    \/ CreateServers \/ FetchToken \/ JoinServer \/ UpdateKubeConfig \/ ValidateNodeJoin
    \/ DeleteNode \/ DeleteInstance \/ \E node \in leaving : NodeLeaves(node)
    \/ CreateAgents \/ JoinAgent
    \/ ValidateClusterHealth
    \/ Stopped

Spec == Init /\ [][Next]_vars

-----------------------------------------------------------------------------
(* Properties *)

Steps == DeleteSteps \cup TerminateSteps \cup
         {"createServers", "fetchToken", "join", "updateKubeConfig", "validate",
          "createAgents", "joinAgent", "health", "done", "failed"}

TypeOK ==
    /\ n \in ServerCounts /\ m \in AgentCounts
    /\ pc \in Steps
    /\ k \in Nat
    /\ members \subseteq Nodes /\ leaving \subseteq Nodes /\ instances \subseteq Nodes
    /\ kubeconfig \in Servers
    /\ fault \in BOOLEAN

\* An instance is terminated only after the deletion of its node has been asked for,
\* whatever fails: a registered node without an instance is always one on its way out.
MembersRun == members \subseteq instances

\* The cluster is never more than one server below its size, whatever has failed; and it
\* answers unless n - 1 servers have been terminated before their nodes had left.
AtMostOneServerShort ==
    /\ Cardinality(members \cap Servers) >= n - 1
    /\ Cardinality(Voters \ instances) < n - 1 => Quorum

\* An upgrade ends well only with every new server in the cluster, which answers, no
\* instance of an old node that goes on being paid for, and no old node but those that
\* were asked to leave and are late, which the final health check only logs; and a cluster
\* of three servers does end well when no call fails on its own and no node leaves late.
ReplacedWhenDone ==
    /\ pc = "done" => /\ NewServers \subseteq members /\ Quorum
                      /\ (members \cup instances) \cap (OldServers \cup OldAgents) = {}
                      /\ leaving \subseteq OldServers \cup OldAgents
    /\ n = 3 /\ ~fault => pc # "failed"

\* Whoever is asked for something is a running member of the cluster: the server of the
\* kubeconfig, once the join of the first new server has been validated, so that the final
\* health check, whose error is only logged, does not ask the leader that has just been
\* terminated; and the leader, for as long as nodes join through it.  With two servers it
\* is not: the first old server to be deleted is the leader itself.
KubectlReachesServer ==
    /\ pc \in DeleteSteps \cup {"health"} \/ (pc = "validate" /\ k > 1) => Works(kubeconfig)
    /\ n # 2 /\ pc \in {"join", "joinAgent"} => Works(Leader)
=============================================================================
