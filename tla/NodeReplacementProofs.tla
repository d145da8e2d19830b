------------------------ MODULE NodeReplacementProofs ------------------------
(***************************************************************************)
(* What holds of NodeReplacement for every number of servers and agents.   *)
(* NodeInv is inductive on its own: the phases of the driver decide which  *)
(* instances exist and how far k has come.  PhaseInv adds which old nodes  *)
(* are left and which new ones have joined, and that the loop over the     *)
(* servers gets past its third round in a cluster of three only.  OrderInv *)
(* adds that two servers that were late to leave are seen by the second    *)
(* join, which finds no majority.                                          *)
(***************************************************************************)
EXTENDS NodeReplacement, FiniteSetTheorems, TLAPS

\* The phases in which k counts new servers, old agents or new agents.
ServerPhase == {"join", "deleteFirst", "terminateFirst", "updateKubeConfig", "validate",
                "deleteNext", "terminateNext"}
AgentPhase  == {"deleteAgent", "terminateAgent", "joinAgent"}

KInRange ==
    /\ pc \in ServerPhase => k \in 1..n
    /\ pc \in {"deleteNext", "terminateNext"} => k \in 2..n - 1
    /\ pc \in AgentPhase => k \in 1..m
    /\ pc = "createAgents" => m > 0

\* The instances of new nodes are there when they join.
NewNodesRun ==
    /\ pc \notin {"createServers", "failed"} => NewServers \subseteq instances
    /\ pc \in AgentPhase => NewAgents \subseteq instances

\* What is about to be terminated was asked to leave.
TargetLeft == pc \in TerminateSteps => Target \notin members

\* Only old nodes are asked to leave, and one whose instance has gone first was late.
OnlyOldLeave ==
    /\ leaving \subseteq OldServers \cup OldAgents
    /\ ~fault => leaving \subseteq instances

NodeInv == TypeOK /\ MembersRun /\ KInRange /\ NewNodesRun /\ TargetLeft /\ OnlyOldLeave

\* Every node but the one just deleted is where it was.
LEMMA NodeIdsDiffer ==
    \A i, j : /\ OldServer(i) # NewServer(j) /\ OldServer(i) # OldAgent(j) /\ OldServer(i) # NewAgent(j)
              /\ NewServer(i) # OldAgent(j) /\ NewServer(i) # NewAgent(j)
              /\ OldAgent(i) # NewAgent(j)
              /\ (OldServer(i) = OldServer(j) => i = j)
              /\ (NewServer(i) = NewServer(j) => i = j)
  BY DEF OldServer, NewServer, OldAgent, NewAgent

\* No target of a delete or a terminate call is a new node.
LEMMA TargetIsOld ==
    ASSUME pc \in DeleteSteps \cup TerminateSteps
    PROVE  \A j : Target # NewServer(j) /\ Target # NewAgent(j)
  BY NodeIdsDiffer DEF DeleteSteps, TerminateSteps, Target, FirstTarget, NextTarget, Leader

\* The node of a terminate call is the node of the delete call before it.
LEMMA TargetStays ==
    ASSUME pc \in DeleteSteps, n' = n, k' = k, pc' = AfterDelete
    PROVE  Target' = Target
  BY DEF DeleteSteps, AfterDelete, Target, FirstTarget, NextTarget, Leader, OldServer, OldAgent

\* The nodes of the account are those of the two server lists and the two agent lists.
LEMMA NodesKept == UNCHANGED <<n, m>> => /\ Nodes' = Nodes /\ Servers' = Servers
                                         /\ NewServers' = NewServers /\ NewAgents' = NewAgents
                                         /\ OldServers' = OldServers /\ OldAgents' = OldAgents
  BY DEF Nodes, Servers, OldServers, NewServers, OldAgents, NewAgents

\* The driver begins in its invariant.
LEMMA NodeInvInit == Init => NodeInv
  <1> SUFFICES ASSUME Init PROVE NodeInv
    OBVIOUS
  <1>1. TypeOK
    <2>1. OldServer(1) \in OldServers
      BY CountConstants DEF Init, OldServers
    <2>2. QED
      BY <2>1, CountConstants DEF Init, TypeOK, Steps, Nodes, Servers, Leader
  <1>2. QED
    BY <1>1 DEF Init, NodeInv, MembersRun, KInRange, NewNodesRun, TargetLeft, ServerPhase,
                AgentPhase, TerminateSteps, OnlyOldLeave

\* Every step of the driver keeps its invariant.
LEMMA NodeInvStep == NodeInv /\ [Next]_vars => NodeInv'
  <1> SUFFICES ASSUME NodeInv, [Next]_vars PROVE NodeInv'
    OBVIOUS
  <1> USE DEF NodeInv, TypeOK, MembersRun, KInRange, NewNodesRun, TargetLeft, OnlyOldLeave, Go
  <1>a. n \in Nat \ {0} /\ m \in Nat
    BY CountConstants
  <1>1. ASSUME Abort, members' \subseteq members, instances' \subseteq instances \cup Nodes,
               members' \subseteq instances', kubeconfig' = kubeconfig, fault' \in BOOLEAN,
               leaving' \subseteq OldServers \cup OldAgents, ~fault' => leaving' \subseteq instances'
        PROVE  NodeInv'
    BY <1>1, NodesKept DEF Abort, Nodes, Servers, Steps, ServerPhase, AgentPhase, TerminateSteps
  <1>2. CASE CreateServers
    <2>1. CASE instances' = instances \cup NewServers /\ Step("fetchToken", 1)
               /\ UNCHANGED <<members, leaving, kubeconfig>>
      BY <2>1, NodesKept
      DEF Step, Steps, ServerPhase, AgentPhase, TerminateSteps, Nodes, Servers
    <2>2. ASSUME NEW started \in SUBSET NewServers, instances' = instances \cup started,
                 Fault, UNCHANGED <<members, leaving, kubeconfig>>
          PROVE  NodeInv'
      BY <1>1, <2>2 DEF Fault, Nodes, Servers
    <2>3. QED
      BY <1>2, <2>1, <2>2 DEF CreateServers, Create
  <1>3. CASE FetchToken
    <2>1. CASE Step("join", 1) /\ UNCHANGED world
      BY <1>3, <2>1, <1>a, NodesKept
      DEF FetchToken, Step, world, Steps, ServerPhase, AgentPhase, TerminateSteps
    <2>2. QED
      BY <1>1, <1>3, <2>1 DEF FetchToken, Refused, Fault, world
  <1>4. CASE JoinServer
    <2>1. NewServer(k) \in NewServers
      BY <1>4 DEF JoinServer, ServerPhase, NewServers
    <2>2. NewServer(k) \in instances /\ NewServer(k) \in Nodes
      BY <1>4, <2>1 DEF JoinServer, Nodes, Servers
    <2>3. CASE members' \in {members \cup {NewServer(k)}, members}
               /\ UNCHANGED <<leaving, instances, kubeconfig, n, m>>
               /\ pc' = (IF k = 1 THEN "deleteFirst" ELSE "validate") /\ k' = k
               /\ fault' = (fault \/ NewServer(k) \notin members')
      BY <1>4, <2>2, <2>3, NodesKept
      DEF JoinServer, Steps, DeleteSteps, ServerPhase, AgentPhase, TerminateSteps
    <2>4. CASE members' \in {members \cup {NewServer(k)}, members} /\ Fault
               /\ UNCHANGED <<leaving, instances, kubeconfig>>
      BY <2>2, <2>4, NodesKept
      DEF Fault, Abort, Steps, ServerPhase, AgentPhase, TerminateSteps
    <2>5. CASE Refused
      BY <1>1, <2>5 DEF Refused, world
    <2>6. QED
      BY <1>4, <2>3, <2>4, <2>5 DEF JoinServer, Join
  <1>5. CASE JoinAgent
    <2>1. NewAgent(k) \in NewAgents
      BY <1>5 DEF JoinAgent, AgentPhase, NewAgents
    <2>2. NewAgent(k) \in instances /\ NewAgent(k) \in Nodes
      BY <1>5, <2>1 DEF JoinAgent, AgentPhase, Nodes
    <2>3. CASE members' \in {members \cup {NewAgent(k)}, members}
               /\ UNCHANGED <<leaving, instances, kubeconfig, n, m>>
               /\ pc' = (IF k < m THEN "joinAgent" ELSE "deleteLeader") /\ k' = k + 1
               /\ fault' = (fault \/ NewAgent(k) \notin members')
      BY <1>5, <1>a, <2>2, <2>3, NodesKept
      DEF JoinAgent, Steps, DeleteSteps, ServerPhase, AgentPhase, TerminateSteps
    <2>4. CASE members' \in {members \cup {NewAgent(k)}, members} /\ Fault
               /\ UNCHANGED <<leaving, instances, kubeconfig>>
      BY <2>2, <2>4, NodesKept
      DEF Fault, Abort, Steps, ServerPhase, AgentPhase, TerminateSteps
    <2>5. CASE Refused
      BY <1>1, <2>5 DEF Refused, world
    <2>6. QED
      BY <1>5, <2>3, <2>4, <2>5 DEF JoinAgent, Join
  <1>6. CASE UpdateKubeConfig
    <2>1. NewServer(1) \in Servers
      BY <1>a DEF NewServers, Servers
    <2>2. CASE Step("validate", k)
      BY <1>1, <1>6, <2>1, <2>2, NodesKept
      DEF UpdateKubeConfig, Step, Fault, Abort, Steps, ServerPhase, AgentPhase, TerminateSteps
    <2>3. QED
      BY <1>1, <1>6, <2>2 DEF UpdateKubeConfig, Fault, world
  <1>7. CASE ValidateNodeJoin
    <2>1. CASE k < n /\ Step(NextRound(k + 1), k + 1) /\ UNCHANGED world
      BY <1>7, <1>a, <2>1, NodesKept
      DEF ValidateNodeJoin, Step, NextRound, world, Steps, DeleteSteps, ServerPhase, AgentPhase,
          TerminateSteps
    <2>2. CASE Step(AfterServers, 1) /\ UNCHANGED world
      BY <1>7, <1>a, <2>2, NodesKept
      DEF ValidateNodeJoin, Step, AfterServers, world, Steps, DeleteSteps, ServerPhase, AgentPhase,
          TerminateSteps
    <2>3. QED
      BY <1>1, <1>7, <2>1, <2>2 DEF ValidateNodeJoin, Refused, Fault, world
  <1>8. CASE DeleteNode
    <2>1. AskToLeave /\ Target \in members \cup leaving =>
             /\ leaving' \subseteq OldServers \cup OldAgents
             /\ leaving' \subseteq leaving \cup instances
             /\ members' \subseteq members
      BY <1>8, TargetIsOld DEF DeleteNode, AskToLeave, Nodes, Servers, NewServers, NewAgents
    <2>2. CASE /\ AskToLeave /\ Target \in members \cup leaving
               /\ Step(AfterDelete, k) /\ UNCHANGED <<instances, kubeconfig>>
      <3>1. Target' = Target /\ Target' \notin members'
        BY <1>8, <2>2, TargetStays DEF DeleteNode, Step, AskToLeave
      <3>2. pc' \in TerminateSteps
        BY <1>8, <2>2 DEF DeleteNode, DeleteSteps, TerminateSteps, Step, AfterDelete
      <3>3. KInRange' /\ NewNodesRun'
        BY <1>8, <2>2, NodesKept
        DEF DeleteNode, DeleteSteps, TerminateSteps, Step, ServerPhase, AgentPhase, AfterDelete
      <3>4. OnlyOldLeave'
        BY <2>1, <2>2, NodesKept DEF Step
      <3>5. TypeOK'
        <4>1. leaving' \subseteq Nodes
          BY <2>1, <2>2 DEF Nodes, Servers
        <4> QED
          BY <2>1, <2>2, <3>2, <4>1, NodesKept DEF Step, Steps
      <3> QED
        BY <2>1, <2>2, <3>1, <3>3, <3>4, <3>5
    <2>3. CASE Refused
      BY <1>1, <2>3 DEF Refused, world
    <2>4. CASE /\ (AskToLeave /\ Target \in members \cup leaving) \/ UNCHANGED <<members, leaving>>
               /\ Fault
               /\ UNCHANGED <<instances, kubeconfig>>
      BY <1>1, <2>1, <2>4 DEF Fault
    <2> QED
      BY <1>8, <2>2, <2>3, <2>4 DEF DeleteNode
  <1>9. CASE DeleteInstance
    <2>1. \A j : Target # NewServer(j) /\ Target # NewAgent(j)
      BY <1>9, TargetIsOld DEF DeleteInstance
    <2>2. members \subseteq instances \ {Target}
      BY <1>9 DEF DeleteInstance
    <2>3. /\ NewServers \subseteq instances \ {Target}
          /\ pc \in AgentPhase => NewAgents \subseteq instances \ {Target}
      BY <1>9, <2>1 DEF DeleteInstance, TerminateSteps, NewServers, NewAgents
    <2>4. CASE /\ instances' = instances \ {Target}
               /\ CASE pc = "terminateFirst"  -> Go("updateKubeConfig", k)
                    [] pc = "terminateNext"   -> Go("join", k)
                    [] pc = "terminateAgent"  -> IF k < m THEN Go("deleteAgent", k + 1)
                                                          ELSE Go("joinAgent", 1)
                    [] pc = "terminateLeader" -> Go("health", k)
               /\ fault' = (fault \/ Target \in leaving)
               /\ UNCHANGED <<members, leaving, kubeconfig>>
      <3>1. /\ members' \subseteq instances' /\ members' \subseteq Nodes /\ instances' \subseteq Nodes
            /\ NewServers \subseteq instances'
            /\ pc \in AgentPhase => NewAgents \subseteq instances'
            /\ leaving' \subseteq OldServers \cup OldAgents /\ leaving' \subseteq Nodes
            /\ ~fault' => leaving' \subseteq instances'
        BY <2>2, <2>3, <2>4
      <3>2. UNCHANGED <<n, m, kubeconfig>> /\ fault' \in BOOLEAN
        BY <1>9, <2>4 DEF DeleteInstance, TerminateSteps
      <3>3. CASE pc = "terminateFirst"
        BY <2>4, <3>1, <3>2, <3>3, NodesKept
        DEF Steps, TerminateSteps, ServerPhase, AgentPhase
      <3>4. CASE pc = "terminateNext"
        BY <1>a, <2>4, <3>1, <3>2, <3>4, NodesKept
        DEF Steps, TerminateSteps, ServerPhase, AgentPhase
      <3>5. CASE pc = "terminateAgent"
        BY <1>a, <2>4, <3>1, <3>2, <3>5, NodesKept
        DEF Steps, DeleteSteps, TerminateSteps, ServerPhase, AgentPhase
      <3>6. CASE pc = "terminateLeader"
        BY <2>4, <3>1, <3>2, <3>6, NodesKept
        DEF Steps, TerminateSteps, ServerPhase, AgentPhase
      <3>7. QED
        BY <1>9, <3>3, <3>4, <3>5, <3>6 DEF DeleteInstance, TerminateSteps
    <2>5. CASE Refused
      BY <1>1, <2>5 DEF Refused, world
    <2>6. CASE /\ instances' \in {instances, instances \ {Target}}
               /\ Fault
               /\ UNCHANGED <<members, leaving, kubeconfig>>
      BY <1>1, <2>2, <2>6 DEF Fault
    <2>7. QED
      BY <1>9, <2>4, <2>5, <2>6 DEF DeleteInstance
  <1>10. CASE CreateAgents
    <2>1. CASE instances' = instances \cup NewAgents /\ Step("deleteAgent", 1)
               /\ UNCHANGED <<members, leaving, kubeconfig>>
      BY <1>10, <1>a, <2>1, NodesKept
      DEF CreateAgents, Step, Steps, DeleteSteps, ServerPhase, AgentPhase, TerminateSteps, Nodes
    <2>2. ASSUME NEW started \in SUBSET NewAgents, instances' = instances \cup started,
                 Fault, UNCHANGED <<members, leaving, kubeconfig>>
          PROVE  NodeInv'
      BY <1>1, <2>2 DEF Fault, Nodes
    <2>3. QED
      BY <1>10, <2>1, <2>2 DEF CreateAgents, Create
  <1>11. CASE ValidateClusterHealth
    BY <1>11, NodesKept
    DEF ValidateClusterHealth, Step, world, Steps, ServerPhase, AgentPhase, TerminateSteps
  <1>0. CASE \E node \in leaving : NodeLeaves(node)
    <2>1. Target' = Target
      BY <1>0 DEF NodeLeaves, Target, FirstTarget, NextTarget, Leader, OldServer, OldAgent
    <2>2. leaving' \subseteq leaving /\ UNCHANGED <<n, m, pc, k, members, instances, kubeconfig, fault>>
      BY <1>0 DEF NodeLeaves
    <2> QED
      BY <2>1, <2>2, NodesKept
  <1>12. CASE UNCHANGED vars
    <2>1. Target' = Target
      BY <1>12 DEF vars, Target, FirstTarget, NextTarget, Leader, OldServer, OldAgent
    <2>2. QED
      BY <1>12, <2>1, NodesKept DEF vars
  <1>13. QED
    BY <1>0, <1>2, <1>3, <1>4, <1>5, <1>6, <1>7, <1>8, <1>9, <1>10, <1>11, <1>12 DEF Next, Stopped

-----------------------------------------------------------------------------
\* Which nodes are left

\* The steps after the last server has been validated.
Late == AgentPhase \cup {"createAgents", "deleteLeader", "terminateLeader", "health", "done"}

\* FirstTarget, NextTarget and the leader have been deleted.
FirstGone ==
    /\ pc \notin {"createServers", "fetchToken", "deleteFirst"}
    /\ ~(pc = "join" /\ k = 1)
NextGone ==
    /\ n >= 3 /\ FirstGone
    /\ pc \notin {"terminateFirst", "updateKubeConfig"}
    /\ ~(pc = "validate" /\ k = 1) /\ ~(pc = "deleteNext" /\ k = 2)
LeaderGone == pc \in {"terminateLeader", "health", "done"}

ServerLeft(j) ==
    \/ FirstGone /\ j = n - 1
    \/ NextGone /\ j = n
    \/ LeaderGone /\ j = 1

AgentLeft(j) ==
    \/ pc = "deleteAgent" /\ j < k
    \/ pc = "terminateAgent" /\ j <= k
    \/ pc \in {"joinAgent", "deleteLeader", "terminateLeader", "health", "done"}

\* The old nodes that are members are those the driver has not come to, the instances
\* those it has not come to or is about to terminate.  The third round, of a cluster of
\* more than three, comes to a server that has been terminated in the second one.
OldServersLeft ==
    \A j \in 1..n :
        /\ OldServer(j) \in members <=> ~ServerLeft(j)
        /\ OldServer(j) \in instances <=>
              \/ ~ServerLeft(j)
              \/ pc \in TerminateSteps /\ OldServer(j) = Target /\ ~(pc = "terminateNext" /\ k = 3)

OldAgentsLeft ==
    \A j \in 1..m :
        /\ OldAgent(j) \in members <=> ~AgentLeft(j)
        /\ OldAgent(j) \in instances <=> ~AgentLeft(j) \/ (pc = "terminateAgent" /\ j = k)

\* How far the loop over the servers comes: only a cluster of three gets past it.
LoopInv ==
    /\ pc \in {"deleteFirst", "terminateFirst", "updateKubeConfig"} => k = 1
    /\ FirstGone => n >= 2
    /\ pc = "deleteNext" => k \in {2, 3}
    /\ pc = "terminateNext" => k \in {2, 3}
    /\ pc \in {"join", "validate"} /\ k >= 3 => n = 3
    /\ pc = "validate" /\ k = 2 => n >= 3
    /\ pc \in Late => n = 3

\* The new servers that have been validated are members, and so is the one that has
\* just joined unless a call has failed.
NewServersJoined ==
    /\ pc \in {"deleteFirst", "terminateFirst", "updateKubeConfig", "validate"} /\ ~fault =>
          NewServer(k) \in members
    /\ pc \in {"join", "validate", "deleteNext", "terminateNext"} =>
          \A j \in 1..n : j < k => NewServer(j) \in members
    /\ pc \in Late => \A j \in 1..n : NewServer(j) \in members

KubeconfigInv ==
    /\ ~FirstGone => kubeconfig = Leader
    /\ FirstGone /\ pc \notin {"terminateFirst", "updateKubeConfig"} => kubeconfig = NewServer(1)

PhaseInv ==
    pc # "failed" =>
        OldServersLeft /\ OldAgentsLeft /\ LoopInv /\ NewServersJoined /\ KubeconfigInv

\* Each old node has its own name, and no other node has it.
LEMMA OldIdsDiffer ==
    \A i, j : /\ (OldServer(i) = OldServer(j) <=> i = j)
              /\ (OldAgent(i) = OldAgent(j) <=> i = j)
              /\ OldServer(i) # NewServer(j) /\ OldServer(i) # OldAgent(j)
              /\ OldServer(i) # NewAgent(j)
              /\ OldAgent(i) # NewServer(j) /\ OldAgent(i) # NewAgent(j)
              /\ NewServer(i) # NewAgent(j)
              /\ (NewServer(i) = NewServer(j) <=> i = j)
  BY DEF OldServer, NewServer, OldAgent, NewAgent

\* The old nodes are indexed by 1..n and 1..m.
LEMMA OldNodesByIndex ==
    /\ \A x : x \in OldServers <=> \E j \in 1..n : x = OldServer(j)
    /\ \A x : x \in OldAgents <=> \E j \in 1..m : x = OldAgent(j)
    /\ \A x : x \in NewServers <=> \E j \in 1..n : x = NewServer(j)
    /\ \A x : x \in NewAgents <=> \E j \in 1..m : x = NewAgent(j)
  BY DEF OldServers, OldAgents, NewServers, NewAgents

\* The node each call is about.
LEMMA Targets ==
    /\ pc \in {"deleteFirst", "terminateFirst"} => Target = OldServer(n - 1)
    /\ pc \in {"deleteNext", "terminateNext"} => Target = OldServer(n)
    /\ pc \in {"deleteAgent", "terminateAgent"} => Target = OldAgent(k)
    /\ pc \in {"deleteLeader", "terminateLeader"} => Target = OldServer(1)
  BY DEF Target, FirstTarget, NextTarget, Leader

\* Everything old is there in the beginning.
LEMMA PhaseInit == Init => PhaseInv
  <1> SUFFICES ASSUME Init PROVE PhaseInv
    OBVIOUS
  <1> USE DEF Init
  <1>1. n \in Nat \ {0} /\ m \in Nat
    BY CountConstants
  <1>2. OldServersLeft
    BY OldNodesByIndex DEF OldServersLeft, ServerLeft, FirstGone, NextGone, LeaderGone, TerminateSteps
  <1>3. OldAgentsLeft
    BY OldNodesByIndex DEF OldAgentsLeft, AgentLeft
  <1>4. LoopInv /\ NewServersJoined /\ KubeconfigInv
    BY DEF LoopInv, NewServersJoined, KubeconfigInv, FirstGone, Late, AgentPhase
  <1> QED
    BY <1>2, <1>3, <1>4 DEF PhaseInv

\* Each step that does not fail keeps track of the nodes.
LEMMA PhaseStep == NodeInv /\ PhaseInv /\ [Next]_vars => PhaseInv'
  <1> SUFFICES ASSUME NodeInv, PhaseInv, [Next]_vars, pc' # "failed" PROVE PhaseInv'
    BY DEF PhaseInv
  <1> USE DEF Go
  <1>a. n \in Nat \ {0} /\ m \in Nat /\ k \in Nat
    BY CountConstants DEF NodeInv, TypeOK
  <1>b. ~Abort /\ ~Fault /\ ~Refused
    BY DEF Abort, Fault, Refused
  <1>c. KInRange
    BY DEF NodeInv
  <1>d. members \subseteq instances
    BY DEF NodeInv, MembersRun
  <1>1. CASE CreateServers
    <2>1. /\ pc = "createServers" /\ pc' = "fetchToken"
          /\ instances' = instances \cup NewServers /\ UNCHANGED <<n, m, members, kubeconfig, fault>>
      BY <1>1, <1>b DEF CreateServers, Create, Step
    <2>2. OldServersLeft /\ OldAgentsLeft /\ LoopInv /\ KubeconfigInv
      BY <2>1 DEF PhaseInv
    <2>3. \A j : /\ OldServer(j) \in instances' <=> OldServer(j) \in instances
                 /\ OldAgent(j) \in instances' <=> OldAgent(j) \in instances
      BY <2>1, OldIdsDiffer, OldNodesByIndex
    <2>4. OldServersLeft'
      BY <2>1, <2>2, <2>3
      DEF OldServersLeft, ServerLeft, FirstGone, NextGone, LeaderGone, TerminateSteps, OldServer
    <2>5. OldAgentsLeft'
      BY <2>1, <2>2, <2>3 DEF OldAgentsLeft, AgentLeft, OldAgent
    <2>6. LoopInv' /\ NewServersJoined' /\ KubeconfigInv'
      BY <2>1, <2>2
      DEF LoopInv, NewServersJoined, KubeconfigInv, FirstGone, Late, AgentPhase, Leader, OldServer
    <2> QED
      BY <2>4, <2>5, <2>6 DEF PhaseInv
  <1>2. CASE FetchToken
    <2>1. pc = "fetchToken" /\ pc' = "join" /\ k' = 1 /\ UNCHANGED <<n, m, fault>> /\ UNCHANGED world
      BY <1>2, <1>b DEF FetchToken, Step
    <2>2. OldServersLeft /\ OldAgentsLeft /\ LoopInv /\ KubeconfigInv
      BY <2>1 DEF PhaseInv
    <2>4. OldServersLeft'
      BY <2>1, <2>2
      DEF OldServersLeft, ServerLeft, FirstGone, NextGone, LeaderGone, TerminateSteps, OldServer, world
    <2>5. OldAgentsLeft'
      BY <2>1, <2>2 DEF OldAgentsLeft, AgentLeft, OldAgent, world
    <2>6. LoopInv' /\ NewServersJoined' /\ KubeconfigInv'
      BY <2>1, <2>2
      DEF LoopInv, NewServersJoined, KubeconfigInv, FirstGone, Late, AgentPhase, Leader, OldServer, world
    <2> QED
      BY <2>4, <2>5, <2>6 DEF PhaseInv
  <1>3. CASE JoinServer
    <2>1. /\ pc = "join" /\ pc' = (IF k = 1 THEN "deleteFirst" ELSE "validate") /\ k' = k
          /\ members' \in {members \cup {NewServer(k)}, members} /\ Leader \in members
          /\ UNCHANGED <<instances, kubeconfig, n, m>>
          /\ fault' = (fault \/ NewServer(k) \notin members')
      BY <1>3, <1>b DEF JoinServer, Join, Answers, Works
    <2>2. OldServersLeft /\ OldAgentsLeft /\ LoopInv /\ NewServersJoined /\ KubeconfigInv
      BY <2>1 DEF PhaseInv
    <2>3. \A j : /\ OldServer(j) \in members' <=> OldServer(j) \in members
                 /\ OldAgent(j) \in members' <=> OldAgent(j) \in members
      BY <2>1, OldIdsDiffer
    <2>n. k # 1 => n >= 3
      <3>1. k # 1 => n # 2
        BY <1>a, <2>1, <2>2 DEF OldServersLeft, ServerLeft, FirstGone, Leader
      <3>2. k # 1 => n >= 2
        BY <2>1, <2>2 DEF LoopInv, FirstGone
      <3> QED
        BY <1>a, <3>1, <3>2
    <2>t. /\ pc \notin TerminateSteps /\ pc' \notin TerminateSteps
          /\ FirstGone' = FirstGone /\ NextGone' = NextGone /\ LeaderGone' = LeaderGone
      BY <2>1 DEF TerminateSteps, FirstGone, NextGone, LeaderGone
    <2>4. OldServersLeft'
      BY <2>1, <2>2, <2>3, <2>t DEF OldServersLeft, ServerLeft, OldServer
    <2>5. OldAgentsLeft'
      BY <2>1, <2>2, <2>3 DEF OldAgentsLeft, AgentLeft, OldAgent
    <2>6. LoopInv'
      BY <1>a, <2>1, <2>2, <2>n, <2>t DEF LoopInv, FirstGone, Late, AgentPhase
    <2>7. NewServersJoined'
      BY <2>1, <2>2 DEF NewServersJoined, NewServer, Late, AgentPhase
    <2>8. KubeconfigInv'
      BY <2>1, <2>2, <2>t DEF KubeconfigInv, FirstGone, Leader, OldServer, NewServer
    <2> QED
      BY <2>4, <2>5, <2>6, <2>7, <2>8 DEF PhaseInv
  <1>4. CASE JoinAgent
    <2>1. /\ pc = "joinAgent" /\ pc' = (IF k < m THEN "joinAgent" ELSE "deleteLeader")
          /\ members' \in {members \cup {NewAgent(k)}, members}
          /\ UNCHANGED <<instances, kubeconfig, n, m>>
      BY <1>4, <1>b DEF JoinAgent, Join, Answers, Works
    <2>2. OldServersLeft /\ OldAgentsLeft /\ LoopInv /\ NewServersJoined /\ KubeconfigInv
      BY <2>1 DEF PhaseInv
    <2>3. \A j : /\ OldServer(j) \in members' <=> OldServer(j) \in members
                 /\ OldAgent(j) \in members' <=> OldAgent(j) \in members
      BY <2>1, OldIdsDiffer
    <2>t. /\ pc \notin TerminateSteps /\ pc' \notin TerminateSteps
          /\ FirstGone' = FirstGone /\ NextGone' = NextGone /\ LeaderGone' = LeaderGone
      BY <2>1 DEF TerminateSteps, FirstGone, NextGone, LeaderGone
    <2>4. OldServersLeft'
      BY <2>1, <2>2, <2>3, <2>t DEF OldServersLeft, ServerLeft, OldServer
    <2>5. OldAgentsLeft'
      BY <2>1, <2>2, <2>3 DEF OldAgentsLeft, AgentLeft, OldAgent
    <2>6. LoopInv'
      BY <2>1, <2>2, <2>t DEF LoopInv, Late, AgentPhase
    <2>7. NewServersJoined'
      BY <2>1, <2>2 DEF NewServersJoined, NewServer, Late, AgentPhase
    <2>8. KubeconfigInv'
      BY <2>1, <2>2, <2>t DEF KubeconfigInv, NewServer
    <2> QED
      BY <2>4, <2>5, <2>6, <2>7, <2>8 DEF PhaseInv
  <1>5. CASE UpdateKubeConfig
    <2>1. /\ pc = "updateKubeConfig" /\ pc' = "validate" /\ k' = k /\ kubeconfig' = NewServer(1)
          /\ UNCHANGED <<n, m, fault, members, instances>>
      BY <1>5, <1>b DEF UpdateKubeConfig, Step
    <2>2. OldServersLeft /\ OldAgentsLeft /\ LoopInv /\ NewServersJoined
      BY <2>1 DEF PhaseInv
    <2>3. k = 1
      BY <2>1, <2>2 DEF LoopInv
    <2>t. /\ pc \notin TerminateSteps /\ pc' \notin TerminateSteps
          /\ FirstGone /\ FirstGone' /\ NextGone' = NextGone /\ LeaderGone' = LeaderGone
      BY <2>1, <2>3 DEF TerminateSteps, FirstGone, NextGone, LeaderGone
    <2>4. OldServersLeft'
      BY <2>1, <2>2, <2>t DEF OldServersLeft, ServerLeft, OldServer
    <2>5. OldAgentsLeft'
      BY <2>1, <2>2 DEF OldAgentsLeft, AgentLeft, OldAgent
    <2>6. LoopInv'
      BY <2>1, <2>2, <2>3, <2>t DEF LoopInv, Late, AgentPhase
    <2>7. NewServersJoined'
      BY <2>1, <2>2, <2>3 DEF NewServersJoined, NewServer, Late, AgentPhase
    <2>8. KubeconfigInv'
      BY <2>1, <2>2, <2>t DEF KubeconfigInv, NewServer
    <2> QED
      BY <2>4, <2>5, <2>6, <2>7, <2>8 DEF PhaseInv
  <1>6. CASE ValidateNodeJoin
    <2>1. /\ pc = "validate" /\ NewServer(k) \in members /\ UNCHANGED <<n, m, fault>> /\ UNCHANGED world
          /\ \/ k < n /\ pc' = NextRound(k + 1) /\ k' = k + 1
             \/ ~(k < n) /\ pc' = AfterServers /\ k' = 1
      BY <1>6, <1>b DEF ValidateNodeJoin, Step
    <2>2. OldServersLeft /\ OldAgentsLeft /\ LoopInv /\ NewServersJoined /\ KubeconfigInv
      BY <2>1 DEF PhaseInv
    <2>3. k \in 1..n /\ n >= 2 /\ (k = 2 => n >= 3) /\ (k >= 3 => n = 3)
      BY <1>c, <2>1, <2>2 DEF LoopInv, FirstGone, KInRange, ServerPhase
    <2>4. \/ k = 1 /\ n = 2 /\ pc' = "join" /\ k' = 2
          \/ k = 1 /\ n >= 3 /\ pc' = "deleteNext" /\ k' = 2
          \/ k = 2 /\ n = 3 /\ pc' = "join" /\ k' = 3
          \/ k = 2 /\ n > 3 /\ pc' = "deleteNext" /\ k' = 3
          \/ k = 3 /\ n = 3 /\ pc' \in {"createAgents", "deleteLeader"} /\ k' = 1 /\ (m > 0 => pc' = "createAgents")
      BY <1>a, <2>1, <2>3 DEF NextRound, AfterServers
    <2>t. /\ pc \notin TerminateSteps /\ pc' \notin TerminateSteps
          /\ FirstGone /\ FirstGone' /\ NextGone' = NextGone /\ LeaderGone' = LeaderGone
      BY <2>1, <2>4 DEF TerminateSteps, FirstGone, NextGone, LeaderGone
    <2>5. OldServersLeft'
      BY <2>1, <2>2, <2>t DEF OldServersLeft, ServerLeft, OldServer, world
    <2>6. OldAgentsLeft'
      <3>1. \A j \in 1..m : ~AgentLeft(j) /\ ~AgentLeft(j)'
        BY <1>a, <2>1, <2>4 DEF AgentLeft
      <3> QED
        BY <2>1, <2>2, <2>4, <3>1 DEF OldAgentsLeft, OldAgent, world
    <2>7. LoopInv'
      BY <2>1, <2>3, <2>4, <2>t DEF LoopInv, Late, AgentPhase
    <2>8. NewServersJoined'
      <3>1. \A j \in 1..n : j < k \/ j = k => NewServer(j) \in members
        BY <2>1, <2>2 DEF NewServersJoined
      <3>2. NewServersJoined' <=> \A j \in 1..n : pc' \in Late \/ j < k' => NewServer(j) \in members
        BY <2>1, <2>4 DEF NewServersJoined, NewServer, Late, AgentPhase, world
      <3>3. \A j \in 1..n : pc' \in Late \/ j < k' => j < k \/ j = k
        BY <1>a, <2>4 DEF Late, AgentPhase
      <3> QED
        BY <3>1, <3>2, <3>3
    <2>9. KubeconfigInv'
      BY <2>1, <2>2, <2>t DEF KubeconfigInv, NewServer, world
    <2> QED
      BY <2>5, <2>6, <2>7, <2>8, <2>9 DEF PhaseInv
  <1>7. CASE DeleteNode
    <2>1. /\ pc \in DeleteSteps /\ Target \in members \cup leaving
          /\ members' = members \ {Target} /\ pc' = AfterDelete
          /\ UNCHANGED <<n, m, k, fault, instances, kubeconfig>>
      BY <1>7, <1>b DEF DeleteNode, AskToLeave, Step
    <2>2. OldServersLeft /\ OldAgentsLeft /\ LoopInv /\ NewServersJoined /\ KubeconfigInv
      BY <2>1 DEF PhaseInv, DeleteSteps
    <2>3. /\ Target' = Target
          /\ pc = "deleteFirst" => pc' = "terminateFirst"
          /\ pc = "deleteNext" => pc' = "terminateNext"
          /\ pc = "deleteAgent" => pc' = "terminateAgent"
          /\ pc = "deleteLeader" => pc' = "terminateLeader"
      BY <2>1, TargetStays DEF AfterDelete
    <2>4. \A j : Target # NewServer(j)
      BY <2>1, TargetIsOld
    <2>5. NewServersJoined'
      BY <2>1, <2>2, <2>3, <2>4 DEF NewServersJoined, NewServer, Late, AgentPhase, DeleteSteps
    <2>6. CASE pc = "deleteFirst"
      <3>1. pc' = "terminateFirst" /\ Target = OldServer(n - 1) /\ k = 1
        BY <2>1, <2>2, <2>3, <2>6, Targets DEF LoopInv
      <3>2. n >= 2
        BY <1>a, <2>1, <3>1, OldIdsDiffer, OldNodesByIndex DEF NodeInv, TypeOK, Nodes, Servers
      <3>3. OldServersLeft'
        BY <2>1, <2>2, <2>3, <2>6, <3>1, <1>a, OldIdsDiffer
        DEF OldServersLeft, ServerLeft, FirstGone, NextGone, LeaderGone, TerminateSteps
      <3>4. OldAgentsLeft'
        BY <2>1, <2>2, <2>6, <3>1, OldIdsDiffer DEF OldAgentsLeft, AgentLeft
      <3>5. LoopInv' /\ KubeconfigInv'
        BY <2>1, <2>2, <2>6, <3>1, <3>2 DEF LoopInv, KubeconfigInv, Late, AgentPhase, FirstGone
      <3> QED
        BY <2>5, <3>3, <3>4, <3>5 DEF PhaseInv
    <2>7. CASE pc = "deleteNext"
      <3>1. pc' = "terminateNext" /\ Target = OldServer(n) /\ k \in 2..n - 1 /\ k \in {2, 3}
        BY <1>c, <2>1, <2>2, <2>3, <2>7, Targets DEF LoopInv, KInRange
      <3>2. n >= 3 /\ pc \notin TerminateSteps
        BY <1>a, <2>7, <3>1 DEF TerminateSteps
      <3>3. OldServersLeft'
        <4>1. \A j \in 1..n : ServerLeft(j)' <=> ServerLeft(j) \/ j = n
          BY <2>1, <2>7, <3>1, <3>2 DEF ServerLeft, FirstGone, NextGone, LeaderGone
        <4>2. ServerLeft(n) <=> k = 3
          BY <1>a, <2>7, <3>1, <3>2 DEF ServerLeft, FirstGone, NextGone, LeaderGone
        <4>3. \A j \in 1..n : OldServer(j) \in members' <=> OldServer(j) \in members /\ j # n
          BY <2>1, <3>1, OldIdsDiffer
        <4>4. \A j \in 1..n : OldServer(j) = Target <=> j = n
          BY <3>1, OldIdsDiffer
        <4> QED
          BY <2>1, <2>2, <2>3, <3>1, <3>2, <4>1, <4>2, <4>3, <4>4
          DEF OldServersLeft, OldServer, TerminateSteps
      <3>4. OldAgentsLeft'
        BY <2>1, <2>2, <2>7, <3>1, OldIdsDiffer DEF OldAgentsLeft, AgentLeft
      <3>5. LoopInv' /\ KubeconfigInv'
        BY <2>1, <2>2, <2>7, <3>1, <3>2, <1>a DEF LoopInv, KubeconfigInv, Late, AgentPhase, FirstGone, NewServer
      <3> QED
        BY <2>5, <3>3, <3>4, <3>5 DEF PhaseInv
    <2>8. CASE pc = "deleteAgent"
      <3>1. pc' = "terminateAgent" /\ Target = OldAgent(k) /\ k \in 1..m
        BY <1>c, <2>1, <2>3, <2>8, Targets DEF KInRange, AgentPhase
      <3>3. OldServersLeft'
        BY <2>1, <2>2, <2>3, <2>8, <3>1, <1>a, OldIdsDiffer
        DEF OldServersLeft, ServerLeft, FirstGone, NextGone, LeaderGone, TerminateSteps
      <3>4. OldAgentsLeft'
        <4>1. \A j \in 1..m : /\ AgentLeft(j)' <=> AgentLeft(j) \/ j = k
                              /\ OldAgent(j) \in members' <=> OldAgent(j) \in members /\ j # k
          BY <1>a, <2>1, <2>8, <3>1, OldIdsDiffer DEF AgentLeft
        <4>2. ~AgentLeft(k)
          BY <1>a, <2>8 DEF AgentLeft
        <4> QED
          BY <2>1, <2>2, <2>8, <3>1, <4>1, <4>2 DEF OldAgentsLeft, OldAgent
      <3>5. LoopInv' /\ KubeconfigInv'
        BY <2>1, <2>2, <2>8, <3>1 DEF LoopInv, KubeconfigInv, Late, AgentPhase, FirstGone, NewServer
      <3> QED
        BY <2>5, <3>3, <3>4, <3>5 DEF PhaseInv
    <2>9. CASE pc = "deleteLeader"
      <3>1. pc' = "terminateLeader" /\ Target = OldServer(1)
        BY <2>1, <2>3, <2>9, Targets
      <3>3. OldServersLeft'
        <4>1. \A j \in 1..n : ServerLeft(j)' <=> ServerLeft(j) \/ j = 1
          BY <2>1, <2>9, <3>1 DEF ServerLeft, FirstGone, NextGone, LeaderGone
        <4>2. \A j \in 1..n : /\ OldServer(j) \in members' <=> OldServer(j) \in members /\ j # 1
                              /\ OldServer(j) = Target <=> j = 1
          BY <2>1, <3>1, OldIdsDiffer
        <4>3. ~ServerLeft(1)
          <5>1. n = 3
            BY <2>2, <2>9 DEF LoopInv, Late
          <5> QED
            BY <2>9, <5>1 DEF ServerLeft, FirstGone, NextGone, LeaderGone
        <4> QED
          BY <2>1, <2>2, <2>3, <2>9, <3>1, <4>1, <4>2, <4>3
          DEF OldServersLeft, OldServer, TerminateSteps
      <3>4. OldAgentsLeft'
        BY <2>1, <2>2, <2>9, <3>1, OldIdsDiffer DEF OldAgentsLeft, AgentLeft
      <3>5. LoopInv' /\ KubeconfigInv'
        BY <2>1, <2>2, <2>9, <3>1 DEF LoopInv, KubeconfigInv, Late, AgentPhase, FirstGone, NewServer
      <3> QED
        BY <2>5, <3>3, <3>4, <3>5 DEF PhaseInv
    <2> QED
      BY <2>1, <2>6, <2>7, <2>8, <2>9 DEF DeleteSteps
  <1>8. CASE DeleteInstance
    <2>1. /\ pc \in TerminateSteps /\ Target \in instances /\ instances' = instances \ {Target}
          /\ \/ pc = "terminateFirst" /\ pc' = "updateKubeConfig" /\ k' = k
             \/ pc = "terminateNext" /\ pc' = "join" /\ k' = k
             \/ pc = "terminateAgent" /\ k < m /\ pc' = "deleteAgent" /\ k' = k + 1
             \/ pc = "terminateAgent" /\ ~(k < m) /\ pc' = "joinAgent" /\ k' = 1
             \/ pc = "terminateLeader" /\ pc' = "health" /\ k' = k
          /\ UNCHANGED <<n, m, members, kubeconfig>> /\ (fault => fault')
      BY <1>8, <1>b DEF DeleteInstance, TerminateSteps
    <2>2. OldServersLeft /\ OldAgentsLeft /\ LoopInv /\ NewServersJoined /\ KubeconfigInv
      BY <2>1 DEF PhaseInv, TerminateSteps
    <2>3. pc' \notin TerminateSteps /\ pc # "failed"
      BY <2>1 DEF TerminateSteps
    <2>k. pc = "terminateNext" => k = 2
      <3>1. ASSUME pc = "terminateNext", k = 3 PROVE FALSE
        <4>1. n \in 1..n /\ Target = OldServer(n) /\ ServerLeft(n)
          BY <1>a, <1>c, <3>1, Targets DEF KInRange, ServerLeft, FirstGone, NextGone
        <4> QED
          BY <2>1, <2>2, <3>1, <4>1 DEF OldServersLeft
      <3> QED
        BY <2>2, <3>1 DEF LoopInv
    <2>t. FirstGone' = FirstGone /\ NextGone' = NextGone /\ LeaderGone' = LeaderGone
      BY <1>a, <2>1, <2>k DEF FirstGone, NextGone, LeaderGone
    <2>m. \A j \in 1..n : OldServer(j) = Target => ServerLeft(j)
      BY <1>d, <2>1, <2>2 DEF OldServersLeft, NodeInv, TargetLeft
    <2>4. OldServersLeft'
      BY <2>1, <2>2, <2>3, <2>k, <2>t, <2>m DEF OldServersLeft, ServerLeft, OldServer
    <2>5. OldAgentsLeft'
      <3>1. CASE pc = "terminateAgent"
        <4>1. Target = OldAgent(k) /\ k \in 1..m
          BY <1>c, <3>1, Targets DEF KInRange, AgentPhase
        <4>2. \A j \in 1..m : AgentLeft(j)' <=> AgentLeft(j)
          BY <1>a, <2>1, <3>1, <4>1 DEF AgentLeft
        <4>3. \A j \in 1..m : OldAgent(j) \in instances' <=> OldAgent(j) \in instances /\ j # k
          BY <2>1, <4>1, OldIdsDiffer
        <4>4. AgentLeft(k)
          BY <1>a, <3>1, <4>1 DEF AgentLeft
        <4> QED
          BY <2>1, <2>2, <2>3, <3>1, <4>2, <4>3, <4>4 DEF OldAgentsLeft, OldAgent, TerminateSteps
      <3>2. CASE pc # "terminateAgent"
        <4>1. \E j : Target = OldServer(j)
          BY <2>1, <3>2, Targets DEF TerminateSteps
        <4>2. \A j \in 1..m : AgentLeft(j)' <=> AgentLeft(j)
          BY <2>1, <3>2 DEF AgentLeft
        <4>3. \A j \in 1..m : OldAgent(j) \in instances' <=> OldAgent(j) \in instances
          BY <2>1, <4>1, OldIdsDiffer
        <4> QED
          BY <2>1, <2>2, <2>3, <3>2, <4>2, <4>3 DEF OldAgentsLeft, OldAgent, TerminateSteps
      <3> QED
        BY <3>1, <3>2
    <2>6. LoopInv'
      <3>1. pc = "terminateNext" => k \in 2..n - 1
        BY <1>c DEF KInRange
      <3> QED
        BY <1>a, <2>1, <2>2, <2>t, <2>k, <3>1 DEF LoopInv, Late, AgentPhase
    <2>7. NewServersJoined'
      BY <2>1, <2>2 DEF NewServersJoined, NewServer, Late, AgentPhase
    <2>8. KubeconfigInv'
      BY <2>1, <2>2, <2>t DEF KubeconfigInv, NewServer, FirstGone
    <2> QED
      BY <2>4, <2>5, <2>6, <2>7, <2>8 DEF PhaseInv
  <1>9. CASE CreateAgents
    <2>1. /\ pc = "createAgents" /\ pc' = "deleteAgent" /\ k' = 1
          /\ instances' = instances \cup NewAgents /\ UNCHANGED <<n, m, members, kubeconfig, fault>>
      BY <1>9, <1>b DEF CreateAgents, Create, Step
    <2>2. OldServersLeft /\ OldAgentsLeft /\ LoopInv /\ NewServersJoined /\ KubeconfigInv
      BY <2>1 DEF PhaseInv
    <2>3. \A j : /\ OldServer(j) \in instances' <=> OldServer(j) \in instances
                 /\ OldAgent(j) \in instances' <=> OldAgent(j) \in instances
      BY <2>1, OldIdsDiffer, OldNodesByIndex
    <2>t. /\ pc \notin TerminateSteps /\ pc' \notin TerminateSteps
          /\ FirstGone' = FirstGone /\ NextGone' = NextGone /\ LeaderGone' = LeaderGone
      BY <2>1 DEF TerminateSteps, FirstGone, NextGone, LeaderGone
    <2>4. OldServersLeft'
      BY <2>1, <2>2, <2>3, <2>t DEF OldServersLeft, ServerLeft, OldServer
    <2>5. OldAgentsLeft'
      <3>1. \A j \in 1..m : ~AgentLeft(j) /\ ~AgentLeft(j)'
        BY <1>a, <2>1 DEF AgentLeft
      <3> QED
        BY <2>1, <2>2, <2>3, <3>1 DEF OldAgentsLeft, OldAgent
    <2>6. LoopInv'
      BY <2>1, <2>2, <2>t DEF LoopInv, Late, AgentPhase
    <2>7. NewServersJoined'
      BY <2>1, <2>2 DEF NewServersJoined, NewServer, Late, AgentPhase
    <2>8. KubeconfigInv'
      BY <2>1, <2>2, <2>t DEF KubeconfigInv, NewServer
    <2> QED
      BY <2>4, <2>5, <2>6, <2>7, <2>8 DEF PhaseInv
  <1>10. CASE ValidateClusterHealth
    <2>1. pc = "health" /\ pc' = "done" /\ k' = k /\ UNCHANGED <<n, m, fault>> /\ UNCHANGED world
      BY <1>10 DEF ValidateClusterHealth, Step
    <2>2. OldServersLeft /\ OldAgentsLeft /\ LoopInv /\ NewServersJoined /\ KubeconfigInv
      BY <2>1 DEF PhaseInv
    <2>t. /\ pc \notin TerminateSteps /\ pc' \notin TerminateSteps
          /\ FirstGone' = FirstGone /\ NextGone' = NextGone /\ LeaderGone' = LeaderGone
      BY <2>1 DEF TerminateSteps, FirstGone, NextGone, LeaderGone
    <2>4. OldServersLeft'
      BY <2>1, <2>2, <2>t DEF OldServersLeft, ServerLeft, OldServer, world
    <2>5. OldAgentsLeft'
      BY <2>1, <2>2 DEF OldAgentsLeft, AgentLeft, OldAgent, world
    <2>6. LoopInv'
      BY <2>1, <2>2, <2>t DEF LoopInv, Late, AgentPhase
    <2>7. NewServersJoined' /\ KubeconfigInv'
      BY <2>1, <2>2, <2>t DEF NewServersJoined, KubeconfigInv, NewServer, Late, AgentPhase, world
    <2> QED
      BY <2>4, <2>5, <2>6, <2>7 DEF PhaseInv
  <1>0. CASE \E node \in leaving : NodeLeaves(node)
    <2>1. Target' = Target /\ UNCHANGED <<n, m, pc, k, members, instances, kubeconfig, fault>>
      BY <1>0 DEF NodeLeaves, Target, FirstTarget, NextTarget, Leader, OldServer, OldAgent
    <2> QED
      BY <2>1 DEF PhaseInv, OldServersLeft, OldAgentsLeft, LoopInv, NewServersJoined,
         KubeconfigInv, ServerLeft, AgentLeft, FirstGone, NextGone, LeaderGone, Leader, OldServer,
         OldAgent, NewServer
  <1>11. CASE UNCHANGED vars
    <2>1. Target' = Target
      BY <1>11 DEF vars, Target, FirstTarget, NextTarget, Leader, OldServer, OldAgent
    <2> QED
      BY <1>11, <2>1 DEF vars, PhaseInv, OldServersLeft, OldAgentsLeft, LoopInv, NewServersJoined,
         KubeconfigInv, ServerLeft, AgentLeft, FirstGone, NextGone, LeaderGone, Leader, OldServer,
         OldAgent, NewServer
  <1> QED
    BY <1>0, <1>1, <1>2, <1>3, <1>4, <1>5, <1>6, <1>7, <1>8, <1>9, <1>10, <1>11 DEF Next, Stopped

-----------------------------------------------------------------------------
\* Who answers, what a cluster of three does

\* A member runs, so that being a member is enough to answer.
LEMMA MembersAnswer == NodeInv => \A x : Works(x) <=> x \in members
  BY DEF NodeInv, MembersRun, Works

\* The leader is a member while nodes join, unless it is the first server to go.
LEMMA LeaderAnswers ==
    ASSUME NodeInv, PhaseInv, pc \in {"fetchToken", "join", "joinAgent"},
           n # 2 \/ pc = "fetchToken"
    PROVE  Leader \in members
  <1>1. n \in Nat \ {0}
    BY CountConstants DEF NodeInv, TypeOK
  <1>2. ~ServerLeft(1)
    BY <1>1 DEF ServerLeft, FirstGone, NextGone, LeaderGone
  <1> QED
    BY <1>1, <1>2 DEF PhaseInv, OldServersLeft, Leader

\* The server of the kubeconfig is a member when kubectl is used.
LEMMA KubectlAnswers ==
    ASSUME NodeInv, PhaseInv,
           pc \in DeleteSteps \cup {"health"} \/ (pc = "validate" /\ k > 1)
    PROVE  kubeconfig \in members
  <1>1. n \in Nat \ {0} /\ k \in Nat
    BY CountConstants DEF NodeInv, TypeOK
  <1>2. CASE pc = "deleteFirst"
    <2>1. ~ServerLeft(1) /\ kubeconfig = OldServer(1)
      BY <1>2 DEF ServerLeft, FirstGone, NextGone, LeaderGone, PhaseInv, KubeconfigInv, Leader
    <2> QED
      BY <1>1, <1>2, <2>1 DEF PhaseInv, OldServersLeft
  <1>3. CASE pc # "deleteFirst"
    <2>1. kubeconfig = NewServer(1)
      BY <1>3 DEF PhaseInv, KubeconfigInv, FirstGone, DeleteSteps
    <2>2. pc \in Late \/ (pc \in {"validate", "deleteNext"} /\ k > 1)
      BY <1>1, <1>3 DEF DeleteSteps, Late, AgentPhase, NodeInv, KInRange
    <2> QED
      BY <1>1, <2>1, <2>2 DEF PhaseInv, NewServersJoined, Late, AgentPhase
  <1> QED
    BY <1>2, <1>3

\* With three servers each delete finds its node and each terminate its instance.
LEMMA TargetsAreThere ==
    ASSUME NodeInv, PhaseInv, n = 3
    PROVE  /\ pc \in DeleteSteps => Target \in members
           /\ pc \in TerminateSteps => Target \in instances
  <1>1. k \in Nat /\ m \in Nat
    BY CountConstants DEF NodeInv, TypeOK
  <1>2. CASE pc \in {"deleteFirst", "deleteNext", "deleteLeader"}
    <2>1. pc = "deleteNext" => k = 2
      BY <1>1 DEF NodeInv, KInRange
    <2>2. \E j \in 1..3 : Target = OldServer(j) /\ ~ServerLeft(j)
      <3>1. CASE pc = "deleteFirst"
        BY <3>1, Targets DEF ServerLeft, FirstGone, NextGone, LeaderGone
      <3>2. CASE pc = "deleteNext"
        BY <2>1, <3>2, Targets DEF ServerLeft, FirstGone, NextGone, LeaderGone
      <3>3. CASE pc = "deleteLeader"
        BY <3>3, Targets DEF ServerLeft, FirstGone, NextGone, LeaderGone
      <3> QED
        BY <1>2, <3>1, <3>2, <3>3
    <2> QED
      BY <1>2, <2>2 DEF PhaseInv, OldServersLeft, TerminateSteps
  <1>3. CASE pc \in {"terminateFirst", "terminateNext", "terminateLeader"}
    <2>1. \E j \in 1..3 : Target = OldServer(j)
      BY <1>3, Targets
    <2>2. ~(pc = "terminateNext" /\ k = 3)
      BY DEF NodeInv, KInRange
    <2> QED
      BY <1>3, <2>1, <2>2 DEF PhaseInv, OldServersLeft, DeleteSteps, TerminateSteps
  <1>4. CASE pc \in {"deleteAgent", "terminateAgent"}
    <2>1. Target = OldAgent(k) /\ k \in 1..m
      BY <1>4, Targets DEF NodeInv, KInRange, AgentPhase
    <2>2. pc = "deleteAgent" => ~AgentLeft(k)
      BY <1>1 DEF AgentLeft
    <2> QED
      BY <1>4, <2>1, <2>2 DEF PhaseInv, OldAgentsLeft, DeleteSteps, TerminateSteps
  <1> QED
    BY <1>2, <1>3, <1>4 DEF DeleteSteps, TerminateSteps

\* The part of ReplacedWhenDone that is not about the end.
ThreeSucceed == n = 3 /\ ~fault => pc # "failed"

\* The size stays, and a failure is remembered.
LEMMA FaultStays == [Next]_vars => n' = n /\ (fault => fault')
  <1> SUFFICES ASSUME [Next]_vars PROVE n' = n /\ (fault => fault')
    OBVIOUS
  <1> USE DEF Step, Go, Fault, Refused, Abort
  <1>1. CASE CreateServers \/ CreateAgents
    BY <1>1 DEF CreateServers, CreateAgents, Create
  <1>2. CASE FetchToken
    BY <1>2 DEF FetchToken
  <1>3. CASE JoinServer \/ JoinAgent
    <2>1. ASSUME NEW node, NEW l, NEW j, Join(node, l, j) PROVE n' = n /\ (fault => fault')
      <3>1. \/ n' = n /\ fault' = (fault \/ node \notin members')
            \/ Fault \/ Refused
        BY <2>1, Zenon DEF Join
      <3>2. Fault \/ Refused => n' = n /\ (fault => fault')
        OBVIOUS
      <3> QED
        BY <3>1, <3>2, Zenon
    <2> QED
      BY <1>3, <2>1 DEF JoinServer, JoinAgent
  <1>4. CASE UpdateKubeConfig
    BY <1>4 DEF UpdateKubeConfig
  <1>5. CASE ValidateNodeJoin
    BY <1>5 DEF ValidateNodeJoin
  <1>6. CASE DeleteNode
    BY <1>6 DEF DeleteNode
  <1>7. CASE DeleteInstance
    <2>1. CASE n' = n /\ fault' = (fault \/ Target \in leaving)
      BY <2>1, Zenon
    <2>2. CASE Refused \/ Fault
      BY <2>2
    <2> QED
      BY <1>7, <2>1, <2>2 DEF DeleteInstance, TerminateSteps
  <1>8. CASE ValidateClusterHealth
    BY <1>8 DEF ValidateClusterHealth
  <1>0. CASE \E node \in leaving : NodeLeaves(node)
    BY <1>0 DEF NodeLeaves
  <1>9. CASE UNCHANGED vars
    BY <1>9 DEF vars
  <1> QED
    BY <1>0, <1>1, <1>2, <1>3, <1>4, <1>5, <1>6, <1>7, <1>8, <1>9 DEF Next, Stopped

\* How many servers there are

\* A list of n servers has n of them.
LEMMA ServerLists ==
    ASSUME n \in Nat
    PROVE  /\ IsFiniteSet(OldServers) /\ Cardinality(OldServers) = n
           /\ IsFiniteSet(NewServers) /\ Cardinality(NewServers) = n
           /\ IsFiniteSet(Servers)
  <1> DEFINE f == [j \in 1..n |-> OldServer(j)]
             g == [j \in 1..n |-> NewServer(j)]
  <1>1. f \in Bijection(1..n, OldServers) /\ g \in Bijection(1..n, NewServers)
    BY OldIdsDiffer, OldNodesByIndex DEF Bijection, Injection, Surjection, IsInjective
  <1>2. ExistsBijection(1..n, OldServers) /\ ExistsBijection(1..n, NewServers)
    BY <1>1 DEF ExistsBijection
  <1>3. /\ IsFiniteSet(OldServers) /\ Cardinality(OldServers) = n
        /\ IsFiniteSet(NewServers) /\ Cardinality(NewServers) = n
    BY <1>2, FS_NatBijection, FS_CountingElements
  <1> QED
    BY <1>3, FS_Union DEF Servers

\* A set of two elements has two.
LEMMA PairOfTwo ==
    ASSUME NEW a, NEW b, a # b
    PROVE  IsFiniteSet({a, b}) /\ Cardinality({a, b}) = 2
  <1>1. IsFiniteSet({a}) /\ Cardinality({a}) = 1
    BY FS_Singleton
  <1>2. {a, b} = {a} \cup {b} /\ b \notin {a}
    OBVIOUS
  <1> QED
    BY <1>1, <1>2, FS_AddElement

\* As many of the servers as before, or one less.
LEMMA Counting ==
    ASSUME NEW S, IsFiniteSet(S), NEW A, NEW B
    PROVE  /\ A \subseteq B => Cardinality(A \cap S) <= Cardinality(B \cap S)
           /\ \A x : Cardinality((A \ {x}) \cap S) >= Cardinality(A \cap S) - 1
           /\ Cardinality(A \cap S) \in Nat
  <1>1. IsFiniteSet(A \cap S) /\ IsFiniteSet(B \cap S) /\ Cardinality(A \cap S) \in Nat
    BY FS_Subset, FS_CardinalityType
  <1>2. A \subseteq B => Cardinality(A \cap S) <= Cardinality(B \cap S)
    BY <1>1, FS_Subset
  <1>3. \A x : (A \ {x}) \cap S = (A \cap S) \ {x}
    OBVIOUS
  <1>4. \A x : Cardinality((A \cap S) \ {x}) >= Cardinality(A \cap S) - 1
    <2> TAKE x
    <2>1. Cardinality((A \cap S) \ {x}) = IF x \in A \cap S THEN Cardinality(A \cap S) - 1
                                                           ELSE Cardinality(A \cap S)
      BY <1>1, FS_RemoveElement
    <2> QED
      BY <1>1, <2>1
  <1> QED
    BY <1>1, <1>2, <1>3, <1>4

\* The voters are those that run and those that do not.
LEMMA VotersSplit ==
    ASSUME n \in Nat
    PROVE  /\ Cardinality(Voters) = Cardinality(Voters \cap instances) + Cardinality(Voters \ instances)
           /\ Cardinality(Voters \cap instances) \in Nat /\ Cardinality(Voters \ instances) \in Nat
           /\ IsFiniteSet(Voters)
  <1>1. IsFiniteSet(Voters)
    BY ServerLists, FS_Subset DEF Voters
  <1>2. IsFiniteSet(Voters \cap instances) /\ IsFiniteSet(Voters \ instances)
    BY <1>1, FS_Subset
  <1>3. /\ (Voters \cap instances) \cup (Voters \ instances) = Voters
        /\ (Voters \cap instances) \cap (Voters \ instances) = {}
    OBVIOUS
  <1>4. Cardinality({}) = 0
    BY FS_EmptySet
  <1>5. Cardinality(Voters) = Cardinality(Voters \cap instances) + Cardinality(Voters \ instances) - 0
    BY <1>2, <1>3, <1>4, FS_Union
  <1> QED
    BY <1>1, <1>2, <1>5, FS_CardinalityType

\* There is a majority exactly if more voters run than do not.
LEMMA QuorumByCount ==
    ASSUME n \in Nat
    PROVE  Quorum <=> Cardinality(Voters \cap instances) > Cardinality(Voters \ instances)
  BY VotersSplit DEF Quorum

\* While no node is late, every voter runs.
LEMMA OnTimeQuorum ==
    ASSUME NodeInv, ~fault, NEW x \in Servers, x \in members
    PROVE  Quorum
  <1>1. n \in Nat
    BY CountConstants DEF NodeInv, TypeOK
  <1>2. Voters \ instances = {} /\ x \in Voters \cap instances
    BY DEF Voters, NodeInv, MembersRun, OnlyOldLeave
  <1>3. Cardinality(Voters \ instances) = 0 /\ Cardinality(Voters \cap instances) # 0
    BY <1>1, <1>2, VotersSplit, FS_EmptySet, FS_Subset
  <1> QED
    BY <1>1, <1>3, VotersSplit, QuorumByCount

\* With three servers nothing is refused.
LEMMA ThreeStep ==
    NodeInv /\ PhaseInv /\ ThreeSucceed /\ [Next]_vars => ThreeSucceed'
  <1> SUFFICES ASSUME NodeInv, PhaseInv, ThreeSucceed, [Next]_vars,
                      n' = 3, ~fault', pc' = "failed"
               PROVE  FALSE
    BY DEF ThreeSucceed
  <1>1. ~Fault /\ n = 3 /\ ~fault /\ pc # "failed"
    BY FaultStays DEF Fault, ThreeSucceed
  <1>2. \A x \in Servers : x \in members => Answers(x)
    BY <1>1, MembersAnswer, OnTimeQuorum DEF Answers
  <1>a. Leader \in Servers /\ kubeconfig \in Servers
    BY <1>1, OldNodesByIndex DEF Leader, Servers, NodeInv, TypeOK
  <1>3. CASE CreateServers \/ CreateAgents
    BY <1>1, <1>3 DEF CreateServers, CreateAgents, Create, Step, Go
  <1>4. CASE FetchToken
    <2>1. Answers(Leader)
      BY <1>1, <1>2, <1>a, <1>4, LeaderAnswers DEF FetchToken
    <2> QED
      BY <1>1, <1>4, <2>1 DEF FetchToken, Step, Go
  <1>5. CASE JoinServer
    <2>1. Answers(Leader)
      BY <1>1, <1>2, <1>a, <1>5, LeaderAnswers DEF JoinServer
    <2> QED
      BY <1>1, <1>5, <2>1 DEF JoinServer, Join, Go
  <1>6. CASE JoinAgent
    <2>1. Answers(Leader)
      BY <1>1, <1>2, <1>a, <1>6, LeaderAnswers DEF JoinAgent
    <2> QED
      BY <1>1, <1>6, <2>1 DEF JoinAgent, Join, Go
  <1>7. CASE UpdateKubeConfig
    BY <1>1, <1>7 DEF UpdateKubeConfig, Step, Go
  <1>8. CASE ValidateNodeJoin
    <2>1. NewServer(k) \in members
      BY <1>1, <1>8 DEF ValidateNodeJoin, PhaseInv, NewServersJoined
    <2>2. k > 1 => kubeconfig \in members
      BY <1>8, KubectlAnswers DEF ValidateNodeJoin
    <2>3. k \in 1..n
      BY <1>8 DEF ValidateNodeJoin, NodeInv, KInRange, ServerPhase
    <2>4. kubeconfig = NewServer(1)
      BY <1>1, <1>8 DEF ValidateNodeJoin, PhaseInv, KubeconfigInv, FirstGone
    <2>5. Answers(kubeconfig)
      BY <1>1, <1>2, <1>a, <2>1, <2>2, <2>3, <2>4
    <2>6. ~Step(NextRound(k + 1), k + 1) /\ ~Step(AfterServers, 1)
      BY DEF Step, Go, NextRound, AfterServers
    <2> QED
      BY <1>1, <1>8, <2>1, <2>5, <2>6 DEF ValidateNodeJoin
  <1>9. CASE DeleteNode
    <2>1. Answers(kubeconfig) /\ Target \in members
      BY <1>1, <1>2, <1>a, <1>9, KubectlAnswers, TargetsAreThere DEF DeleteNode
    <2> QED
      BY <1>1, <1>9, <2>1 DEF DeleteNode, Step, Go, DeleteSteps, AfterDelete
  <1>10. CASE DeleteInstance
    <2>1. Target \in instances
      BY <1>1, <1>10, TargetsAreThere DEF DeleteInstance
    <2> QED
      BY <1>1, <1>10, <2>1 DEF DeleteInstance, Go, TerminateSteps
  <1>11. CASE ValidateClusterHealth
    BY <1>11 DEF ValidateClusterHealth, Step, Go
  <1>0. CASE \E node \in leaving : NodeLeaves(node)
    BY <1>0, <1>1 DEF NodeLeaves
  <1>12. CASE UNCHANGED vars
    BY <1>1, <1>12 DEF vars
  <1> QED
    BY <1>0, <1>3, <1>4, <1>5, <1>6, <1>7, <1>8, <1>9, <1>10, <1>11, <1>12 DEF Next, Stopped

-----------------------------------------------------------------------------
\* Before a server is deleted there are as many as the cluster has to have.
LEMMA FullBeforeDelete ==
    ASSUME NodeInv, PhaseInv, pc \in DeleteSteps, Target \in members \cap Servers
    PROVE  Cardinality(members \cap Servers) >= n
  <1>1. n \in Nat \ {0} /\ k \in Nat /\ m \in Nat
    BY CountConstants DEF NodeInv, TypeOK
  <1>2. /\ IsFiniteSet(OldServers) /\ Cardinality(OldServers) = n
        /\ IsFiniteSet(NewServers) /\ Cardinality(NewServers) = n
        /\ IsFiniteSet(members \cap Servers)
    BY <1>1, ServerLists, FS_Subset
  <1>3. pc # "failed" /\ pc \notin TerminateSteps
    BY DEF DeleteSteps, TerminateSteps
  <1>4. OldServersLeft /\ NewServersJoined /\ LoopInv
    BY <1>3 DEF PhaseInv
  <1>5. ASSUME NEW S \in SUBSET (members \cap Servers), Cardinality(S) = n
        PROVE  Cardinality(members \cap Servers) >= n
    <2>1. Cardinality(S) <= Cardinality(members \cap Servers)
      BY <1>2, FS_Subset
    <2>2. Cardinality(members \cap Servers) \in Nat
      BY <1>2, FS_CardinalityType
    <2> QED
      BY <1>1, <1>5, <2>1, <2>2
  <1>6. CASE pc = "deleteFirst"
    <2>1. \A j \in 1..n : ~ServerLeft(j)
      BY <1>6 DEF ServerLeft, FirstGone, NextGone, LeaderGone
    <2>2. OldServers \subseteq members \cap Servers
      BY <1>4, <2>1, OldNodesByIndex DEF OldServersLeft, Servers
    <2> QED
      BY <1>2, <1>5, <2>2
  <1>7. CASE pc = "deleteNext"
    <2>1. Target = OldServer(n) /\ k \in {2, 3} /\ k \in 2..n - 1
      BY <1>4, <1>7, Targets DEF LoopInv, NodeInv, KInRange
    <2>2. ~ServerLeft(n)
      BY <1>1, <1>4, <2>1 DEF OldServersLeft
    <2>3. k = 2
      BY <1>1, <1>7, <2>1, <2>2 DEF ServerLeft, NextGone, FirstGone
    <2>4. \A j \in 1..n : j # n - 1 => ~ServerLeft(j)
      BY <1>1, <1>7, <2>3 DEF ServerLeft, FirstGone, NextGone, LeaderGone
    <2> DEFINE S == (OldServers \ {OldServer(n - 1)}) \cup {NewServer(1)}
    <2>5. NewServer(1) \in members /\ NewServer(1) \in Servers
      BY <1>1, <1>4, <1>7, <2>3, OldNodesByIndex DEF NewServersJoined, Servers
    <2>6. S \subseteq members \cap Servers
      BY <1>4, <2>4, <2>5, OldNodesByIndex DEF OldServersLeft, Servers
    <2>7. OldServer(n - 1) \in OldServers
      BY <1>1, <2>1, OldNodesByIndex
    <2>8. NewServer(1) \notin OldServers \ {OldServer(n - 1)}
      BY OldIdsDiffer, OldNodesByIndex
    <2>9. /\ IsFiniteSet(OldServers \ {OldServer(n - 1)})
          /\ Cardinality(OldServers \ {OldServer(n - 1)}) = n - 1
      BY <1>2, <2>7, FS_RemoveElement
    <2>10. Cardinality(S) = n - 1 + 1
      BY <2>8, <2>9, FS_AddElement
    <2> QED
      BY <1>1, <1>5, <2>6, <2>10
  <1>8. CASE pc = "deleteAgent"
    BY <1>8, Targets, OldIdsDiffer, OldNodesByIndex DEF Servers
  <1>9. CASE pc = "deleteLeader"
    <2>1. NewServers \subseteq members \cap Servers
      BY <1>4, <1>9, OldNodesByIndex DEF NewServersJoined, Late, Servers
    <2> QED
      BY <1>2, <1>5, <2>1
  <1> QED
    BY <1>6, <1>7, <1>8, <1>9 DEF DeleteSteps

\* The part of AtMostOneServerShort that is not about the majority.
OneServerShort == Cardinality(members \cap Servers) >= n - 1

\* No step takes a second server away.
LEMMA ShortStep ==
    NodeInv /\ PhaseInv /\ OneServerShort /\ [Next]_vars => OneServerShort'
  <1> SUFFICES ASSUME NodeInv, PhaseInv, OneServerShort, [Next]_vars
               PROVE  OneServerShort'
    OBVIOUS
  <1>1. n \in Nat \ {0} /\ n' = n
    BY CountConstants, FaultStays DEF NodeInv, TypeOK
  <1>2. IsFiniteSet(Servers) /\ Servers' = Servers
    BY <1>1, ServerLists DEF Servers, OldServers, NewServers, OldServer, NewServer
  <1>3. ASSUME members \subseteq members' PROVE OneServerShort'
    <2>1. /\ Cardinality(members \cap Servers) <= Cardinality(members' \cap Servers)
          /\ Cardinality(members \cap Servers) \in Nat
      BY <1>2, <1>3, Counting
    <2>2. Cardinality(members' \cap Servers) \in Nat
      BY <1>2, Counting
    <2> QED
      BY <1>1, <1>2, <2>1, <2>2 DEF OneServerShort
  <1>4. CASE DeleteNode
    <2>1. pc \in DeleteSteps /\ (members' = members \/ members' = members \ {Target})
      BY <1>4 DEF DeleteNode, AskToLeave, Refused, world
    <2>2. CASE Target \in members \cap Servers /\ members' = members \ {Target}
      <3>1. Cardinality(members \cap Servers) >= n
        BY <2>1, <2>2, FullBeforeDelete
      <3>2. /\ Cardinality(members' \cap Servers) >= Cardinality(members \cap Servers) - 1
            /\ Cardinality(members \cap Servers) \in Nat
        BY <1>2, <2>2, Counting
      <3>3. Cardinality(members' \cap Servers) \in Nat
        BY <1>2, Counting
      <3> QED
        BY <1>1, <1>2, <3>1, <3>2, <3>3 DEF OneServerShort
    <2>3. CASE Target \notin Servers /\ members' = members \ {Target}
      <3>1. members' \cap Servers = members \cap Servers
        BY <2>3
      <3> QED
        BY <1>1, <1>2, <3>1 DEF OneServerShort
    <2>4. CASE Target \notin members \/ members' = members
      BY <1>3, <2>1, <2>4
    <2> QED
      BY <2>1, <2>2, <2>3, <2>4
  <1>5. CASE ~DeleteNode
    <2>1. members \subseteq members'
      <3>1. CASE CreateServers \/ CreateAgents
        BY <3>1 DEF CreateServers, CreateAgents, Create
      <3>2. CASE FetchToken
        BY <3>2 DEF FetchToken, Refused, world
      <3>3. CASE JoinServer \/ JoinAgent
        BY <3>3 DEF JoinServer, JoinAgent, Join, Refused, world
      <3>4. CASE UpdateKubeConfig \/ ValidateNodeJoin
        BY <3>4 DEF UpdateKubeConfig, ValidateNodeJoin, Refused, world
      <3>5. CASE DeleteInstance
        BY <3>5 DEF DeleteInstance, Refused, world
      <3>6. CASE ValidateClusterHealth \/ UNCHANGED vars
        BY <3>6 DEF ValidateClusterHealth, world, vars
      <3>7. CASE \E node \in leaving : NodeLeaves(node)
        BY <3>7 DEF NodeLeaves
      <3> QED
        BY <1>5, <3>1, <3>2, <3>3, <3>4, <3>5, <3>6, <3>7 DEF Next, Stopped
    <2> QED
      BY <1>3, <2>1
  <1> QED
    BY <1>4, <1>5

\* The servers that stay are a majority of the voters unless too many have gone early.
LEMMA ShortQuorum ==
    ASSUME NodeInv, OneServerShort, Cardinality(Voters \ instances) < n - 1
    PROVE  Quorum
  <1>1. n \in Nat
    BY CountConstants DEF NodeInv, TypeOK
  <1>2. members \cap Servers \subseteq Voters \cap instances
    BY DEF Voters, NodeInv, MembersRun
  <1>3. IsFiniteSet(Voters \cap instances)
    BY <1>1, VotersSplit, FS_Subset
  <1>4. /\ Cardinality(members \cap Servers) <= Cardinality(Voters \cap instances)
        /\ Cardinality(members \cap Servers) \in Nat
    BY <1>2, <1>3, FS_Subset, FS_CardinalityType
  <1> QED
    BY <1>1, <1>4, VotersSplit, QuorumByCount DEF OneServerShort

-----------------------------------------------------------------------------
\* Who is late to leave when a cluster of three comes to its end

\* New servers register in the order in which they join.
JoinedInOrder ==
    /\ pc \in {"createServers", "fetchToken"} => k = 1
    /\ pc \in {"createServers", "fetchToken", "join", "deleteNext", "terminateNext"} =>
          \A j \in 1..n : NewServer(j) \in members => j < k
    /\ pc \in {"deleteFirst", "terminateFirst", "updateKubeConfig", "validate"} =>
          \A j \in 1..n : NewServer(j) \in members => j <= k

\* The steps after the join of the second new server.
AfterSecondJoin == pc \in Late \/ (pc = "join" /\ k >= 3) \/ (pc = "validate" /\ k >= 2)

\* By then one of the two other old servers has left.
OneIsLate == n = 3 /\ AfterSecondJoin => ~({OldServer(2), OldServer(3)} \subseteq leaving)

OrderInv == pc # "failed" => JoinedInOrder /\ OneIsLate

\* With both of them late the second join finds no majority.
LEMMA TwoLateNoQuorum ==
    ASSUME NodeInv, PhaseInv, JoinedInOrder, n = 3, pc = "join", k = 2,
           {OldServer(2), OldServer(3)} \subseteq leaving
    PROVE  ~Quorum
  <1>1. n \in Nat /\ pc \notin TerminateSteps
    BY DEF TerminateSteps
  <1>2. \A j \in 1..n : j # 1 => OldServer(j) \notin members /\ OldServer(j) \notin instances
    <2>1. \A j \in 1..n : j # 1 => ServerLeft(j)
      BY DEF ServerLeft, FirstGone, NextGone
    <2> QED
      BY <1>1, <2>1 DEF PhaseInv, OldServersLeft
  <1>3. \A j \in 1..n : NewServer(j) \in members => j = 1
    BY DEF JoinedInOrder
  <1>4. Voters \cap instances \subseteq {OldServer(1), NewServer(1)}
    <2> SUFFICES ASSUME NEW x \in Voters, x \in instances PROVE x \in {OldServer(1), NewServer(1)}
      OBVIOUS
    <2>1. CASE x \in OldServers
      BY <1>2, <2>1, OldNodesByIndex
    <2>2. CASE x \in NewServers
      BY <1>3, <2>2, OldNodesByIndex, OldIdsDiffer DEF Voters, NodeInv, OnlyOldLeave
    <2> QED
      BY <2>1, <2>2 DEF Voters, Servers
  <1>5. {OldServer(2), OldServer(3)} \subseteq Voters \ instances
    BY <1>2, OldNodesByIndex DEF Voters, Servers
  <1>6. IsFiniteSet(Voters \ instances)
    BY <1>1, VotersSplit, FS_Subset
  <1>7. /\ IsFiniteSet({OldServer(2), OldServer(3)}) /\ Cardinality({OldServer(2), OldServer(3)}) = 2
        /\ IsFiniteSet({OldServer(1), NewServer(1)}) /\ Cardinality({OldServer(1), NewServer(1)}) = 2
    <2>1. OldServer(2) # OldServer(3) /\ OldServer(1) # NewServer(1)
      BY OldIdsDiffer
    <2> QED
      BY <2>1, PairOfTwo
  <1>8. Cardinality(Voters \cap instances) <= 2 /\ Cardinality(Voters \ instances) >= 2
    BY <1>1, <1>4, <1>5, <1>6, <1>7, VotersSplit, FS_Subset
  <1> QED
    BY <1>1, <1>8, VotersSplit, QuorumByCount

\* New servers join in order, and one of two late ones is noticed.
LEMMA OrderStep == NodeInv /\ PhaseInv /\ OrderInv /\ [Next]_vars => OrderInv'
  <1> SUFFICES ASSUME NodeInv, PhaseInv, OrderInv, [Next]_vars, pc' # "failed" PROVE OrderInv'
    BY DEF OrderInv
  <1> USE DEF Go
  <1>a. n \in Nat \ {0} /\ k \in Nat
    BY CountConstants DEF NodeInv, TypeOK
  <1>b. ~Abort /\ ~Fault /\ ~Refused
    BY DEF Abort, Fault, Refused
  <1>c. ASSUME UNCHANGED n, members' \subseteq members,
               leaving' \subseteq leaving,
               pc # "failed",
               AfterSecondJoin' => AfterSecondJoin,
               JoinedInOrder => JoinedInOrder'
        PROVE  OrderInv'
    BY <1>c DEF OrderInv, OneIsLate, OldServer
  <1>1. CASE CreateServers
    <2>1. /\ pc = "createServers" /\ pc' = "fetchToken" /\ k' = 1
          /\ UNCHANGED <<n, members, leaving>>
      BY <1>1, <1>b DEF CreateServers, Create, Step
    <2> QED
      BY <1>a, <1>c, <2>1 DEF JoinedInOrder, AfterSecondJoin, Late, AgentPhase, NewServer
  <1>2. CASE FetchToken
    <2>1. pc = "fetchToken" /\ pc' = "join" /\ k' = 1 /\ UNCHANGED <<n, members, leaving>>
      BY <1>2, <1>b DEF FetchToken, Step, world
    <2> QED
      BY <1>a, <1>c, <2>1 DEF JoinedInOrder, AfterSecondJoin, Late, AgentPhase, NewServer
  <1>3. CASE JoinServer
    <2>1. /\ pc = "join" /\ pc' = (IF k = 1 THEN "deleteFirst" ELSE "validate") /\ k' = k
          /\ members' \in {members \cup {NewServer(k)}, members} /\ Quorum
          /\ UNCHANGED <<leaving, instances, n>>
      BY <1>3, <1>b DEF JoinServer, Join, Answers
    <2>2. JoinedInOrder /\ OneIsLate
      BY <2>1 DEF OrderInv
    <2>3. JoinedInOrder'
      BY <1>a, <2>1, <2>2, OldIdsDiffer DEF JoinedInOrder, NewServer
    <2>4. OneIsLate'
      <3>1. CASE k = 2 /\ n = 3
        BY <2>1, <2>2, <3>1, TwoLateNoQuorum DEF OneIsLate, OldServer
      <3>2. CASE k # 2
        BY <1>a, <2>1, <2>2, <3>2 DEF OneIsLate, AfterSecondJoin, Late, AgentPhase, OldServer
      <3> QED
        BY <2>1, <3>1, <3>2 DEF OneIsLate
    <2> QED
      BY <2>3, <2>4 DEF OrderInv
  <1>4. CASE JoinAgent
    <2>1. /\ pc = "joinAgent" /\ pc' \in {"joinAgent", "deleteLeader"} /\ UNCHANGED <<leaving, n>>
      BY <1>4, <1>b DEF JoinAgent, Join
    <2> QED
      BY <2>1 DEF OrderInv, JoinedInOrder, OneIsLate, AfterSecondJoin, Late, AgentPhase, OldServer
  <1>5. CASE UpdateKubeConfig
    <2>1. /\ pc = "updateKubeConfig" /\ pc' = "validate" /\ k' = k
          /\ UNCHANGED <<n, members, leaving>>
      BY <1>5, <1>b DEF UpdateKubeConfig, Step
    <2>2. k = 1
      BY <2>1 DEF PhaseInv, LoopInv
    <2> QED
      BY <2>1, <2>2 DEF OrderInv, JoinedInOrder, OneIsLate, AfterSecondJoin, Late, AgentPhase, NewServer
  <1>6. CASE ValidateNodeJoin
    <2>1. /\ pc = "validate" /\ UNCHANGED <<n, members, leaving>>
          /\ \/ k < n /\ pc' = NextRound(k + 1) /\ k' = k + 1
             \/ ~(k < n) /\ pc' = AfterServers /\ k' = 1
      BY <1>6, <1>b DEF ValidateNodeJoin, Step, world
    <2>2. k \in 1..n /\ (k >= 3 => n = 3) /\ n >= 2
      BY <2>1 DEF PhaseInv, LoopInv, FirstGone, NodeInv, KInRange, ServerPhase
    <2>3. JoinedInOrder'
      BY <1>a, <2>1, <2>2 DEF OrderInv, JoinedInOrder, NewServer, NextRound, AfterServers
    <2>4. n = 3 /\ AfterSecondJoin' => AfterSecondJoin
      BY <1>a, <2>1, <2>2 DEF AfterSecondJoin, Late, AgentPhase, NextRound, AfterServers
    <2> QED
      BY <2>1, <2>3, <2>4 DEF OrderInv, OneIsLate, OldServer
  <1>7. CASE DeleteNode
    <2>1. /\ pc \in DeleteSteps /\ leaving' = leaving \cup {Target} /\ members' \subseteq members
          /\ pc' = AfterDelete /\ UNCHANGED <<n, k>>
      BY <1>7, <1>b DEF DeleteNode, AskToLeave, Step
    <2>2. JoinedInOrder'
      BY <2>1 DEF OrderInv, JoinedInOrder, NewServer, DeleteSteps, AfterDelete
    <2>3. AfterSecondJoin' => AfterSecondJoin /\ pc \in {"deleteAgent", "deleteLeader"}
      BY <2>1 DEF AfterSecondJoin, Late, AgentPhase, DeleteSteps, AfterDelete
    <2>4. pc \in {"deleteAgent", "deleteLeader"} => \A j : j # 1 => Target # OldServer(j)
      BY Targets, OldIdsDiffer
    <2> QED
      BY <2>1, <2>2, <2>3, <2>4 DEF OrderInv, OneIsLate, OldServer, DeleteSteps
  <1>8. CASE DeleteInstance
    <2>1. /\ pc \in TerminateSteps /\ UNCHANGED <<n, members, leaving>>
          /\ \/ pc = "terminateFirst" /\ pc' = "updateKubeConfig" /\ k' = k
             \/ pc = "terminateNext" /\ pc' = "join" /\ k' = k
             \/ pc = "terminateAgent" /\ pc' \in {"deleteAgent", "joinAgent"}
             \/ pc = "terminateLeader" /\ pc' = "health"
      BY <1>8, <1>b DEF DeleteInstance, TerminateSteps
    <2>2. n = 3 /\ pc = "terminateNext" => k = 2
      BY <1>a DEF NodeInv, KInRange
    <2> QED
      BY <2>1, <2>2
      DEF OrderInv, JoinedInOrder, OneIsLate, AfterSecondJoin, Late, AgentPhase, NewServer, OldServer,
          TerminateSteps
  <1>9. CASE CreateAgents
    <2>1. pc = "createAgents" /\ pc' = "deleteAgent" /\ UNCHANGED <<n, leaving>>
      BY <1>9, <1>b DEF CreateAgents, Create, Step
    <2> QED
      BY <2>1 DEF OrderInv, JoinedInOrder, OneIsLate, AfterSecondJoin, Late, AgentPhase, OldServer
  <1>10. CASE ValidateClusterHealth
    <2>1. pc = "health" /\ pc' = "done" /\ UNCHANGED <<n, leaving>>
      BY <1>10 DEF ValidateClusterHealth, Step, world
    <2> QED
      BY <2>1 DEF OrderInv, JoinedInOrder, OneIsLate, AfterSecondJoin, Late, AgentPhase, OldServer
  <1>11. CASE (\E node \in leaving : NodeLeaves(node)) \/ UNCHANGED vars
    <2>1. leaving' \subseteq leaving /\ UNCHANGED <<n, pc, k, members>>
      BY <1>11 DEF NodeLeaves, vars
    <2> QED
      BY <2>1 DEF OrderInv, JoinedInOrder, OneIsLate, AfterSecondJoin, OldServer, NewServer
  <1> QED
    BY <1>1, <1>2, <1>3, <1>4, <1>5, <1>6, <1>7, <1>8, <1>9, <1>10, <1>11 DEF Next, Stopped

\* The cluster that a completed upgrade leaves behind has a majority.
LEMMA DoneQuorum ==
    ASSUME NodeInv, PhaseInv, OrderInv, pc = "done"
    PROVE  Quorum
  <1>1. n = 3 /\ NewServersJoined /\ OneIsLate /\ OldServersLeft
    BY DEF PhaseInv, LoopInv, Late, OrderInv
  <1>2. PICK j \in {2, 3} : OldServer(j) \notin leaving
    BY <1>1 DEF OneIsLate, AfterSecondJoin, Late
  <1>3. \A i \in 1..n : OldServer(i) \notin members
    BY <1>1 DEF OldServersLeft, ServerLeft, FirstGone, NextGone, LeaderGone
  <1>4. NewServers \subseteq Voters \cap instances
    BY <1>1, OldNodesByIndex DEF NewServersJoined, Late, Voters, Servers, NodeInv, MembersRun
  <1>5. Voters \ instances \subseteq OldServers \ {OldServer(j)}
    BY <1>2, <1>4 DEF Voters, Servers, NodeInv, MembersRun
  <1>6. /\ Cardinality(NewServers) = 3 /\ IsFiniteSet(NewServers)
        /\ Cardinality(OldServers \ {OldServer(j)}) = 2 /\ IsFiniteSet(OldServers \ {OldServer(j)})
    <2>1. OldServer(j) \in OldServers
      BY <1>1, OldNodesByIndex
    <2>2. /\ Cardinality(NewServers) = 3 /\ IsFiniteSet(NewServers)
          /\ Cardinality(OldServers) = 3 /\ IsFiniteSet(OldServers)
      BY <1>1, ServerLists
    <2> QED
      BY <2>1, <2>2, FS_RemoveElement
  <1>7. IsFiniteSet(Voters \cap instances)
    BY <1>1, VotersSplit, FS_Subset
  <1>8. Cardinality(Voters \cap instances) >= 3 /\ Cardinality(Voters \ instances) <= 2
    BY <1>4, <1>5, <1>6, <1>7, VotersSplit, FS_Subset, FS_CardinalityType
  <1> QED
    BY <1>1, <1>8, VotersSplit, QuorumByCount

-----------------------------------------------------------------------------
\* The theorems

\* The whole invariant.
ReplacementInv == NodeInv /\ PhaseInv /\ ThreeSucceed /\ OneServerShort /\ OrderInv

\* The invariant is inductive.
LEMMA ReplacementInvAlways == Spec => []ReplacementInv
  <1>1. Init => ReplacementInv
    <2> SUFFICES ASSUME Init PROVE ReplacementInv
      OBVIOUS
    <2>1. n \in Nat /\ IsFiniteSet(members \cap Servers) /\ OldServers \subseteq members \cap Servers
      <3>1. n \in Nat
        BY CountConstants DEF Init
      <3>2. IsFiniteSet(Servers)
        BY <3>1, ServerLists
      <3> QED
        BY <3>1, <3>2, FS_Subset DEF Init, Servers
    <2>2. n <= Cardinality(members \cap Servers) /\ Cardinality(members \cap Servers) \in Nat
      BY <2>1, ServerLists, FS_Subset, FS_CardinalityType
    <2>3. OneServerShort
      BY <2>1, <2>2 DEF OneServerShort
    <2>4. ThreeSucceed
      BY DEF Init, ThreeSucceed
    <2>5. OrderInv
      BY OldIdsDiffer, OldNodesByIndex
      DEF Init, OrderInv, JoinedInOrder, OneIsLate, AfterSecondJoin, Late, AgentPhase
    <2> QED
      BY <2>3, <2>4, <2>5, NodeInvInit, PhaseInit DEF ReplacementInv
  <1>2. ReplacementInv /\ [Next]_vars => ReplacementInv'
    BY NodeInvStep, PhaseStep, ThreeStep, ShortStep, OrderStep DEF ReplacementInv
  <1> QED
    BY <1>1, <1>2, PTL DEF Spec

\* For every number of servers and agents the variables keep their types.
THEOREM ReplacementTypes == Spec => []TypeOK
  <1>1. ReplacementInv => TypeOK
    BY DEF ReplacementInv, NodeInv
  <1> QED
    BY <1>1, ReplacementInvAlways, PTL

\* For every number of servers and agents, whatever call fails and however late a node
\* leaves: an instance is terminated only after the deletion of its node was asked for.
THEOREM NoMemberIsTerminated == Spec => []MembersRun
  <1>1. ReplacementInv => MembersRun
    BY DEF ReplacementInv, NodeInv
  <1> QED
    BY <1>1, ReplacementInvAlways, PTL

\* However many servers are replaced and whatever call fails, no more than one is missing,
\* and the datastore has a majority unless n - 1 servers are terminated before they left.
THEOREM ServersAreReplacedOneByOne == Spec => []AtMostOneServerShort
  <1>1. ReplacementInv => AtMostOneServerShort
    BY ShortQuorum DEF ReplacementInv, OneServerShort, AtMostOneServerShort
  <1> QED
    BY <1>1, ReplacementInvAlways, PTL

\* kubectl asks a member from the first delete on, and nodes join through a member, with
\* any number of servers but two.
THEOREM MembersAreAsked == Spec => []KubectlReachesServer
  <1>1. ReplacementInv => KubectlReachesServer
    BY MembersAnswer, KubectlAnswers, LeaderAnswers DEF ReplacementInv, KubectlReachesServer
  <1> QED
    BY <1>1, ReplacementInvAlways, PTL

\* An upgrade that ends has every new server in a cluster that has a majority, no old
\* instance and no old node but those that are late to leave, and one of three servers ends
\* unless a call fails on its own or a node leaves late.
THEOREM EveryNodeIsReplaced == Spec => []ReplacedWhenDone
  <1>1. ReplacementInv => ReplacedWhenDone
    <2> SUFFICES ASSUME ReplacementInv, pc = "done"
                 PROVE  /\ NewServers \subseteq members /\ Quorum
                        /\ leaving \subseteq OldServers \cup OldAgents
                        /\ (members \cup instances) \cap (OldServers \cup OldAgents) = {}
      BY DEF ReplacementInv, ThreeSucceed, ReplacedWhenDone
    <2>1. n = 3 /\ OldServersLeft /\ OldAgentsLeft /\ NewServersJoined
      BY DEF ReplacementInv, PhaseInv, LoopInv, Late
    <2>2. NewServers \subseteq members
      BY <2>1, OldNodesByIndex DEF NewServersJoined, Late
    <2>3. \A j \in 1..n : ServerLeft(j)
      BY <2>1 DEF ServerLeft, FirstGone, NextGone, LeaderGone
    <2>4. \A j \in 1..n : OldServer(j) \notin members /\ OldServer(j) \notin instances
      BY <2>1, <2>3 DEF OldServersLeft, TerminateSteps
    <2>5. \A j \in 1..m : OldAgent(j) \notin members /\ OldAgent(j) \notin instances
      BY <2>1 DEF OldAgentsLeft, AgentLeft
    <2>6. Quorum /\ leaving \subseteq OldServers \cup OldAgents
      BY DoneQuorum DEF ReplacementInv, NodeInv, OnlyOldLeave
    <2> QED
      BY <2>2, <2>4, <2>5, <2>6, OldNodesByIndex
  <1> QED
    BY <1>1, ReplacementInvAlways, PTL
=============================================================================
