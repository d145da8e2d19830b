--------------------------- MODULE ServerOpsProofs ---------------------------
(***************************************************************************)
(* Proofs about ServerOps, for every number of servers and agents, every   *)
(* limit of retries and polls and any number of failing calls.             *)
(***************************************************************************)
EXTENDS ServerOps, FiniteSetTheorems, TLAPS

Inputs ==
    /\ test \in {"certRotate", "clusterReset", "classic", "rotateKeys", "both",
                 "restartService", "upgrade", "upgradeSlemicro"}
    /\ product \in {"k3s", "rke2"}
    /\ n \in Nat \ {0} /\ m \in Nat /\ cp \in Servers

\* A loop of a script: it has calls, and stays within the nodes.
LoopOK(l) ==
    /\ Len(l.ops) \in Nat \ {0} /\ DOMAIN l.ops = 1..Len(l.ops)
    /\ l.first \in 1..n + m + 1 /\ l.last \in Int
    /\ \/ l.by = 1 /\ l.last <= n + m
       \/ l.by = -1 /\ l.first <= n + m /\ l.last >= 1

\* Where the position of the script is within the current loop.
PlaceInv ==
    ~Beyond =>
        /\ step \in 1..Len(Current.ops)
        /\ node \in 0..n + m + 1
        /\ Current.by = 1 => node >= Current.first
        /\ Current.by = -1 => node <= Current.first

\* The parts of TypeOK that the driver and the nodes change.
DriverOK ==
    /\ loop \in 1..Len(Script) + 1
    /\ PlaceInv
    /\ tries \in 0..(IF ~Beyond /\ Current.ops[step] = "waitForHashMatch"
                     THEN HashPolls ELSE MaxRetries) - 1
    /\ Beyond \/ Exhausted => tries = 0
    /\ statusOut \in BOOLEAN
    /\ verdict \in {"running", "passed", "failed"}
    /\ verdict = "passed" => Beyond

RebootStates == {"no", "queued", "begun"}

NodesOK ==
    /\ unit \in [Nodes -> UnitStates]
    /\ disk \in [Nodes -> Nat] /\ loaded \in [Nodes -> Nat]
    /\ db \in [Nodes -> {"old", "reset", "deleted"}]
    /\ reboot \in [Nodes -> RebootStates]
    /\ faults \in 0..MaxFaults

InputsOK ==
    /\ test \in Tests /\ product \in Products /\ n \in ServerCounts /\ m \in AgentCounts
    /\ cp \in Servers

OpsInv == InputsOK /\ DriverOK /\ NodesOK

-----------------------------------------------------------------------------
(* The scripts *)

\* The inputs are those the scripts are written for.
LEMMA InputsAre == InputsOK => Inputs
  BY ServerOpsConstants DEF InputsOK, Inputs

\* The script does not change while the inputs do not.
LEMMA ScriptStays ==
    ASSUME UNCHANGED inputs
    PROVE  Script' = Script /\ Nodes' = Nodes /\ Servers' = Servers
  BY DEF inputs, Script, RestartService, CertRotate, ClusterReset, Killall, SecretsEncryption, EncryptRound,
         Rounds, Upgrade, UpgradeOps, Encrypts, Upgrades, Nodes, Servers, Agents

\* The script of each test.
LEMMA ScriptOf ==
    ASSUME Inputs
    PROVE  /\ test = "certRotate" => Script = CertRotate
           /\ test = "clusterReset" => Script = ClusterReset
           /\ Encrypts => Script = SecretsEncryption
           /\ test = "restartService" => Script = RestartService
           /\ Upgrades => Script = Upgrade
  BY DEF Inputs, Script, Encrypts, Upgrades

\* A loop over nodes of the cluster is one, whatever it calls.
LEMMA LoopIsOK ==
    ASSUME Inputs, NEW first \in 1..n + m + 1, NEW last \in Int,
           NEW ops \in Seq(STRING), ops # <<>>
    PROVE  /\ last <= n + m => LoopOK(Loop(first, last, ops))
           /\ first <= n + m /\ last >= 1 => LoopOK(Down(first, last, ops))
  BY DEF LoopOK, Loop, Down

\* The loops of the certificate rotation.
LEMMA CertRotateLoops ==
    ASSUME Inputs, test = "certRotate"
    PROVE  /\ Len(Script) = 3
           /\ Script[1] = Loop(1, n, <<"stop", "rotate", "start", "status">>)
           /\ Script[2] = Loop(n + 1, n + m, <<"restart", "status">>)
           /\ Script[3] = Loop(1, n, <<"check">>)
  BY ScriptOf DEF CertRotate

\* The loops of the cluster reset.
LEMMA ClusterResetLoops ==
    ASSUME Inputs, test = "clusterReset"
    PROVE  /\ Len(Script) = 4
           /\ Script[1] = IF n > 1 THEN Down(n, 2, <<"killall">>) ELSE Loop(1, 1, <<"killall">>)
           /\ Script[2] = Loop(1, 1, <<"apiDown", "stop", "stoppedStatus", "reset">>)
           /\ Script[3] = Down(n, 2, <<"deleteDb">>)
           /\ Script[4] = Loop(1, n, <<"restart">>)
  BY ScriptOf DEF ClusterReset, Killall, On

\* Secrets encryption repeats its round one, three or four times.
LEMMA EncryptLoops ==
    ASSUME Inputs, Encrypts
    PROVE  /\ Len(Script) \in {4, 12, 16}
           /\ \A i \in 1..Len(Script) :
                 /\ i % 4 = 1 => Script[i] = Loop(cp, cp, <<"encryptStatus", "encrypt">>)
                 /\ i % 4 = 2 => Script[i] = Loop(1, n, <<"restart">>)
                 /\ i % 4 = 3 => Script[i] = Loop(cp, cp, <<"waitForHashMatch", "verifyStatus">>)
                 /\ i % 4 = 0 => Script[i] = Loop(1, n, <<"check">>)
  <1>1. Rounds[test] \in {3, 1, 4}
    BY DEF Encrypts, Rounds
  <1> DEFINE len == 4 * Rounds[test]
  <1>2. len \in {4, 12, 16}
    BY <1>1
  <1>3. Script = [i \in 1..len |-> EncryptRound[1 + ((i - 1) % 4)]]
    BY ScriptOf DEF SecretsEncryption
  <1> HIDE DEF len
  <1>4. Len(Script) = len
    BY <1>2, <1>3
  <1>5. /\ EncryptRound[1] = Loop(cp, cp, <<"encryptStatus", "encrypt">>)
        /\ EncryptRound[2] = Loop(1, n, <<"restart">>)
        /\ EncryptRound[3] = Loop(cp, cp, <<"waitForHashMatch", "verifyStatus">>)
        /\ EncryptRound[4] = Loop(1, n, <<"check">>)
    BY DEF EncryptRound, On
  <1>6. ASSUME NEW i \in 1..len
        PROVE  /\ i % 4 = 1 => 1 + ((i - 1) % 4) = 1
               /\ i % 4 = 2 => 1 + ((i - 1) % 4) = 2
               /\ i % 4 = 3 => 1 + ((i - 1) % 4) = 3
               /\ i % 4 = 0 => 1 + ((i - 1) % 4) = 4
    BY <1>2
  <1>7. \A i \in 1..len : Script[i] = EncryptRound[1 + ((i - 1) % 4)]
    BY <1>3
  <1>8. ASSUME NEW i \in 1..len
        PROVE  /\ i % 4 = 1 => Script[i] = Loop(cp, cp, <<"encryptStatus", "encrypt">>)
               /\ i % 4 = 2 => Script[i] = Loop(1, n, <<"restart">>)
               /\ i % 4 = 3 => Script[i] = Loop(cp, cp, <<"waitForHashMatch", "verifyStatus">>)
               /\ i % 4 = 0 => Script[i] = Loop(1, n, <<"check">>)
    BY <1>5, <1>6, <1>7
  <1>9. QED
    BY <1>2, <1>4, <1>8

\* The loops of an upgrade.
LEMMA UpgradeLoops ==
    ASSUME Inputs, Upgrades
    PROVE  /\ Len(Script) = 2
           /\ Script[1] = Loop(1, n + m, UpgradeOps)
           /\ Script[2] = Loop(1, 1, <<"check">>)
           /\ UpgradeOps \in { <<"install", "status">>, <<"install", "restart", "status">>,
                               <<"install", "reboot", "stop", "start", "status">>,
                               <<"install", "reboot", "restart", "status">> }
  <1>1. UpgradeOps \in { <<"install", "status">>, <<"install", "restart", "status">>,
                         <<"install", "reboot", "stop", "start", "status">>,
                         <<"install", "reboot", "restart", "status">> }
    BY DEF UpgradeOps, Upgrades, Inputs
  <1>2. QED
    BY <1>1, ScriptOf DEF Upgrade, On

\* Every loop of every script is one over nodes of the cluster.
LEMMA ScriptLoops ==
    ASSUME Inputs
    PROVE  Len(Script) \in Nat \ {0} /\ \A i \in 1..Len(Script) : LoopOK(Script[i])
  <1>0. n \in Nat \ {0} /\ m \in Nat
    BY DEF Inputs
  <1>1. CASE test = "certRotate"
    <2>1. LoopOK(Loop(1, n, <<"stop", "rotate", "start", "status">>))
      BY <1>0 DEF LoopOK, Loop
    <2>2. LoopOK(Loop(n + 1, n + m, <<"restart", "status">>))
      BY <1>0 DEF LoopOK, Loop
    <2>3. LoopOK(Loop(1, n, <<"check">>))
      BY <1>0 DEF LoopOK, Loop
    <2>4. \A i \in 1..Len(Script) : i = 1 \/ i = 2 \/ i = 3
      <3>1. Len(Script) = 3
        BY <1>1, CertRotateLoops
      <3>2. QED
        BY <3>1
    <2>5. QED
      BY <1>1, <2>1, <2>2, <2>3, <2>4, CertRotateLoops
  <1>2. CASE test = "clusterReset"
    <2>1. /\ n > 1 => LoopOK(Down(n, 2, <<"killall">>))
          /\ LoopOK(Loop(1, 1, <<"killall">>))
      BY <1>0 DEF LoopOK, Loop, Down
    <2>2. LoopOK(Loop(1, 1, <<"apiDown", "stop", "stoppedStatus", "reset">>))
      BY <1>0 DEF LoopOK, Loop
    <2>3. LoopOK(Down(n, 2, <<"deleteDb">>))
      BY <1>0 DEF LoopOK, Down
    <2>4. LoopOK(Loop(1, n, <<"restart">>))
      BY <1>0 DEF LoopOK, Loop
    <2>5. \A i \in 1..Len(Script) : i = 1 \/ i = 2 \/ i = 3 \/ i = 4
      <3>1. Len(Script) = 4
        BY <1>2, ClusterResetLoops
      <3>2. QED
        BY <3>1
    <2>6. QED
      BY <1>2, <2>1, <2>2, <2>3, <2>4, <2>5, ClusterResetLoops
  <1>3. CASE Encrypts
    <2>0. cp \in 1..n + m + 1 /\ cp \in Int /\ cp <= n + m
      BY <1>0 DEF Inputs, Servers
    <2>1. LoopOK(Loop(cp, cp, <<"encryptStatus", "encrypt">>))
      BY <1>0, <2>0 DEF LoopOK, Loop
    <2>2. LoopOK(Loop(1, n, <<"restart">>))
      BY <1>0 DEF LoopOK, Loop
    <2>3. LoopOK(Loop(cp, cp, <<"waitForHashMatch", "verifyStatus">>))
      BY <1>0, <2>0 DEF LoopOK, Loop
    <2>4. LoopOK(Loop(1, n, <<"check">>))
      BY <1>0 DEF LoopOK, Loop
    <2>5. ASSUME NEW i \in 1..Len(Script) PROVE i % 4 = 0 \/ i % 4 = 1 \/ i % 4 = 2 \/ i % 4 = 3
      <3>1. i \in Nat
        BY <1>3, EncryptLoops
      <3>2. QED
        BY <3>1
    <2>6. ASSUME NEW i \in 1..Len(Script) PROVE LoopOK(Script[i])
      <3>1. \/ Script[i] = Loop(cp, cp, <<"encryptStatus", "encrypt">>)
            \/ Script[i] = Loop(1, n, <<"restart">>)
            \/ Script[i] = Loop(cp, cp, <<"waitForHashMatch", "verifyStatus">>)
            \/ Script[i] = Loop(1, n, <<"check">>)
        BY <1>3, <2>5, EncryptLoops
      <3>2. QED
        BY <2>1, <2>2, <2>3, <2>4, <3>1
    <2>7. Len(Script) \in {4, 12, 16}
      BY <1>3, EncryptLoops
    <2>8. QED
      BY <2>6, <2>7
  <1>4. CASE test = "restartService"
    <2>1. Len(Script) = 1 /\ Script[1] = Loop(1, n + m, <<"restart">>)
      BY <1>4, ScriptOf DEF RestartService
    <2>2. LoopOK(Loop(1, n + m, <<"restart">>))
      BY <1>0 DEF LoopOK, Loop
    <2>3. QED
      BY <2>1, <2>2
  <1>5. CASE Upgrades
    <2>1. /\ LoopOK(Loop(1, n + m, <<"install", "status">>))
          /\ LoopOK(Loop(1, n + m, <<"install", "restart", "status">>))
          /\ LoopOK(Loop(1, n + m, <<"install", "reboot", "stop", "start", "status">>))
          /\ LoopOK(Loop(1, n + m, <<"install", "reboot", "restart", "status">>))
      BY <1>0 DEF LoopOK, Loop
    <2>2. LoopOK(Loop(1, 1, <<"check">>))
      BY <1>0 DEF LoopOK, Loop
    <2>3. \A i \in 1..Len(Script) : i = 1 \/ i = 2
      <3>1. Len(Script) = 2
        BY <1>5, UpgradeLoops
      <3>2. QED
        BY <3>1
    <2>4. LoopOK(Loop(1, n + m, UpgradeOps))
      BY <1>5, <2>1, UpgradeLoops
    <2>5. QED
      BY <1>5, <2>2, <2>3, <2>4, UpgradeLoops
  <1>6. QED
    BY <1>1, <1>2, <1>3, <1>4, <1>5 DEF Inputs, Encrypts, Upgrades

-----------------------------------------------------------------------------
(* Type correctness *)

\* Where a call is made: in a loop of the script, on a node of the cluster.
LEMMA CallPlace ==
    ASSUME OpsInv, NEW op, At(op)
    PROVE  /\ Inputs
           /\ verdict = "running" /\ loop \in 1..Len(Script) /\ Current = Script[loop]
           /\ LoopOK(Current)
           /\ step \in 1..Len(Current.ops) /\ Current.ops[step] = op
           /\ node \in Nodes /\ node \in 1..n + m
           /\ Current.by = 1 => node \in Current.first..Current.last
           /\ Current.by = -1 => node \in Current.last..Current.first
  <1>1. Inputs
    BY InputsAre DEF OpsInv
  <1>2. verdict = "running" /\ ~Beyond /\ ~Exhausted /\ Current.ops[step] = op
    BY DEF At
  <1>3. Len(Script) \in Nat \ {0} /\ \A i \in 1..Len(Script) : LoopOK(Script[i])
    BY <1>1, ScriptLoops
  <1>4. loop \in 1..Len(Script) + 1
    BY DEF OpsInv, DriverOK
  <1>5. loop \in 1..Len(Script)
    BY <1>2, <1>3, <1>4 DEF Beyond
  <1>6. Current = Script[loop]
    BY DEF Current
  <1>7. LoopOK(Current)
    BY <1>3, <1>5, <1>6
  <1>8. /\ step \in 1..Len(Current.ops)
        /\ node \in 0..n + m + 1
        /\ Current.by = 1 => node >= Current.first
        /\ Current.by = -1 => node <= Current.first
    BY <1>2 DEF OpsInv, DriverOK, PlaceInv
  <1>9. /\ Current.by = 1 => node \in Current.first..Current.last
        /\ Current.by = -1 => node \in Current.last..Current.first
    BY <1>1, <1>2, <1>7, <1>8 DEF Exhausted, LoopOK, Inputs
  <1>10. node \in 1..n + m
    BY <1>1, <1>7, <1>8, <1>9 DEF LoopOK, Inputs
  <1>11. node \in Nodes
    BY <1>1, <1>10 DEF Nodes, Servers, Agents, Inputs
  <1>12. QED
    BY <1>1, <1>2, <1>5, <1>6, <1>7, <1>8, <1>9, <1>10, <1>11

\* The test goes on to the next call of the loop.
LEMMA AdvanceDriver ==
    ASSUME OpsInv, NEW op, At(op), Advance, UNCHANGED inputs,
           statusOut' \in BOOLEAN, verdict' \in {"running", "failed"}
    PROVE  InputsOK' /\ DriverOK'
  <1>1. Script' = Script /\ loop' = loop
    BY ScriptStays DEF Advance
  <1>2. Beyond' = Beyond /\ Current' = Current
    BY <1>1 DEF Beyond, Current
  <1>3. /\ step \in 1..Len(Current.ops) /\ node \in 1..n + m /\ Inputs
        /\ Len(Current.ops) \in Nat \ {0} /\ (Current.by = 1 \/ Current.by = -1)
        /\ Current.by = 1 => node >= Current.first
        /\ Current.by = -1 => node <= Current.first
        /\ Current.first \in 1..n + m + 1
    BY CallPlace DEF LoopOK
  <1>4. /\ step' \in 1..Len(Current.ops) /\ node' \in 0..n + m + 1
        /\ Current.by = 1 => node' >= Current.first
        /\ Current.by = -1 => node' <= Current.first
    <2>1. CASE step < Len(Current.ops)
      <3>1. step' = step + 1 /\ node' = node
        BY <2>1 DEF Advance
      <3>2. QED
        BY <1>3, <2>1, <3>1 DEF Inputs
    <2>2. CASE ~(step < Len(Current.ops))
      <3>1. step' = 1 /\ node' = node + Current.by
        BY <2>2 DEF Advance
      <3>2. QED
        BY <1>3, <3>1 DEF Inputs
    <2>3. QED
      BY <2>1, <2>2
  <1>5. n' = n /\ m' = m /\ InputsOK'
    BY DEF inputs, OpsInv, InputsOK, Servers
  <1>6. PlaceInv'
    BY <1>2, <1>4, <1>5 DEF PlaceInv
  <1>7. tries' = 0
    BY DEF Advance
  <1>8. QED
    BY <1>1, <1>5, <1>6, <1>7, ServerOpsConstants DEF OpsInv, DriverOK

\* The outcomes of a call keep the driver's part.
LEMMA OutcomeDriver ==
    ASSUME OpsInv, NEW op, At(op), Pass \/ Fail \/ (op # "waitForHashMatch" /\ Retry)
    PROVE  InputsOK' /\ DriverOK'
  <1>1. CASE Pass
    BY <1>1, AdvanceDriver DEF Pass, OpsInv, DriverOK, At
  <1>2. CASE Fail \/ (op # "waitForHashMatch" /\ Retry)
    <2>1. UNCHANGED <<inputs, position, statusOut>>
      BY <1>2 DEF Fail, Retry
    <2>2. Script' = Script /\ loop' = loop /\ node' = node /\ step' = step /\ n' = n /\ m' = m
      BY <2>1, ScriptStays DEF position, inputs
    <2>3. Beyond' = Beyond /\ Current' = Current /\ ~Beyond' /\ ~Exhausted'
      BY <2>2 DEF Beyond, Current, Exhausted, At
    <2>4. InputsOK'
      BY <2>1 DEF inputs, OpsInv, InputsOK, Servers
    <2>5. PlaceInv'
      BY <2>2, <2>3 DEF PlaceInv, OpsInv, DriverOK
    <2>6. verdict' \in {"running", "failed"}
      BY <1>2 DEF Fail, Retry, At
    <2>7. tries' \in 0..(IF ~Beyond /\ Current.ops[step] = "waitForHashMatch"
                         THEN HashPolls ELSE MaxRetries) - 1
      <3>1. Current.ops[step] = op
        BY DEF At
      <3>2. CASE Fail
        BY <3>2 DEF Fail, OpsInv, DriverOK
      <3>3. CASE op # "waitForHashMatch" /\ Retry
        BY <3>1, <3>3, ServerOpsConstants DEF Retry, OpsInv, DriverOK
      <3>4. QED
        BY <1>2, <3>2, <3>3
    <2>8. QED
      BY <2>1, <2>2, <2>3, <2>4, <2>5, <2>6, <2>7 DEF OpsInv, DriverOK
  <1>3. QED
    BY <1>1, <1>2

\* A step of the unit of one node.
LEMMA SetUnitType ==
    ASSUME OpsInv, NEW s \in Nodes, NEW u \in UnitStates,
           SetUnit(s, u) \/ UNCHANGED <<unit, loaded>>, UNCHANGED inputs
    PROVE  unit' \in [Nodes' -> UnitStates] /\ loaded' \in [Nodes' -> Nat]
  <1>1. Nodes' = Nodes
    BY ScriptStays
  <1>2. unit \in [Nodes -> UnitStates] /\ loaded \in [Nodes -> Nat] /\ disk \in [Nodes -> Nat]
    BY DEF OpsInv, NodesOK
  <1>3. QED
    BY <1>1, <1>2 DEF SetUnit

\* The states a call leads to are states of a unit.
LEMMA UnitSteps ==
    \A u \in UnitStates : /\ Stopping(u) \in UnitStates /\ Starting(u) \in UnitStates
                          /\ Restarting(u) \in UnitStates
  BY DEF UnitStates, Stopping, Starting, Restarting

\* The test and the cluster do not change.
LEMMA InputsStay == [Next]_vars => UNCHANGED inputs
  <1>1. Pass \/ Fail \/ RetryOrFail => UNCHANGED inputs
    BY DEF Pass, Fail, Retry, RetryOrFail
  <1>2. Stop \/ Start \/ Restart \/ Status \/ Rotate \/ Install \/ Reboot => UNCHANGED inputs
    BY <1>1 DEF Stop, Start, Restart, Status, Rotate, Install, Reboot
  <1>3. RunKillall \/ ApiDown \/ StoppedStatus \/ Reset \/ DeleteDb => UNCHANGED inputs
    BY <1>1 DEF RunKillall, ApiDown, StoppedStatus, Reset, DeleteDb
  <1>4. EncryptStatus \/ Encrypt \/ VerifyStatus \/ Check => UNCHANGED inputs
    BY <1>1 DEF EncryptStatus, Encrypt, VerifyStatus, Check
  <1>5. WaitForHashMatch \/ NextLoop \/ Finish \/ Stopped => UNCHANGED inputs
    BY DEF WaitForHashMatch, NextLoop, Finish, Stopped, vars
  <1>6. (\E s \in Nodes : Exits(s) \/ Ready(s) \/ LateReboot(s)) => UNCHANGED inputs
    BY DEF Exits, Ready, LateReboot
  <1>7. UNCHANGED vars => UNCHANGED inputs
    BY DEF vars
  <1>8. QED
    BY <1>2, <1>3, <1>4, <1>5, <1>6, <1>7 DEF Next

\* The type invariant and where the position is hold initially.
LEMMA OpsInit == Init => OpsInv
  <1> SUFFICES ASSUME Init PROVE OpsInv
    OBVIOUS
  <1>1. InputsOK /\ Inputs
    BY InputsAre DEF Init, InputsOK
  <1>2. Len(Script) \in Nat \ {0} /\ LoopOK(Script[1])
    BY <1>1, ScriptLoops
  <1>3. loop = 1 /\ Current = Script[1] /\ node = Current.first /\ step = 1
    BY DEF Init, Current
  <1>4. PlaceInv
    BY <1>1, <1>2, <1>3 DEF PlaceInv, LoopOK, Inputs
  <1>5. DriverOK
    <2>1. loop \in 1..Len(Script) + 1
      BY <1>2, <1>3
    <2>2. tries = 0 /\ statusOut \in BOOLEAN /\ verdict = "running"
      BY DEF Init
    <2>3. 0 \in 0..HashPolls - 1 /\ 0 \in 0..MaxRetries - 1
      BY ServerOpsConstants
    <2>4. QED
      BY <1>4, <2>1, <2>2, <2>3 DEF DriverOK
  <1>6. NodesOK
    BY ServerOpsConstants DEF Init, NodesOK, UnitStates, RebootStates
  <1>7. QED
    BY <1>1, <1>5, <1>6 DEF OpsInv

\* What a call does to the driver: it is passed, has failed or is tried again.
Outcome(op) == At(op) /\ (Pass \/ Fail \/ (op # "waitForHashMatch" /\ Retry))

\* A call that queues a job for the unit of the node, or none.
LEMMA UnitCallInv ==
    ASSUME OpsInv, NEW op, Outcome(op), NEW u \in UnitStates,
           SetUnit(node, u) \/ UNCHANGED <<unit, loaded>>,
           UNCHANGED <<disk, db, reboot>>, faults' \in 0..MaxFaults
    PROVE  OpsInv'
  <1>1. InputsOK' /\ DriverOK' /\ UNCHANGED inputs
    BY OutcomeDriver DEF Outcome, Pass, Fail, Retry
  <1>2. node \in Nodes
    BY CallPlace DEF Outcome
  <1>3. unit' \in [Nodes' -> UnitStates] /\ loaded' \in [Nodes' -> Nat]
    BY <1>1, <1>2, SetUnitType
  <1>4. Nodes' = Nodes
    BY <1>1, ScriptStays
  <1>5. NodesOK'
    BY <1>3, <1>4 DEF OpsInv, NodesOK
  <1>6. QED
    BY <1>1, <1>5 DEF OpsInv

\* A call that changes the disks, the units or the data in another way.
LEMMA DataCallInv ==
    ASSUME OpsInv, NEW op, Outcome(op), faults' \in 0..MaxFaults,
           unit' \in [Nodes -> UnitStates], loaded' \in [Nodes -> Nat],
           disk' \in [Nodes -> Nat], db' \in [Nodes -> {"old", "reset", "deleted"}],
           reboot' \in [Nodes -> RebootStates]
    PROVE  OpsInv'
  <1>1. InputsOK' /\ DriverOK' /\ UNCHANGED inputs
    BY OutcomeDriver DEF Outcome, Pass, Fail, Retry
  <1>2. Nodes' = Nodes
    BY <1>1, ScriptStays
  <1>3. QED
    BY <1>1, <1>2 DEF OpsInv, NodesOK

\* The steps of waitForHashMatch keep the driver's part.
LEMMA WaitDriver ==
    ASSUME OpsInv, WaitForHashMatch
    PROVE  InputsOK' /\ DriverOK' /\ faults' \in 0..MaxFaults
  <1>1. At("waitForHashMatch") /\ UNCHANGED inputs /\ Current.ops[step] = "waitForHashMatch"
    BY DEF WaitForHashMatch, At
  <1>2. InputsOK'
    BY <1>1 DEF OpsInv, InputsOK, inputs, Servers
  <1>3. statusOut' \in BOOLEAN /\ verdict' \in {"running", "failed"}
    BY DEF WaitForHashMatch, HashesMatch, At
  <1>4. faults' \in 0..MaxFaults
    BY ServerOpsConstants DEF WaitForHashMatch, NoFault, Fault, OpsInv, NodesOK
  <1>5. CASE Advance
    BY <1>1, <1>3, <1>4, <1>5, AdvanceDriver
  <1>6. CASE UNCHANGED position /\ tries' \in 0..HashPolls - 1
    <2>1. Script' = Script /\ loop' = loop /\ node' = node /\ step' = step /\ n' = n /\ m' = m
      BY <1>1, <1>6, ScriptStays DEF position, inputs
    <2>2. Beyond' = Beyond /\ Current' = Current /\ ~Beyond' /\ ~Exhausted'
      BY <1>1, <2>1 DEF Beyond, Current, Exhausted, At
    <2>3. PlaceInv'
      BY <2>1, <2>2 DEF PlaceInv, OpsInv, DriverOK
    <2>4. ~Beyond
      BY <1>1 DEF At
    <2>5. QED
      BY <1>1, <1>2, <1>3, <1>4, <1>6, <2>1, <2>2, <2>3, <2>4 DEF OpsInv, DriverOK
  <1>7. tries \in 0..HashPolls - 1
    BY <1>1 DEF OpsInv, DriverOK, At
  <1>8. Advance \/ (UNCHANGED position /\ tries' \in 0..HashPolls - 1)
    BY <1>7, ServerOpsConstants DEF WaitForHashMatch
  <1>9. QED
    BY <1>5, <1>6, <1>8

\* The first node of the next loop, and the end of the script.
LEMMA NextLoopInv ==
    ASSUME OpsInv, NextLoop
    PROVE  OpsInv'
  <1>1. Script' = Script /\ Nodes' = Nodes /\ UNCHANGED inputs
    BY ScriptStays DEF NextLoop
  <1>2. Inputs /\ InputsOK' /\ n' = n /\ m' = m
    BY <1>1, InputsAre DEF OpsInv, InputsOK, inputs, Servers
  <1>3. loop \in 1..Len(Script) /\ loop' = loop + 1 /\ step' = 1
    BY <1>2, ScriptLoops DEF NextLoop, Beyond, OpsInv, DriverOK
  <1>4. tries = 0 /\ tries' = 0
    BY DEF NextLoop, OpsInv, DriverOK
  <1>5. PlaceInv'
    <2> SUFFICES ASSUME ~Beyond' PROVE PlaceInv'
      BY DEF PlaceInv
    <2>1. loop' \in 1..Len(Script)
      BY <1>1, <1>2, <1>3, ScriptLoops DEF Beyond
    <2>2. LoopOK(Script[loop']) /\ Current' = Script[loop'] /\ node' = Script[loop'].first
      BY <1>1, <1>2, <1>3, <2>1, ScriptLoops DEF NextLoop, Current
    <2>3. QED
      BY <1>2, <1>3, <2>2 DEF PlaceInv, LoopOK, Inputs
  <1>6. 0 \in 0..HashPolls - 1 /\ 0 \in 0..MaxRetries - 1
    BY ServerOpsConstants
  <1>7. loop' \in 1..Len(Script') + 1
    BY <1>1, <1>2, <1>3, ScriptLoops
  <1>8. DriverOK'
    BY <1>4, <1>5, <1>6, <1>7 DEF NextLoop, OpsInv, DriverOK
  <1>9. NodesOK'
    BY <1>1 DEF NextLoop, OpsInv, NodesOK
  <1>10. QED
    BY <1>2, <1>8, <1>9 DEF OpsInv

\* No step leaves the type invariant.
LEMMA OpsStep == OpsInv /\ [Next]_vars => OpsInv'
  <1> SUFFICES ASSUME OpsInv, [Next]_vars PROVE OpsInv'
    OBVIOUS
  <1>0. NoFault \/ Fault => faults' \in 0..MaxFaults
    BY ServerOpsConstants DEF NoFault, Fault, OpsInv, NodesOK
  <1> DEFINE here == unit[node]
  <1>1. ASSUME NEW op, At(op) 
        PROVE  node \in Nodes /\ here \in UnitStates /\ disk[node] \in Nat
    BY <1>1, CallPlace DEF OpsInv, NodesOK
  <1>2. ASSUME NEW op, At(op)
        PROVE  RetryOrFail => Pass \/ Fail \/ Retry
    BY DEF RetryOrFail
  <1>3. /\ unit \in [Nodes -> UnitStates] /\ disk \in [Nodes -> Nat]
        /\ loaded \in [Nodes -> Nat] /\ db \in [Nodes -> {"old", "reset", "deleted"}]
        /\ reboot \in [Nodes -> RebootStates]
    BY DEF OpsInv, NodesOK
  <1>4. CASE Stop
    <2>1. Outcome("stop")
      BY <1>4 DEF Stop, Outcome, RetryOrFail
    <2>2. Stopping(here) \in UnitStates
      BY <1>1, <2>1, UnitSteps DEF Outcome
    <2>3. QED
      BY <1>0, <1>4, <2>1, <2>2, UnitCallInv DEF Stop, Either
  <1>5. CASE Start
    <2>1. Outcome("start")
      BY <1>5 DEF Start, Outcome
    <2>2. Starting(here) \in UnitStates
      BY <1>1, <2>1, UnitSteps DEF Outcome
    <2>3. QED
      BY <1>0, <1>5, <2>1, <2>2, UnitCallInv DEF Start, Either
  <1>6. CASE Restart
    <2>1. Outcome("restart")
      BY <1>6 DEF Restart, Outcome
    <2>2. Restarting(here) \in UnitStates
      BY <1>1, <2>1, UnitSteps DEF Outcome
    <2>3. QED
      BY <1>0, <1>6, <2>1, <2>2, UnitCallInv DEF Restart, Either
  <1>7. CASE Status
    <2>1. Outcome("status")
      BY <1>7 DEF Status, Outcome, RetryOrFail
    <2>2. QED
      BY <1>0, <1>3, <1>7, <2>1, DataCallInv DEF Status
  <1>8. CASE Rotate
    <2>1. Outcome("rotate")
      BY <1>8 DEF Rotate, Outcome
    <2>2. disk' \in [Nodes -> Nat]
      BY <1>1, <1>3, <1>8, <2>1 DEF Rotate, NewVersion, Outcome
    <2>3. QED
      BY <1>0, <1>3, <1>8, <2>1, <2>2, DataCallInv DEF Rotate
  <1>9. CASE Install
    <2>1. Outcome("install")
      BY <1>9 DEF Install, Outcome
    <2>2. disk' \in [Nodes -> Nat]
      BY <1>1, <1>3, <1>9, <2>1 DEF Install, NewVersion, Outcome
    <2>3. unit' \in [Nodes -> UnitStates]
      BY <1>1, <1>3, <1>9, <2>1 DEF Install, UnitStates, Outcome
    <2>4. QED
      BY <1>0, <1>3, <1>9, <2>1, <2>2, <2>3, DataCallInv DEF Install
  <1>10. CASE Reboot
    <2>1. Outcome("reboot")
      BY <1>10 DEF Reboot, Outcome
    <2>2. /\ unit' \in [Nodes -> UnitStates] /\ loaded' \in [Nodes -> Nat]
          /\ reboot' \in [Nodes -> RebootStates]
      BY <1>1, <1>3, <1>10, <2>1 DEF Reboot, Boots, UnitStates, RebootStates, Outcome
    <2>3. QED
      BY <1>0, <1>3, <1>10, <2>1, <2>2, DataCallInv DEF Reboot
  <1>11. CASE RunKillall
    <2>1. Outcome("killall") /\ "inactive" \in UnitStates
      BY <1>11 DEF RunKillall, Outcome, UnitStates
    <2>2. QED
      BY <1>0, <1>11, <2>1, UnitCallInv DEF RunKillall, Either
  <1>12. CASE ApiDown
    <2>1. Outcome("apiDown")
      BY <1>12 DEF ApiDown, Outcome
    <2>2. QED
      BY <1>0, <1>3, <1>12, <2>1, DataCallInv DEF ApiDown
  <1>13. CASE StoppedStatus
    <2>1. Outcome("stoppedStatus")
      BY <1>13 DEF StoppedStatus, Outcome
    <2>2. QED
      BY <1>0, <1>3, <1>13, <2>1, DataCallInv DEF StoppedStatus
  <1>14. CASE Reset
    <2>1. Outcome("reset")
      BY <1>14 DEF Reset, Outcome
    <2>2. db' \in [Nodes -> {"old", "reset", "deleted"}]
      BY <1>3, <1>14 DEF Reset, SetDb
    <2>3. QED
      BY <1>0, <1>3, <1>14, <2>1, <2>2, DataCallInv DEF Reset
  <1>15. CASE DeleteDb
    <2>1. Outcome("deleteDb")
      BY <1>15 DEF DeleteDb, Outcome
    <2>2. db' \in [Nodes -> {"old", "reset", "deleted"}]
      BY <1>3, <1>15 DEF DeleteDb, SetDb
    <2>3. QED
      BY <1>0, <1>3, <1>15, <2>1, <2>2, DataCallInv DEF DeleteDb
  <1>16. CASE EncryptStatus
    <2>1. Outcome("encryptStatus")
      BY <1>16 DEF EncryptStatus, Outcome
    <2>2. QED
      BY <1>0, <1>3, <1>16, <2>1, DataCallInv DEF EncryptStatus
  <1>17. CASE Encrypt
    <2>1. Outcome("encrypt")
      BY <1>17 DEF Encrypt, Outcome
    <2>2. disk' \in [Nodes -> Nat]
      BY <1>3, <1>17 DEF Encrypt, NewKeys
    <2>3. QED
      BY <1>0, <1>3, <1>17, <2>1, <2>2, DataCallInv DEF Encrypt
  <1>18. CASE WaitForHashMatch
    <2>1. UNCHANGED <<inputs, unit, loaded, disk, db, reboot>>
      BY <1>18 DEF WaitForHashMatch
    <2>2. QED
      BY <1>18, <2>1, WaitDriver, ScriptStays DEF OpsInv, NodesOK
  <1>19. CASE VerifyStatus
    <2>1. Outcome("verifyStatus") /\ faults' \in 0..MaxFaults
      BY <1>19 DEF VerifyStatus, Outcome, OpsInv, NodesOK
    <2>2. QED
      BY <1>3, <1>19, <2>1, DataCallInv DEF VerifyStatus
  <1>20. CASE Check
    <2>1. Outcome("check")
      BY <1>20 DEF Check, Outcome
    <2>2. QED
      BY <1>0, <1>3, <1>20, <2>1, DataCallInv DEF Check
  <1>21. CASE NextLoop
    BY <1>21, NextLoopInv
  <1>22. CASE Finish \/ Stopped \/ UNCHANGED vars
    <2>1. /\ UNCHANGED <<inputs, position, tries, statusOut, unit, loaded, disk, db, reboot, faults>>
          /\ verdict' = verdict \/ (verdict' = "passed" /\ Beyond)
      BY <1>22 DEF Finish, Stopped, vars, driver, OpsInv, DriverOK
    <2>2. Script' = Script /\ Nodes' = Nodes /\ loop' = loop /\ node' = node /\ step' = step
      BY <2>1, ScriptStays DEF position
    <2>3. Beyond' = Beyond /\ Current' = Current /\ Exhausted' = Exhausted /\ PlaceInv' = PlaceInv
      BY <2>1, <2>2 DEF Beyond, Current, Exhausted, PlaceInv, inputs
    <2>4. QED
      BY <2>1, <2>2, <2>3 DEF OpsInv, InputsOK, DriverOK, NodesOK, inputs, Servers
  <1>23. ASSUME NEW s \in Nodes, Exits(s) \/ Ready(s) \/ LateReboot(s)
         PROVE  OpsInv'
    <2>1. UNCHANGED <<inputs, position, tries, statusOut, verdict, disk, db, faults>>
      BY <1>23 DEF Exits, Ready, LateReboot, driver
    <2>2. Script' = Script /\ Nodes' = Nodes /\ loop' = loop /\ node' = node /\ step' = step
      BY <2>1, ScriptStays DEF position
    <2>3. Beyond' = Beyond /\ Current' = Current /\ Exhausted' = Exhausted /\ PlaceInv' = PlaceInv
      BY <2>1, <2>2 DEF Beyond, Current, Exhausted, PlaceInv, inputs
    <2>4. unit' \in [Nodes -> UnitStates] /\ loaded' \in [Nodes -> Nat]
      <3>1. CASE Exits(s) \/ Ready(s)
        <4>1. \E u \in UnitStates : SetUnit(s, u)
          BY <3>1 DEF Exits, Ready, UnitStates
        <4>2. QED
          BY <2>1, <2>2, <4>1, SetUnitType
      <3>2. CASE LateReboot(s)
        BY <1>3, <3>2 DEF LateReboot, Boots, UnitStates
      <3>3. QED
        BY <1>23, <3>1, <3>2
    <2>5. reboot' \in [Nodes -> RebootStates]
      BY <1>3, <1>23 DEF Exits, Ready, LateReboot, RebootStates
    <2>6. QED
      BY <2>1, <2>2, <2>3, <2>4, <2>5 DEF OpsInv, InputsOK, DriverOK, NodesOK, inputs, Servers
  <1>24. QED
    BY <1>4, <1>5, <1>6, <1>7, <1>8, <1>9, <1>10, <1>11, <1>12, <1>13, <1>14, <1>15, <1>16,
       <1>17, <1>18, <1>19, <1>20, <1>21, <1>22, <1>23 DEF Next

\* OpsInv holds throughout.
LEMMA OpsAlways == Spec => []OpsInv
  <1>1. QED
    BY OpsInit, OpsStep, PTL DEF Spec

\* Every run is well typed: the test stays within its scripts and the nodes of the
\* cluster, and no call is tried more often than the code tries it.
THEOREM OpsTypes == Spec => []TypeOK
  <1>1. OpsInv => TypeOK
    <2> SUFFICES ASSUME OpsInv PROVE TypeOK
      OBVIOUS
    <2>1. ~Beyond => DOMAIN Current.ops = 1..Len(Current.ops)
      BY InputsAre, ScriptLoops DEF OpsInv, DriverOK, Beyond, Current, LoopOK
    <2>2. QED
      BY <2>1 DEF OpsInv, InputsOK, DriverOK, PlaceInv, NodesOK, RebootStates, TypeOK
  <1>2. QED
    BY <1>1, OpsAlways, PTL

-----------------------------------------------------------------------------
(* One server down at a time *)

Rolling == test = "certRotate" \/ Upgrades

\* The only server that may be down is the one the first loop is at, besides those that
\* reboot late.
DownInv ==
    Rolling => \A s \in Servers :
        unit[s] # "active" => (loop = 1 /\ s = node) \/ reboot[s] = "begun"

\* The calls of the certificate rotation, and where they are made.
LEMMA RotateCalls ==
    ASSUME OpsInv, test = "certRotate", NEW op, At(op)
    PROVE  \/ /\ loop = 1 /\ node \in Servers /\ Len(Current.ops) = 4 /\ Current.by = 1
              /\ \/ step = 1 /\ op = "stop"
                 \/ step = 2 /\ op = "rotate"
                 \/ step = 3 /\ op = "start"
                 \/ step = 4 /\ op = "status"
           \/ loop = 2 /\ node \notin Servers /\ (op = "restart" \/ op = "status")
           \/ loop = 3 /\ op = "check"
  <1>1. /\ Inputs /\ loop \in 1..Len(Script) /\ Current = Script[loop] 
        /\ step \in 1..Len(Current.ops) /\ op = Current.ops[step] /\ node \in 1..n + m
        /\ Current.by = 1 => node \in Current.first..Current.last
    BY CallPlace
  <1>2. loop = 1 \/ loop = 2 \/ loop = 3
    <2>1. Len(Script) = 3
      BY <1>1, CertRotateLoops
    <2>2. QED
      BY <1>1, <2>1
  <1>3. CASE loop = 1
    <2>1. /\ Current.ops = <<"stop", "rotate", "start", "status">> 
          /\ Current.by = 1 /\ Current.first = 1 /\ Current.last = n
      BY <1>1, <1>3, CertRotateLoops DEF Loop
    <2>2. node \in Servers
      BY <1>1, <2>1 DEF Servers
    <2>3. step \in 1..4 /\ Len(Current.ops) = 4
      BY <1>1, <2>1
    <2>4. op = <<"stop", "rotate", "start", "status">>[step]
      BY <1>1, <2>1
    <2>5. QED
      BY <1>3, <2>1, <2>2, <2>3, <2>4
  <1>4. CASE loop = 2
    <2>1. Current.ops = <<"restart", "status">> /\ Current.first = n + 1 /\ Current.by = 1
      BY <1>1, <1>4, CertRotateLoops DEF Loop
    <2>2. node >= n + 1
      BY <1>1, <2>1 DEF Inputs
    <2>3. node \notin Servers
      BY <1>1, <2>2 DEF Servers, Inputs
    <2>4. step \in 1..2 /\ op = <<"restart", "status">>[step]
      BY <1>1, <2>1
    <2>5. QED
      BY <1>4, <2>3, <2>4
  <1>5. CASE loop = 3
    <2>1. Current.ops = <<"check">>
      BY <1>1, <1>5, CertRotateLoops DEF Loop
    <2>2. QED
      BY <1>1, <1>5, <2>1
  <1>6. QED
    BY <1>2, <1>3, <1>4, <1>5

\* The calls of an upgrade.
LEMMA UpgradeCalls ==
    ASSUME OpsInv, Upgrades, NEW op, At(op)
    PROVE  \/ /\ loop = 1
              /\ \/ op = "status"
                 \/ /\ step < Len(Current.ops)
                    /\ op \in {"install", "restart", "reboot", "stop", "start"}
           \/ loop = 2 /\ op = "check"
  <1>1. /\ Inputs /\ loop \in 1..Len(Script) /\ Current = Script[loop] 
        /\ step \in 1..Len(Current.ops) /\ op = Current.ops[step]
    BY CallPlace
  <1>2. loop = 1 \/ loop = 2
    <2>1. Len(Script) = 2
      BY <1>1, UpgradeLoops
    <2>2. QED
      BY <1>1, <2>1
  <1>3. CASE loop = 1
    <2>1. Current.ops = UpgradeOps
      BY <1>1, <1>3, UpgradeLoops DEF Loop
    <2>2. step \in 1..Len(UpgradeOps) /\ op = UpgradeOps[step]
      BY <1>1, <2>1
    <2>3. CASE UpgradeOps = <<"install", "status">>
      <3>1. step \in 1..2 /\ op = <<"install", "status">>[step]
        BY <2>2, <2>3
      <3>2. QED
        BY <1>3, <2>1, <2>3, <3>1
    <2>4. CASE UpgradeOps = <<"install", "restart", "status">>
      <3>1. step \in 1..3 /\ op = <<"install", "restart", "status">>[step]
        BY <2>2, <2>4
      <3>2. QED
        BY <1>3, <2>1, <2>4, <3>1
    <2>5. CASE UpgradeOps = <<"install", "reboot", "stop", "start", "status">>
      <3>1. step \in 1..5 /\ op = <<"install", "reboot", "stop", "start", "status">>[step]
        BY <2>2, <2>5
      <3>2. QED
        BY <1>3, <2>1, <2>5, <3>1
    <2>6. CASE UpgradeOps = <<"install", "reboot", "restart", "status">>
      <3>1. step \in 1..4 /\ op = <<"install", "reboot", "restart", "status">>[step]
        BY <2>2, <2>6
      <3>2. QED
        BY <1>3, <2>1, <2>6, <3>1
    <2>7. QED
      BY <1>1, <2>3, <2>4, <2>5, <2>6, UpgradeLoops
  <1>4. CASE loop = 2
    <2>1. Current.ops = <<"check">>
      BY <1>1, <1>4, UpgradeLoops DEF Loop
    <2>2. QED
      BY <1>1, <1>4, <2>1
  <1>5. QED
    BY <1>2, <1>3, <1>4

\* A call of the rolling tests: all but the last one of the first loop leave the
\* position at the node, and no server is touched after that loop.
LEMMA RollingCalls ==
    ASSUME OpsInv, Rolling, NEW op, At(op)
    PROVE  /\ op \in {"stop", "rotate", "start", "status", "restart", "install", "reboot", "check"}
           /\ loop = 1 => op # "check" /\ (op # "status" => step < Len(Current.ops))
           /\ loop # 1 => op = "check" \/ (op \in {"restart", "status"} /\ node \notin Servers)
  <1>1. CASE test = "certRotate"
    BY <1>1, RotateCalls
  <1>2. CASE Upgrades
    BY <1>2, UpgradeCalls
  <1>3. QED
    BY <1>1, <1>2 DEF Rolling

\* The calls before the last one on a node leave the position at the node.
LEMMA StaysAtNode ==
    ASSUME NEW op, Outcome(op), step < Len(Current.ops) \/ ~Pass
    PROVE  loop' = loop /\ node' = node
  BY DEF Outcome, Pass, Fail, Retry, Advance, position

\* A call that touches the unit of its node only.
LEMMA RollingUnitCall ==
    ASSUME OpsInv, DownInv, NEW op, Outcome(op), op # "status", op # "check",
           \A t \in Servers \ {node} : unit'[t] = unit[t] /\ reboot'[t] = reboot[t]
    PROVE  DownInv'
  <1>1. UNCHANGED inputs
    BY DEF Outcome, Pass, Fail, Retry
  <1>2. Servers' = Servers /\ Rolling' = Rolling
    BY <1>1, ScriptStays DEF inputs, Rolling, Upgrades
  <1> SUFFICES ASSUME Rolling, NEW s \in Servers, unit'[s] # "active"
               PROVE  (loop' = 1 /\ s = node') \/ reboot'[s] = "begun"
    BY <1>2 DEF DownInv
  <1>3. CASE loop = 1
    <2>1. loop' = 1 /\ node' = node
      BY <1>3, RollingCalls, StaysAtNode DEF Outcome
    <2>2. QED
      BY <2>1 DEF DownInv
  <1>4. CASE loop # 1
    BY <1>4, RollingCalls DEF Outcome, DownInv
  <1>5. QED
    BY <1>3, <1>4

\* A call that touches no unit: if it goes on to the next node, this one was active.
LEMMA RollingOtherCall ==
    ASSUME OpsInv, DownInv, NEW op, Outcome(op), UNCHANGED <<unit, reboot>>,
           op = "status" /\ Pass => unit[node] = "active"
    PROVE  DownInv'
  <1>1. UNCHANGED inputs
    BY DEF Outcome, Pass, Fail, Retry
  <1>2. Servers' = Servers /\ Rolling' = Rolling
    BY <1>1, ScriptStays DEF inputs, Rolling, Upgrades
  <1> SUFFICES ASSUME Rolling, NEW s \in Servers, unit[s] # "active", reboot[s] # "begun"
               PROVE  loop' = 1 /\ s = node'
    BY <1>2 DEF DownInv
  <1>3. loop = 1 /\ s = node
    BY DEF DownInv
  <1>4. step < Len(Current.ops) \/ ~Pass
    BY <1>3, RollingCalls DEF Outcome
  <1>5. QED
    BY <1>3, <1>4, StaysAtNode

\* When the first loop of a rolling test is done, no server is the current node.
LEMMA FirstLoopDone ==
    ASSUME OpsInv, Rolling, loop = 1, Exhausted
    PROVE  node \notin Servers
  <1>1. Inputs
    BY InputsAre DEF OpsInv
  <1>2. /\ Len(Script) \in Nat \ {0, 1} /\ Current.by = 1 /\ Current.last \in Int
        /\ Current.last >= n
    <2>1. CASE test = "certRotate"
      BY <1>1, <2>1, CertRotateLoops DEF Current, Loop, Inputs
    <2>2. CASE Upgrades
      BY <1>1, <2>2, UpgradeLoops DEF Current, Loop, Inputs
    <2>3. QED
      BY <2>1, <2>2 DEF Rolling
  <1>3. node > Current.last
    BY <1>2 DEF Exhausted
  <1>4. node \in Int
    BY <1>1, <1>2 DEF OpsInv, DriverOK, PlaceInv, Beyond, Inputs
  <1>5. QED
    BY <1>1, <1>2, <1>3, <1>4 DEF Servers, Inputs

\* No step of the first loop takes a second server down.
LEMMA DownStep == OpsInv /\ DownInv /\ [Next]_vars => DownInv'
  <1> SUFFICES ASSUME OpsInv, DownInv, [Next]_vars PROVE DownInv'
    OBVIOUS
  <1>0. /\ unit \in [Nodes -> UnitStates] /\ reboot \in [Nodes -> RebootStates]
        /\ Servers \subseteq Nodes
    BY DEF OpsInv, NodesOK, Nodes
  <1>1. CASE Stop
    <2>1. Outcome("stop") /\ \A t \in Servers \ {node} :
                              unit'[t] = unit[t] /\ reboot'[t] = reboot[t]
      BY <1>0, <1>1 DEF Stop, Outcome, RetryOrFail, SetUnit, Either
    <2>2. QED
      BY <2>1, RollingUnitCall
  <1>2. CASE Start
    <2>1. Outcome("start") /\ \A t \in Servers \ {node} :
                              unit'[t] = unit[t] /\ reboot'[t] = reboot[t]
      BY <1>0, <1>2 DEF Start, Outcome, SetUnit, Either
    <2>2. QED
      BY <2>1, RollingUnitCall
  <1>3. CASE Restart
    <2>1. Outcome("restart") /\ \A t \in Servers \ {node} :
                              unit'[t] = unit[t] /\ reboot'[t] = reboot[t]
      BY <1>0, <1>3 DEF Restart, Outcome, SetUnit, Either
    <2>2. QED
      BY <2>1, RollingUnitCall
  <1>4. CASE Status
    <2>1. Outcome("status") /\ UNCHANGED <<unit, reboot>>
      BY <1>4 DEF Status, Outcome, RetryOrFail
    <2>2. Pass => unit[node] = "active"
      <3>1. Fail => verdict' = "failed"
        BY DEF Fail
      <3>2. Retry => tries' = tries + 1
        BY DEF Retry
      <3>3. Pass => verdict' = "running" /\ tries' = 0
        BY <1>4 DEF Pass, Advance, Status, At
      <3>4. tries \in Nat
        BY ServerOpsConstants DEF OpsInv, DriverOK
      <3>5. QED
        BY <1>4, <3>1, <3>2, <3>3, <3>4 DEF Status, RetryOrFail
    <2>3. QED
      BY <2>1, <2>2, RollingOtherCall
  <1>5. CASE Rotate
    <2>1. Outcome("rotate") /\ UNCHANGED <<unit, reboot>>
      BY <1>5 DEF Rotate, Outcome
    <2>2. QED
      BY <2>1, RollingOtherCall
  <1>6. CASE Install
    <2>1. Outcome("install") /\ \A t \in Servers \ {node} :
                              unit'[t] = unit[t] /\ reboot'[t] = reboot[t]
      BY <1>0, <1>6 DEF Install, Outcome
    <2>2. QED
      BY <2>1, RollingUnitCall
  <1>7. CASE Reboot
    <2>1. Outcome("reboot") /\ \A t \in Servers \ {node} :
                              unit'[t] = unit[t] /\ reboot'[t] = reboot[t]
      BY <1>0, <1>7 DEF Reboot, Boots, Outcome
    <2>2. QED
      BY <2>1, RollingUnitCall
  <1>8. CASE RunKillall
    <2>1. Outcome("killall") /\ \A t \in Servers \ {node} :
                              unit'[t] = unit[t] /\ reboot'[t] = reboot[t]
      BY <1>0, <1>8 DEF RunKillall, Outcome, SetUnit, Either
    <2>2. QED
      BY <2>1, RollingUnitCall
  <1>9. CASE ApiDown \/ StoppedStatus \/ Reset \/ DeleteDb \/ EncryptStatus \/ Encrypt
             \/ VerifyStatus \/ Check
    <2>1. (\E op : op # "status" /\ Outcome(op)) /\ UNCHANGED <<unit, reboot>>
      <3>1. CASE ApiDown
        BY <3>1 DEF ApiDown, Outcome
      <3>2. CASE StoppedStatus
        BY <3>2 DEF StoppedStatus, Outcome
      <3>3. CASE Reset
        BY <3>3 DEF Reset, Outcome
      <3>4. CASE DeleteDb
        BY <3>4 DEF DeleteDb, Outcome
      <3>5. CASE EncryptStatus
        BY <3>5 DEF EncryptStatus, Outcome
      <3>6. CASE Encrypt
        BY <3>6 DEF Encrypt, Outcome
      <3>7. CASE VerifyStatus
        BY <3>7 DEF VerifyStatus, Outcome
      <3>8. CASE Check
        BY <3>8 DEF Check, Outcome
      <3>9. QED
        BY <1>9, <3>1, <3>2, <3>3, <3>4, <3>5, <3>6, <3>7, <3>8
    <2>2. PICK op : op # "status" /\ Outcome(op)
      BY <2>1
    <2>3. QED
      BY <2>1, <2>2, RollingOtherCall
  <1>10. ASSUME UNCHANGED <<inputs, unit, reboot>>, UNCHANGED position \/ NextLoop
         PROVE  DownInv'
    <2>1. Servers' = Servers /\ Rolling' = Rolling
      BY <1>10, ScriptStays DEF inputs, Rolling, Upgrades
    <2>2. NextLoop => Exhausted
      BY DEF NextLoop
    <2>3. QED
      BY <1>10, <2>1, <2>2, FirstLoopDone DEF DownInv, position
  <1>11. CASE WaitForHashMatch
    <2>1. ~Rolling /\ UNCHANGED inputs
      BY <1>11, RollingCalls DEF WaitForHashMatch
    <2>2. QED
      BY <2>1 DEF DownInv, Rolling, Upgrades, inputs
  <1>12. CASE NextLoop
    BY <1>10, <1>12 DEF NextLoop
  <1>13. CASE Finish \/ Stopped \/ UNCHANGED vars
    <2>1. UNCHANGED <<inputs, unit, reboot>> /\ UNCHANGED position
      BY <1>13 DEF Finish, Stopped, vars, driver
    <2>2. QED
      BY <1>10, <2>1
  <1>14. ASSUME NEW s \in Nodes, Exits(s) \/ Ready(s) \/ LateReboot(s)
         PROVE  DownInv'
    <2>1. /\ UNCHANGED <<inputs, position>>
          /\ \A t \in Servers \ {s} : unit'[t] = unit[t] /\ reboot'[t] = reboot[t]
      BY <1>0, <1>14 DEF Exits, Ready, LateReboot, Boots, SetUnit, driver
    <2>2. Servers' = Servers /\ Rolling' = Rolling
      BY <2>1, ScriptStays DEF inputs, Rolling, Upgrades
    <2>3. \/ unit[s] # "active" /\ reboot'[s] = reboot[s]
          \/ unit'[s] = "active" \/ reboot'[s] = "begun"
      BY <1>0, <1>14 DEF Exits, Ready, LateReboot, SetUnit
    <2>4. QED
      BY <2>1, <2>2, <2>3 DEF DownInv, position
  <1>15. QED
    BY <1>1, <1>2, <1>3, <1>4, <1>5, <1>6, <1>7, <1>8, <1>9, <1>11, <1>12, <1>13, <1>14 DEF Next

\* DownInv holds throughout.
LEMMA DownAlways == Spec => []DownInv
  <1>1. Init => DownInv
    BY DEF Init, DownInv, Nodes
  <1>2. QED
    BY <1>1, DownStep, OpsAlways, PTL DEF Spec

\* Certificate rotation and manual upgrade take one server down at a time, whichever
\* calls fail, are late or are tried again, but for reboots that EC2 begins late.
THEOREM OneServerIsDown == Spec => []OneServerDown
  <1>1. DownInv => OneServerDown
    <2> SUFFICES ASSUME DownInv, Rolling
                 PROVE  Cardinality({s \in Servers :
                                     unit[s] # "active" /\ reboot[s] # "begun"}) <= 1
      BY DEF OneServerDown, Rolling
    <2>1. {s \in Servers : unit[s] # "active" /\ reboot[s] # "begun"} \in {{}, {node}}
      BY DEF DownInv
    <2>2. Cardinality({}) = 0 /\ Cardinality({node}) = 1
      BY FS_EmptySet, FS_Singleton
    <2>3. QED
      BY <2>1, <2>2
  <1>2. QED
    BY <1>1, DownAlways, PTL

-----------------------------------------------------------------------------
(* Reboots are for upgrades *)

\* No node reboots late in a certificate rotation or a cluster reset.
RebootInv == test \in {"certRotate", "clusterReset"} => \A s \in Nodes : reboot[s] = "no"

\* The calls of the cluster reset.
LEMMA ResetCalls ==
    ASSUME OpsInv, test = "clusterReset", NEW op, At(op)
    PROVE  \/ /\ loop = 1 /\ op = "killall" /\ step = Len(Current.ops)
              /\ (Current.by = -1 \/ n = 1)
           \/ loop = 2 /\ node = 1 /\ op \in {"apiDown", "stop", "stoppedStatus", "reset"}
           \/ /\ loop = 3 /\ op = "deleteDb" /\ step = Len(Current.ops)
              /\ Current.by = -1 /\ node # 1
           \/ loop = 4 /\ op = "restart" /\ Current.by = 1
  <1>1. /\ Inputs /\ loop \in 1..Len(Script) /\ Current = Script[loop] 
        /\ step \in 1..Len(Current.ops) /\ op = Current.ops[step] /\ node \in 1..n + m
        /\ Current.by = 1 => node \in Current.first..Current.last
        /\ Current.by = -1 => node \in Current.last..Current.first
    BY CallPlace
  <1>2. loop = 1 \/ loop = 2 \/ loop = 3 \/ loop = 4
    <2>1. Len(Script) = 4
      BY <1>1, ClusterResetLoops
    <2>2. QED
      BY <1>1, <2>1
  <1>3. CASE loop = 1
    <2>1. Current.ops = <<"killall">> /\ (Current.by = -1 \/ n = 1)
      BY <1>1, <1>3, ClusterResetLoops DEF Loop, Down, Inputs
    <2>2. step = 1 /\ Len(Current.ops) = 1 /\ op = "killall"
      BY <1>1, <2>1
    <2>3. QED
      BY <1>3, <2>1, <2>2
  <1>4. CASE loop = 2
    <2>1. /\ Current.ops = <<"apiDown", "stop", "stoppedStatus", "reset">>
          /\ Current.by = 1 /\ Current.first = 1 /\ Current.last = 1
      BY <1>1, <1>4, ClusterResetLoops DEF Loop
    <2>2. node = 1
      BY <1>1, <2>1
    <2>3. step \in 1..4 /\ op = <<"apiDown", "stop", "stoppedStatus", "reset">>[step]
      BY <1>1, <2>1
    <2>4. QED
      BY <1>4, <2>2, <2>3
  <1>5. CASE loop = 3
    <2>1. Current.ops = <<"deleteDb">> /\ Current.by = -1 /\ Current.last = 2 /\ Current.first = n
      BY <1>1, <1>5, ClusterResetLoops DEF Down
    <2>2. step = 1 /\ Len(Current.ops) = 1 /\ op = "deleteDb"
      BY <1>1, <2>1
    <2>3. node # 1
      BY <1>1, <2>1 DEF Inputs
    <2>4. QED
      BY <1>5, <2>1, <2>2, <2>3
  <1>6. CASE loop = 4
    <2>1. Current.ops = <<"restart">> /\ Current.by = 1
      BY <1>1, <1>6, ClusterResetLoops DEF Loop
    <2>2. op = "restart"
      BY <1>1, <2>1
    <2>3. QED
      BY <1>6, <2>1, <2>2
  <1>7. QED
    BY <1>2, <1>3, <1>4, <1>5, <1>6

\* RebootInv holds throughout: the two scripts have no reboot.
LEMMA RebootAlways == Spec => []RebootInv
  <1>1. Init => RebootInv
    BY DEF Init, RebootInv
  <1>2. OpsInv /\ RebootInv /\ [Next]_vars => RebootInv'
    <2> SUFFICES ASSUME OpsInv, RebootInv, [Next]_vars, test \in {"certRotate", "clusterReset"}
                 PROVE  \A s \in Nodes : reboot'[s] = reboot[s]
      BY InputsStay, ScriptStays DEF RebootInv, inputs
    <2>1. ~Reboot
      BY RotateCalls, ResetCalls DEF Reboot
    <2>2. reboot \in [Nodes -> RebootStates] /\ \A s \in Nodes : reboot[s] = "no"
      BY DEF OpsInv, NodesOK, RebootInv
    <2>3. Stop \/ Start \/ Restart \/ Status \/ Rotate \/ Install => UNCHANGED reboot
      BY DEF Stop, Start, Restart, Status, Rotate, Install
    <2>4. RunKillall \/ ApiDown \/ StoppedStatus \/ Reset \/ DeleteDb => UNCHANGED reboot
      BY DEF RunKillall, ApiDown, StoppedStatus, Reset, DeleteDb
    <2>5. EncryptStatus \/ Encrypt \/ WaitForHashMatch \/ VerifyStatus => UNCHANGED reboot
      BY DEF EncryptStatus, Encrypt, WaitForHashMatch, VerifyStatus
    <2>6. Check \/ NextLoop \/ Finish \/ Stopped \/ UNCHANGED vars => UNCHANGED reboot
      BY DEF Check, NextLoop, Finish, Stopped, vars
    <2>7. (\E s \in Nodes : Exits(s) \/ Ready(s) \/ LateReboot(s)) => UNCHANGED reboot
      BY <2>2 DEF Exits, Ready, LateReboot
    <2>8. QED
      BY <2>1, <2>3, <2>4, <2>5, <2>6, <2>7 DEF Next
  <1>3. QED
    BY <1>1, <1>2, OpsAlways, PTL DEF Spec

-----------------------------------------------------------------------------
(* The rotated certificates are served *)

\* How far the rotation is on server s: it is done, it has not begun, or it is at a call.
RotationOf(s) ==
    /\ loop > 1 \/ s < node => unit[s] = "active" /\ loaded[s] = 1
    /\ loop = 1 /\ s > node => disk[s] = 0
    /\ loop = 1 /\ s = node =>
          \/ step = 1 /\ disk[s] = 0 /\ unit[s] \in {"active", "stopping", "inactive"}
          \/ step = 2 /\ disk[s] = 0 /\ unit[s] \in {"stopping", "inactive"}
          \/ step = 3 /\ disk[s] = 1 /\ unit[s] \in {"stopping", "inactive"}
          \/ step = 4 /\ disk[s] = 1 /\ unit[s] = "restarting"
          \/ step = 4 /\ disk[s] = 1 /\ unit[s] \in {"starting", "active"} /\ loaded[s] = 1

RotationInv ==
    test = "certRotate" /\ verdict # "failed" => \A s \in Servers : RotationOf(s)

\* A call of the first loop that is not the last one on the node.
LEMMA RotationGoesOn ==
    ASSUME OpsInv, RotationInv, test = "certRotate", NEW op, Outcome(op), verdict' # "failed",
           loop = 1, op # "status",
           \A t \in Servers \ {node} : unit'[t] = unit[t] /\ loaded'[t] = loaded[t] 
                                         /\ disk'[t] = disk[t]
    PROVE  /\ loop' = 1 /\ node' = node
           /\ (Pass /\ step' = step + 1) \/ (Retry /\ step' = step)
           /\ \A t \in Servers \ {node} : RotationOf(t)'
  <1>1. /\ node \in Servers /\ step \in 1..3 /\ Len(Current.ops) = 4
    BY RotateCalls DEF Outcome
  <1>2. ~Fail
    BY DEF Fail
  <1>3. /\ loop' = 1 /\ node' = node
        /\ (Pass /\ step' = step + 1) \/ (Retry /\ step' = step)
    BY <1>1, <1>2 DEF Outcome, Pass, Advance, Retry, position
  <1>4. \A t \in Servers : RotationOf(t)
    BY DEF RotationInv, Outcome, At
  <1>5. QED
    BY <1>3, <1>4 DEF RotationOf

\* A step that leaves the servers and the position in the first loop alone.
LEMMA RotationIdle ==
    ASSUME RotationInv, UNCHANGED inputs, verdict' # "failed" => verdict # "failed",
           \A t \in Servers : unit'[t] = unit[t] /\ loaded'[t] = loaded[t] /\ disk'[t] = disk[t],
           UNCHANGED position \/ (loop > 1 /\ loop' > 1)
    PROVE  RotationInv'
  <1>1. Servers' = Servers /\ test' = test
    BY ScriptStays DEF inputs
  <1> SUFFICES ASSUME test = "certRotate", verdict' # "failed", NEW s \in Servers
               PROVE  RotationOf(s)'
    BY <1>1 DEF RotationInv
  <1>2. RotationOf(s)
    BY DEF RotationInv
  <1>3. QED
    BY <1>2 DEF RotationOf, position

\* The rotation of a server goes through its calls.
LEMMA RotationStep == OpsInv /\ DownInv /\ RebootInv /\ RotationInv /\ [Next]_vars => RotationInv'
  <1> SUFFICES ASSUME OpsInv, DownInv, RebootInv, RotationInv, [Next]_vars,
                      test = "certRotate", verdict' # "failed"
               PROVE  RotationInv'
    BY InputsStay DEF inputs, RotationInv
  <1>0. /\ unit \in [Nodes -> UnitStates] /\ loaded \in [Nodes -> Nat] /\ disk \in [Nodes -> Nat]
        /\ Servers \subseteq Nodes
    BY DEF OpsInv, NodesOK, Nodes
  <1>1. ASSUME NEW op, Outcome(op)
        PROVE  /\ Servers' = Servers /\ UNCHANGED inputs /\ verdict = "running" /\ ~Fail
               /\ \A t \in Servers : RotationOf(t)
               /\ loop > 1 => loop' > 1
    BY <1>1, ScriptStays DEF Outcome, At, Pass, Advance, Fail, Retry, RotationInv, position
  <1>2. CASE Stop
    <2>1. Outcome("stop")
      BY <1>2 DEF Stop, Outcome, RetryOrFail
    <2>2. loop = 1 /\ node \in Servers /\ step = 1
      BY <2>1, RotateCalls DEF Outcome
    <2>3. \A t \in Servers \ {node} : unit'[t] = unit[t] /\ loaded'[t] = loaded[t] 
                                         /\ disk'[t] = disk[t]
      BY <1>0, <1>2 DEF Stop, SetUnit, Either, Stopping
    <2>4. /\ loop' = 1 /\ node' = node
          /\ (Pass /\ step' = step + 1) \/ (Retry /\ step' = step)
          /\ \A t \in Servers \ {node} : RotationOf(t)'
      BY <2>1, <2>2, <2>3, RotationGoesOn
    <2>5. disk[node] = 0 /\ unit[node] \in {"active", "stopping", "inactive"}
      BY <1>1, <2>1, <2>2 DEF RotationOf
    <2>6. /\ disk'[node] = 0 
          /\ unit'[node] \in {unit[node], Stopping(unit[node])}
          /\ step' = 2 => unit'[node] = Stopping(unit[node])
      <3>1. disk' = disk
        BY <1>2 DEF Stop
      <3>2. node \in Nodes
        BY <1>0, <2>2
      <3>3. CASE SetUnit(node, Stopping(unit[node]))
        BY <1>0, <2>5, <3>1, <3>2, <3>3 DEF SetUnit
      <3>4. CASE UNCHANGED unit /\ RetryOrFail
        <4>1. ~Fail
          BY <1>1, <2>1
        <4>2. step' = step
          BY <3>4, <4>1 DEF RetryOrFail, Retry, position
        <4>3. QED
          BY <2>2, <2>5, <3>1, <3>4, <4>2
      <3>5. QED
        BY <1>2, <3>3, <3>4 DEF Stop, Either
    <2>7. ASSUME NEW s \in Servers, s = node PROVE RotationOf(s)'
      BY <2>2, <2>4, <2>5, <2>6, <2>7 DEF RotationOf, Stopping, Servers
    <2>8. QED
      BY <1>1, <2>1, <2>4, <2>7 DEF RotationInv
  <1>3. CASE Rotate
    <2>1. Outcome("rotate")
      BY <1>3 DEF Rotate, Outcome
    <2>2. loop = 1 /\ node \in Servers /\ step = 2
      BY <2>1, RotateCalls DEF Outcome
    <2>3. UNCHANGED <<unit, loaded>> /\ NewVersion(node) /\ Pass
      BY <1>1, <1>3, <2>1 DEF Rotate
    <2>4. \A t \in Servers \ {node} : unit'[t] = unit[t] /\ loaded'[t] = loaded[t] 
                                         /\ disk'[t] = disk[t]
      BY <1>0, <2>3 DEF NewVersion
    <2>5. /\ loop' = 1 /\ node' = node
          /\ (Pass /\ step' = step + 1) \/ (Retry /\ step' = step)
          /\ \A t \in Servers \ {node} : RotationOf(t)'
      BY <2>1, <2>2, <2>4, RotationGoesOn
    <2>6. step' = 3
      <3>1. Len(Current.ops) = 4
        BY <2>1, <2>2, RotateCalls DEF Outcome
      <3>2. QED
        BY <2>2, <2>3, <3>1 DEF Pass, Advance
    <2>7. disk[node] = 0 /\ unit[node] \in {"stopping", "inactive"}
      BY <1>1, <2>1, <2>2 DEF RotationOf
    <2>8. disk'[node] = 1 /\ unit' = unit
      BY <1>0, <2>2, <2>3, <2>7 DEF NewVersion
    <2>9. ASSUME NEW s \in Servers, s = node PROVE RotationOf(s)'
      BY <2>2, <2>5, <2>6, <2>7, <2>8, <2>9 DEF RotationOf, Servers
    <2>10. QED
      BY <1>1, <2>1, <2>5, <2>9 DEF RotationInv
  <1>4. CASE Start
    <2>1. Outcome("start")
      BY <1>4 DEF Start, Outcome
    <2>2. loop = 1 /\ node \in Servers /\ step = 3 /\ Len(Current.ops) = 4
      BY <2>1, RotateCalls DEF Outcome
    <2>3. SetUnit(node, Starting(unit[node])) /\ Pass /\ UNCHANGED disk
      BY <1>1, <1>4, <2>1 DEF Start
    <2>4. \A t \in Servers \ {node} : unit'[t] = unit[t] /\ loaded'[t] = loaded[t] 
                                         /\ disk'[t] = disk[t]
      BY <1>0, <2>3 DEF SetUnit
    <2>5. /\ loop' = 1 /\ node' = node
          /\ (Pass /\ step' = step + 1) \/ (Retry /\ step' = step)
          /\ \A t \in Servers \ {node} : RotationOf(t)'
      BY <2>1, <2>2, <2>4, RotationGoesOn
    <2>6. step' = 4
      BY <2>2, <2>3 DEF Pass, Advance
    <2>7. disk[node] = 1 /\ unit[node] \in {"stopping", "inactive"}
      BY <1>1, <2>1, <2>2 DEF RotationOf
    <2>8. /\ unit'[node] = Starting(unit[node]) /\ disk'[node] = 1
          /\ unit'[node] = "starting" => loaded'[node] = 1
      BY <1>0, <2>2, <2>3, <2>7 DEF SetUnit
    <2>9. ASSUME NEW s \in Servers, s = node PROVE RotationOf(s)'
      BY <2>2, <2>5, <2>6, <2>7, <2>8, <2>9 DEF RotationOf, Starting, Servers
    <2>10. QED
      BY <1>1, <2>1, <2>5, <2>9 DEF RotationInv
  <1>5. CASE Status
    <2>1. Outcome("status") /\ UNCHANGED <<unit, loaded, disk>>
      BY <1>5 DEF Status, Outcome, RetryOrFail
    <2>2. CASE loop = 2
      <3>1. loop' > 1
        BY <1>1, <2>1, <2>2
      <3>2. QED
        BY <1>1, <2>1, <2>2, <3>1, RotationIdle
    <2>3. CASE loop = 1 /\ Retry
      BY <1>1, <2>1, <2>3, RotationIdle DEF Retry
    <2>4. CASE loop = 1 /\ Pass
      <3>1. node \in Servers /\ step = 4 /\ Len(Current.ops) = 4 /\ Current.by = 1
        BY <2>1, <2>4, RotateCalls DEF Outcome
      <3>2. loop' = 1 /\ node' = node + 1 /\ step' = 1
        BY <2>4, <3>1 DEF Pass, Advance
      <3>3. unit[node] = "active"
        <4>1. ~Retry
          <5>1. tries \in Nat
            BY ServerOpsConstants DEF OpsInv, DriverOK
          <5>2. QED
            BY <2>4, <5>1 DEF Pass, Advance, Retry
        <4>2. QED
          BY <1>1, <1>5, <2>1, <4>1 DEF Status, RetryOrFail
      <3>4. node \in Nat /\ Servers \subseteq Nat
        BY <3>1 DEF Servers
      <3>5. ASSUME NEW s \in Servers PROVE RotationOf(s)'
        <4>1. RotationOf(s) /\ unit'[s] = unit[s] /\ loaded'[s] = loaded[s] /\ disk'[s] = disk[s]
          BY <1>1, <2>1
        <4>2. CASE s < node
          BY <2>4, <3>2, <3>4, <4>1, <4>2 DEF RotationOf
        <4>3. CASE s = node
          BY <2>4, <3>1, <3>2, <3>3, <3>4, <4>1, <4>3 DEF RotationOf
        <4>4. CASE s > node
          <5>1. unit[s] = "active"
            BY <1>0, <3>4, <4>4 DEF DownInv, Rolling, RebootInv
          <5>2. disk[s] = 0
            BY <2>4, <4>1, <4>4 DEF RotationOf
          <5>3. QED
            BY <3>2, <3>4, <4>1, <4>4, <5>1, <5>2 DEF RotationOf
        <4>5. QED
          BY <3>4, <4>2, <4>3, <4>4
      <3>6. QED
        BY <1>1, <2>1, <3>5 DEF RotationInv
    <2>5. QED
      BY <1>1, <2>1, <2>2, <2>3, <2>4, RotateCalls DEF Outcome
  <1>6. CASE Restart
    <2>1. Outcome("restart")
      BY <1>6 DEF Restart, Outcome
    <2>2. loop = 2 /\ node \notin Servers
      BY <2>1, RotateCalls DEF Outcome
    <2>3. \A t \in Servers : unit'[t] = unit[t] /\ loaded'[t] = loaded[t] /\ disk'[t] = disk[t]
      BY <1>0, <1>6, <2>2 DEF Restart, SetUnit, Either
    <2>4. loop' > 1
      BY <1>1, <2>1, <2>2
    <2>5. QED
      BY <1>1, <2>1, <2>2, <2>3, <2>4, RotationIdle
  <1>7. CASE Check
    <2>1. Outcome("check") /\ UNCHANGED <<unit, loaded, disk>>
      BY <1>7 DEF Check, Outcome
    <2>2. loop > 1
      BY <2>1, RotateCalls DEF Outcome
    <2>3. loop' > 1
      BY <1>1, <2>1, <2>2
    <2>4. QED
      BY <1>1, <2>1, <2>2, <2>3, RotationIdle
  <1>8. CASE \/ Install \/ Reboot \/ RunKillall \/ ApiDown \/ StoppedStatus \/ Reset \/ DeleteDb
             \/ EncryptStatus \/ Encrypt \/ WaitForHashMatch \/ VerifyStatus
    <2>1. PICK op \in {"install", "reboot", "killall", "apiDown", "stoppedStatus", "reset",
                       "deleteDb", "encryptStatus", "encrypt", "waitForHashMatch",
                       "verifyStatus"} : At(op)
      BY <1>8 DEF Install, Reboot, RunKillall, ApiDown, StoppedStatus, Reset, DeleteDb,
                  EncryptStatus, Encrypt, WaitForHashMatch, VerifyStatus
    <2>2. QED
      BY <2>1, RotateCalls
  <1>9. CASE NextLoop
    <2>0. Inputs /\ Len(Script) = 3
      BY InputsAre, CertRotateLoops DEF OpsInv
    <2>1. /\ loop' = loop + 1 /\ loop \in 1..3 /\ Exhausted
          /\ UNCHANGED <<inputs, verdict, unit, loaded, disk>>
      BY <1>9, <2>0 DEF NextLoop, OpsInv, DriverOK, Beyond
    <2>2. CASE loop > 1
      BY <2>1, <2>2, RotationIdle
    <2>3. CASE loop = 1
      <3>1. ASSUME NEW s \in Servers PROVE s < node
        <4>1. ~Beyond /\ n \in Nat /\ m \in Nat
          BY <1>9, <2>0 DEF NextLoop, Inputs
        <4>2. node \in 0..n + m + 1
          BY <4>1 DEF OpsInv, DriverOK, PlaceInv
        <4>3. Current.by = 1 /\ Current.last = n
          BY <2>0, <2>3, CertRotateLoops DEF Current, Loop
        <4>4. Current.by = 1 /\ Current.last = n /\ n \in Nat /\ node \in Int
          BY <4>1, <4>2, <4>3
        <4>5. QED
          BY <2>1, <4>4 DEF Exhausted, Servers
      <3>2. ASSUME NEW s \in Servers PROVE RotationOf(s)'
        <4>1. RotationOf(s)
          BY <2>1 DEF RotationInv
        <4>2. QED
          BY <2>1, <2>3, <3>1, <4>1 DEF RotationOf
      <3>3. QED
        BY <2>1, <3>2, ScriptStays DEF RotationInv
    <2>4. QED
      BY <2>1, <2>2, <2>3
  <1>10. CASE Finish \/ Stopped \/ UNCHANGED vars
    <2>1. /\ UNCHANGED <<inputs, unit, loaded, disk>> /\ UNCHANGED position 
          /\ verdict' = verdict \/ verdict = "running"
      BY <1>10 DEF Finish, Stopped, vars, driver
    <2>2. QED
      BY <2>1, RotationIdle
  <1>13. \A s \in Nodes : ~LateReboot(s) /\ reboot[s] # "begun"
    BY DEF RebootInv, LateReboot
  <1>11. ASSUME NEW s \in Nodes, Exits(s) \/ Ready(s)
         PROVE  RotationInv'
    <2>1. /\ UNCHANGED <<inputs, position, verdict, disk>> 
          /\ \A t \in Nodes \ {s} : unit'[t] = unit[t] /\ loaded'[t] = loaded[t]
      BY <1>0, <1>11 DEF Exits, Ready, SetUnit, driver
    <2>2. CASE s \notin Servers
      BY <1>0, <2>1, <2>2, RotationIdle
    <2>3. CASE s \in Servers
      <3>1. \A t \in Servers \ {s} : RotationOf(t)'
        BY <1>0, <2>1 DEF RotationInv, RotationOf, position
      <3>2. loop = 1 /\ s = node
        BY <1>11, <1>13, <2>3 DEF Exits, Ready, DownInv, Rolling
      <3>3. \/ unit[s] = "stopping" /\ unit'[s] = "inactive"
            \/ unit[s] = "restarting" /\ unit'[s] = "starting" /\ loaded'[s] = disk[s]
            \/ unit[s] = "starting" /\ unit'[s] = "active" /\ loaded'[s] = loaded[s]
        BY <1>0, <1>11 DEF Exits, Ready, SetUnit
      <3>4. RotationOf(s)
        BY <2>1, <2>3 DEF RotationInv
      <3>5. disk'[s] = disk[s] /\ loop' = loop /\ node' = node /\ step' = step
        BY <2>1 DEF position
      <3>6. RotationOf(s)'
        BY <3>2, <3>3, <3>4, <3>5, <2>3 DEF RotationOf, Servers
      <3>7. QED
        BY <2>1, <3>1, <3>6, ScriptStays DEF RotationInv
    <2>4. QED
      BY <2>2, <2>3
  <1>12. QED
    BY <1>2, <1>3, <1>4, <1>5, <1>6, <1>7, <1>8, <1>9, <1>10, <1>11, <1>13 DEF Next

\* A certificate rotation that passes leaves every server running on its new
\* certificates, although stop and start are only queued.
THEOREM RotatedAreServed == Spec => []RotatedIsServed
  <1>1. Init => RotationInv
    <2> SUFFICES ASSUME Init, test = "certRotate", NEW s \in Servers PROVE RotationOf(s)
      BY DEF RotationInv
    <2>1. Inputs
      BY InputsAre DEF Init, InputsOK
    <2>2. loop = 1 /\ node = 1 /\ step = 1
      BY <2>1, CertRotateLoops DEF Init, Current, Loop
    <2>3. s \in Nodes /\ s \in Nat /\ s >= 1
      BY <2>1 DEF Nodes, Servers, Inputs
    <2>4. QED
      BY <2>2, <2>3 DEF Init, RotationOf
  <1>2. Spec => []RotationInv
    BY <1>1, RotationStep, OpsAlways, DownAlways, RebootAlways, PTL DEF Spec
  <1>3. OpsInv /\ RotationInv => RotatedIsServed
    <2> SUFFICES ASSUME RotationInv, OpsInv, test = "certRotate", verdict = "passed",
                        NEW s \in Servers
                 PROVE  unit[s] = "active" /\ loaded[s] = 1
      BY DEF RotatedIsServed
    <2>1. Inputs /\ Len(Script) = 3
      BY InputsAre, CertRotateLoops DEF OpsInv
    <2>2. loop > 1
      BY <2>1 DEF OpsInv, DriverOK, Beyond
    <2>3. QED
      BY <2>2 DEF RotationInv, RotationOf
  <1>4. QED
    BY <1>2, <1>3, OpsAlways, PTL

-----------------------------------------------------------------------------
(* No old data serves *)

\* How far the reset is on server s: it is killed, and then its data is deleted, before
\* the last loop starts it again.
ResetOf(s) ==
    /\ loop > 1 \/ s > node => unit[s] = "inactive" \/ loop > 4 \/ (loop = 4 /\ s <= node)
    /\ loop > 3 \/ (loop = 3 /\ s > node) => db[s] = "deleted"

ResetInv ==
    /\ test = "clusterReset" =>
          (db[1] = "reset" => loop > 1) /\ \A s \in Servers \ {1} : ResetOf(s)
    /\ test # "clusterReset" => \A s \in Nodes : db[s] = "old"

\* The calls of secrets encryption.
LEMMA EncryptCalls ==
    ASSUME OpsInv, Encrypts, NEW op, At(op)
    PROVE  \/ /\ loop % 4 = 1 /\ node = cp /\ Current.by = 1 /\ Len(Current.ops) = 2
              /\ (step = 1 /\ op = "encryptStatus") \/ (step = 2 /\ op = "encrypt")
           \/ loop % 4 = 2 /\ op = "restart"
           \/ /\ loop % 4 = 3 /\ node = cp /\ Current.by = 1 /\ Len(Current.ops) = 2
              /\ (step = 1 /\ op = "waitForHashMatch") \/ (step = 2 /\ op = "verifyStatus")
           \/ loop % 4 = 0 /\ op = "check"
  <1>1. /\ Inputs /\ loop \in 1..Len(Script) /\ Current = Script[loop] 
        /\ step \in 1..Len(Current.ops) /\ op = Current.ops[step]
        /\ Current.by = 1 => node \in Current.first..Current.last
    BY CallPlace
  <1>2. loop % 4 = 0 \/ loop % 4 = 1 \/ loop % 4 = 2 \/ loop % 4 = 3
    <2>1. loop \in Nat
      BY <1>1, EncryptLoops
    <2>2. QED
      BY <2>1
  <1>3. CASE loop % 4 = 1
    <2>1. Current = Loop(cp, cp, <<"encryptStatus", "encrypt">>)
      BY <1>1, <1>3, EncryptLoops
    <2>2. /\ Current.ops = <<"encryptStatus", "encrypt">>
          /\ Current.by = 1 /\ Current.first = cp /\ Current.last = cp
      BY <2>1 DEF Loop
    <2>3. node = cp
      BY <1>1, <2>2 DEF Inputs
    <2>4. step \in 1..2 /\ Len(Current.ops) = 2 /\ op = <<"encryptStatus", "encrypt">>[step]
      BY <1>1, <2>2
    <2>5. QED
      BY <1>3, <2>2, <2>3, <2>4
  <1>4. CASE loop % 4 = 2
    <2>1. Current = Loop(1, n, <<"restart">>)
      BY <1>1, <1>4, EncryptLoops
    <2>2. Current.ops = <<"restart">>
      BY <2>1 DEF Loop
    <2>3. op = "restart"
      BY <1>1, <2>2
    <2>4. QED
      BY <1>4, <2>3
  <1>5. CASE loop % 4 = 3
    <2>1. Current = Loop(cp, cp, <<"waitForHashMatch", "verifyStatus">>)
      BY <1>1, <1>5, EncryptLoops
    <2>2. /\ Current.ops = <<"waitForHashMatch", "verifyStatus">>
          /\ Current.by = 1 /\ Current.first = cp /\ Current.last = cp
      BY <2>1 DEF Loop
    <2>3. node = cp
      BY <1>1, <2>2 DEF Inputs
    <2>4. step \in 1..2 /\ Len(Current.ops) = 2 /\ op = <<"waitForHashMatch", "verifyStatus">>[step]
      BY <1>1, <2>2
    <2>5. QED
      BY <1>5, <2>2, <2>3, <2>4
  <1>6. CASE loop % 4 = 0
    <2>1. Current = Loop(1, n, <<"check">>)
      BY <1>1, <1>6, EncryptLoops
    <2>2. Current.ops = <<"check">>
      BY <2>1 DEF Loop
    <2>3. op = "check"
      BY <1>1, <2>2
    <2>4. QED
      BY <1>6, <2>3
  <1>7. QED
    BY <1>2, <1>3, <1>4, <1>5, <1>6

\* The service restart test does nothing but restart services.
LEMMA RestartCalls ==
    ASSUME OpsInv, test = "restartService", NEW op, At(op)
    PROVE  op = "restart"
  <1>1. Inputs /\ loop \in 1..Len(Script) /\ Current = Script[loop] /\ step \in 1..Len(Current.ops)
        /\ op = Current.ops[step]
    BY CallPlace
  <1>2. Len(Script) = 1 /\ Script[1] = Loop(1, n + m, <<"restart">>)
    BY <1>1, ScriptOf DEF RestartService
  <1>3. Current.ops = <<"restart">>
    BY <1>1, <1>2 DEF Loop
  <1>4. QED
    BY <1>1, <1>3

\* Only the cluster reset changes the data of etcd.
LEMMA DataCalls ==
    ASSUME OpsInv, NEW op, At(op), op = "reset" \/ op = "deleteDb"
    PROVE  test = "clusterReset"
  <1>1. ~Rolling
    BY RollingCalls
  <1>2. ~Encrypts
    BY EncryptCalls
  <1>3. test # "restartService"
    BY RestartCalls
  <1>4. QED
    BY <1>1, <1>2, <1>3, CallPlace DEF Inputs, Rolling, Encrypts, Upgrades

\* In the other tests no step changes the data.
LEMMA OtherDataStays ==
    ASSUME OpsInv, test # "clusterReset", [Next]_vars
    PROVE  UNCHANGED db
  <1>1. ~Reset /\ ~DeleteDb
    BY DataCalls DEF Reset, DeleteDb
  <1>2. Stop \/ Start \/ Restart \/ Status \/ Rotate \/ Install \/ Reboot => UNCHANGED db
    BY DEF Stop, Start, Restart, Status, Rotate, Install, Reboot
  <1>3. RunKillall \/ ApiDown \/ StoppedStatus \/ EncryptStatus \/ Encrypt => UNCHANGED db
    BY DEF RunKillall, ApiDown, StoppedStatus, EncryptStatus, Encrypt
  <1>4. VerifyStatus \/ Check \/ WaitForHashMatch \/ NextLoop \/ Finish \/ Stopped => UNCHANGED db
    BY DEF VerifyStatus, Check, WaitForHashMatch, NextLoop, Finish, Stopped, vars
  <1>5. (\E s \in Nodes : Exits(s) \/ Ready(s) \/ LateReboot(s)) => UNCHANGED db
    BY DEF Exits, Ready, LateReboot
  <1>6. UNCHANGED vars => UNCHANGED db
    BY DEF vars
  <1>7. QED
    BY <1>1, <1>2, <1>3, <1>4, <1>5, <1>6 DEF Next

\* The servers are reset one after the other.
LEMMA ResetStep == OpsInv /\ RebootInv /\ ResetInv /\ [Next]_vars => ResetInv'
  <1> SUFFICES ASSUME OpsInv, RebootInv, ResetInv, [Next]_vars PROVE ResetInv'
    OBVIOUS
  <1>0. /\ test' = test /\ Servers' = Servers /\ Nodes' = Nodes /\ UNCHANGED inputs
    BY InputsStay, ScriptStays DEF inputs
  <1>1. CASE test # "clusterReset"
    BY <1>0, <1>1, OtherDataStays DEF ResetInv
  <1>2. CASE test = "clusterReset"
    <2> SUFFICES (db'[1] = "reset" => loop' > 1) /\ \A s \in Servers \ {1} : ResetOf(s)'
      BY <1>0, <1>2 DEF ResetInv
    <2>1. /\ unit \in [Nodes -> UnitStates] /\ db \in [Nodes -> {"old", "reset", "deleted"}]
          /\ Servers \subseteq Nodes /\ Servers \subseteq Nat /\ 1 \in Nodes /\ loop \in Nat
          /\ (db[1] = "reset" => loop > 1) /\ \A s \in Servers \ {1} : ResetOf(s)
          /\ n \in Nat \ {0} /\ Servers = 1..n
      <3>1. Inputs
        BY InputsAre DEF OpsInv
      <3>2. QED
        BY <1>2, <3>1, ScriptLoops
           DEF OpsInv, DriverOK, NodesOK, Nodes, Servers, Agents, Inputs, ResetInv
    <2>2. ASSUME NEW op, Outcome(op)
          PROVE  /\ loop' = loop /\ node \in Nat
                 /\ \/ node' = node
                    \/ Pass /\ node' = node + Current.by
                 /\ Pass /\ step = Len(Current.ops) => node' = node + Current.by
      <3>1. node \in 1..n + m /\ step \in 1..Len(Current.ops) /\ Inputs /\ LoopOK(Current)
        BY <2>2, CallPlace DEF Outcome
      <3>2. node \in Nat
        BY <3>1 DEF Inputs
      <3>3. QED
        BY <2>2, <3>1, <3>2 DEF Outcome, Pass, Advance, Fail, Retry, position, LoopOK
    <2>3. CASE RunKillall
      <3>1. Outcome("killall") /\ UNCHANGED db
        BY <2>3 DEF RunKillall, Outcome
      <3>2. loop = 1 /\ step = Len(Current.ops) /\ (Current.by = -1 \/ n = 1)
        BY <1>2, <3>1, ResetCalls DEF Outcome
      <3>3. ASSUME NEW s \in Servers \ {1} PROVE ResetOf(s)'
        <4>1. Current.by = -1 /\ ResetOf(s) /\ s \in Nat /\ s \in Nodes
          BY <2>1, <3>2
        <4>2. unit'[s] = unit[s] \/ unit'[s] = "inactive"
          BY <2>1, <2>3, <4>1 DEF RunKillall, SetUnit, Either
        <4>3. s = node /\ Pass => unit'[s] = "inactive"
          <5>1. /\ verdict = "running"
                /\ Pass => verdict' = "running"
                /\ Fail => verdict' = "failed"
            BY <3>1 DEF Outcome, At, Pass, Fail
          <5>2. Pass => SetUnit(node, "inactive")
            BY <2>3, <5>1 DEF RunKillall
          <5>3. QED
            BY <2>1, <4>1, <5>2 DEF SetUnit
        <4>4. s > node' => s > node \/ (s = node /\ Pass)
          BY <2>2, <3>1, <4>1
        <4>5. QED
          BY <2>2, <3>1, <3>2, <4>1, <4>2, <4>3, <4>4 DEF ResetOf
      <3>4. QED
        BY <2>1, <2>2, <3>1, <3>3
    <2>4. ASSUME loop = 2, loop' = 2, \A t \in Servers \ {1} : unit'[t] = unit[t] /\ db'[t] = db[t]
          PROVE  (db'[1] = "reset" => loop' > 1) /\ \A s \in Servers \ {1} : ResetOf(s)'
      BY <2>1, <2>4 DEF ResetOf
    <2>5. CASE Stop
      <3>1. Outcome("stop")
        BY <2>5 DEF Stop, Outcome, RetryOrFail
      <3>2. loop = 2 /\ node = 1
        BY <1>2, <3>1, ResetCalls DEF Outcome
      <3>3. \A t \in Servers \ {1} : unit'[t] = unit[t] /\ db'[t] = db[t]
        BY <2>1, <2>5, <3>2 DEF Stop, SetUnit, Either
      <3>4. QED
        BY <2>2, <2>4, <3>1, <3>2, <3>3
    <2>6. CASE ApiDown \/ StoppedStatus
      <3>1. PICK op \in {"apiDown", "stoppedStatus"} : Outcome(op) /\ UNCHANGED <<unit, db>>
        BY <2>6 DEF ApiDown, StoppedStatus, Outcome
      <3>2. loop = 2
        BY <1>2, <3>1, ResetCalls DEF Outcome
      <3>3. QED
        BY <2>2, <2>4, <3>1, <3>2
    <2>7. CASE Reset
      <3>1. Outcome("reset") /\ UNCHANGED unit
        BY <2>7 DEF Reset, Outcome
      <3>2. loop = 2 /\ node = 1
        BY <1>2, <3>1, ResetCalls DEF Outcome
      <3>3. \A t \in Servers \ {1} : unit'[t] = unit[t] /\ db'[t] = db[t]
        BY <2>1, <2>7, <3>1, <3>2 DEF Reset, SetDb
      <3>4. QED
        BY <2>2, <2>4, <3>1, <3>2, <3>3
    <2>8. CASE DeleteDb
      <3>1. Outcome("deleteDb") /\ UNCHANGED unit
        BY <2>8 DEF DeleteDb, Outcome
      <3>2. loop = 3 /\ step = Len(Current.ops) /\ Current.by = -1 /\ node # 1
        BY <1>2, <3>1, ResetCalls DEF Outcome
      <3>3. ASSUME NEW s \in Servers \ {1} PROVE ResetOf(s)'
        <4>1. ResetOf(s) /\ s \in Nat /\ s \in Nodes
          BY <2>1
        <4>2. db'[s] = db[s] \/ db'[s] = "deleted"
          BY <2>1, <2>8, <4>1 DEF DeleteDb, SetDb
        <4>3. s = node /\ Pass => db'[s] = "deleted"
          <5>1. /\ verdict = "running"
                /\ Pass => verdict' = "running"
                /\ Fail => verdict' = "failed"
            BY <3>1 DEF Outcome, At, Pass, Fail
          <5>2. Pass => SetDb("deleted")
            BY <2>8, <5>1 DEF DeleteDb
          <5>3. QED
            BY <2>1, <4>1, <5>2 DEF SetDb
        <4>4. s > node' => s > node \/ (s = node /\ Pass)
          BY <2>2, <3>1, <3>2, <4>1
        <4>5. QED
          BY <2>2, <3>1, <3>2, <4>1, <4>2, <4>3, <4>4 DEF ResetOf
      <3>4. QED
        BY <2>1, <2>2, <3>1, <3>2, <3>3
    <2>9. CASE Restart
      <3>1. Outcome("restart") /\ UNCHANGED db
        BY <2>9 DEF Restart, Outcome
      <3>2. loop = 4 /\ Current.by = 1
        BY <1>2, <3>1, ResetCalls DEF Outcome
      <3>3. ASSUME NEW s \in Servers \ {1} PROVE ResetOf(s)'
        <4>1. ResetOf(s) /\ s \in Nat /\ s \in Nodes
          BY <2>1
        <4>2. s # node => unit'[s] = unit[s]
          BY <2>1, <2>9, <4>1 DEF Restart, SetUnit, Either
        <4>3. node' >= node /\ node \in Nat /\ loop' = 4 /\ node' \in Nat
          BY <2>2, <3>1, <3>2
        <4>4. QED
          BY <3>1, <3>2, <4>1, <4>2, <4>3 DEF ResetOf
      <3>4. QED
        BY <2>1, <2>2, <3>1, <3>2, <3>3
    <2>10. CASE \/ Start \/ Status \/ Rotate \/ Install \/ Reboot \/ EncryptStatus \/ Encrypt
                \/ WaitForHashMatch \/ VerifyStatus \/ Check
      <3>1. PICK op \in {"start", "status", "rotate", "install", "reboot", "encryptStatus",
                         "encrypt", "waitForHashMatch", "verifyStatus", "check"} : At(op)
        BY <2>10 DEF Start, Status, Rotate, Install, Reboot, EncryptStatus, Encrypt,
                     WaitForHashMatch, VerifyStatus, Check
      <3>2. QED
        BY <1>2, <3>1, ResetCalls
    <2>11. CASE NextLoop
      <3>1. loop' = loop + 1 /\ UNCHANGED <<unit, db>> /\ Exhausted /\ ~Beyond
        BY <2>11 DEF NextLoop
      <3>2. Inputs /\ Len(Script) = 4
        BY <1>2, InputsAre, ClusterResetLoops DEF OpsInv
      <3>3. loop \in 1..4 /\ node \in Int
        BY <3>1, <3>2 DEF OpsInv, DriverOK, PlaceInv, Beyond
      <3>4. loop = 1 \/ loop = 3 => \A s \in Servers \ {1} : s > node
        <4>1. CASE loop = 1 /\ n > 1
          <5>1. Current.by = -1 /\ Current.last = 2
            BY <1>2, <3>2, <4>1, ClusterResetLoops DEF Current, Down
          <5>2. QED
            BY <2>1, <3>1, <3>3, <5>1 DEF Exhausted
        <4>2. CASE loop = 3
          <5>1. Current.by = -1 /\ Current.last = 2
            BY <1>2, <3>2, <4>2, ClusterResetLoops DEF Current, Down
          <5>2. QED
            BY <2>1, <3>1, <3>3, <5>1 DEF Exhausted
        <4>3. CASE n = 1
          BY <2>1, <4>3
        <4>4. QED
          BY <2>1, <4>1, <4>2, <4>3
      <3>5. loop' = 3 => node' = n
        BY <1>2, <2>11, <3>1, <3>2, <3>3, ClusterResetLoops DEF NextLoop, Down
      <3>6. ASSUME NEW s \in Servers \ {1} PROVE ResetOf(s)'
        <4>1. ResetOf(s) /\ s \in 1..n
          BY <2>1
        <4>2. loop' > 1 /\ unit'[s] = unit[s] /\ db'[s] = db[s]
          BY <3>1, <3>3
        <4>3. unit[s] = "inactive" \/ loop' > 4
          BY <3>1, <3>3, <3>4, <4>1 DEF ResetOf
        <4>4. loop' > 3 \/ (loop' = 3 /\ s > node') => db[s] = "deleted"
          BY <2>1, <3>1, <3>3, <3>4, <3>5, <4>1 DEF ResetOf
        <4>5. QED
          BY <4>2, <4>3, <4>4 DEF ResetOf
      <3>7. QED
        BY <3>1, <3>3, <3>6
    <2>12. CASE Finish \/ Stopped \/ UNCHANGED vars
      <3>1. UNCHANGED <<unit, db>> /\ UNCHANGED position
        BY <2>12 DEF Finish, Stopped, vars, driver
      <3>2. QED
        BY <2>1, <3>1 DEF ResetOf, position
    <2>13. ASSUME NEW t \in Nodes, Exits(t) \/ Ready(t) \/ LateReboot(t)
           PROVE  (db'[1] = "reset" => loop' > 1) /\ \A s \in Servers \ {1} : ResetOf(s)'
      <3>1. /\ UNCHANGED <<position, db>> /\ unit[t] # "inactive"
            /\ \A s \in Servers \ {t} : unit'[s] = unit[s]
        BY <1>2, <2>1, <2>13 DEF Exits, Ready, LateReboot, RebootInv, SetUnit, driver
      <3>2. QED
        BY <2>1, <3>1 DEF ResetOf, position
    <2>14. QED
      BY <2>3, <2>5, <2>6, <2>7, <2>8, <2>9, <2>10, <2>11, <2>12, <2>13 DEF Next
  <1>3. QED
    BY <1>1, <1>2

\* After a cluster reset no other server comes back with the data of the old cluster.
THEOREM OldDataIsGone == Spec => []NoOldDataServes
  <1>1. Init => ResetInv
    <2> SUFFICES ASSUME Init PROVE ResetInv
      OBVIOUS
    <2>1. Inputs
      BY InputsAre DEF Init, InputsOK
    <2>2. \A s \in Nodes : db[s] = "old"
      BY DEF Init
    <2>3. ASSUME test = "clusterReset", NEW s \in Servers \ {1} PROVE ResetOf(s)
      <3>1. n > 1 /\ s <= n /\ s \in Nat
        BY <2>1 DEF Servers, Inputs
      <3>2. loop = 1 /\ node = n
        BY <2>1, <2>3, <3>1, ClusterResetLoops DEF Init, Current, Down
      <3>3. QED
        BY <2>1, <3>1, <3>2 DEF ResetOf, Inputs
    <2>4. 1 \in Nodes
      BY <2>1 DEF Nodes, Servers, Inputs
    <2>5. QED
      BY <2>2, <2>3, <2>4 DEF ResetInv
  <1>2. Spec => []ResetInv
    BY <1>1, ResetStep, OpsAlways, RebootAlways, PTL DEF Spec
  <1>3. OpsInv /\ ResetInv => NoOldDataServes
    <2> SUFFICES ASSUME OpsInv, ResetInv, NEW s \in Servers \ {1}, db[1] = "reset",
                        unit[s] \in {"starting", "active"}
                 PROVE  db[s] = "deleted"
      BY DEF NoOldDataServes
    <2>1. 1 \in Nodes /\ loop \in Nat
      BY InputsAre, ScriptLoops DEF OpsInv, DriverOK, Nodes, Servers, Inputs
    <2>2. test = "clusterReset"
      BY <2>1 DEF ResetInv
    <2>3. loop > 1 /\ ResetOf(s)
      BY <2>2 DEF ResetInv
    <2>4. loop > 3
      BY <2>1, <2>3 DEF ResetOf
    <2>5. QED
      BY <2>3, <2>4 DEF ResetOf
  <1>4. QED
    BY <1>2, <1>3, OpsAlways, PTL

-----------------------------------------------------------------------------
(* The keys stay together *)

\* A server runs with the newest keys or with those before.
Lag == \A s \in Servers : loaded[s] <= disk[s] /\ disk[s] <= loaded[s] + 1

\* Where the test has seen that all servers run with the newest keys: before the action of a
\* round, after a status that says so, and until the next round.
Confirmed ==
    \/ loop % 4 = 1 /\ node = cp
    \/ loop % 4 = 3 /\ (node > cp \/ (step = 2 /\ statusOut))
    \/ loop % 4 = 0

KeysInv ==
    Encrypts => Lag /\ (verdict = "running" /\ ~Beyond /\ Confirmed => HashesMatch)

\* A step that changes no keys keeps the servers as close as they are.
LEMMA KeysKept ==
    ASSUME OpsInv, Lag, Servers' = Servers,
           \A t \in Servers : disk'[t] = disk[t] /\ loaded'[t] \in {loaded[t], disk[t]}
    PROVE  Lag' /\ (HashesMatch => HashesMatch')
  <1>1. \A t \in Servers : disk[t] \in Nat /\ loaded[t] \in Nat
    BY DEF OpsInv, NodesOK, Nodes
  <1>2. QED
    BY <1>1 DEF Lag, HashesMatch

\* The keys change only where the test has seen that they match.
LEMMA KeysStep == OpsInv /\ KeysInv /\ [Next]_vars => KeysInv'
  <1> SUFFICES ASSUME OpsInv, KeysInv, [Next]_vars, Encrypts
               PROVE  Lag' /\ (verdict' = "running" /\ ~Beyond' /\ Confirmed' => HashesMatch')
    BY InputsStay DEF KeysInv, Encrypts, inputs
  <1>0. /\ UNCHANGED inputs /\ Servers' = Servers /\ Script' = Script /\ n' = n /\ cp' = cp
        /\ Inputs /\ Servers \subseteq Nodes
        /\ unit \in [Nodes -> UnitStates] /\ disk \in [Nodes -> Nat] /\ loaded \in [Nodes -> Nat]
        /\ Lag /\ (verdict = "running" /\ ~Beyond /\ Confirmed => HashesMatch)
    BY InputsStay, ScriptStays, InputsAre DEF inputs, OpsInv, NodesOK, KeysInv, Nodes
  <1>1. ASSUME \A t \in Servers : disk'[t] = disk[t] /\ loaded'[t] \in {loaded[t], disk[t]},
               Confirmed' => \/ verdict = "running" /\ ~Beyond /\ Confirmed
                             \/ HashesMatch \/ verdict' # "running" \/ Beyond'
        PROVE  Lag' /\ (verdict' = "running" /\ ~Beyond' /\ Confirmed' => HashesMatch')
    BY <1>0, <1>1, KeysKept
  <1>2. ASSUME NEW op, Outcome(op)
        PROVE  /\ verdict = "running" /\ ~Beyond /\ loop' = loop
               /\ statusOut' = statusOut /\ (Fail => verdict' # "running")
    BY <1>2 DEF Outcome, At, Pass, Fail, Retry, Advance, position
  <1>3. CASE EncryptStatus
    <2>1. Outcome("encryptStatus") /\ UNCHANGED <<disk, loaded>>
      BY <1>3 DEF EncryptStatus, Outcome
    <2>2. Confirmed
      BY <2>1, EncryptCalls DEF Outcome, Confirmed
    <2>3. QED
      BY <1>1, <1>2, <2>1, <2>2
  <1>4. CASE Encrypt
    <2>1. Outcome("encrypt") /\ UNCHANGED loaded
      BY <1>4 DEF Encrypt, Outcome
    <2>2. loop % 4 = 1 /\ node = cp /\ step = 2 /\ Len(Current.ops) = 2 /\ Current.by = 1
      BY <2>1, EncryptCalls DEF Outcome
    <2>3. HashesMatch
      BY <1>0, <1>2, <2>1, <2>2 DEF Confirmed
    <2>4. Lag'
      <3>1. ASSUME NEW t \in Servers
            PROVE  disk'[t] \in {disk[t], disk[t] + 1} /\ loaded[t] = disk[t] /\ disk[t] \in Nat
        BY <1>0, <1>4, <2>3 DEF Encrypt, NewKeys, HashesMatch
      <3>2. QED
        BY <1>0, <2>1, <3>1 DEF Lag
    <2>5. CASE Pass
      <3>1. node' = cp + 1
        BY <2>2, <2>5 DEF Pass, Advance
      <3>2. ~Confirmed'
        BY <1>0, <1>2, <2>1, <2>2, <3>1 DEF Confirmed, Inputs, Servers
      <3>3. QED
        BY <2>4, <3>2
    <2>6. CASE Fail
      BY <1>2, <2>1, <2>4, <2>6
    <2>7. QED
      BY <1>4, <2>5, <2>6 DEF Encrypt
  <1>5. CASE Restart
    <2>1. Outcome("restart")
      BY <1>5 DEF Restart, Outcome
    <2>2. loop % 4 = 2
      BY <2>1, EncryptCalls DEF Outcome
    <2>3. ~Confirmed'
      BY <1>2, <2>1, <2>2 DEF Confirmed
    <2>4. \A t \in Servers : disk'[t] = disk[t] /\ loaded'[t] \in {loaded[t], disk[t]}
      BY <1>0, <1>5 DEF Restart, SetUnit, Either
    <2>5. QED
      BY <1>1, <2>3, <2>4
  <1>6. CASE WaitForHashMatch
    <2>1. At("waitForHashMatch") /\ UNCHANGED <<disk, loaded>> /\ statusOut' \in {TRUE, FALSE}
      BY <1>6 DEF WaitForHashMatch, HashesMatch
    <2>2. loop % 4 = 3 /\ node = cp /\ step = 1 /\ Len(Current.ops) = 2
      BY <2>1, EncryptCalls
    <2>3. loop' = loop /\ node' = cp
      BY <1>6, <2>2 DEF WaitForHashMatch, Advance, position
    <2>4. Confirmed' => statusOut' = TRUE
      BY <1>0, <2>1, <2>2, <2>3 DEF Confirmed, Inputs, Servers
    <2>5. statusOut' = TRUE => HashesMatch
      BY <1>6 DEF WaitForHashMatch
    <2>6. QED
      BY <1>1, <2>1, <2>4, <2>5
  <1>7. CASE VerifyStatus
    <2>1. Outcome("verifyStatus") /\ UNCHANGED <<disk, loaded>>
      BY <1>7 DEF VerifyStatus, Outcome
    <2>2. loop % 4 = 3 /\ step = 2
      BY <2>1, EncryptCalls DEF Outcome
    <2>3. CASE statusOut
      BY <1>1, <1>2, <2>1, <2>2, <2>3 DEF Confirmed
    <2>4. CASE ~statusOut
      BY <1>1, <1>2, <1>7, <2>1, <2>4 DEF VerifyStatus
    <2>5. QED
      BY <2>3, <2>4
  <1>8. CASE Check
    <2>1. Outcome("check") /\ UNCHANGED <<disk, loaded>>
      BY <1>8 DEF Check, Outcome
    <2>2. Confirmed
      BY <2>1, EncryptCalls DEF Outcome, Confirmed
    <2>3. QED
      BY <1>1, <1>2, <2>1, <2>2
  <1>9. CASE \/ Stop \/ Start \/ Status \/ Rotate \/ Install \/ Reboot \/ RunKillall \/ ApiDown
             \/ StoppedStatus \/ Reset \/ DeleteDb
    <2>1. PICK op \in {"stop", "start", "status", "rotate", "install", "reboot", "killall",
                       "apiDown", "stoppedStatus", "reset", "deleteDb"} : At(op)
      BY <1>9 DEF Stop, Start, Status, Rotate, Install, Reboot, RunKillall, ApiDown, StoppedStatus,
                  Reset, DeleteDb
    <2>2. QED
      BY <2>1, EncryptCalls
  <1>10. CASE NextLoop
    <2>1. /\ loop' = loop + 1 /\ step' = 1 /\ UNCHANGED <<verdict, disk, loaded>>
          /\ verdict = "running" /\ ~Beyond /\ Exhausted
      BY <1>10 DEF NextLoop
    <2>2. loop \in 1..Len(Script) /\ Len(Script) \in {4, 12, 16}
      BY <1>0, <2>1, EncryptLoops DEF OpsInv, DriverOK, Beyond
    <2>3. loop % 4 = 3 => Confirmed
      <3>1. SUFFICES ASSUME loop % 4 = 3 PROVE node > cp
        BY DEF Confirmed
      <3>2. Current = Loop(cp, cp, <<"waitForHashMatch", "verifyStatus">>)
        BY <1>0, <2>2, <3>1, EncryptLoops DEF Current
      <3>3. Current.by = 1 /\ Current.last = cp
        BY <3>2 DEF Loop
      <3>4. QED
        BY <2>1, <3>3 DEF Exhausted
    <2>4. loop % 4 = 2 => ~Confirmed'
      <3>1. SUFFICES ASSUME loop % 4 = 2 PROVE ~Confirmed'
        OBVIOUS
      <3>2. loop + 1 \in 1..Len(Script) /\ (loop + 1) % 4 = 3
        <4>1. loop \in Nat /\ Len(Script) \in Nat /\ 1 <= loop /\ loop <= Len(Script)
          BY <2>2
        <4>2. Len(Script) % 4 = 0
          <5>1. 4 % 4 = 0 /\ 12 % 4 = 0 /\ 16 % 4 = 0
            OBVIOUS
          <5>2. QED
            BY <2>2, <5>1
        <4>3. loop # Len(Script)
          BY <3>1, <4>2
        <4>4. (loop + 1) % 4 = 3
          BY <3>1, <4>1
        <4>5. QED
          BY <4>1, <4>3, <4>4
      <3>3. Script[loop + 1] = Loop(cp, cp, <<"waitForHashMatch", "verifyStatus">>)
        BY <1>0, <3>2, EncryptLoops
      <3>4. loop < Len(Script)
        BY <2>2, <3>2
      <3>5. node' = cp
        BY <1>10, <3>3, <3>4 DEF NextLoop, Loop
      <3>6. QED
        BY <1>0, <2>1, <3>2, <3>5 DEF Confirmed, Inputs, Servers
    <2>5. loop % 4 = 1 => ~Confirmed'
      <3>1. SUFFICES ASSUME loop % 4 = 1 PROVE ~Confirmed'
        OBVIOUS
      <3>2. (loop + 1) % 4 = 2
        BY <2>2, <3>1
      <3>3. QED
        BY <2>1, <3>2 DEF Confirmed
    <2>6. loop % 4 = 0 => Confirmed
      BY DEF Confirmed
    <2>7. loop % 4 = 0 \/ loop % 4 = 1 \/ loop % 4 = 2 \/ loop % 4 = 3
      BY <2>2
    <2>8. QED
      BY <1>1, <2>1, <2>3, <2>4, <2>5, <2>6, <2>7
  <1>11. CASE Finish \/ Stopped \/ UNCHANGED vars
    <2>1. /\ UNCHANGED <<disk, loaded, statusOut>> /\ UNCHANGED position
          /\ verdict' = verdict \/ verdict' = "passed"
      BY <1>11 DEF Finish, Stopped, vars, driver
    <2>2. Confirmed' = Confirmed /\ Beyond' = Beyond
      BY <1>0, <2>1 DEF Confirmed, Beyond, position
    <2>3. QED
      BY <1>1, <2>1, <2>2
  <1>12. ASSUME NEW s \in Nodes, Exits(s) \/ Ready(s) \/ LateReboot(s)
         PROVE  Lag' /\ (verdict' = "running" /\ ~Beyond' /\ Confirmed' => HashesMatch')
    <2>1. /\ UNCHANGED <<position, verdict, statusOut, disk>>
          /\ \A t \in Servers : disk'[t] = disk[t] /\ loaded'[t] \in {loaded[t], disk[t]}
      BY <1>0, <1>12 DEF Exits, Ready, LateReboot, Boots, SetUnit, driver
    <2>2. Confirmed' = Confirmed /\ Beyond' = Beyond
      BY <1>0, <2>1 DEF Confirmed, Beyond, position
    <2>3. QED
      BY <1>1, <2>1, <2>2
  <1>13. QED
    BY <1>3, <1>4, <1>5, <1>6, <1>7, <1>8, <1>9, <1>10, <1>11, <1>12 DEF Next

\* No server is ever two rotations of the keys behind, in any of the three rounds.
THEOREM KeysAreTogether == Spec => []KeysStayTogether
  <1>1. Init => KeysInv
    BY DEF Init, KeysInv, Lag, HashesMatch, Nodes
  <1>2. Spec => []KeysInv
    BY <1>1, KeysStep, OpsAlways, PTL DEF Spec
  <1>3. KeysInv => KeysStayTogether
    BY DEF KeysInv, Lag, KeysStayTogether
  <1>4. QED
    BY <1>2, <1>3, PTL
=============================================================================
