------------------------------ MODULE ServerOps ------------------------------
(***************************************************************************)
(* The tests that operate the k3s or rke2 service of every node of a       *)
(* cluster: certificate rotation, cluster reset, secrets encryption,       *)
(* service restart and manual upgrade (pkg/testcase), and the              *)
(* ManageService (shared/manageservice.go) they go through.                *)
(*                                                                         *)
(* Each test is a script, the loops over nodes it goes through and the     *)
(* remote calls it makes on each node.                                     *)
(* ManageService passes --no-block to systemctl: a call returns when the   *)
(* job is queued, and the service stops and starts while the test goes on. *)
(* A reboot of an instance is queued, too.                                 *)
(***************************************************************************)
EXTENDS Integers, FiniteSets, Sequences

CONSTANTS
    Tests,         \* the tests to run
    Products,      \* subset of {"k3s", "rke2"}
    ServerCounts,  \* numbers of servers
    AgentCounts,   \* numbers of agents
    MaxRetries,    \* MaxRetries of NewManageService
    HashPolls,     \* times waitForHashMatch asks
    MaxFaults      \* bound: calls that fail for a reason of their own

ASSUME ServerOpsConstants ==
    /\ Tests \subseteq {"certRotate", "clusterReset", "classic", "rotateKeys", "both",
                        "restartService", "upgrade", "upgradeSlemicro"}
    /\ Products \subseteq {"k3s", "rke2"}
    /\ ServerCounts \subseteq Nat \ {0} /\ AgentCounts \subseteq Nat
    /\ MaxRetries \in Nat \ {0} /\ HashPolls \in Nat \ {0} /\ MaxFaults \in Nat

VARIABLES
    test, product, n, m,  \* the test, and the cluster it runs on
    cp,         \* the server of secrets-encrypt, the last one that kubectl lists
    loop, node, step,  \* position in the script: the loop, the node and the call
    tries,      \* failed attempts of the current call
    statusOut,  \* did the last secrets-encrypt status say that all hashes match?
    verdict,    \* "running", "passed" or "failed"
    unit,       \* the systemd unit of each node
    disk,       \* version of the certificates, keys or binary on each node
    loaded,     \* version the process of each node has started with
    db,         \* the etcd data of each server: "old", "reset" or "deleted"
    reboot,     \* a reboot that the test no longer waits for: "no", "queued" or "begun"
    faults      \* faults so far

inputs == <<test, product, n, m, cp>>
position == <<loop, node, step>>
driver == <<position, tries, statusOut, verdict>>
vars == <<inputs, driver, unit, disk, loaded, db, reboot, faults>>

Servers == 1..n
Agents  == n + 1..n + m
Nodes   == Servers \cup Agents
UnitStates == {"active", "stopping", "restarting", "inactive", "starting"}

-----------------------------------------------------------------------------
(* The scripts *)

\* For each node from first to last, upwards or downwards, the calls ops; on one node.
Loop(first, last, ops) == [first |-> first, last |-> last, by |-> 1, ops |-> ops]
Down(first, last, ops) == [first |-> first, last |-> last, by |-> -1, ops |-> ops]
On(s, ops) == Loop(s, s, ops)

\* mutant: the certificates are rotated while the service runs
CertRotateNoStop ==
    << Loop(1, n, <<"rotate", "start", "status">>), Loop(n + 1, n + m, <<"restart", "status">>) >>

\* TestCertRotate and verifyTLSDirContent.
CertRotate ==
    << Loop(1, n, <<"stop", "rotate", "start", "status">>),
       Loop(n + 1, n + m, <<"restart", "status">>),
       Loop(1, n, <<"check">>) >>

\* killall: the secondary servers from the last one on, or the only server.
Killall == IF n > 1 THEN Down(n, 2, <<"killall">>) ELSE On(1, <<"killall">>)

\* mutant: the data directories are deleted after the restart
ClusterResetLateDelete ==
    << Killall, On(1, <<"apiDown", "stop", "stoppedStatus", "reset">>),
       Loop(1, n, <<"restart">>), Down(n, 2, <<"deleteDb">>) >>

\* TestClusterReset: the data directories of every server but the first are deleted.
ClusterReset ==
    << Killall, On(1, <<"apiDown", "stop", "stoppedStatus", "reset">>),
       Down(n, 2, <<"deleteDb">>), Loop(1, n, <<"restart">>) >>

\* secretsEncryptOps: the action goes to server cp, the restarts begin with the first.
EncryptRound ==
    << On(cp, <<"encryptStatus", "encrypt">>), Loop(1, n, <<"restart">>),
       On(cp, <<"waitForHashMatch", "verifyStatus">>), Loop(1, n, <<"check">>) >>

\* performSecretsEncryption: prepare, rotate, reencrypt; rotate-keys; or all four.
Rounds == [classic |-> 3, rotateKeys |-> 1, both |-> 4]
SecretsEncryption == [i \in 1..4 * Rounds[test] |-> EncryptRound[1 + ((i - 1) % 4)]]

\* TestRestartService: the servers and then the agents.
RestartService == << Loop(1, n + m, <<"restart">>) >>

\* upgradeProduct, on one node after the other, and CheckClusterHealth.
UpgradeOps ==
    CASE test = "upgrade" /\ product = "k3s"  -> <<"install", "status">>
      [] test = "upgrade" /\ product = "rke2" -> <<"install", "restart", "status">>
      [] test # "upgrade" /\ product = "k3s"  -> <<"install", "reboot", "stop", "start", "status">>
      [] test # "upgrade" /\ product = "rke2" -> <<"install", "reboot", "restart", "status">>

Upgrade == << Loop(1, n + m, UpgradeOps), On(1, <<"check">>) >>

Encrypts == test \in {"classic", "rotateKeys", "both"}
Upgrades == test \in {"upgrade", "upgradeSlemicro"}

Script ==
    CASE test = "certRotate"     -> CertRotate
      [] test = "clusterReset"   -> ClusterReset
      [] Encrypts                -> SecretsEncryption
      [] test = "restartService" -> RestartService
      [] Upgrades                -> Upgrade

Beyond  == loop > Len(Script)
Current == Script[loop]

\* No node of the current loop is left.
Exhausted == IF Current.by = 1 THEN node > Current.last ELSE node < Current.last

At(op) == verdict = "running" /\ ~Beyond /\ ~Exhausted /\ Current.ops[step] = op

Init ==
    /\ test \in Tests /\ product \in Products
    /\ n \in ServerCounts /\ m \in AgentCounts
    /\ cp \in Servers /\ (Encrypts \/ cp = 1)
    /\ loop = 1 /\ node = Current.first /\ step = 1
    /\ tries = 0 /\ statusOut = FALSE /\ verdict = "running"
    /\ unit = [s \in Nodes |-> "active"]
    /\ disk = [s \in Nodes |-> 0]
    /\ loaded = [s \in Nodes |-> 0]
    /\ db = [s \in Nodes |-> "old"]
    /\ reboot = [s \in Nodes |-> "no"]
    /\ faults = 0

-----------------------------------------------------------------------------
(* The outcome of a call, for the test *)

\* The next call on the node, or the first one on the next node.
Advance == /\ tries' = 0
           /\ IF step < Len(Current.ops)
              THEN step' = step + 1 /\ UNCHANGED node
              ELSE step' = 1 /\ node' = node + Current.by
           /\ UNCHANGED loop

Pass  == /\ Advance
         /\ UNCHANGED <<inputs, statusOut, verdict>>
Fail  == /\ verdict' = "failed"
         /\ UNCHANGED <<inputs, position, tries, statusOut>>

\* mutant: zero attempts, which retry-go takes for no limit
RetryForever == /\ tries' = tries + 1
                /\ UNCHANGED <<inputs, position, statusOut, verdict>>

Retry == /\ tries + 1 < MaxRetries /\ tries' = tries + 1
         /\ UNCHANGED <<inputs, position, statusOut, verdict>>

\* mutant: the last failure of a call that is retried is dropped
RetryOrPass == Retry \/ (tries + 1 >= MaxRetries /\ Pass)

\* execute, for all actions but start and restart: retried up to MaxRetries.
RetryOrFail == Retry \/ (tries + 1 >= MaxRetries /\ Fail)

NoFault == UNCHANGED faults
Fault   == faults < MaxFaults /\ faults' = faults + 1

\* The unit of s changes by f; a process that starts reads what is on the disk then.
SetUnit(s, u) ==
    /\ unit' = [unit EXCEPT ![s] = u]
    /\ loaded' = IF u = "starting" /\ unit[s] # "starting"
                 THEN [loaded EXCEPT ![s] = disk[s]] ELSE loaded

Stopping(u)   == IF u = "inactive" THEN u ELSE "stopping"
Starting(u)   == CASE u = "inactive" -> "starting"
                   [] u = "stopping" -> "restarting"
                   [] u \in {"active", "starting", "restarting"} -> u
Restarting(u) == IF u = "inactive" THEN "starting" ELSE "restarting"

\* A call that fails may have had its effect.
Either(s, u) == SetUnit(s, u) \/ UNCHANGED <<unit, loaded>>

-----------------------------------------------------------------------------
(* ManageService *)

Stop ==
    /\ At("stop")
    /\ \/ SetUnit(node, Stopping(unit[node])) /\ Pass /\ NoFault
       \/ Either(node, Stopping(unit[node])) /\ Fault /\ RetryOrFail
    /\ UNCHANGED <<disk, db, reboot>>

Start ==
    /\ At("start")
    /\ \/ SetUnit(node, Starting(unit[node])) /\ Pass /\ NoFault
       \/ Either(node, Starting(unit[node])) /\ Fault /\ Fail
    /\ UNCHANGED <<disk, db, reboot>>

\* RunCommandOnNode takes no error for one whose text contains "restart": systemctl
\* may have refused, and the call succeeds.
Restart ==
    /\ At("restart")
    /\ \/ SetUnit(node, Restarting(unit[node])) /\ Pass /\ NoFault
       \/ Either(node, Restarting(unit[node])) /\ Fault /\ Fail
       \/ UNCHANGED <<unit, loaded>> /\ Fault /\ Pass
    /\ UNCHANGED <<disk, db, reboot>>

\* systemctl status fails unless the unit is active.
Status ==
    /\ At("status")
    /\ \/ unit[node] = "active" /\ Pass /\ NoFault
       \/ unit[node] # "active" /\ RetryOrFail /\ NoFault
       \/ Fault /\ RetryOrFail
    /\ UNCHANGED <<unit, loaded, disk, db, reboot>>

\* CertRotate, and the install script: what is on the disk of the node is new.
NewVersion(s) == disk' = [disk EXCEPT ![s] = @ + 1]

Rotate ==
    /\ At("rotate")
    /\ \/ NewVersion(node) /\ Pass /\ NoFault
       \/ NewVersion(node) /\ Fault /\ Fail
       \/ UNCHANGED disk /\ Fault /\ Fail
    /\ UNCHANGED <<unit, loaded, db, reboot>>

-----------------------------------------------------------------------------
(* Upgrade *)

\* runUpgradeCommand.  The install script of k3s restarts the service itself, unless
\* INSTALL_K3S_SKIP_ENABLE, which GetInstallCmd may add on slemicro, tells it not to.
Install ==
    /\ At("install")
    /\ \/ NewVersion(node) /\ Pass /\ NoFault
       \/ NewVersion(node) /\ Fault /\ Fail
       \/ UNCHANGED disk /\ Fault /\ Fail
    /\ \/ /\ product = "k3s" /\ disk' # disk
          /\ unit' = [unit EXCEPT ![node] = "restarting"]
       \/ /\ product = "rke2" \/ disk' = disk \/ test = "upgradeSlemicro"
          /\ UNCHANGED unit
    /\ UNCHANGED <<loaded, db, reboot>>

\* The service starts with the machine.
Boots(s) ==
    /\ unit' = [unit EXCEPT ![s] = "starting"]
    /\ loaded' = [loaded EXCEPT ![s] = disk[s]]

\* rebootNodeAndWait: EC2 queues the reboot, and the two waits may see the instance as it
\* was before.
Reboot ==
    /\ At("reboot")
    /\ \/ Boots(node) /\ UNCHANGED reboot
       \/ reboot' = [reboot EXCEPT ![node] = "queued"] /\ UNCHANGED <<unit, loaded>>
    /\ (Pass /\ NoFault) \/ (Fault /\ Fail)
    /\ UNCHANGED <<disk, db>>

\* The reboot begins while the test goes on (external).
LateReboot(s) ==
    /\ reboot[s] = "queued"
    /\ reboot' = [reboot EXCEPT ![s] = "begun"]
    /\ Boots(s)
    /\ UNCHANGED <<inputs, driver, disk, db, faults>>

-----------------------------------------------------------------------------
(* Cluster reset *)

RunKillall ==
    /\ At("killall")
    /\ \/ SetUnit(node, "inactive") /\ Pass /\ NoFault
       \/ Either(node, "inactive") /\ Fault /\ Fail
    /\ UNCHANGED <<disk, db, reboot>>

\* The API of the first server answers while a majority of the servers runs.
ApiAnswers ==
    /\ unit[1] = "active"
    /\ 2 * Cardinality({s \in Servers : unit[s] = "active"}) > n

ApiDown ==
    /\ At("apiDown")
    /\ \/ ~ApiAnswers /\ Pass /\ NoFault
       \/ ApiAnswers /\ Fail /\ NoFault
       \/ Fault /\ Fail
    /\ UNCHANGED <<unit, loaded, disk, db, reboot>>

\* stopServer expects the status of unit <product>-server to fail.  k3s has no such unit.
StoppedStatus ==
    /\ At("stoppedStatus")
    /\ \/ (product = "k3s" \/ unit[node] # "active") /\ Pass /\ NoFault
       \/ (product = "rke2" /\ unit[node] = "active") /\ Fail /\ NoFault
       \/ Fault /\ Pass
    /\ UNCHANGED <<unit, loaded, disk, db, reboot>>

SetDb(d) == db' = [db EXCEPT ![node] = d]

Reset ==
    /\ At("reset")
    /\ \/ SetDb("reset") /\ Pass /\ NoFault
       \/ (SetDb("reset") \/ UNCHANGED db) /\ Fault /\ Fail
    /\ UNCHANGED <<unit, loaded, disk, reboot>>

DeleteDb ==
    /\ At("deleteDb")
    /\ \/ SetDb("deleted") /\ Pass /\ NoFault
       \/ (SetDb("deleted") \/ UNCHANGED db) /\ Fault /\ Fail
    /\ UNCHANGED <<unit, loaded, disk, reboot>>

-----------------------------------------------------------------------------
(* Secrets encryption *)

EncryptStatus ==
    /\ At("encryptStatus")
    /\ \/ unit[node] = "active" /\ Pass /\ NoFault
       \/ unit[node] # "active" /\ Fail /\ NoFault
       \/ Fault /\ Fail
    /\ UNCHANGED <<unit, loaded, disk, db, reboot>>

\* prepare, rotate, reencrypt and rotate-keys change the keys all servers will start with.
NewKeys == disk' = [s \in Nodes |-> IF s \in Servers THEN disk[s] + 1 ELSE disk[s]]

Encrypt ==
    /\ At("encrypt")
    /\ \/ unit[node] = "active" /\ NewKeys /\ Pass /\ NoFault
       \/ unit[node] # "active" /\ UNCHANGED disk /\ Fail /\ NoFault
       \/ (NewKeys \/ UNCHANGED disk) /\ Fault /\ Fail
    /\ UNCHANGED <<unit, loaded, db, reboot>>

HashesMatch == \A s \in Servers : loaded[s] = disk[s]

\* One poll of waitForHashMatch.  After the last one it returns the output and the error
\* it has, and no output that matches is not an error.
WaitForHashMatch ==
    /\ At("waitForHashMatch")
    /\ \E answers \in {unit[node] = "active", FALSE} :
          LET matches == answers /\ HashesMatch
          IN  /\ IF answers = (unit[node] = "active") THEN NoFault ELSE Fault
              /\ statusOut' = matches
              /\ \/ matches /\ Advance /\ UNCHANGED verdict
                 \/ /\ ~matches /\ tries + 1 < HashPolls
                    /\ tries' = tries + 1 /\ UNCHANGED <<position, verdict>>
                 \/ ~matches /\ tries + 1 >= HashPolls /\ answers /\ Advance /\ UNCHANGED verdict
                 \/ /\ ~matches /\ tries + 1 >= HashPolls /\ ~answers
                    /\ verdict' = "failed" /\ UNCHANGED <<position, tries>>
    /\ UNCHANGED <<inputs, unit, loaded, disk, db, reboot>>

\* mutant: the status is printed and not checked
VerifyStatusLogs ==
    /\ At("verifyStatus")
    /\ Pass
    /\ UNCHANGED <<unit, loaded, disk, db, reboot, faults>>

\* verifyStatusStdOut expects that all hashes match.
VerifyStatus ==
    /\ At("verifyStatus")
    /\ IF statusOut THEN Pass ELSE Fail
    /\ UNCHANGED <<unit, loaded, disk, db, reboot, faults>>

-----------------------------------------------------------------------------
\* A check that reads the cluster and changes nothing.
Check ==
    /\ At("check")
    /\ (Pass /\ NoFault) \/ (Fault /\ Fail)
    /\ UNCHANGED <<unit, loaded, disk, db, reboot>>

\* The test goes on to its next loop, which may have no node.
NextLoop ==
    /\ verdict = "running" /\ ~Beyond /\ Exhausted
    /\ loop' = loop + 1
    /\ node' = IF loop < Len(Script) THEN Script[loop + 1].first ELSE 1
    /\ step' = 1
    /\ UNCHANGED <<inputs, tries, statusOut, verdict, unit, loaded, disk, db, reboot, faults>>

Finish ==
    /\ verdict = "running" /\ Beyond
    /\ verdict' = "passed"
    /\ UNCHANGED <<inputs, position, tries, statusOut, unit, loaded, disk, db, reboot, faults>>

Stopped == verdict # "running" /\ UNCHANGED vars

\* systemd (external): the process of a unit that stops exits, one that starts is ready.
Exits(s) ==
    /\ unit[s] \in {"stopping", "restarting"}
    /\ SetUnit(s, IF unit[s] = "stopping" THEN "inactive" ELSE "starting")
    /\ UNCHANGED <<inputs, driver, disk, db, reboot, faults>>

Ready(s) ==
    /\ unit[s] = "starting"
    /\ SetUnit(s, "active")
    /\ reboot' = [reboot EXCEPT ![s] = IF @ = "begun" THEN "no" ELSE @]
    /\ UNCHANGED <<inputs, driver, disk, db, faults>>

Next ==
    \/ Stop \/ Start \/ Restart \/ Status \/ Rotate
    \/ Install \/ Reboot
    \/ RunKillall \/ ApiDown \/ StoppedStatus \/ Reset \/ DeleteDb
    \/ EncryptStatus \/ Encrypt \/ WaitForHashMatch \/ VerifyStatus
    \/ Check \/ NextLoop \/ Finish \/ Stopped
    \/ \E s \in Nodes : Exits(s) \/ Ready(s) \/ LateReboot(s)

Spec == Init /\ [][Next]_vars

-----------------------------------------------------------------------------
(* Properties *)

TypeOK ==
    /\ test \in Tests /\ product \in Products /\ n \in ServerCounts /\ m \in AgentCounts
    /\ cp \in Servers
    /\ loop \in 1..Len(Script) + 1
    /\ ~Beyond => node \in 0..n + m + 1 /\ step \in DOMAIN Current.ops
    /\ tries \in 0..(IF ~Beyond /\ Current.ops[step] = "waitForHashMatch"
                     THEN HashPolls ELSE MaxRetries) - 1
    /\ statusOut \in BOOLEAN
    /\ verdict \in {"running", "passed", "failed"}
    /\ unit \in [Nodes -> UnitStates]
    /\ disk \in [Nodes -> Nat] /\ loaded \in [Nodes -> Nat]
    /\ db \in [Nodes -> {"old", "reset", "deleted"}]
    /\ reboot \in [Nodes -> {"no", "queued", "begun"}]
    /\ faults \in 0..MaxFaults

\* Certificate rotation and manual upgrade take one server down at a time: the next node
\* is not touched before the status of the last one was active, late and failed calls included.
\* A reboot that EC2 begins later than the test waits for it takes its server down besides.
OneServerDown ==
    test = "certRotate" \/ Upgrades =>
        Cardinality({s \in Servers : unit[s] # "active" /\ reboot[s] # "begun"}) <= 1

\* A certificate rotation that passes leaves no server running on the certificates it had
\* before, although stop and start are only queued and rotate does not wait for them.
RotatedIsServed ==
    test = "certRotate" /\ verdict = "passed" =>
        \A s \in Servers : unit[s] = "active" /\ loaded[s] = 1

\* After a cluster reset no other server comes back with the data of the old cluster.
NoOldDataServes ==
    \A s \in Servers \ {1} :
        db[1] = "reset" /\ unit[s] \in {"starting", "active"} => db[s] = "deleted"

\* A server is never two rotations of the keys behind: the next action is not run before
\* every server has started with the keys of the last one, although waitForHashMatch ends
\* without an error when the hashes never match.
KeysStayTogether ==
    Encrypts =>
        \A s \in Servers : disk[s] <= loaded[s] + 1
=============================================================================
