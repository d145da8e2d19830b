# Specifications of distros-test-framework

TLA+ models of the parts of the framework that are hard to test: what runs
concurrently, what is retried, what is done to a cluster that keeps moving while
a test goes on. TLC checks each model on small instances (`*.cfg`), TLAPS proves
the results listed under [Proofs](#proofs) for every value of the constants.

```
tlc -workers 2 -config NodeWatch.cfg MCNodeWatch     # one run
tlapm RemoteProofs.tla                               # the proofs of one module
```

## Inventory

Paths are relative to the repository. The properties are those that make the
component correct; the ones in code font are defined in the modules.

| Component | State it keeps | Operations | What is hard | Properties |
|---|---|---|---|---|
| Rerun poller, `cmd/rerunpoller/main.go` | poller lock file, copy of `.rerun-state.json`, child process | acquire and release the lock, detect running tests, load, scan the Slack replies, save, execute | separate processes, crashes, `os.Exit` past a `defer`, stale locks | `PollerExclusion`, `RerunAtMostOnce`, `ServiceSpec`, `RequestsAreProcessed` |
| Slack report, `pkg/qase/slack.go` | the same state file; the message | post, save state, update failed tests | read-modify-write of a file the poller writes too, one shared `.tmp` | `ProcessedNeverGoesBack`, `FailureReachesSlack` |
| Qase report, `cmd/qase`, `pkg/qase` | tests and suites of a log, unclosed JSON, the run on Qase | read the log twice, extract, record, create run, post, complete, exit code | text carried over between tests and readings, suites cut off, calls that fail one by one, dry runs | `FailureReachesQase`, `CountsMatchTests`, `SuccessIsReported` |
| Node replacement, `pkg/testcase/upgradenodereplacement.go`, `pkg/aws/ec2.go`, `shared/kubeconfig.go` | instances, members of the cluster, kubeconfig | create, join, delete, terminate, rewrite the kubeconfig, validate | every remote call may fail, nodes leave later than the driver waits, order of deletions, indexes into lists of addresses | `MembersRun`, `AtMostOneServerShort`, `ReplacedWhenDone`, `KubectlReachesServer` |
| Parallel preparation, `pkg/aws/ec2.go`, `testcase/support/{ipv6only,airgap,airgapwindows,aws}.go`, `scpToNewNodes` | wait group, error and result channels | spawn, call, send, close, drain, collect | return at the first error while others go on, channels closed by several goroutines, calls without a timeout, an AWS client that is nil | `PrepareSpec`, `ResultsComplete`, `EveryoneEnds` |
| Reboot of instances, `rebootinstances.go` | instances | stop, wait, start, wait, node after node | one goroutine per node, failures that are only noted | `DownIsRebootedOrFailed` |
| Node health gate, `pkg/k8s/node.go`, `k8s.go` | map of readiness, count, threshold | health check, list, watch, count | the cluster changes between list and watch and under the watch | `OkNodesWereReady`, `PassesWhenReady` |
| SSH pool, `shared/ssh.go`, `shared/aux.go` | map from host to connection | find, check, close, remove, dial, store, run | goroutines share connections, check-then-act under a mutex that covers single accesses, session limit of the server | `PoolServes`, `CommandsAreNotCut` |
| SSH retry, `shared/ssh.go` | attempt, ticker, deadline | run, wait, reset, give up | ticker and deadline race the command | `RetriesAreTimed` |
| Service operations, `shared/manageservice.go`, `shared/product.go`, `certrotate.go`, `clusterreset.go`, `secretsencrypt.go`, `upgrademanual.go`, `restartservice.go` | position of the test; systemd units, certificates, keys, etcd data of the nodes | stop, start, restart, status, rotate, encrypt, install, reboot, killall, reset | `systemctl --no-block`, reboots that EC2 queues, retries, polls that give up without an error | `OneServerDown`, `RotatedIsServed`, `NoOldDataServes`, `KeysStayTogether` |
| Cluster restore, `clusterrestore.go` | snapshots in the directory and in S3, instances, the restored API, kubeconfig | snapshot, list, stop instances, new instance, restore, start, delete old nodes, health | a long script of remote calls; etcd takes snapshots of its own; the restored API still has the old nodes, and deletes them in its own time | `DataIsKept`, `OneClusterServes`, `GateSeesNewServer` |
| Version bump template, `pkg/template`, `pkg/assert/validate.go` | rows of commands, expected values, addresses, polls | run the rows, poll, test cases, upgrade, run again | values updated through a shared slice, addresses overwritten, components that roll out late | `PassedWasChecked` |
| SUC upgrade, Kubernetes client, cluster configuration, flags, logging, S3, suites, remaining test cases and assertions, terraform modules and scripts | - | - | parsing, plain remote commands and expectations, declarative files | left out |

How they interact: the suites call the test cases in order, in one process. All
test cases reach the nodes through `RunCommandOnNode`, hence the SSH pool; the
service tests go through `ManageService`; upgrades and restores end with the health gate.
The poller and the report are processes of their own, which share files
with the test run and with each other.

`PROJECT.json` lists every hazard with its line, under `hazards`.

## Modules

Each component is one module; `MC<module>` gives the constants of a run values
(and the symmetry sets, where the run has them), `<module>Proofs` holds its theorems;
`RemoteProofs` holds those of the three small modules about remote calls, `SshPool`, `SshRetry`
and `NodeWatch`, which therefore share no names.

**RerunPoller, RerunService.** Pollers and test runs are processes. `pc` is where a poller
is; every access of a shared file is a step (`ReadLock`, `RemoveStaleLock`,
`WriteLock`, `ReadTestLock`, `RemoveStaleTestLock`, `LoadState`, `SaveTmp`,
`SaveRename`), so that processes interleave as the kernel lets them.
`isTestsRunning` is called twice and its steps carry the number of the call: the first
call ends in a `return`, which releases the lock (`Return`), the second one in
`os.Exit`, which does not (`Exit`). `Crash` ends a poller anywhere and leaves
its child. A run reports with the steps of `postSlackResults`. `run_tests.sh` is
not in the repository: it may or may not write the test lock. Requests for
named tests differ from `rerun: failed` in what is run only, so `failed` is the
one that is modelled; it is the one that reads `failed_tests`. `RerunService` is the
abstract specification: members ask, a rerun begins and ends, one at a time, and never for a
reply that is not newer than those served in its thread. `RerunPoller` implements it
(`ServiceSpec`): `Asked` are the replies of members, `Reruns` the runs that serve a request,
`Running` those of them that have not ended. A dry run of Slack posts and saves nothing
(`slack.go:127-137`), so it is none of the reports here; QaseReport has it.

**NodeReplacement.** One driver; `pc` and `k` are the next remote call and the
server or agent it is about. `members`, `instances` and `kubeconfig` are the world.
Every call may fail on its own (`Fault`), with or without its effect, or must fail since
what it needs is gone (`Refused`). A join may pass without a node that has
joined, which is what `executeJoinCmd` lets through. `DeleteNode` runs
`kubectl delete node --wait=false` and sleeps: it moves the node to `leaving`, and the node
leaves some time after (`NodeLeaves`), perhaps after its instance has been terminated. A
server counts for the majority of the datastore (`Voters`, `Quorum`) until it has left;
without a majority nothing answers and nothing leaves. `fault` notes that a call has failed
on its own or a node was late. Assumed: a node that has left does not register again.

**FanOut, PrepareNodes.** `FanOut` is the operations that run one goroutine per
node. `kind` picks the operation: `Calls` is what its goroutine does for a node,
`ShapeOf` how it synchronises. `Main` is the calling goroutine (`Spawn`, `Wait`,
`DrainErrors`, `CollectResults`, ...), `Closer` the one that waits for the group
and closes the channels, `Worker(n)` the one of a node; a send on a full channel
blocks, a send on a closed one and a second close panic. `Hang(n)` is a call that never ends:
neither the dial nor `session.Run` nor `scp` has a timeout. `delete_nil` is `DeleteEC2Nodes`
after `AddClient` has failed, whose goroutines panic on the nil client (`NilClient`). `PrepareNodes` is the abstract
specification: what the callers rely on, without any goroutine. `FanOut` implements it
under `prepared <- {n \in Nodes : Complete(n)}` (`PrepareSpec`); `NodeReplacement` uses
`CreateInstances` and `scpToNewNodes` as single steps with that outcome.

**NodeWatch.** `Health`, `List`, `Watch`, `Receive` and `GiveUp` are the
steps of the gate, `Change` is the cluster. The channel of the watch is a
sequence: opening it enqueues an ADDED event for each node (a watch without resource
version), changes append. `everReady` is a history variable.

**SshPool.** Goroutines that run commands on one host (entries of different hosts
do not interact). The steps are the accesses of the map under the mutex, the
session on the connection, `Close` and the dial. `NewSession` fails when
`MaxSessions` sessions are open, as sshd's does.

**SshRetry.** Time is counted from the call. A command takes any duration, then
ticker and deadline race. `Reset` is that of go 1.23 (the version of `go.mod`):
it drops a pending tick; the mutant `ResetKeepsTick` is the one before.

**ServerOps.** A test is a script: a sequence of loops, each of which makes the same remote
calls on node after node, upwards or downwards, for n servers and m agents (`CertRotate`,
`ClusterReset`, `SecretsEncryption`, `Upgrade`, restarts). `loop`, `node` and `step` are the
position in it, `Advance` is the next call. One action per kind of call; `Pass`, `Retry` and `Fail` are what
`execute` makes of its outcome. systemd is `Exits` and `Ready`: a stop or a start only
changes the unit to `stopping`, `restarting` or `starting`, since the commands pass
`--no-block`. `loaded` is the version of the certificates or keys a process has
started with, `disk` the one on the node. A reboot is one that the test waits for or one that
EC2 begins later (`LateReboot`), since the status checks may still be those from before. That a queued job is visible to a
`status` issued after the command has returned is assumed. `EncryptStatus` and
`Encrypt` go to `cp`, the last server that kubectl lists, which may be any; the restarts
begin with the first. `WaitForPodsRunning` waits for nothing (its delay is in nanoseconds)
and has no step; its outcome, false when there are no pods, is only logged.

**ClusterRestore.** `Steps` is the script of `TestClusterRestore`, one action per kind of
step, each of which may fail and so end the test. Beside it run EC2 (`InstanceStops`), etcd's
schedule (`ScheduledSnapshot`), systemd (`ServiceStarts`) and the restored API
(`NodeChanges`, `NodeGone`), which has the nodes of the snapshot as ready as they were and
deletes them some time after it was asked to. `TakeSnapshot` may pass without an upload: the
test sees the outcome of the command only. What `ls` prints is the set of the snapshots in
the directory; a path of several names may fail the restore or restore any one of them.
Assumed of `etcd-snapshot`: a save that succeeds has written its file to the
directory, and a restore is from a snapshot of the bucket that its arguments name.

**QaseReport.** First the environment writes the log (`WriteOutput`, `WriteCompletion`,
`WritePackage`): suites complete, time out or are never built, the log may end anywhere. Then
`cmd/qase` reads it row by row (`OutputRow`, `CompletionRow`, `PackageRow`), once for
Qase (`CreateRun`, `Bulk`, `Complete`) and once for Slack (`Post`, `Details`, the saved
state). The text of a row is one of seven kinds: a whole result, the head of one, a
brace that opens or closes, anything else. `remainingData` is the number of open braces
and whether the block began as a result. Suites of one Qase case share its result
(`BulkResults`). `Connect` picks `dryRun`: then no call can fail, nothing is
sent or saved, and a log that can be read is a report that succeeds.

**VersionBump.** The loops of `processTestCombination` and `processCmds` are `row`, `left`
and `cmd`; `retry` counts the polls of `runAssertion`. `Roll` is a component that
reaches the new version in its own time. Not every node has an address of type ExternalIP
(`external`) or the label `role-etcd` (`labelled`): `Listed` and `Labelled` are what kubectl
prints. The test cases are one step that passes or
fails; the upgrade is `UpgradeOps` of ServerOps, seen from outside.

## Runs

| Run | Instance | Shows |
|---|---|---|
| `poller` | 2 pollers, 3 runs, 3 timestamps, 2 fresh runs, 2 faults, symmetric | locks, crashes and stale files never let two pollers work together or a reply be served twice; the processed timestamp never goes back; what comes out is `RerunService` |
| `poller_live` | the same, 1 fresh run and 1 fault, no symmetry | every request is processed in the end |
| `poller_overlap` | as `poller` with 1 fault, launches may overlap an acquisition | violation of `RerunAtMostOnce`: the lock file is not taken atomically |
| `node_replacement` | 1 to 5 servers, 0 to 2 agents | with any call failing and any node leaving late: no instance is terminated before its node was asked to leave, one server short at most, after a success every new server is in a cluster that answers and nothing old is left but nodes that are late, whoever is asked is a running member; three servers succeed without faults and late nodes |
| `fan_out` | 3 nodes, all operations | the goroutines implement `PrepareNodes`, results are complete, every goroutine ends but those whose call hangs, reboots go one by one |
| `cluster_restore` | 3 old nodes, 2 scheduled snapshots | only the test's own snapshot is deleted, and after its restore; a test that passes has restored one of the old cluster; the two clusters are never up together; the gate passes on no old node that was not asked to go |
| `qase_report` | 2 suites with a case each, logs of up to 4 rows, mixed or not, whole or cut off | a failed suite fails in Slack and on Qase, counts agree with tests, exit code and link are right, dry runs included |
| `version_bump` | 3 nodes, 3 rows (plain, etcd, after etcd), 7 polls, with and without upgrade | a template that passes has seen every value it owes to nodes with an external address |
| `node_watch` | 3 nodes, thresholds 0 to 4, 3 changes | the gate under a changing cluster |
| `ssh_pool` | 3 goroutines with 2 commands, 5 connections, 3 sessions, 2 breaks, symmetric | the pool under any interleaving |
| `server_ops` | 8 tests, both products, 1 to 3 servers, 0 or 1 agent, 2 retries, 3 polls, 2 faults | services that stop and start while the test goes on |
| `ssh_retry` | 1 to 4 attempts, delays 1 to 3, durations 0 to 4 | attempts, ticker and deadline |

Bounds, and why they are enough. *Poller*: two pollers are what a lock has to
keep apart; three runs let a fresh run, a rerun and a second rerun meet;
three timestamps are a thread and two requests, or two threads and one; two faults let a
stale lock meet a second crash. *NodeReplacement*: n = 1 and 2
are where the indexes go wrong, 3 is the usual size, 4 and 5 where the loop repeats a deletion.
*FanOut*: with three nodes one goroutine can have ended, one fail and one still be at its
call when the first error is read; the calls of one node do not depend on another one.
*ClusterRestore*: a first, a middle and a last old node; with two scheduled snapshots the
directory has one too many, or only wrong ones. *QaseReport*: four rows hold a result that is
cut off, the completion of its suite, and an output and a completion of the other suite;
a block left open by the first reading meets the second one. *VersionBump*: a row
before, at and after the one with etcd, and polls below and above five, where errors begin to count.
*NodeWatch*: three changes let a node become ready, vanish and come back while the others
are read. *SshPool*: three workers are needed for one to close, one to have stored and one to
run; five connections cover two breaks. *ServerOps*: three servers have a first, a
middle and a last one; two retries and three polls have a first and a last try; two
faults fail both retries. *SshRetry*: durations below, at and above the delay. The proofs below
lift the bounds of every module: they hold for all values of its constants.

Fairness. `RerunPoller`: cron keeps launching pollers; a process that can run does
(weak fairness of each poller and of each test run, which `executeRerun` waits for without
a timeout). No fairness for crashes, requests or fresh runs. `NodeWatch`: the goroutine
of the gate runs; neither the timer nor the cluster is fair. `FanOut`: the Go
scheduler runs each goroutine that is not blocked (weak fairness of `Main`, `Closer` and
each `Worker(n)`). A remote call ends or fails unless it hangs, which nothing makes it do and
nothing ends (`Hang`), since SSH and AWS calls have no deadline: `EveryoneEnds` excepts the
goroutines that hang, and the operations that wait for them. Instances come up or not as they like. The other modules state safety only and assume none.

Deadlock is checked in every run but `fan_out`, `cluster_restore`, `qase_report` and
`version_bump`: those programs return, panic or exit, and then nothing moves. That `FanOut`
does not stop before is `EveryoneEnds`. The other modules have a stuttering step (`Stopped`,
`Finished`, `Returned`, `RetryEnded`) at their real ends only; pollers and runs never stop launching.

Every property of a passing run has a mutant: the definition above the
mapped one, marked `mutant`, is a plausible bug of that code that breaks it.

## Where the code differs from what it says

`findings` in `PROJECT.json` quotes each line. One has a run of its own:

* `poller_overlap`: two pollers that start together may both take the lock, load the same
  timestamp and run the same request. `PollerExclusion`, `RerunAtMostOnce` and
  `ServiceSpec` hold under `Overlap = FALSE`: cron starts no poller while
  another one is between reading and writing the lock file. The schedule is not part of the repository, so this stays an assumption.

The others are in the models as the code has them, and show in how far a property can be claimed:

* Node replacement: from four servers on, the loop of `joinRemainServers` deletes the
  last old server again and the upgrade fails; with two servers the first one to be deleted is the
  leader all joins go through (hence `n # 2` in `KubectlReachesServer`), with one server
  the index is negative. Only three servers are replaced (`ReplacedWhenDone`). Nodes that leave late are
  neither seen before their instance is terminated nor after the last step, whose health check is only logged.
* Node health gate: the event of a deleted node keeps it in the count; `OkNodesWereReady` says
  that a node *has been* ready, not that it is.
* SSH pool: a worker may remove the entry another one has just stored; `PoolServes` bounds
  the dials only while nothing breaks. A check that finds no free session closes a valid
  connection; `CommandsAreNotCut` is claimed for a session per goroutine.
* Cluster reset: on k3s the reset does not wait for the stop, which nothing in `NoOldDataServes` needs.
* Qase report: a suite that times out without a failed result is passed on Slack; an open block
  of one suite takes in rows of the next. `FailureReachesQase` and `CountsMatchTests` are
  claimed for packages that do not interleave and failures that have a row.
* Parallel preparation: every failing copy of `scpToNewNodes` ends in a panic on its
  channel; `PrepareNodes` allows a panic after a failure. `DeleteEC2Nodes` logs that it has
  no client and then panics in its goroutines. A call that hangs holds its caller for ever, except where errors are drained as they come.
* Version bump: a row with etcd changes the addresses of the rows after it; `Owed` says
  which nodes a row is owed to. A node without an external address is left out without
  a word. Errors after the fifth poll are not polled again.
* Cluster restore: what is called the path of the snapshot is the whole listing of the
  directory; with a snapshot of etcd's own the restore fails or is of any of them, after the
  old cluster has been stopped. `validateS3snapshot` validates nothing: a snapshot that was never
  uploaded lets the restore fail. The gate for the one new node may pass on an old one
  that was asked to go and is still listed; `GateSeesNewServer` says what is left.
* Manual upgrade on slemicro: a reboot that EC2 begins late takes its server down while the
  next one is upgraded; `OneServerDown` excepts it.
* Exit code of `cmd/qase`: with a failed Qase report and a dry run of Slack it is 0, and the
  log says that the Slack report was sent; `SuccessIsReported` excepts dry runs.

## Proofs

The theorems hold for every value of the constants that the named assumptions of the module
admit. Each proof module gives an inductive invariant, proves that `Init` implies it
and each action preserves it, and derives the properties. Invariants are conjunctions
of named parts, and a part is preserved by a lemma of its own.

| Module | Theorem | Property | Inductive invariant, and why it is needed |
|---|---|---|---|
| `RerunPollerProofs` | `TypeCorrect` | `TypeOK` | `TypeOK` itself |
| | `PollersExclude` (with `Overlap = FALSE`) | `PollerExclusion` | `LockInv`: the lock names the one poller that holds it, and at most one poller acquires: while another one is past the lock, an acquiring poller can only be at `ReadLock`, and sees a live pid |
| | `RerunsExclude` (with `Overlap = FALSE`) | `RerunsDoNotOverlap`, which no run lists, as `ServiceSpec` implies it | `RerunInv` besides: while a rerun is active every poller that holds the lock is before its first look at the running tests, or waits for that very rerun |
| | `ReplyIsServedOnce` (with `Overlap = FALSE`) | `RerunAtMostOnce` | `OnceInv`: no copy of the state file of a thread, on disk, in the temporary file or in memory, lacks a request of the thread that was served; the request a poller carries is a member's and unserved; nobody knows the thread of a fresh run before its report is written |
| | `ProcessedOnlyAdvances` (with `Overlap = FALSE`) | `ProcessedNeverGoesBack` | `OrderInv`: the temporary file is never older than the state file of the same thread, whoever wrote it last, and a report about to rename began after the poller's first look at the running tests |
| | `PollerServes` (with `Overlap = FALSE`) | `ServiceSpec` | `RerunInv`, `OnceInv` and a bound of the clock: `Execute` is `Begin` of the service, for nothing runs then and the state in memory covers what was served in the thread; `PostRequest` by a member is `Ask`; the steps that end a run are `End` or a stutter, everything else is a stutter |
| `NodeReplacementProofs` | `ReplacementTypes`, `NoMemberIsTerminated` | `TypeOK`, `MembersRun` | `NodeInv`: the range of `k` at each step; at a terminate step the target is no longer in `members`, since its deletion was asked for, and no instance disappears otherwise |
| | `ServersAreReplacedOneByOne`, `MembersAreAsked`, `EveryNodeIsReplaced` | `AtMostOneServerShort`, `KubectlReachesServer`, `ReplacedWhenDone` | `PhaseInv` besides: which old nodes are left at each step, which new ones have joined, where the kubeconfig points, that only n = 3 gets past the third round, and that the voters without an instance are old servers that were asked to leave, so that their number bounds the loss of the majority (`ShortQuorum`, `DoneQuorum`) |
| `FanOutProofs` | `FanOutTypes` | `TypeOK` | with the wait group being the number of the goroutines that have not ended; `MainInv` says where `main` can be while there are any |
| | `RebootsOneByOne` | `DownIsRebootedOrFailed` | `RebootInv`: the instance of a node runs before its first call and after its last |
| | `EveryInstanceIsReturned` | `ResultsComplete` | `CreateInv`: the responses in the slice and in the channel are, each once, those of the goroutines past their send |
| | `FanOutPrepares` | `PrepareSpec` | `WorkersInv` and `ErrorInv`: a hung goroutine still counts, an error that was sent is in the buffer, has been returned or has closed the channel, so that `nil` means that none was sent. Every step maps to a step of `PrepareNodes` or a stutter |
| `RemoteProofs` (SshPool) | `PoolTypes`, `ThePoolServes` | `TypeOK`, `PoolServes` | `HoldsInv`, `RemovalInv`; `CalmInv`: while nothing breaks, the workers that may still dial are counted together with the connections dialled |
| | `NoCommandIsCut` | `CommandsAreNotCut` | `CloseInv`: with a session for every worker, the connection at hand is broken or closed when `Close` is reached |
| `ClusterRestoreProofs` | `RestoreTypes`, `TheDataIsKept` | `TypeOK`, `DataIsKept` | `SnapshotInv`: from `take` on the snapshot of the test is in the directory, from `list` on it is in the path, and what is restored is in the path |
| | `OnlyOneClusterServes`, `TheGateSeesNewServer` | `OneClusterServes`, `GateSeesNewServer` | `StoppedInv`, `DeletedInv`: the loops have done the nodes before `i` (stopped them; asked for their deletion), and nothing undoes it |
| `VersionBumpProofs` | `BumpTypes`, `NothingPassesUnchecked` | `TypeOK`, `PassedWasChecked` | `LoopInv`: rows, addresses and commands before the current ones have shown the value expected now; `AddressInv`: the addresses are all nodes or the one of a failed kubectl until an etcd row replaces them, the nodes being those with an external address; `DoneInv`: what was seen before the upgrade stays seen |
| `RemoteProofs` (NodeWatch) | `NodeWatchTypes`, `CountNeverDrifts`, `PassedNodesWereReady` | `WatchTypeOK`, `OkNodesWereReady` | `WatchInv`: the count is the cardinality of the ready part of the map, and every node that the map or a pending event has as ready is in `everReady` |
| `RemoteProofs` (SshRetry) | `RetryTypes`, `RetriesKeepTime` | `RetryTypeOK`, `RetriesAreTimed` | `RetryInv`: while the call waits the ticker fires a full delay after `now`; `LastAttemptIsLost` follows from distance and deadline |
| `ServerOpsProofs` | `OpsTypes` | `TypeOK` | `OpsInv`: the position is a place of the script of the test, for any n and m, and `tries` stays below what the call is tried |
| | `OneServerIsDown` | `OneServerDown` | `DownInv`: the only server that may be down is the one the first loop is at; the status at the end of a node's calls is what lets the loop go on; a server in a late reboot is excepted |
| | `RotatedAreServed` | `RotatedIsServed` | `RotationInv`: each server is done, has not begun, or is at one of four places of the loop with what unit, disk and process are there, a stop that is still queued included; `RebootInv`: this test and the reset begin no reboot |
| | `OldDataIsGone` | `NoOldDataServes` | `ResetInv`: the servers the first loop has passed stay inactive until the last loop, and by then the third one has deleted their data |
| | `KeysAreTogether` | `KeysStayTogether` | `KeysInv`: no process is more than one version behind, and at the places where a status has said so (`Confirmed`) all are at the newest, so that the next action makes it one |
| `QaseReportProofs` | `ReportTypes` | `TypeOK` | `TypeOK` itself, with a lemma for each operator of the loop |
| | `ReportedIsSent` | `SuccessIsReported` | `ClaimsInv`: what has been claimed at each step of the two reports |
| | `FailuresReachSlack` | `FailureReachesSlack` | `LogInv`: the order in which `go test` writes rows (nothing of a suite after its completion, nothing of a package after its end), and `FoundInv`: a suite is processed by its completion row only and, if it failed, keeps a failed test from then on. It needs no assumption on interleaving |
| | `CountsAreRight` | `CountsMatchTests` | `BlockInv`: without interleaving the results since the last reset are those of the suite that is being read, and none where a suite begins |
| | `FailuresReachQase` | `FailureReachesQase` | `VerdictsInv`, from the two above; and `RepeatInv`: a course of the loop (what it carries before every row) exists that the first reading has taken and the second one takes, since both begin alike. The rows are a function of what is carried (`AfterRow`, `RowIsRead`) |

Every invariant and every action property of a run, and both refinements, are stated by a theorem. Only
model-checked are the liveness properties (`RequestsAreProcessed`, `PassesWhenReady`,
`EveryoneEnds`), which are beyond the prover. `RepeatInv` speaks of a course that exists instead of
one that is computed row by row, since what a recursive definition computes cannot be proved.
The five theorems on the poller that carry `Overlap = FALSE` state an assumption the code needs and does
not make: `poller_overlap` shows it.

## Not modelled

* Terraform, install scripts, workloads and CI: declarative, or I/O only.
* The functional test cases and assertions that are a straight line of remote commands and
  expectations, the flows of the airgap tests among them (what runs in parallel there is
  in FanOut); the SUC upgrade, which applies two manifests and asks the health gate;
  the clients of Kubernetes and S3, configuration, flags and logging, which have no state
  that interacts.
* `SpecReportTestResults`, which reports one suite from Ginkgo itself and shares nothing with the rest.
* Wording of messages; matching of strings (addresses that are prefixes of each other, the
  lowercased error texts); reuse of process ids.
* The data race on the variable `cluster` in `configureSSH`, whose writers write the same value.

## Plan

Done: all the modules above, with the proofs listed. What could follow, in the order of use:

1. An abstract specification of the health gate, and of the pool of connections, with
   `NodeWatch` and `SshPool` shown to implement them.
2. `NodeReplacement` composed with `FanOut` for the creation of instances, which it now takes
   as one step that does what `PrepareNodes` promises.
3. The enabledness facts that liveness rests on (that a poller that has the lock can always go
   on) as lemmas, as far as they can be put without `ENABLED`.
