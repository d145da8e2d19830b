------------------------------- MODULE FanOut -------------------------------
(***************************************************************************)
(* The operations that run one goroutine per node: CreateInstances,        *)
(* ConfigureIPv6OnlyNodes, CopyAssetsOnNodes and its Windows twin,         *)
(* scpToNewNodes, DeleteEC2Nodes, cleanEIPs and TestRebootInstances.       *)
(*                                                                         *)
(* Four shapes: "chan" drains an error channel that a further goroutine    *)
(* closes, "scp" closes it in main after the wait and in every worker that *)
(* fails, "wait" only waits, "reboot" takes one node after the other.      *)
(***************************************************************************)
EXTENDS Integers, Sequences, FiniteSets

CONSTANTS
    N,      \* number of nodes
    Kinds   \* the operations that may be run, out of AllKinds

Nodes == 1 .. N

AllKinds == {"create", "ipv6", "private_registry", "system_default_registry", "tarball",
             "unknown", "windows", "windows_registry", "scp", "delete", "delete_nil",
             "eips", "reboot"}

ASSUME FanOutConstants == N \in Nat \ {0} /\ Kinds \subseteq AllKinds

\* The calls a goroutine makes for its node, in their order.
CreateCalls  == <<"create", "extractID", "waitRunning", "fetchIP">>
IPv6Calls    == <<"copyConfigureScript", "processConfigureFile", "copyInstallScript">>
AirgapCalls(method) == <<"copyAssets", method, "makeExecutable">>
WindowsCalls == <<"copyAssets">>
WindowsRegistryCalls == <<"copyAssets", "copyRegistry">>
ScpCalls     == <<"scp">>
DeleteCalls  == <<"describe", "terminate">>
ReleaseCalls == <<"describe", "describeAddresses", "release">>

\* mutant: the status checks are not waited for
RebootCallsNoWait == <<"stop", "waitStop", "start">>

\* StopInstance, StartInstance.
RebootCalls == <<"stop", "waitStop", "start", "waitRunning">>

Calls(k) ==
    CASE k = "create" -> CreateCalls
      [] k = "ipv6"   -> IPv6Calls
      [] k \in {"private_registry", "system_default_registry", "tarball", "unknown"} ->
            AirgapCalls(k)
      [] k = "windows"          -> WindowsCalls
      [] k = "windows_registry" -> WindowsRegistryCalls
      [] k = "scp"    -> ScpCalls
      [] k \in {"delete", "delete_nil"} -> DeleteCalls
      [] k = "eips"   -> ReleaseCalls
      [] k = "reboot" -> RebootCalls

\* The operations by what the caller does with the errors of its goroutines.  In
\* "delete_nil" DeleteEC2Nodes has only logged that it has no client.
ScpKinds    == {"scp"}
RebootKinds == {"reboot"}
WaitKinds   == {"delete", "delete_nil", "eips"}
ChanKinds   == AllKinds \ (ScpKinds \cup RebootKinds \cup WaitKinds)

ShapeOf(k) ==
    CASE k \in ScpKinds    -> "scp"
      [] k \in RebootKinds -> "reboot"
      [] k \in WaitKinds   -> "wait"
      [] k \in ChanKinds   -> "chan"

VARIABLES
    kind,       \* the operation
    main,       \* where the calling goroutine is
    next,       \* the next node of its loop
    worker,     \* where the goroutine of a node is
    at,         \* the call it is at
    machine,    \* the EC2 instance of the node
    failed,     \* the nodes with a call that has failed
    wg,         \* the WaitGroup
    errChan,    \* how many errors are in the buffer
    errOpen,    \* errChan is not closed
    resChan,    \* the buffer of resChan, in the order of completion
    resOpen,
    closer,     \* the goroutine that closes the channels
    nodeIds,    \* the slice of results
    outcome     \* what the operation has come to

channels == <<errChan, errOpen, resChan, resOpen>>
vars == <<kind, main, next, worker, at, machine, failed, wg, channels, closer, nodeIds,
          outcome>>

shape == ShapeOf(kind)

\* mutant: an error channel of one place
CapOne == 1

\* make(chan error, len(names))
Cap == N

Init ==
    /\ kind \in Kinds
    /\ main = "loop" /\ next = 1
    /\ worker = [n \in Nodes |-> "idle"]
    /\ at = [n \in Nodes |-> 1]
    /\ machine = [n \in Nodes |-> IF kind = "create" THEN "none" ELSE "running"]
    /\ failed = {}
    /\ wg = 0
    /\ errChan = 0 /\ errOpen = TRUE
    /\ resChan = <<>> /\ resOpen = TRUE
    /\ closer = "none"
    /\ nodeIds = <<>>
    /\ outcome = "none"

Goto(n, label) == worker' = [worker EXCEPT ![n] = label]

-----------------------------------------------------------------------------
(* The calling goroutine *)

\* mutant: wg.Add(1) is left to the goroutine, which has not come to it
SpawnUncounted ==
    /\ main = "loop" /\ next \in Nodes
    /\ Goto(next, "run")
    /\ next' = next + 1
    /\ main' = IF shape = "reboot" THEN "wait" ELSE "loop"
    /\ UNCHANGED <<kind, at, machine, failed, wg, channels, closer, nodeIds, outcome>>

Spawn ==
    /\ main = "loop" /\ next \in Nodes
    /\ wg' = wg + 1
    /\ Goto(next, "run")
    /\ next' = next + 1
    /\ main' = IF shape = "reboot" THEN "wait" ELSE "loop"
    /\ UNCHANGED <<kind, at, machine, failed, channels, closer, nodeIds, outcome>>

\* TestRebootInstances looks the instance up before: a failure ends the spec.
LookupFails ==
    /\ main = "loop" /\ next \in Nodes
    /\ shape = "reboot"
    /\ main' = "done" /\ outcome' = "error"
    /\ UNCHANGED <<kind, next, worker, at, machine, failed, wg, channels, closer, nodeIds>>

\* The end of the loop.
AllSpawned ==
    /\ main = "loop" /\ next = N + 1
    /\ IF shape = "chan" THEN main' = "drain" /\ closer' = "wait"
                         ELSE main' = "wait" /\ UNCHANGED closer
    /\ UNCHANGED <<kind, next, worker, at, machine, failed, wg, channels, nodeIds, outcome>>

Return(value) == main' = "done" /\ outcome' = value

\* wg.Wait of main: the reboot goes on with the next node, whether or not the one
\* before has failed: GinkgoRecover only notes it.
Wait ==
    /\ main = "wait" /\ wg = 0
    /\ CASE shape = "reboot" /\ next \in Nodes -> main' = "loop" /\ UNCHANGED outcome
         [] shape = "scp" -> main' = "close" /\ UNCHANGED outcome
         [] OTHER -> Return("nil")
    /\ UNCHANGED <<kind, next, worker, at, machine, failed, wg, channels, closer, nodeIds>>

\* close(chanErr) of scpToNewNodes: closing a closed channel panics.
CloseByMain ==
    /\ main = "close"
    /\ errOpen' = FALSE
    /\ Return(IF errOpen THEN "nil" ELSE "panic")
    /\ UNCHANGED <<kind, next, worker, at, machine, failed, wg, errChan, resChan, resOpen,
                   closer, nodeIds>>

\* mutant: no error in the buffer is taken for no error at all
DrainErrorsEarly ==
    /\ main = "drain"
    /\ IF errChan > 0
       THEN errChan' = errChan - 1 /\ Return("error")
       ELSE /\ IF kind = "create" THEN main' = "collect" /\ UNCHANGED outcome
                                  ELSE Return("nil")
            /\ UNCHANGED errChan
    /\ UNCHANGED <<kind, next, worker, at, machine, failed, wg, errOpen, resChan, resOpen,
                   closer, nodeIds>>

\* for e := range errChan: the first error is returned, the rest stays where it is.
DrainErrors ==
    /\ main = "drain"
    /\ \/ /\ errChan > 0
          /\ errChan' = errChan - 1
          /\ Return("error")
       \/ /\ errChan = 0 /\ ~errOpen
          /\ IF kind = "create" THEN main' = "collect" /\ UNCHANGED outcome
                                ELSE Return("nil")
          /\ UNCHANGED errChan
    /\ UNCHANGED <<kind, next, worker, at, machine, failed, wg, errOpen, resChan, resOpen,
                   closer, nodeIds>>

\* for i := range resChan
CollectResults ==
    /\ main = "collect"
    /\ \/ /\ resChan # <<>>
          /\ nodeIds' = Append(nodeIds, Head(resChan))
          /\ resChan' = Tail(resChan)
          /\ UNCHANGED <<main, outcome>>
       \/ /\ resChan = <<>> /\ ~resOpen
          /\ Return("nil")
          /\ UNCHANGED <<resChan, nodeIds>>
    /\ UNCHANGED <<kind, next, worker, at, machine, failed, wg, errChan, errOpen, resOpen,
                   closer>>

-----------------------------------------------------------------------------
(* The goroutine that closes the channels *)

\* mutant: the channels are closed without wg.Wait
CloseErrorsAtOnce ==
    /\ closer = IF kind = "create" THEN "errors" ELSE "wait"
    /\ errOpen' = FALSE
    /\ closer' = "done"
    /\ UNCHANGED <<kind, main, next, worker, at, machine, failed, wg, errChan, resChan,
                   resOpen, nodeIds, outcome>>

CloseResults ==
    /\ closer = "wait" /\ kind = "create"
    /\ wg = 0
    /\ resOpen' = FALSE
    /\ closer' = "errors"
    /\ UNCHANGED <<kind, main, next, worker, at, machine, failed, wg, errChan, errOpen,
                   resChan, nodeIds, outcome>>

CloseErrors ==
    /\ closer = IF kind = "create" THEN "errors" ELSE "wait"
    /\ wg = 0
    /\ errOpen' = FALSE
    /\ closer' = "done"
    /\ UNCHANGED <<kind, main, next, worker, at, machine, failed, wg, errChan, resChan,
                   resOpen, nodeIds, outcome>>

-----------------------------------------------------------------------------
(* EC2 and the nodes *)

Moves(n, from, to) == machine[n] = from /\ machine' = [machine EXCEPT ![n] = to]
Observes(n, state) == machine[n] = state /\ UNCHANGED machine

\* A call that succeeds.  A wait ends when it sees what it waits for.
RunInstances(n)           == Moves(n, "none", "pending")
WaitForInstanceRunning(n) == Observes(n, "running")
StopInstances(n)          == Moves(n, "running", "stopping")
WaitInstanceStop(n)       == Observes(n, "stopped")
StartInstances(n)         == Moves(n, "stopped", "pending")
TerminateInstances(n)     == Moves(n, "running", "terminated")

Succeeds(n, call) ==
    CASE call = "create"      -> RunInstances(n)
      [] call = "waitRunning" -> WaitForInstanceRunning(n)
      [] call = "stop"        -> StopInstances(n)
      [] call = "waitStop"    -> WaitInstanceStop(n)
      [] call = "start"       -> StartInstances(n)
      [] call = "terminate"   -> TerminateInstances(n)
      [] call = "unknown"     -> FALSE /\ UNCHANGED machine
      [] OTHER                -> UNCHANGED machine

\* An instance comes up or goes down in its own time.
Boot(n) ==
    /\ Moves(n, "pending", "running") \/ Moves(n, "stopping", "stopped")
    /\ UNCHANGED <<kind, main, next, worker, at, failed, wg, channels, closer, nodeIds,
                   outcome>>

-----------------------------------------------------------------------------
(* The goroutine of node n *)

Reporting == shape \in {"chan", "scp"}

Call(n) ==
    /\ worker[n] = "run" /\ kind # "delete_nil"
    /\ Succeeds(n, Calls(kind)[at[n]])
    /\ at' = [at EXCEPT ![n] = @ + 1]
    /\ Goto(n, CASE at[n] < Len(Calls(kind)) -> "run"
                 [] at[n] = Len(Calls(kind)) /\ kind = "create" -> "result"
                 [] OTHER -> "finish")
    /\ UNCHANGED <<kind, main, next, failed, wg, channels, closer, nodeIds, outcome>>

\* An error or a timeout, with nothing done; it is sent, or only logged.
CallFails(n) ==
    /\ worker[n] = "run" /\ kind # "delete_nil"
    /\ failed' = failed \cup {n}
    /\ Goto(n, IF Reporting THEN "send" ELSE "finish")
    /\ UNCHANGED <<kind, main, next, at, machine, wg, channels, closer, nodeIds, outcome>>

\* The first call on a client that is nil.
NilClient(n) ==
    /\ worker[n] = "run" /\ kind = "delete_nil"
    /\ failed' = failed \cup {n}
    /\ outcome' = "panic"
    /\ Goto(n, "finish")
    /\ UNCHANGED <<kind, main, next, at, machine, wg, channels, closer, nodeIds>>

\* Neither the SSH calls nor those of the AWS client have a timeout: one may never end.
Hang(n) ==
    /\ worker[n] = "run" /\ kind # "delete_nil"
    /\ Calls(kind)[at[n]] \notin {"extractID", "unknown"}
    /\ Goto(n, "hung")
    /\ UNCHANGED <<kind, main, next, at, machine, failed, wg, channels, closer, nodeIds,
                   outcome>>

\* errChan <- err: it blocks while the buffer is full; sending on a closed channel
\* panics.
SendError(n) ==
    /\ worker[n] = "send"
    /\ IF errOpen
       THEN /\ errChan < Cap
            /\ errChan' = errChan + 1
            /\ Goto(n, IF shape = "scp" THEN "close" ELSE "finish")
            /\ UNCHANGED outcome
       ELSE outcome' = "panic" /\ UNCHANGED <<worker, errChan>>
    /\ UNCHANGED <<kind, main, next, at, machine, failed, wg, errOpen, resChan, resOpen,
                   closer, nodeIds>>

\* close(chanErr) in the goroutine of scpToNewNodes.
CloseByWorker(n) ==
    /\ worker[n] = "close"
    /\ errOpen' = FALSE
    /\ IF errOpen THEN Goto(n, "finish") /\ UNCHANGED outcome
                  ELSE outcome' = "panic" /\ UNCHANGED worker
    /\ UNCHANGED <<kind, main, next, at, machine, failed, wg, errChan, resChan, resOpen,
                   closer, nodeIds>>

\* resChan <- response; a channel closed before would be a panic.
SendResult(n) ==
    /\ worker[n] = "result"
    /\ IF resOpen
       THEN /\ Len(resChan) < Cap
            /\ resChan' = Append(resChan, n)
            /\ Goto(n, "finish") /\ UNCHANGED outcome
       ELSE outcome' = "panic" /\ UNCHANGED <<resChan, worker>>
    /\ UNCHANGED <<kind, main, next, at, machine, failed, wg, errChan, errOpen, resOpen,
                   closer, nodeIds>>

\* The deferred wg.Done().
Done(n) ==
    /\ worker[n] = "finish"
    /\ wg' = wg - 1
    /\ Goto(n, "done")
    /\ UNCHANGED <<kind, main, next, at, machine, failed, channels, closer, nodeIds, outcome>>

-----------------------------------------------------------------------------

Main == \/ Spawn \/ LookupFails \/ AllSpawned \/ Wait
        \/ CloseByMain \/ DrainErrors \/ CollectResults

Closer == CloseResults \/ CloseErrors

Worker(n) == \/ Call(n) \/ CallFails(n) \/ NilClient(n) \/ SendError(n)
             \/ CloseByWorker(n) \/ SendResult(n) \/ Done(n)

\* A panic in any goroutine is the end of the process.
Next ==
    /\ outcome # "panic"
    /\ \/ Main \/ Closer
       \/ \E n \in Nodes : Worker(n) \/ Hang(n) \/ Boot(n)

Spec == Init /\ [][Next]_vars

\* The scheduler runs every goroutine: a call ends unless it hangs.  Nothing makes a call
\* hang, and nothing ends one that does.
Fairness ==
    /\ WF_vars(outcome # "panic" /\ Main)
    /\ WF_vars(outcome # "panic" /\ Closer)
    /\ \A n \in Nodes : WF_vars(outcome # "panic" /\ Worker(n))

FairSpec == Spec /\ Fairness

-----------------------------------------------------------------------------
(* Properties *)

Active == {n \in Nodes : worker[n] \notin {"idle", "done"}}
Complete(n) == at[n] > Len(Calls(kind))

\* Every variable keeps its type, and the WaitGroup counts the goroutines that have
\* not ended: neither Add nor Done is missed or made twice.
TypeOK ==
    /\ kind \in Kinds
    /\ main \in {"loop", "wait", "close", "drain", "collect", "done"}
    /\ next \in 1 .. N + 1
    /\ worker \in [Nodes -> {"idle", "run", "hung", "send", "close", "result", "finish",
                         "done"}]
    /\ at \in [Nodes -> 1 .. 5]
    /\ machine \in [Nodes -> {"none", "pending", "running", "stopping", "stopped",
                              "terminated"}]
    /\ failed \subseteq Nodes
    /\ wg \in 0 .. N /\ wg = Cardinality(Active)
    /\ errChan \in 0 .. N /\ errOpen \in BOOLEAN
    /\ resChan \in Seq(Nodes) /\ resOpen \in BOOLEAN
    /\ closer \in {"none", "wait", "errors", "done"}
    /\ nodeIds \in Seq(Nodes)
    /\ outcome \in {"none", "nil", "error", "panic"}

\* CreateInstances without an error returns every new instance once, and it runs.
ResultsComplete ==
    kind = "create" /\ outcome = "nil" =>
        /\ Len(nodeIds) = N
        /\ \A n \in Nodes :
              machine[n] = "running" /\ \E i \in 1 .. Len(nodeIds) : nodeIds[i] = n

\* A node that is not running while nodes are rebooted is the one at hand or one
\* whose reboot has failed: two nodes are down only after a failure.
DownIsRebootedOrFailed ==
    kind = "reboot" => \A n \in Nodes : machine[n] # "running" => n \in Active \cup failed

\* Every goroutine ends but those whose call hangs, the ones that nobody waits for after
\* the first error included; and the operation returns, if none hangs or, where errors
\* come through a channel that is drained at once, if any other node has failed.
Hung == {n \in Nodes : worker[n] = "hung"}

EveryoneEnds ==
    <>[](\/ outcome = "panic"
         \/ /\ Active = Hung
            /\ Hung = {} \/ (shape = "chan" /\ failed # {}) => outcome # "none")

\* The operation does what its callers rely on: nil only when every call for every node
\* has succeeded, in whichever order the goroutines end and the channel is closed, an
\* error, or a panic on a closed channel or without a client, only when one has failed.
Abstract == INSTANCE PrepareNodes WITH
    reports  <- kind \notin WaitKinds \cup RebootKinds,
    prepared <- {n \in Nodes : Complete(n)}

PrepareSpec == Abstract!Spec
=============================================================================
