---------------------------- MODULE FanOutProofs ----------------------------
(***************************************************************************)
(* What holds of FanOut for every number of nodes: the types with the      *)
(* count of the WaitGroup, the nodes that are down during a reboot, the    *)
(* results of CreateInstances, and that FanOut implements PrepareNodes.    *)
(* FanOutInv is the inductive invariant, one conjunct for each part of the *)
(* state.                                                                  *)
(***************************************************************************)
EXTENDS FanOut, FiniteSetTheorems, TLAPS

\* The operations have one to four calls.
LEMMA CallsLength == \A k \in AllKinds : Len(Calls(k)) \in 1 .. 4
  BY DEF AllKinds, Calls, CreateCalls, IPv6Calls, AirgapCalls, WindowsCalls,
         WindowsRegistryCalls, ScpCalls, DeleteCalls, ReleaseCalls, RebootCalls

\* The shape of an operation says whether it reports errors.
LEMMA Shapes ==
    \A k \in AllKinds :
        /\ ShapeOf(k) \in {"chan", "scp", "wait", "reboot"}
        /\ k = "create" => ShapeOf(k) = "chan"
        /\ ShapeOf(k) = "reboot" <=> k = "reboot"
        /\ k = "delete_nil" => ShapeOf(k) = "wait"
        /\ ShapeOf(k) \in {"chan", "scp"} <=> k \notin WaitKinds \cup RebootKinds
  BY DEF AllKinds, ShapeOf, ScpKinds, RebootKinds, WaitKinds, ChanKinds

AllDone == \A n \in Nodes : worker[n] = "done"

\* How far the goroutine of a node is, and what has become of its calls.
WorkersInv ==
    \A n \in Nodes :
        /\ worker[n] = "idle" <=> n >= next
        /\ worker[n] \in {"idle", "run", "hung"} => n \notin failed
        /\ worker[n] \in {"idle", "run", "hung", "send", "close"} => ~Complete(n)
        /\ worker[n] \in {"send", "close"} => n \in failed /\ Reporting
        /\ worker[n] = "close" => shape = "scp"
        /\ worker[n] = "result" => Complete(n) /\ n \notin failed /\ kind = "create"
        /\ worker[n] \in {"finish", "done"} => (Complete(n) <=> n \notin failed)

\* Where the calling goroutine and the closer are, and who must have ended by then.
MainInv ==
    /\ shape # "reboot" /\ main # "loop" => next = N + 1
    /\ shape = "reboot" /\ main = "loop" => \A n \in Nodes : worker[n] \in {"idle", "done"}
    /\ closer # "none" <=> shape = "chan" /\ main # "loop"
    /\ main \in {"drain", "collect"} => shape = "chan"
    /\ main = "close" => shape = "scp" /\ AllDone
    /\ main = "wait" => shape # "chan"
    /\ closer \in {"errors", "done"} => AllDone
    /\ shape = "chan" /\ ~errOpen => closer = "done"
    /\ ~resOpen => closer \in {"errors", "done"}
    /\ outcome \in {"nil", "error"} => main = "done"
    /\ main = "done" => outcome # "none"
    /\ outcome = "nil" => AllDone
    /\ outcome = "error" => shape \in {"chan", "reboot"}

\* An error that was sent is in the buffer, has been returned, or has closed chanErr.
ErrorInv ==
    /\ errChan > 0 => failed # {}
    /\ shape = "chan" /\ (\E n \in failed : worker[n] # "send") =>
          errChan > 0 \/ outcome \in {"error", "panic"}
    /\ shape = "scp" /\ (\E n \in failed : worker[n] \in {"finish", "done"}) => ~errOpen
    /\ shape = "scp" /\ ~errOpen /\ main # "done" => failed # {}
    /\ main = "collect" => failed = {} /\ AllDone

\* Before its first call and after its last the instance of a node runs.
RebootInv ==
    kind = "reboot" => \A n \in Nodes \ failed :
        /\ at[n] \in {1, 5} => machine[n] = "running"
        /\ worker[n] = "idle" => at[n] = 1

\* The goroutines that have sent their response, and the responses that have arrived.
Sent == {n \in Nodes : worker[n] \in {"finish", "done"} /\ n \notin failed}
Arrived(n) ==
    \/ \E i \in 1 .. Len(nodeIds) : nodeIds[i] = n
    \/ \E i \in 1 .. Len(resChan) : resChan[i] = n

\* No response is lost between resChan and the slice, and an instance that has been
\* waited for runs.
CreateInv ==
    kind = "create" =>
        /\ \A n \in Nodes : at[n] \in {4, 5} => machine[n] = "running"
        /\ Len(nodeIds) + Len(resChan) = Cardinality(Sent)
        /\ \A n \in Sent : Arrived(n)
        /\ outcome = "nil" => resChan = <<>> /\ failed = {}

FanOutInv == TypeOK /\ WorkersInv /\ MainInv /\ ErrorInv /\ RebootInv /\ CreateInv

-----------------------------------------------------------------------------

\* There are N nodes.
LEMMA NodesFinite == IsFiniteSet(Nodes) /\ Cardinality(Nodes) = N
  BY FanOutConstants, FS_Interval DEF Nodes

\* With the counter at zero no goroutine runs.
LEMMA ZeroMeansNone == TypeOK /\ wg = 0 => \A n \in Nodes : worker[n] \in {"idle", "done"}
  <1> SUFFICES ASSUME TypeOK, wg = 0 PROVE \A n \in Nodes : worker[n] \in {"idle", "done"}
    OBVIOUS
  <1>1. Active \subseteq Nodes /\ IsFiniteSet(Active)
    BY NodesFinite, FS_Subset DEF Active
  <1>2. Active = {}
    BY <1>1, FS_EmptySet DEF TypeOK
  <1> QED
    BY <1>2 DEF Active

\* The number of calls; Complete and Call compare the call of a node with it.
Last == Len(Calls(kind))

\* Complete and Call by the number of the last call.
LEMMA LastCall ==
    ASSUME kind \in Kinds
    PROVE  /\ kind \in AllKinds /\ Last \in 1 .. 4
           /\ \A n : Complete(n) <=> at[n] > Last
           /\ \A n : worker[n] = "run" /\ Call(n) =>
                 /\ at[n] < Last => Goto(n, "run")
                 /\ at[n] = Last /\ kind = "create" => Goto(n, "result")
                 /\ at[n] = Last /\ kind # "create" => Goto(n, "finish")
  <1>1. kind \in AllKinds
    BY FanOutConstants
  <1>2. Last \in 1 .. 4
    BY <1>1, CallsLength DEF Last
  <1>3. \A n : Complete(n) <=> at[n] > Last
    BY DEF Complete, Last
  <1>4. \A x, y \in Int : x = y => ~(x < y)
    OBVIOUS
  <1>5. ASSUME NEW n, Call(n)
        PROVE  /\ at[n] < Last => Goto(n, "run")
               /\ at[n] = Last /\ kind = "create" => Goto(n, "result")
               /\ at[n] = Last /\ kind # "create" => Goto(n, "finish")
    <2>1. Goto(n, CASE at[n] < Last -> "run"
                    [] at[n] = Last /\ kind = "create" -> "result"
                    [] OTHER -> "finish")
      BY <1>5 DEF Call, Last
    <2>2. at[n] = Last => ~(at[n] < Last)
      BY <1>2, <1>4
    <2> QED
      BY <2>1, <2>2
  <1> QED
    BY <1>1, <1>2, <1>3, <1>5

\* The invariant holds when the operation begins.
LEMMA FanOutInvInit == Init => FanOutInv
  <1> SUFFICES ASSUME Init PROVE FanOutInv
    OBVIOUS
  <1>1. Active = {} /\ Cardinality(Active) = 0
    <2>1. Active = {}
      BY DEF Active, Init
    <2> QED
      BY <2>1, FS_EmptySet
  <1>2. kind \in Kinds
    BY DEF Init
  <1>3. TypeOK
    BY <1>1, FanOutConstants DEF Init, TypeOK, Nodes
  <1>4. WorkersInv
    BY <1>2, LastCall, FanOutConstants DEF Init, WorkersInv, Nodes
  <1>5. MainInv /\ ErrorInv /\ RebootInv
    BY DEF Init, MainInv, ErrorInv, RebootInv
  <1>6. CreateInv
    <2>1. Sent = {} /\ Cardinality(Sent) = 0
      <3>1. Sent = {}
        BY DEF Init, Sent
      <3> QED
        BY <3>1, FS_EmptySet
    <2> QED
      BY <2>1 DEF Init, CreateInv
  <1> QED
    BY <1>3, <1>4, <1>5, <1>6 DEF FanOutInv

-----------------------------------------------------------------------------
\* The types, with the counter of the WaitGroup

\* A goroutine that goes on without ending leaves the set as it is.
LEMMA ActiveStays ==
    ASSUME TypeOK, NEW n \in Nodes, n \in Active,
           NEW label \in {"run", "hung", "send", "close", "result", "finish"}, Goto(n, label)
    PROVE  Active' = Active
  BY DEF TypeOK, Active, Goto

\* No more goroutines than nodes.
LEMMA ActiveBounded ==
    ASSUME NEW S, S \subseteq Nodes
    PROVE  IsFiniteSet(S) /\ Cardinality(S) \in 0 .. N
  <1>1. IsFiniteSet(S) /\ Cardinality(S) <= Cardinality(Nodes)
    BY NodesFinite, FS_Subset
  <1>2. Cardinality(S) \in Nat
    BY <1>1, FS_CardinalityType
  <1> QED
    BY <1>1, <1>2, NodesFinite, FanOutConstants

\* What a channel takes and gives.
LEMMA Buffers ==
    ASSUME NEW S, NEW seq \in Seq(S)
    PROVE  /\ \A x \in S : Append(seq, x) \in Seq(S)
           /\ seq # <<>> => Head(seq) \in S /\ Tail(seq) \in Seq(S)
  OBVIOUS

\* Each step keeps the types and the count.
LEMMA TypeStep == TypeOK /\ WorkersInv /\ [Next]_vars => TypeOK'
  <1> SUFFICES ASSUME TypeOK, WorkersInv, [Next]_vars PROVE TypeOK'
    OBVIOUS
  <1> USE FanOutConstants DEF TypeOK, Nodes, channels
  <1>a. Active \subseteq Nodes /\ IsFiniteSet(Active) /\ Cardinality(Active) \in 0 .. N
    BY ActiveBounded DEF Active
  <1>b. Active' \subseteq Nodes /\ IsFiniteSet(Active') /\ Cardinality(Active') \in 0 .. N
    BY ActiveBounded DEF Active
  <1>1. CASE Spawn
    <2>1. next \in Nodes /\ worker' = [worker EXCEPT ![next] = "run"]
      BY <1>1 DEF Spawn, Goto
    <2>2. next \notin Active
      BY <2>1 DEF WorkersInv, Active
    <2>3. Active' = Active \cup {next}
      BY <2>1, <2>2 DEF Active
    <2>4. Cardinality(Active') = Cardinality(Active) + 1
      BY <2>2, <2>3, <1>a, FS_AddElement
    <2> QED
      BY <2>4, <1>a, <1>b, <1>1 DEF Spawn, Goto
  <1>2. CASE LookupFails
    <2>1. worker' = worker
      BY <1>2 DEF LookupFails
    <2>2. Active' = Active
      BY <2>1 DEF Active
    <2> QED
      BY <1>2, <2>1, <2>2 DEF LookupFails, Return
  <1>3. CASE AllSpawned
    <2>1. worker' = worker
      BY <1>3 DEF AllSpawned
    <2>2. Active' = Active
      BY <2>1 DEF Active
    <2> QED
      BY <1>3, <2>1, <2>2 DEF AllSpawned, Return
  <1>4. CASE Wait
    <2>1. worker' = worker
      BY <1>4 DEF Wait
    <2>2. Active' = Active
      BY <2>1 DEF Active
    <2> QED
      BY <1>4, <2>1, <2>2 DEF Wait, Return
  <1>5. CASE CloseByMain
    <2>1. worker' = worker
      BY <1>5 DEF CloseByMain
    <2>2. Active' = Active
      BY <2>1 DEF Active
    <2> QED
      BY <1>5, <2>1, <2>2 DEF CloseByMain, Return
  <1>6. CASE DrainErrors
    <2>1. worker' = worker
      BY <1>6 DEF DrainErrors
    <2>2. Active' = Active
      BY <2>1 DEF Active
    <2> QED
      BY <1>6, <2>1, <2>2 DEF DrainErrors, Return
  <1>7. CASE CollectResults
    <2>1. worker' = worker
      BY <1>7 DEF CollectResults
    <2>2. Active' = Active
      BY <2>1 DEF Active
    <2>3. resChan' \in Seq(Nodes) /\ nodeIds' \in Seq(Nodes)
      <3> HIDE DEF Nodes
      <3>1. resChan \in Seq(Nodes) /\ nodeIds \in Seq(Nodes)
        OBVIOUS
      <3> HIDE DEF TypeOK
      <3>2. CASE resChan # <<>>
        <4>1. Head(resChan) \in Nodes /\ Tail(resChan) \in Seq(Nodes)
          BY <3>1, <3>2, Buffers
        <4>2. Append(nodeIds, Head(resChan)) \in Seq(Nodes)
          BY <3>1, <4>1, Buffers
        <4> QED
          BY <1>7, <3>2, <4>1, <4>2 DEF CollectResults
      <3>3. CASE resChan = <<>>
        BY <1>7, <3>1, <3>3 DEF CollectResults
      <3> QED
        BY <3>2, <3>3
    <2> QED
      BY <1>7, <2>1, <2>2, <2>3 DEF CollectResults, Return
  <1>8. CASE CloseResults
    <2>1. worker' = worker
      BY <1>8 DEF CloseResults
    <2>2. Active' = Active
      BY <2>1 DEF Active
    <2> QED
      BY <1>8, <2>1, <2>2 DEF CloseResults, Return
  <1>9. CASE CloseErrors
    <2>1. worker' = worker
      BY <1>9 DEF CloseErrors
    <2>2. Active' = Active
      BY <2>1 DEF Active
    <2> QED
      BY <1>9, <2>1, <2>2 DEF CloseErrors, Return
  <1>10. ASSUME NEW n \in Nodes, Boot(n) PROVE TypeOK'
    <2>1. Active' = Active
      BY <1>10 DEF Boot, Active
    <2> QED
      BY <1>10, <2>1 DEF Boot, Moves
  <1>11. ASSUME NEW n \in Nodes, CallFails(n) PROVE TypeOK'
    <2>1. Active' = Active
      BY <1>11 DEF CallFails, Active, Goto
    <2> QED
      BY <1>11, <2>1 DEF CallFails, Goto, Cap
  <1>12. ASSUME NEW n \in Nodes, SendError(n) PROVE TypeOK'
    <2>1. Active' = Active
      BY <1>12 DEF SendError, Active, Goto
    <2>2. errChan' \in 0..N
      BY <1>12 DEF SendError, Cap
    <2>3. worker' \in [Nodes -> {"idle", "run", "hung", "send", "close", "result", "finish", "done"}]
      BY <1>12 DEF SendError, Goto
    <2> QED
      BY <1>12, <2>1, <2>2, <2>3 DEF SendError, Goto
  <1>13. ASSUME NEW n \in Nodes, CloseByWorker(n) PROVE TypeOK'
    <2>1. Active' = Active
      BY <1>13 DEF CloseByWorker, Active, Goto
    <2> QED
      BY <1>13, <2>1 DEF CloseByWorker, Goto, Cap
  <1>14. ASSUME NEW n \in Nodes, SendResult(n) PROVE TypeOK'
    <2>1. Active' = Active
      BY <1>14 DEF SendResult, Active, Goto
    <2>2. resChan' \in Seq(Nodes)
      <3> HIDE DEF Nodes
      <3>1. resChan \in Seq(Nodes)
        OBVIOUS
      <3> HIDE DEF TypeOK
      <3>2. Append(resChan, n) \in Seq(Nodes)
        BY <3>1, Buffers
      <3> QED
        BY <1>14, <3>1, <3>2 DEF SendResult
    <2> QED
      BY <1>14, <2>1, <2>2 DEF SendResult, Goto
  <1>15. ASSUME NEW n \in Nodes, Call(n) PROVE TypeOK'
    <2>1. worker[n] = "run" /\ at[n] \in 1 .. 4
      <3>1. worker[n] = "run" /\ ~Complete(n)
        BY <1>15 DEF Call, WorkersInv
      <3>2. at[n] \in 1 .. 5 /\ Last \in 1 .. 4 /\ ~(at[n] > Last)
        BY <3>1, LastCall
      <3> QED
        BY <3>1, <3>2
    <2>2. machine' \in [Nodes -> {"none", "pending", "running", "stopping", "stopped",
                                  "terminated"}]
      BY <1>15 DEF Call, Succeeds, RunInstances, WaitForInstanceRunning, StopInstances,
                  WaitInstanceStop, StartInstances, TerminateInstances, Moves, Observes
    <2>3. \E label \in {"run", "result", "finish"} : Goto(n, label)
      <3>1. at[n] < Last \/ at[n] = Last
        <4>1. at[n] \in 1 .. 5 /\ Last \in 1 .. 4 /\ ~(at[n] > Last)
          BY <1>15, LastCall DEF WorkersInv, Call
        <4> QED
          BY <4>1
      <3> QED
        BY <3>1, <2>1, <1>15, LastCall
    <2>4. Active' = Active
      BY <2>1, <2>3 DEF Active, Goto
    <2>5. at' = [at EXCEPT ![n] = @ + 1]
      BY <1>15 DEF Call
    <2>6. at' \in [Nodes -> 1 .. 5] /\ worker' \in [Nodes -> {"idle", "run", "hung", "send", "close", "result", "finish", "done"}]
      BY <2>1, <2>3, <2>5 DEF Goto
    <2> QED
      BY <1>15, <2>2, <2>4, <2>6 DEF Call
  <1>16. ASSUME NEW n \in Nodes, Done(n) PROVE TypeOK'
    <2>1. worker[n] = "finish" /\ worker' = [worker EXCEPT ![n] = "done"] /\ wg' = wg - 1
      BY <1>16 DEF Done, Goto
    <2>2. Active' = Active \ {n} /\ n \in Active
      BY <2>1 DEF Active
    <2>3. Cardinality(Active') = Cardinality(Active) - 1
      BY <2>2, <1>a, FS_RemoveElement
    <2> QED
      BY <1>16, <2>1, <2>3, <1>a, <1>b DEF Done
  <1>17. CASE UNCHANGED vars
    <2>1. Active' = Active
      BY <1>17 DEF vars, Active
    <2> QED
      BY <1>17, <2>1 DEF vars
  <1>18. ASSUME NEW n \in Nodes, Hang(n) \/ NilClient(n) PROVE TypeOK'
    <2>1. Active' = Active
      BY <1>18 DEF Hang, NilClient, Active, Goto
    <2>2. worker' \in [Nodes -> {"idle", "run", "hung", "send", "close", "result", "finish", "done"}]
      BY <1>18 DEF Hang, NilClient, Goto
    <2> QED
      BY <1>18, <2>1, <2>2 DEF Hang, NilClient, Cap
  <1> HIDE DEF TypeOK
  <1> QED
    BY <1>1, <1>2, <1>3, <1>4, <1>5, <1>6, <1>7, <1>8, <1>9, <1>10, <1>11, <1>12, <1>13, <1>14, <1>15, <1>16, <1>17, <1>18
    DEF Next, Main, Closer, Worker

-----------------------------------------------------------------------------
\* The goroutines of the nodes

\* A goroutine that is at most "run" is before its last call or at it.
LEMMA CallsInTurn ==
    ASSUME TypeOK, WorkersInv, NEW n \in Nodes, Call(n)
    PROVE  /\ at' = [at EXCEPT ![n] = @ + 1]
           /\ \/ at[n] < Last /\ Goto(n, "run")
              \/ at[n] = Last /\ kind = "create" /\ Goto(n, "result")
              \/ at[n] = Last /\ kind # "create" /\ Goto(n, "finish")
           /\ worker[n] = "run" /\ n \notin failed
  <1>1. worker[n] = "run" /\ n \notin failed /\ ~Complete(n)
    BY DEF Call, WorkersInv
  <1>2. kind \in Kinds /\ at[n] \in 1 .. 5
    BY DEF TypeOK
  <1>3. at[n] < Last \/ at[n] = Last
    <2>1. Last \in 1 .. 4 /\ ~(at[n] > Last)
      BY <1>1, <1>2, LastCall
    <2> QED
      BY <1>2, <2>1
  <1>4. at' = [at EXCEPT ![n] = @ + 1]
    BY DEF Call
  <1> QED
    BY <1>1, <1>2, <1>3, <1>4, LastCall

\* Nobody but the goroutine of the node counts its calls.
LEMMA CompleteStays ==
    ASSUME TypeOK, kind' = kind, NEW n, at'[n] = at[n]
    PROVE  Complete(n)' <=> Complete(n)
  BY DEF Complete

\* A call makes its own node complete, if it is the last one, and no other.
LEMMA CompleteAfterCall ==
    ASSUME TypeOK, WorkersInv, NEW n \in Nodes, Call(n)
    PROVE  /\ ~Complete(n)
           /\ Complete(n)' <=> at[n] = Last
           /\ \A m \in Nodes \ {n} : Complete(m)' <=> Complete(m)
  <1>1. kind' = kind /\ at' = [at EXCEPT ![n] = @ + 1] /\ at \in [Nodes -> 1 .. 5]
    BY DEF Call, TypeOK
  <1>2. ~Complete(n)
    BY DEF WorkersInv, Call
  <1>3. Last' = Last /\ Last \in 1 .. 4 /\ at[n] \in 1 .. 5 /\ at'[n] = at[n] + 1
    BY <1>1, LastCall DEF TypeOK, Last
  <1>4. (Complete(n)' <=> at'[n] > Last') /\ ~(at[n] > Last)
    BY <1>2 DEF Complete, Last
  <1>5. \A m \in Nodes \ {n} : at'[m] = at[m]
    BY <1>1
  <1> QED
    BY <1>1, <1>2, <1>3, <1>4, <1>5, CompleteStays

\* Each step keeps what is known of the goroutines.
LEMMA WorkersStep == TypeOK /\ WorkersInv /\ [Next]_vars => WorkersInv'
  <1> SUFFICES ASSUME TypeOK, WorkersInv, [Next]_vars PROVE WorkersInv'
    OBVIOUS
  <1> USE FanOutConstants
  <1>s. ASSUME UNCHANGED <<kind, next, worker, at, failed>> PROVE WorkersInv'
    <2>1. \A n \in Nodes : Complete(n)' <=> Complete(n)
      BY <1>s, CompleteStays
    <2> QED
      BY <1>s, <2>1 DEF WorkersInv, shape, Reporting
  <1>w. ASSUME UNCHANGED <<kind, next, at>>, NEW n \in Nodes, NEW label, Goto(n, label),
               worker[n] # "idle", label \notin {"idle", "run"},
               \A m \in Nodes \ {n} : m \in failed' <=> m \in failed,
               label \in {"send", "close"} => ~Complete(n) /\ n \in failed' /\ Reporting,
               label = "close" => shape = "scp",
               label # "result",
               label = "hung" => ~Complete(n) /\ n \notin failed',
               label \in {"finish", "done"} => (Complete(n) <=> n \notin failed')
        PROVE  WorkersInv'
    <2>1. \A m \in Nodes : Complete(m)' <=> Complete(m)
      BY <1>w, CompleteStays
    <2>2. \A m \in Nodes \ {n} : worker'[m] = worker[m]
      BY <1>w DEF Goto, TypeOK
    <2>3. worker'[n] = label
      BY <1>w DEF Goto, TypeOK
    <2> QED
      BY <1>w, <2>1, <2>2, <2>3 DEF WorkersInv, shape, Reporting
  <1>1. CASE Spawn
    <2>1. \A n \in Nodes : Complete(n)' <=> Complete(n)
      BY <1>1, CompleteStays DEF Spawn
    <2>2. next \in Nodes /\ worker' = [worker EXCEPT ![next] = "run"] /\ next' = next + 1
      BY <1>1 DEF Spawn, Goto
    <2>3. \A n \in Nodes : worker'[n] = IF n = next THEN "run" ELSE worker[n]
      BY <2>2 DEF TypeOK
    <2>4. \A n \in Nodes : n >= next' <=> n >= next /\ n # next
      BY <2>2 DEF Nodes
    <2>5. worker[next] = "idle"
      BY <2>2 DEF WorkersInv, Nodes
    <2>6. UNCHANGED <<kind, failed>>
      BY <1>1 DEF Spawn
    <2> QED
      BY <2>1, <2>2, <2>3, <2>4, <2>5, <2>6 DEF WorkersInv, shape, Reporting
  <1>2. CASE LookupFails
    BY <1>2, <1>s DEF LookupFails
  <1>3. CASE AllSpawned
    BY <1>3, <1>s DEF AllSpawned
  <1>4. CASE Wait
    BY <1>4, <1>s DEF Wait
  <1>5. CASE CloseByMain
    BY <1>5, <1>s DEF CloseByMain
  <1>6. CASE DrainErrors
    BY <1>6, <1>s DEF DrainErrors
  <1>7. CASE CollectResults
    BY <1>7, <1>s DEF CollectResults
  <1>8. CASE CloseResults
    BY <1>8, <1>s DEF CloseResults
  <1>9. CASE CloseErrors
    BY <1>9, <1>s DEF CloseErrors
  <1>10. ASSUME NEW n \in Nodes, Boot(n) PROVE WorkersInv'
    BY <1>10, <1>s DEF Boot
  <1>11. ASSUME NEW n \in Nodes, CallFails(n) PROVE WorkersInv'
    <2>1. worker[n] = "run" /\ ~Complete(n) /\ failed' = failed \cup {n}
      BY <1>11 DEF CallFails, WorkersInv
    <2>2. UNCHANGED <<kind, next, at>>
      BY <1>11 DEF CallFails
    <2>3. CASE Reporting
      <3>1. Goto(n, "send")
        BY <1>11, <2>3 DEF CallFails
      <3> QED
        BY <2>1, <2>2, <2>3, <3>1, <1>w
    <2>4. CASE ~Reporting
      <3>1. Goto(n, "finish")
        BY <1>11, <2>4 DEF CallFails
      <3> QED
        BY <2>1, <2>2, <3>1, <1>w
    <2> QED
      BY <2>3, <2>4
  <1>18. ASSUME NEW n \in Nodes, Hang(n) PROVE WorkersInv'
    <2>1. worker[n] = "run" /\ ~Complete(n) /\ n \notin failed
      BY <1>18 DEF Hang, WorkersInv
    <2>2. UNCHANGED <<kind, next, at, failed>> /\ Goto(n, "hung")
      BY <1>18 DEF Hang
    <2> QED
      BY <2>1, <2>2, <1>w
  <1>19. ASSUME NEW n \in Nodes, NilClient(n) PROVE WorkersInv'
    <2>1. worker[n] = "run" /\ ~Complete(n) /\ failed' = failed \cup {n}
      BY <1>19 DEF NilClient, WorkersInv
    <2>2. UNCHANGED <<kind, next, at>> /\ Goto(n, "finish")
      BY <1>19 DEF NilClient
    <2> QED
      BY <2>1, <2>2, <1>w
  <1>12. ASSUME NEW n \in Nodes, SendError(n) PROVE WorkersInv'
    <2>1. worker[n] = "send" /\ ~Complete(n) /\ n \in failed /\ Reporting
      BY <1>12 DEF SendError, WorkersInv
    <2>2. UNCHANGED <<kind, next, at, failed>>
      BY <1>12 DEF SendError
    <2>3. CASE ~errOpen
      BY <1>12, <2>2, <2>3, <1>s DEF SendError
    <2>4. CASE errOpen /\ shape = "scp"
      <3>1. Goto(n, "close")
        BY <1>12, <2>4 DEF SendError
      <3> QED
        BY <2>1, <2>2, <2>4, <3>1, <1>w
    <2>5. CASE errOpen /\ shape # "scp"
      <3>1. Goto(n, "finish")
        BY <1>12, <2>5 DEF SendError
      <3> QED
        BY <2>1, <2>2, <3>1, <1>w
    <2> QED
      BY <2>3, <2>4, <2>5
  <1>13. ASSUME NEW n \in Nodes, CloseByWorker(n) PROVE WorkersInv'
    <2>1. worker[n] = "close" /\ ~Complete(n) /\ n \in failed
      BY <1>13 DEF CloseByWorker, WorkersInv
    <2>2. UNCHANGED <<kind, next, at, failed>>
      BY <1>13 DEF CloseByWorker
    <2>3. CASE ~errOpen
      BY <1>13, <2>2, <2>3, <1>s DEF CloseByWorker
    <2>4. CASE errOpen
      <3>1. Goto(n, "finish")
        BY <1>13, <2>4 DEF CloseByWorker
      <3> QED
        BY <2>1, <2>2, <3>1, <1>w
    <2> QED
      BY <2>3, <2>4
  <1>14. ASSUME NEW n \in Nodes, SendResult(n) PROVE WorkersInv'
    <2>1. worker[n] = "result" /\ Complete(n) /\ n \notin failed
      BY <1>14 DEF SendResult, WorkersInv
    <2>2. UNCHANGED <<kind, next, at, failed>>
      BY <1>14 DEF SendResult
    <2>3. CASE ~resOpen
      BY <1>14, <2>2, <2>3, <1>s DEF SendResult
    <2>4. CASE resOpen
      <3>1. Goto(n, "finish")
        BY <1>14, <2>4 DEF SendResult
      <3> QED
        BY <2>1, <2>2, <3>1, <1>w
    <2> QED
      BY <2>3, <2>4
  <1>15. ASSUME NEW n \in Nodes, Call(n) PROVE WorkersInv'
    <2>1. /\ ~Complete(n)
          /\ Complete(n)' <=> at[n] = Last
          /\ \A m \in Nodes \ {n} : Complete(m)' <=> Complete(m)
      BY <1>15, CompleteAfterCall
    <2>2. /\ \/ at[n] < Last /\ Goto(n, "run")
             \/ at[n] = Last /\ kind = "create" /\ Goto(n, "result")
             \/ at[n] = Last /\ kind # "create" /\ Goto(n, "finish")
          /\ worker[n] = "run" /\ n \notin failed
      BY <1>15, CallsInTurn
    <2>3. at[n] \in 1 .. 5 /\ Last \in 1 .. 4
      BY LastCall DEF TypeOK
    <2>4. \A m \in Nodes \ {n} : worker'[m] = worker[m]
      BY <2>2 DEF Goto, TypeOK
    <2>5. \/ worker'[n] = "run" /\ ~Complete(n)'
          \/ worker'[n] = "result" /\ kind = "create" /\ Complete(n)'
          \/ worker'[n] = "finish" /\ Complete(n)'
      <3>1. at[n] < Last => at[n] # Last
        BY <2>3
      <3> QED
        BY <3>1, <2>1, <2>2 DEF Goto, TypeOK
    <2>6. UNCHANGED <<kind, next, failed>>
      BY <1>15 DEF Call
    <2> QED
      BY <2>1, <2>2, <2>4, <2>5, <2>6 DEF WorkersInv, shape, Reporting
  <1>16. ASSUME NEW n \in Nodes, Done(n) PROVE WorkersInv'
    <2>1. worker[n] = "finish" /\ (Complete(n) <=> n \notin failed) /\ Goto(n, "done")
      BY <1>16 DEF Done, WorkersInv
    <2>2. UNCHANGED <<kind, next, at, failed>>
      BY <1>16 DEF Done
    <2> QED
      BY <2>1, <2>2, <1>w
  <1>17. CASE UNCHANGED vars
    BY <1>17, <1>s DEF vars
  <1> QED
    BY <1>1, <1>2, <1>3, <1>4, <1>5, <1>6, <1>7, <1>8, <1>9, <1>10, <1>11, <1>12, <1>13,
       <1>14, <1>15, <1>16, <1>17, <1>18, <1>19 DEF Next, Main, Closer, Worker

-----------------------------------------------------------------------------
\* The calling goroutine and the closer

\* When the loop has ended and nothing runs, every goroutine has ended.
LEMMA WaitedForAll ==
    TypeOK /\ WorkersInv /\ wg = 0 /\ next = N + 1 => AllDone
  BY ZeroMeansNone, FanOutConstants DEF WorkersInv, AllDone, Nodes

\* A goroutine that has ended does nothing more.
LEMMA DoneIsForGood ==
    ASSUME TypeOK, NEW n \in Nodes, Worker(n)
    PROVE  worker[n] \notin {"idle", "done"} /\ ~AllDone
  BY DEF Worker, Call, CallFails, NilClient, SendError, CloseByWorker, SendResult, Done, AllDone

\* Each step keeps what is known of the caller and the closer.
LEMMA MainStep == TypeOK /\ WorkersInv /\ MainInv /\ [Next]_vars => MainInv'
  <1> SUFFICES ASSUME TypeOK, WorkersInv, MainInv, [Next]_vars PROVE MainInv'
    OBVIOUS
  <1> USE FanOutConstants
  <1>k. kind \in AllKinds
    BY DEF TypeOK
  <1>1. CASE Spawn
    <2>1. main = "loop" /\ ~AllDone
      BY <1>1 DEF Spawn, WorkersInv, AllDone, Nodes
    <2>2. kind' = kind /\ shape' = shape /\ UNCHANGED <<channels, closer, outcome>>
      BY <1>1 DEF Spawn, shape
    <2>3. main' = IF shape = "reboot" THEN "wait" ELSE "loop"
      BY <1>1 DEF Spawn
    <2> QED
      BY <2>1, <2>2, <2>3 DEF MainInv, channels
  <1>2. CASE LookupFails
    BY <1>2 DEF LookupFails, MainInv, shape, channels, AllDone
  <1>3. CASE AllSpawned
    BY <1>3 DEF AllSpawned, MainInv, shape, channels, AllDone
  <1>4. CASE Wait
    <2>1. \A n \in Nodes : worker[n] \in {"idle", "done"}
      BY <1>4, ZeroMeansNone DEF Wait
    <2>2. CASE shape = "reboot" /\ next \in Nodes
      BY <1>4, <2>1, <2>2 DEF Wait, MainInv, shape, channels, AllDone
    <2>3. CASE ~(shape = "reboot" /\ next \in Nodes)
      <3>1. next = N + 1
        <4>1. shape # "reboot" => next = N + 1
          BY <1>4 DEF Wait, MainInv
        <4>2. next \in 1 .. N + 1
          BY DEF TypeOK
        <4>3. next \notin Nodes => next = N + 1
          BY <4>2 DEF Nodes
        <4> QED
          BY <2>3, <4>1, <4>3
      <3>2. AllDone
        BY <1>4, <3>1, WaitedForAll DEF Wait
      <3>3. \/ shape = "scp" /\ main' = "close" /\ UNCHANGED outcome
            \/ shape # "scp" /\ Return("nil")
        BY <1>4, <2>3 DEF Wait
      <3>4. UNCHANGED <<kind, next, worker, channels, closer>> /\ shape' = shape
        BY <1>4 DEF Wait, shape
      <3>5. main = "wait"
        BY <1>4 DEF Wait
      <3> QED
        BY <3>1, <3>2, <3>3, <3>4, <3>5 DEF MainInv, channels, AllDone, Return
    <2> QED
      BY <2>2, <2>3
  <1>5. CASE CloseByMain
    BY <1>5 DEF CloseByMain, Return, MainInv, shape, AllDone
  <1>6. CASE DrainErrors
    BY <1>6 DEF DrainErrors, Return, MainInv, shape, AllDone
  <1>7. CASE CollectResults
    BY <1>7 DEF CollectResults, Return, MainInv, shape, AllDone
  <1>8. CASE CloseResults
    <2>1. shape = "chan" /\ main # "loop" /\ next = N + 1
      BY <1>8 DEF CloseResults, MainInv
    <2>2. AllDone
      BY <1>8, <2>1, WaitedForAll DEF CloseResults
    <2> QED
      BY <1>8, <2>1, <2>2 DEF CloseResults, MainInv, shape, AllDone
  <1>9. CASE CloseErrors
    <2>1. closer \in {"errors", "wait"} /\ wg = 0
      BY <1>9 DEF CloseErrors
    <2>2. shape = "chan" /\ main # "loop" /\ next = N + 1
      BY <2>1 DEF MainInv
    <2>3. AllDone
      BY <2>1, <2>2, WaitedForAll
    <2> QED
      BY <1>9, <2>2, <2>3 DEF CloseErrors, MainInv, shape, AllDone
  <1>10. ASSUME NEW n \in Nodes, Boot(n) PROVE MainInv'
    BY <1>10 DEF Boot, MainInv, shape, channels, AllDone
  <1>11. ASSUME NEW n \in Nodes, Worker(n), outcome # "panic" PROVE MainInv'
    <2>1. worker[n] \notin {"idle", "done"} /\ ~AllDone
      BY <1>11, DoneIsForGood
    <2>2. ~(shape = "reboot" /\ main = "loop")
      BY <2>1 DEF MainInv
    <2>3. UNCHANGED <<kind, main, next, resOpen, closer>> /\ shape' = shape
      BY <1>11 DEF Worker, Call, CallFails, NilClient, SendError, CloseByWorker, SendResult, Done, shape,
                   channels
    <2>4. outcome' \in {outcome, "panic"}
      BY <1>11 DEF Worker, Call, CallFails, NilClient, SendError, CloseByWorker, SendResult, Done
    <2>5. errOpen' = errOpen \/ shape = "scp"
      BY <1>11 DEF Worker, Call, CallFails, NilClient, SendError, CloseByWorker, SendResult, Done,
                   channels, WorkersInv
    <2>6. outcome # "nil"
      BY <2>1 DEF MainInv
    <2> QED
      BY <2>1, <2>2, <2>3, <2>4, <2>5, <2>6 DEF MainInv
  <1>13. ASSUME NEW n \in Nodes, Hang(n) PROVE MainInv'
    <2>1. worker[n] = "run" /\ ~AllDone
      BY <1>13 DEF Hang, AllDone
    <2>2. ~(shape = "reboot" /\ main = "loop")
      BY <2>1 DEF MainInv
    <2>3. UNCHANGED <<kind, main, next, channels, closer, outcome>> /\ shape' = shape
      BY <1>13 DEF Hang, shape
    <2> QED
      BY <2>1, <2>2, <2>3 DEF MainInv, channels
  <1>12. CASE UNCHANGED vars
    BY <1>12 DEF vars, MainInv, shape, channels, AllDone
  <1> QED
    BY <1>1, <1>2, <1>3, <1>4, <1>5, <1>6, <1>7, <1>8, <1>9, <1>10, <1>11, <1>12, <1>13
    DEF Next, Main, Closer

\* Without an error in the channel that has been closed, nothing has failed.
LEMMA NothingFailed ==
    ASSUME TypeOK, WorkersInv, MainInv, ErrorInv, outcome = "none",
           shape = "chan", ~errOpen, errChan = 0
    PROVE  failed = {} /\ AllDone
  <1>1. AllDone
    BY DEF MainInv
  <1>2. \A n \in failed : worker[n] # "send"
    BY <1>1 DEF AllDone, TypeOK
  <1> QED
    BY <1>1, <1>2 DEF ErrorInv

\* A caller that has not returned has not decided.
LEMMA OutcomeWhileOpen ==
    ASSUME TypeOK, MainInv, outcome # "panic", main # "done"
    PROVE  outcome = "none"
  BY DEF TypeOK, MainInv

\* Each step keeps track of the errors.
LEMMA ErrorStep ==
    TypeOK /\ WorkersInv /\ MainInv /\ ErrorInv /\ [Next]_vars => ErrorInv'
  <1> SUFFICES ASSUME TypeOK, WorkersInv, MainInv, ErrorInv, [Next]_vars PROVE ErrorInv'
    OBVIOUS
  <1> USE FanOutConstants
  <1>k. kind \in AllKinds
    BY DEF TypeOK
  <1>1. CASE Spawn
    <2>1. next \notin failed /\ next \in Nodes /\ worker' = [worker EXCEPT ![next] = "run"]
      BY <1>1 DEF Spawn, WorkersInv, Goto, Nodes
    <2>2. \A n \in failed : worker'[n] = worker[n]
      BY <2>1 DEF TypeOK
    <2>3. UNCHANGED <<kind, failed, channels, outcome>> /\ shape' = shape
      BY <1>1 DEF Spawn, shape
    <2>4. main = "loop" /\ main' \in {"loop", "wait"}
      BY <1>1 DEF Spawn
    <2> QED
      BY <2>2, <2>3, <2>4 DEF ErrorInv, channels
  <1>2. CASE LookupFails
    BY <1>2, Shapes, <1>k DEF LookupFails, ErrorInv, shape, channels, AllDone
  <1>3. CASE AllSpawned
    BY <1>3 DEF AllSpawned, ErrorInv, shape, channels, AllDone
  <1>4. CASE Wait
    <2>1. shape # "chan" /\ shape' = shape /\ main' # "collect" /\ main = "wait"
      BY <1>4 DEF Wait, MainInv, shape, Return
    <2> QED
      BY <1>4, <2>1 DEF Wait, ErrorInv, channels, AllDone
  <1>5. CASE CloseByMain
    BY <1>5 DEF CloseByMain, Return, MainInv, ErrorInv, shape, AllDone
  <1>6. CASE DrainErrors /\ outcome # "panic"
    <2>1. shape = "chan" /\ shape' = shape /\ UNCHANGED <<worker, failed>>
      BY <1>6 DEF DrainErrors, MainInv, shape
    <2>2. outcome = "none"
      BY <1>6, OutcomeWhileOpen DEF DrainErrors
    <2>3. CASE errChan > 0 /\ errChan' = errChan - 1 /\ Return("error")
      BY <2>1, <2>3 DEF ErrorInv, Return, TypeOK
    <2>4. CASE errChan = 0 /\ ~errOpen /\ errChan' = errChan /\ main' \in {"collect", "done"}
      BY <2>1, <2>2, <2>4, NothingFailed DEF ErrorInv, AllDone
    <2> QED
      BY <1>6, <2>3, <2>4 DEF DrainErrors, Return
  <1>7. CASE CollectResults
    BY <1>7 DEF CollectResults, Return, MainInv, ErrorInv, shape, AllDone
  <1>8. CASE CloseResults
    BY <1>8 DEF CloseResults, MainInv, ErrorInv, shape, AllDone
  <1>9. CASE CloseErrors
    <2>1. shape = "chan"
      BY <1>9 DEF CloseErrors, MainInv
    <2> QED
      BY <1>9, <2>1 DEF CloseErrors, ErrorInv, shape, AllDone
  <1>10. ASSUME NEW n \in Nodes, Boot(n) PROVE ErrorInv'
    BY <1>10 DEF Boot, ErrorInv, shape, channels, AllDone
  <1>11. ASSUME NEW n \in Nodes, CallFails(n) PROVE ErrorInv'
    <2>1. worker[n] = "run" /\ failed' = failed \cup {n} /\ ~AllDone
      BY <1>11 DEF CallFails, AllDone
    <2>2. Goto(n, IF Reporting THEN "send" ELSE "finish")
      BY <1>11 DEF CallFails
    <2>3. Reporting => worker'[n] = "send"
      BY <2>2 DEF Goto, TypeOK
    <2>4. \A m \in Nodes \ {n} : worker'[m] = worker[m]
      BY <2>2 DEF Goto, TypeOK
    <2>5. UNCHANGED <<main, errChan, errOpen, outcome>> /\ shape' = shape
      BY <1>11 DEF CallFails, shape, channels
    <2> QED
      BY <2>1, <2>3, <2>4, <2>5 DEF ErrorInv, Reporting, TypeOK
  <1>18. ASSUME NEW n \in Nodes, Hang(n) PROVE ErrorInv'
    <2>1. worker[n] = "run" /\ ~AllDone /\ n \notin failed
      BY <1>18 DEF Hang, AllDone, WorkersInv
    <2>2. UNCHANGED <<main, failed, errChan, errOpen, outcome>> /\ shape' = shape
      BY <1>18 DEF Hang, shape, channels
    <2>3. \A m \in failed : worker'[m] = worker[m]
      BY <1>18, <2>1 DEF Hang, Goto, TypeOK
    <2> QED
      BY <2>1, <2>2, <2>3 DEF ErrorInv
  <1>19. ASSUME NEW n \in Nodes, NilClient(n) PROVE ErrorInv'
    <2>1. shape = "wait"
      BY <1>19, <1>k, Shapes DEF NilClient, shape
    <2>2. failed' = failed \cup {n} /\ UNCHANGED <<main, errChan>> /\ shape' = shape
      BY <1>19 DEF NilClient, shape, channels
    <2>3. main # "collect"
      BY <2>1 DEF MainInv
    <2> QED
      BY <2>1, <2>2, <2>3 DEF ErrorInv
  <1>12. ASSUME NEW n \in Nodes, SendError(n) PROVE ErrorInv'
    <2>1. worker[n] = "send" /\ ~AllDone /\ n \in failed
      BY <1>12 DEF SendError, AllDone, WorkersInv
    <2>2. UNCHANGED <<main, failed, errOpen>> /\ shape' = shape
      BY <1>12 DEF SendError, shape
    <2>3. CASE ~errOpen
      BY <1>12, <2>1, <2>2, <2>3 DEF SendError, ErrorInv
    <2>4. CASE errOpen
      <3>1. errChan' > 0
        BY <1>12, <2>4 DEF SendError, TypeOK
      <3>2. \A m \in Nodes \ {n} : worker'[m] = worker[m]
        BY <1>12, <2>4 DEF SendError, Goto, TypeOK
      <3>3. shape = "scp" => worker'[n] = "close"
        BY <1>12, <2>4 DEF SendError, Goto, TypeOK
      <3> QED
        BY <2>1, <2>2, <2>4, <3>1, <3>2, <3>3 DEF ErrorInv, TypeOK
    <2> QED
      BY <2>3, <2>4
  <1>13. ASSUME NEW n \in Nodes, CloseByWorker(n) PROVE ErrorInv'
    <2>1. worker[n] = "close" /\ ~AllDone /\ n \in failed /\ shape = "scp"
      BY <1>13 DEF CloseByWorker, AllDone, WorkersInv
    <2>2. UNCHANGED <<main, failed, errChan>> /\ shape' = shape /\ ~errOpen'
      BY <1>13 DEF CloseByWorker, shape
    <2> QED
      BY <2>1, <2>2 DEF ErrorInv
  <1>14. ASSUME NEW n \in Nodes, SendResult(n) PROVE ErrorInv'
    <2>1. worker[n] = "result" /\ ~AllDone /\ n \notin failed
      BY <1>14 DEF SendResult, AllDone, WorkersInv
    <2>2. UNCHANGED <<main, failed, errChan, errOpen>> /\ shape' = shape
      BY <1>14 DEF SendResult, shape
    <2>3. \A m \in failed : worker'[m] = worker[m]
      BY <1>14, <2>1 DEF SendResult, Goto, TypeOK
    <2>4. outcome' \in {outcome, "panic"}
      BY <1>14 DEF SendResult
    <2> QED
      BY <2>1, <2>2, <2>3, <2>4 DEF ErrorInv
  <1>15. ASSUME NEW n \in Nodes, Call(n) PROVE ErrorInv'
    <2>1. worker[n] = "run" /\ ~AllDone /\ n \notin failed
      BY <1>15 DEF Call, AllDone, WorkersInv
    <2>2. UNCHANGED <<main, failed, errChan, errOpen, outcome>> /\ shape' = shape
      BY <1>15 DEF Call, shape, channels
    <2>3. \A m \in failed : worker'[m] = worker[m]
      <3>1. \E label : Goto(n, label)
        BY <1>15, CallsInTurn
      <3> QED
        BY <3>1, <2>1 DEF Goto, TypeOK
    <2> QED
      BY <2>1, <2>2, <2>3 DEF ErrorInv
  <1>16. ASSUME NEW n \in Nodes, Done(n) PROVE ErrorInv'
    <2>1. worker[n] = "finish" /\ ~AllDone
      BY <1>16 DEF Done, AllDone
    <2>2. UNCHANGED <<main, failed, errChan, errOpen, outcome>> /\ shape' = shape
      BY <1>16 DEF Done, shape, channels
    <2>3. worker'[n] = "done" /\ \A m \in Nodes \ {n} : worker'[m] = worker[m]
      BY <1>16 DEF Done, Goto, TypeOK
    <2> QED
      BY <2>1, <2>2, <2>3 DEF ErrorInv, TypeOK
  <1>17. CASE UNCHANGED vars
    BY <1>17 DEF vars, ErrorInv, shape, channels, AllDone
  <1> QED
    BY <1>1, <1>2, <1>3, <1>4, <1>5, <1>6, <1>7, <1>8, <1>9, <1>10, <1>11, <1>12, <1>13,
       <1>14, <1>15, <1>16, <1>17, <1>18, <1>19 DEF Next, Main, Closer, Worker

-----------------------------------------------------------------------------
\* The reboot

\* The operation is the same throughout.
LEMMA KindStays == [Next]_vars => kind' = kind
  <1>1. Main => kind' = kind
    BY DEF Main, Spawn, LookupFails, AllSpawned, Wait, CloseByMain, DrainErrors,
           CollectResults
  <1>2. Closer => kind' = kind
    BY DEF Closer, CloseResults, CloseErrors
  <1>3. \A n \in Nodes : Boot(n) \/ Hang(n) \/ Worker(n) => kind' = kind
    BY DEF Boot, Hang, Worker, Call, CallFails, NilClient, SendError, CloseByWorker, SendResult, Done
  <1>4. UNCHANGED vars => kind' = kind
    BY DEF vars
  <1> QED
    BY <1>1, <1>2, <1>3, <1>4 DEF Next

\* Each step keeps what is known of the instances in a reboot.
LEMMA RebootStep == TypeOK /\ WorkersInv /\ RebootInv /\ [Next]_vars => RebootInv'
  <1> SUFFICES ASSUME TypeOK, WorkersInv, RebootInv, [Next]_vars, kind = "reboot"
               PROVE  RebootInv'
    BY KindStays DEF RebootInv
  <1>s. ASSUME UNCHANGED <<at, machine>>, failed \subseteq failed',
               \A n \in Nodes : worker'[n] = "idle" => worker[n] = "idle"
        PROVE  RebootInv'
    BY <1>s DEF RebootInv
  <1>1. CASE Spawn
    <2>1. worker' = [worker EXCEPT ![next] = "run"] /\ next \in Nodes
      BY <1>1 DEF Spawn, Goto
    <2>2. \A n \in Nodes : worker'[n] = "idle" => worker[n] = "idle"
      BY <2>1 DEF TypeOK
    <2> QED
      BY <1>1, <2>2, <1>s DEF Spawn
  <1>2. CASE \/ LookupFails \/ AllSpawned \/ Wait \/ CloseByMain \/ DrainErrors
             \/ CollectResults \/ CloseResults \/ CloseErrors
    BY <1>2, <1>s DEF LookupFails, AllSpawned, Wait, CloseByMain, DrainErrors,
                      CollectResults, CloseResults, CloseErrors
  <1>3. ASSUME NEW n \in Nodes, Boot(n) PROVE RebootInv'
    <2>1. machine[n] # "running" /\ \A m \in Nodes \ {n} : machine'[m] = machine[m]
      BY <1>3 DEF Boot, Moves, TypeOK
    <2> QED
      BY <1>3, <2>1 DEF Boot, RebootInv
  <1>4. ASSUME NEW n \in Nodes,
               \/ CallFails(n) \/ NilClient(n) \/ Hang(n) \/ SendError(n) \/ CloseByWorker(n)
               \/ SendResult(n) \/ Done(n)
        PROVE  RebootInv'
    <2>1. \/ worker' = worker
          \/ \E label \in {"hung", "send", "close", "finish", "done"} : Goto(n, label)
      BY <1>4 DEF CallFails, NilClient, Hang, SendError, CloseByWorker, SendResult, Done
    <2>2. \A m \in Nodes : worker'[m] = "idle" => worker[m] = "idle"
      BY <2>1 DEF Goto, TypeOK
    <2>3. UNCHANGED <<at, machine>> /\ failed \subseteq failed'
      BY <1>4 DEF CallFails, NilClient, Hang, SendError, CloseByWorker, SendResult, Done
    <2> QED
      BY <2>2, <2>3, <1>s
  <1>5. ASSUME NEW n \in Nodes, Call(n) PROVE RebootInv'
    <2>1. /\ at' = [at EXCEPT ![n] = @ + 1]
          /\ \E label \in {"run", "result", "finish"} : Goto(n, label)
          /\ n \notin failed
      BY <1>5, CallsInTurn
    <2>2. UNCHANGED <<kind, failed>>
      BY <1>5 DEF Call
    <2>3. Succeeds(n, RebootCalls[at[n]])
      BY <1>5 DEF Call, Calls
    <2>4. at[n] \in 1 .. 4
      <3>1. ~Complete(n)
        BY <1>5 DEF Call, WorkersInv
      <3>2. ~(at[n] > 4)
        BY <3>1 DEF Complete, Calls, RebootCalls
      <3> QED
        BY <3>2 DEF TypeOK
    <2>5. at'[n] = at[n] + 1
      BY <2>1, <2>4 DEF TypeOK
    <2>6. at[n] = 4 => machine'[n] = "running"
      BY <2>3 DEF RebootCalls, Succeeds, WaitForInstanceRunning, Observes
    <2>7. \A m \in Nodes \ {n} : machine'[m] = machine[m]
      <3>1. CASE at[n] = 1
        BY <2>3, <3>1 DEF RebootCalls, Succeeds, StopInstances, Moves, TypeOK
      <3>2. CASE at[n] = 2
        BY <2>3, <3>2 DEF RebootCalls, Succeeds, WaitInstanceStop, Observes, TypeOK
      <3>3. CASE at[n] = 3
        BY <2>3, <3>3 DEF RebootCalls, Succeeds, StartInstances, Moves, TypeOK
      <3>4. CASE at[n] = 4
        BY <2>3, <3>4 DEF RebootCalls, Succeeds, WaitForInstanceRunning, Observes, TypeOK
      <3> QED
        BY <2>4, <3>1, <3>2, <3>3, <3>4
    <2>8. \A m \in Nodes : worker'[m] = "idle" => m # n /\ worker[m] = "idle"
      BY <2>1 DEF Goto, TypeOK
    <2>9. \A m \in Nodes \ {n} : at'[m] = at[m]
      BY <2>1 DEF TypeOK
    <2>10. at'[n] \in {1, 5} => machine'[n] = "running"
      BY <2>4, <2>5, <2>6
    <2> QED
      BY <2>2, <2>7, <2>8, <2>9, <2>10 DEF RebootInv
  <1>6. CASE UNCHANGED vars
    BY <1>6, <1>s DEF vars
  <1> QED
    BY <1>1, <1>2, <1>3, <1>4, <1>5, <1>6 DEF Next, Main, Closer, Worker

-----------------------------------------------------------------------------
\* The results of CreateInstances

\* A response that is received moves from the buffer to the slice.
LEMMA Receiving ==
    ASSUME resChan \in Seq(Nodes), nodeIds \in Seq(Nodes), resChan # <<>>,
           nodeIds' = Append(nodeIds, Head(resChan)), resChan' = Tail(resChan)
    PROVE  /\ Len(nodeIds') + Len(resChan') = Len(nodeIds) + Len(resChan)
           /\ \A x : Arrived(x) => Arrived(x)'
  <1>1. /\ Len(nodeIds) \in Nat /\ Len(resChan) \in Nat \ {0}
        /\ Head(resChan) \in Nodes /\ Head(resChan) = resChan[1]
    OBVIOUS
  <1>2. /\ Len(nodeIds') = Len(nodeIds) + 1 /\ nodeIds'[Len(nodeIds) + 1] = resChan[1]
        /\ \A i \in 1 .. Len(nodeIds) : nodeIds'[i] = nodeIds[i]
    BY <1>1
  <1>3. Len(resChan') = Len(resChan) - 1 /\ \A i \in 1 .. Len(resChan') : resChan'[i] = resChan[i + 1]
    BY <1>1
  <1>4. ASSUME NEW CONSTANT x, NEW CONSTANT i \in 1 .. Len(nodeIds), nodeIds[i] = x
        PROVE  Arrived(x)'
    <2>1. i \in 1 .. Len(nodeIds') /\ nodeIds'[i] = x
      BY <1>1, <1>2, <1>4
    <2> QED
      BY <2>1 DEF Arrived
  <1>5. ASSUME NEW CONSTANT x, NEW CONSTANT i \in 1 .. Len(resChan), resChan[i] = x
        PROVE  Arrived(x)'
    <2>1. CASE i = 1
      <3>1. Len(nodeIds) + 1 \in 1 .. Len(nodeIds') /\ nodeIds'[Len(nodeIds) + 1] = x
        BY <1>1, <1>2, <1>5, <2>1
      <3> QED
        BY <3>1 DEF Arrived
    <2>2. CASE i # 1
      <3>1. i - 1 \in 1 .. Len(resChan') /\ i - 1 + 1 = i
        BY <1>1, <1>3, <2>2
      <3>2. resChan'[i - 1] = x
        BY <1>3, <1>5, <3>1
      <3> QED
        BY <3>1, <3>2 DEF Arrived
    <2> QED
      BY <2>1, <2>2
  <1>6. Len(nodeIds') + Len(resChan') = Len(nodeIds) + Len(resChan)
    BY <1>1, <1>2, <1>3
  <1> QED
    BY <1>4, <1>5, <1>6 DEF Arrived

\* A response that is sent is the last one of the buffer.
LEMMA Sending ==
    ASSUME NEW S, NEW b \in Seq(S), NEW n \in S
    PROVE  /\ Len(Append(b, n)) = Len(b) + 1
           /\ \E i \in 1 .. Len(Append(b, n)) : Append(b, n)[i] = n
           /\ \A i \in 1 .. Len(b) : i \in 1 .. Len(Append(b, n)) /\ Append(b, n)[i] = b[i]
  OBVIOUS

\* Each step keeps track of the results.
LEMMA CreateStep ==
    TypeOK /\ WorkersInv /\ MainInv /\ ErrorInv /\ CreateInv /\ [Next]_vars => CreateInv'
  <1> SUFFICES ASSUME TypeOK, WorkersInv, MainInv, ErrorInv, CreateInv, [Next]_vars,
                      kind = "create"
               PROVE  CreateInv'
    BY KindStays DEF CreateInv
  <1>k. shape = "chan" /\ kind' = kind /\ Reporting
    BY KindStays, Shapes DEF shape, Reporting, AllKinds
  <1>c. /\ \A n \in Nodes : at[n] \in {4, 5} => machine[n] = "running"
        /\ Len(nodeIds) + Len(resChan) = Cardinality(Sent)
        /\ \A n \in Sent : Arrived(n)
        /\ outcome = "nil" => resChan = <<>> /\ failed = {}
    BY DEF CreateInv
  <1>t. resChan \in Seq(Nodes) /\ nodeIds \in Seq(Nodes)
    BY DEF TypeOK
  <1>s. ASSUME UNCHANGED <<at, machine>> \/ \A n \in Nodes : at'[n] \in {4, 5} => machine'[n] = "running",
               UNCHANGED <<resChan, nodeIds>>, Sent' = Sent,
               outcome' = "nil" => outcome = "nil", failed' = failed \/ outcome' # "nil"
        PROVE  CreateInv'
    <2>1. \A n : Arrived(n)' <=> Arrived(n)
      BY <1>s DEF Arrived
    <2>2. \A n \in Nodes : at'[n] \in {4, 5} => machine'[n] = "running"
      BY <1>s, <1>c
    <2> QED
      BY <1>s, <1>c, <2>1, <2>2 DEF CreateInv
  <1>1. CASE Spawn
    <2>1. next \in Nodes /\ worker[next] = "idle" /\ worker' = [worker EXCEPT ![next] = "run"]
      BY <1>1, FanOutConstants DEF Spawn, Goto, WorkersInv, Nodes
    <2>2. Sent' = Sent
      BY <1>1, <2>1 DEF Spawn, Sent, TypeOK
    <2> QED
      BY <1>1, <1>s, <2>2 DEF Spawn, channels
  <1>2. CASE \/ LookupFails \/ AllSpawned \/ CloseResults \/ CloseErrors
             \/ DrainErrors \/ UNCHANGED vars
    <2>1. Sent' = Sent
      BY <1>2 DEF LookupFails, AllSpawned, CloseResults, CloseErrors, DrainErrors, vars, Sent
    <2>2. UNCHANGED <<at, machine, resChan, nodeIds, failed>>
      BY <1>2 DEF LookupFails, AllSpawned, CloseResults, CloseErrors, DrainErrors, vars, channels
    <2>3. outcome' = "nil" => outcome = "nil"
      BY <1>2 DEF LookupFails, AllSpawned, CloseResults, CloseErrors, DrainErrors, vars, Return
    <2> QED
      BY <1>s, <2>1, <2>2, <2>3
  <1>3. CASE Wait \/ CloseByMain
    BY <1>3, <1>k DEF Wait, CloseByMain, MainInv
  <1>4. CASE CollectResults
    <2>1. Sent' = Sent /\ UNCHANGED <<at, machine, failed>> /\ failed = {}
      BY <1>4 DEF CollectResults, Sent, ErrorInv
    <2>2. CASE resChan # <<>>
      <3>1. /\ nodeIds' = Append(nodeIds, Head(resChan)) /\ resChan' = Tail(resChan)
            /\ outcome' = outcome
        BY <1>4, <2>2 DEF CollectResults
      <3>2. /\ Len(nodeIds') + Len(resChan') = Len(nodeIds) + Len(resChan)
            /\ \A n : Arrived(n) => Arrived(n)'
        BY <1>t, <2>2, <3>1, Receiving
      <3>3. outcome' # "nil"
        BY <1>c, <2>2, <3>1
      <3> QED
        BY <1>c, <2>1, <3>2, <3>3 DEF CreateInv
    <2>3. CASE resChan = <<>>
      <3>1. UNCHANGED <<resChan, nodeIds>>
        BY <1>4, <2>3 DEF CollectResults
      <3>2. \A n : Arrived(n)' <=> Arrived(n)
        BY <3>1 DEF Arrived
      <3> QED
        BY <1>c, <2>1, <2>3, <3>1, <3>2 DEF CreateInv
    <2> QED
      BY <2>2, <2>3
  <1>5. ASSUME NEW n \in Nodes, Boot(n) PROVE CreateInv'
    <2>1. machine[n] # "running" /\ \A m \in Nodes \ {n} : machine'[m] = machine[m]
      BY <1>5 DEF Boot, Moves, TypeOK
    <2>2. \A m \in Nodes : at'[m] \in {4, 5} => machine'[m] = "running"
      BY <1>5, <1>c, <2>1 DEF Boot
    <2>3. Sent' = Sent
      BY <1>5 DEF Boot, Sent
    <2> QED
      BY <1>5, <1>s, <2>2, <2>3 DEF Boot, channels
  <1>6. ASSUME NEW n \in Nodes, CallFails(n), outcome # "panic" PROVE CreateInv'
    <2>1. worker[n] = "run" /\ worker' = [worker EXCEPT ![n] = "send"] /\ failed' = failed \cup {n}
      BY <1>6, <1>k DEF CallFails, Goto
    <2>2. Sent' = Sent
      BY <2>1 DEF Sent, TypeOK
    <2>3. outcome' = outcome /\ outcome # "nil"
      BY <1>6, <2>1 DEF CallFails, MainInv, AllDone
    <2> QED
      BY <1>6, <1>s, <2>2, <2>3 DEF CallFails, channels
  <1>11. ASSUME NEW n \in Nodes, Hang(n) PROVE CreateInv'
    <2>1. worker[n] = "run" /\ worker' = [worker EXCEPT ![n] = "hung"] /\ failed' = failed
      BY <1>11 DEF Hang, Goto
    <2>2. Sent' = Sent
      BY <2>1 DEF Sent, TypeOK
    <2> QED
      BY <1>11, <1>s, <2>1, <2>2 DEF Hang, channels
  <1>12. ASSUME NEW n \in Nodes, NilClient(n) PROVE CreateInv'
    BY <1>12 DEF NilClient
  <1>7. ASSUME NEW n \in Nodes, SendError(n) \/ CloseByWorker(n) PROVE CreateInv'
    <2>1. n \in failed /\ UNCHANGED <<at, machine, resChan, nodeIds, failed>>
      BY <1>7 DEF SendError, CloseByWorker, WorkersInv
    <2>2. worker' = worker \/ \E label \in {"close", "finish"} : worker' = [worker EXCEPT ![n] = label]
      BY <1>7 DEF SendError, CloseByWorker, Goto
    <2>3. Sent' = Sent
      BY <2>1, <2>2 DEF Sent, TypeOK
    <2>4. outcome' = "nil" => outcome = "nil"
      BY <1>7 DEF SendError, CloseByWorker
    <2> QED
      BY <1>s, <2>1, <2>3, <2>4
  <1>8. ASSUME NEW n \in Nodes, SendResult(n) PROVE CreateInv'
    <2>1. worker[n] = "result" /\ n \notin failed /\ UNCHANGED <<at, machine, nodeIds, failed>>
      BY <1>8 DEF SendResult, WorkersInv
    <2>2. CASE ~resOpen
      <3>1. Sent' = Sent /\ outcome' # "nil" /\ resChan' = resChan
        BY <1>8, <2>2 DEF SendResult, Sent
      <3> QED
        BY <1>s, <2>1, <3>1
    <2>3. CASE resOpen
      <3>1. /\ resChan' = Append(resChan, n) /\ outcome' = outcome
            /\ worker' = [worker EXCEPT ![n] = "finish"]
        BY <1>8, <2>3 DEF SendResult, Goto
      <3>2. Sent' = Sent \cup {n} /\ n \notin Sent
        BY <2>1, <3>1 DEF Sent, TypeOK
      <3>3. Cardinality(Sent') = Cardinality(Sent) + 1 /\ Cardinality(Sent) \in Nat
        <4>1. IsFiniteSet(Sent)
          BY NodesFinite, FS_Subset DEF Sent
        <4> QED
          BY <4>1, <3>2, FS_AddElement, FS_CardinalityType
      <3>4. /\ Len(resChan') = Len(resChan) + 1
            /\ \E i \in 1 .. Len(resChan') : resChan'[i] = n
            /\ \A i \in 1 .. Len(resChan) : i \in 1 .. Len(resChan') /\ resChan'[i] = resChan[i]
        BY <1>t, <3>1, Sending
      <3>5. Arrived(n)' /\ \A m : Arrived(m) => Arrived(m)'
        BY <2>1, <3>4 DEF Arrived
      <3>6. outcome # "nil"
        BY <2>1 DEF MainInv, AllDone
      <3>7. Len(nodeIds) \in Nat /\ Len(resChan) \in Nat
        BY <1>t
      <3>8. Len(nodeIds') + Len(resChan') = Cardinality(Sent')
        BY <1>c, <2>1, <3>3, <3>4, <3>7
      <3> QED
        BY <1>c, <2>1, <3>1, <3>2, <3>5, <3>6, <3>8 DEF CreateInv
    <2> QED
      BY <2>2, <2>3
  <1>9. ASSUME NEW n \in Nodes, Call(n) PROVE CreateInv'
    <2>1. /\ at' = [at EXCEPT ![n] = @ + 1]
          /\ worker[n] = "run" /\ n \notin failed
          /\ Succeeds(n, CreateCalls[at[n]])
          /\ UNCHANGED <<failed, resChan, nodeIds, outcome>>
      BY <1>9, CallsInTurn DEF Call, Calls, channels
    <2>2. worker' = [worker EXCEPT ![n] = "run"] \/ worker' = [worker EXCEPT ![n] = "result"]
      BY <1>9, CallsInTurn DEF Goto
    <2>3. Sent' = Sent
      BY <2>1, <2>2 DEF Sent, TypeOK
    <2>4. at[n] \in 1 .. 4
      <3>1. ~Complete(n)
        BY <1>9 DEF Call, WorkersInv
      <3>2. ~(at[n] > 4)
        BY <3>1 DEF Complete, Calls, CreateCalls
      <3> QED
        BY <3>2 DEF TypeOK
    <2>5. at'[n] = at[n] + 1 /\ \A m \in Nodes \ {n} : at'[m] = at[m]
      BY <2>1, <2>4 DEF TypeOK
    <2>6. \A m \in Nodes \ {n} : machine'[m] = machine[m]
      <3>1. at[n] = 1 => machine' = [machine EXCEPT ![n] = "pending"]
        BY <2>1 DEF CreateCalls, Succeeds, RunInstances, Moves
      <3>2. at[n] \in {2, 3, 4} => machine' = machine
        <4>1. at[n] = 2 => machine' = machine
          BY <2>1 DEF CreateCalls, Succeeds
        <4>2. at[n] = 3 => machine' = machine
          BY <2>1 DEF CreateCalls, Succeeds, WaitForInstanceRunning, Observes
        <4>3. at[n] = 4 => machine' = machine
          BY <2>1 DEF CreateCalls, Succeeds
        <4> QED
          BY <4>1, <4>2, <4>3
      <3> QED
        BY <2>4, <3>1, <3>2 DEF TypeOK
    <2>7. at[n] = 3 => machine'[n] = "running"
      BY <2>1 DEF CreateCalls, Succeeds, WaitForInstanceRunning, Observes
    <2>8. at[n] = 4 => machine'[n] = "running"
      <3>1. at[n] = 4 => machine' = machine
        BY <2>1 DEF CreateCalls, Succeeds
      <3> QED
        BY <1>c, <3>1
    <2>9. \A m \in Nodes : at'[m] \in {4, 5} => machine'[m] = "running"
      BY <1>c, <2>4, <2>5, <2>6, <2>7, <2>8
    <2> QED
      BY <1>s, <2>1, <2>3, <2>9
  <1>10. ASSUME NEW n \in Nodes, Done(n) PROVE CreateInv'
    <2>1. worker[n] = "finish" /\ worker' = [worker EXCEPT ![n] = "done"] /\ failed' = failed
      BY <1>10 DEF Done, Goto
    <2>2. Sent' = Sent
      BY <2>1 DEF Sent, TypeOK
    <2> QED
      BY <1>10, <1>s, <2>2 DEF Done, channels
  <1> QED
    BY <1>1, <1>2, <1>3, <1>4, <1>5, <1>6, <1>7, <1>8, <1>9, <1>10, <1>11, <1>12
    DEF Next, Main, Closer, Worker

-----------------------------------------------------------------------------
\* The theorems

\* The invariant is inductive.
LEMMA FanOutInvStep == FanOutInv /\ [Next]_vars => FanOutInv'
  BY TypeStep, WorkersStep, MainStep, ErrorStep, RebootStep, CreateStep DEF FanOutInv

\* Hence it always holds.
LEMMA FanOutInvAlways == Spec => []FanOutInv
  BY FanOutInvInit, FanOutInvStep, PTL DEF Spec

\* Every variable keeps its type, and wg.Add and wg.Done are as many as the goroutines
\* that have begun and ended, whatever fails in between.
THEOREM FanOutTypes == Spec => []TypeOK
  <1>1. FanOutInv => TypeOK
    BY DEF FanOutInv
  <1> QED
    BY <1>1, FanOutInvAlways, PTL

\* TestRebootInstances has at most the node at hand down, besides those whose reboot
\* has failed.
THEOREM RebootsOneByOne == Spec => []DownIsRebootedOrFailed
  <1>1. FanOutInv => DownIsRebootedOrFailed
    <2> SUFFICES ASSUME FanOutInv, kind = "reboot", NEW n \in Nodes,
                        machine[n] # "running", n \notin failed
                 PROVE  n \in Active
      BY DEF DownIsRebootedOrFailed
    <2> USE DEF FanOutInv
    <2>1. at[n] \notin {1, 5} /\ at[n] \in 1 .. 5 /\ worker[n] # "idle"
      BY DEF RebootInv, TypeOK
    <2>2. ~Complete(n)
      <3>1. ~(at[n] > 4)
        BY <2>1
      <3> QED
        BY <3>1 DEF Complete, Calls, RebootCalls
    <2>3. worker[n] # "done"
      BY <2>2 DEF WorkersInv
    <2> QED
      BY <2>1, <2>3 DEF Active
  <1> QED
    BY <1>1, FanOutInvAlways, PTL

\* CreateInstances returns each new instance once, running, when it returns no error.
THEOREM EveryInstanceIsReturned == Spec => []ResultsComplete
  <1>1. FanOutInv => ResultsComplete
    <2> SUFFICES ASSUME FanOutInv, kind = "create", outcome = "nil"
                 PROVE  /\ Len(nodeIds) = N
                        /\ \A n \in Nodes : /\ machine[n] = "running"
                                            /\ \E i \in 1 .. Len(nodeIds) : nodeIds[i] = n
      BY DEF ResultsComplete
    <2> USE DEF FanOutInv
    <2>1. resChan = <<>> /\ failed = {} /\ AllDone
      BY DEF CreateInv, MainInv
    <2>2. Sent = Nodes
      BY <2>1 DEF Sent, AllDone
    <2>3. Len(nodeIds) \in Nat /\ Len(resChan) = 0
      BY <2>1 DEF TypeOK
    <2>4. Len(nodeIds) = N
      BY <2>2, <2>3, NodesFinite DEF CreateInv
    <2>5. \A n \in Nodes : \E i \in 1 .. Len(nodeIds) : nodeIds[i] = n
      BY <2>2, <2>3 DEF CreateInv, Arrived
    <2>6. \A n \in Nodes : at[n] = 5
      <3>1. Calls(kind) = CreateCalls
        BY DEF Calls
      <3>2. Len(Calls(kind)) = 4
        BY <3>1 DEF CreateCalls
      <3>3. \A n \in Nodes : at[n] > 4
        BY <2>1, <3>2 DEF WorkersInv, AllDone, Complete
      <3>4. \A n \in Nodes : at[n] \in 1 .. 5
        BY DEF TypeOK
      <3> QED
        BY <3>3, <3>4
    <2> QED
      BY <2>4, <2>5, <2>6 DEF CreateInv
  <1> QED
    BY <1>1, FanOutInvAlways, PTL

-----------------------------------------------------------------------------
\* The refinement

Prepared == {n \in Nodes : Complete(n)}
Reports == kind \notin WaitKinds \cup RebootKinds

\* A step that ends no node and returns nothing is a stutter.
LEMMA Stutters ==
    ASSUME TypeOK, UNCHANGED <<kind, at, failed, outcome>>
    PROVE  UNCHANGED Abstract!vars
  <1>1. \A n : Complete(n)' <=> Complete(n)
    BY CompleteStays
  <1> QED
    BY <1>1 DEF Abstract!vars

\* When all goroutines have ended no node is open.
LEMMA NothingOpen ==
    ASSUME TypeOK, WorkersInv, AllDone
    PROVE  Abstract!Open = {}
  BY DEF WorkersInv, AllDone, Abstract!Open

\* Only the operations with an error channel report.
LEMMA ReportsByShape == TypeOK => (Reports <=> shape \in {"chan", "scp"})
  BY Shapes, FanOutConstants DEF TypeOK, Reports, shape

\* Steps that make no call prepare no node.
LEMMA PreparedStays ==
    ASSUME TypeOK, UNCHANGED <<kind, at>>
    PROVE  Prepared' = Prepared /\ Reports' = Reports
  <1>1. \A n : Complete(n)' <=> Complete(n)
    BY CompleteStays
  <1> QED
    BY <1>1 DEF Prepared, Reports

\* What the caller has to know to return, in the terms of PrepareNodes.
LEMMA Returning ==
    ASSUME TypeOK, UNCHANGED <<kind, at, failed>>, outcome = "none"
    PROVE  /\ outcome' = "nil" /\ Abstract!Open = {} /\ (Reports => failed = {})
                => Abstract!ReturnNil
           /\ outcome' = "error" /\ (Reports => failed # {}) => Abstract!ReturnError
           /\ outcome' = "panic" /\ failed # {} => Abstract!Panic
  <1>1. Prepared' = Prepared /\ Reports' = Reports
    BY PreparedStays
  <1>2. \A n \in failed : failed' = failed \cup {n}
    OBVIOUS
  <1>3. outcome' = "panic" /\ failed # {} => Abstract!Panic
    BY <1>1, <1>2 DEF Abstract!Panic, Prepared, Reports
  <1> QED
    BY <1>1, <1>3 DEF Abstract!ReturnNil, Abstract!ReturnError, Prepared, Reports

\* Nothing is prepared in the beginning.
LEMMA PrepareInit == Init => Abstract!Init
  <1> SUFFICES ASSUME Init PROVE Abstract!Init
    OBVIOUS
  <1>1. kind \in Kinds
    BY DEF Init
  <1>2. \A n \in Nodes : ~Complete(n)
    BY <1>1, LastCall DEF Init
  <1> QED
    BY <1>2 DEF Init, Abstract!Init

\* Each step is one of PrepareNodes or a stutter.
LEMMA PrepareStep == FanOutInv /\ [Next]_vars => [Abstract!Next]_(Abstract!vars)
  <1> SUFFICES ASSUME FanOutInv, [Next]_vars
               PROVE  Abstract!Next \/ UNCHANGED Abstract!vars
    OBVIOUS
  <1>i. TypeOK /\ WorkersInv /\ MainInv /\ ErrorInv
    BY DEF FanOutInv
  <1>r. Reports <=> shape \in {"chan", "scp"}
    BY <1>i, ReportsByShape
  <1>m. main # "done" /\ outcome # "panic" => outcome = "none"
    BY <1>i, OutcomeWhileOpen
  <1>n. ASSUME Abstract!ReturnNil \/ Abstract!ReturnError \/ Abstract!Panic
        PROVE  Abstract!Next
    BY <1>n DEF Abstract!Next
  <1>p. ASSUME NEW n \in Nodes, Abstract!Prepare(n) \/ Abstract!Fail(n)
        PROVE  Abstract!Next
    BY <1>p DEF Abstract!Next
  <1>1. CASE \/ Spawn \/ AllSpawned \/ CloseResults \/ CloseErrors
             \/ \E n \in Nodes : Boot(n) \/ Hang(n) \/ Done(n)
             \/ UNCHANGED vars
    BY <1>1, <1>i, Stutters
    DEF Spawn, AllSpawned, CloseResults, CloseErrors, Boot, Hang, Done, vars
  <1>2. CASE LookupFails /\ outcome # "panic"
    <2>1. outcome = "none" /\ shape = "reboot"
      BY <1>2, <1>m DEF LookupFails
    <2> QED
      BY <1>2, <2>1, <1>i, <1>n, <1>r, Returning DEF LookupFails
  <1>3. CASE Wait /\ outcome # "panic"
    <2>1. outcome = "none" /\ shape # "chan" /\ UNCHANGED <<kind, at, failed>>
      BY <1>3, <1>i, <1>m DEF Wait, MainInv
    <2>2. CASE outcome' = outcome
      BY <2>1, <2>2, <1>i, Stutters
    <2>3. CASE outcome' # outcome
      <3>1. outcome' = "nil" /\ shape # "scp" /\ ~(shape = "reboot" /\ next \in Nodes)
        BY <1>3, <2>3 DEF Wait, Return
      <3>2. next = N + 1
        <4>1. shape # "reboot" => next = N + 1
          BY <1>3, <1>i DEF Wait, MainInv
        <4>2. next \in 1 .. N + 1
          BY <1>i DEF TypeOK
        <4>3. next \notin Nodes => next = N + 1
          BY <4>2, FanOutConstants DEF Nodes
        <4> QED
          BY <3>1, <4>1, <4>3
      <3>3. AllDone
        BY <1>3, <3>2, <1>i, WaitedForAll DEF Wait
      <3> QED
        BY <2>1, <3>1, <3>3, <1>i, <1>n, <1>r, NothingOpen, Returning
    <2> QED
      BY <2>2, <2>3
  <1>4. CASE CloseByMain /\ outcome # "panic"
    <2>1. outcome = "none" /\ shape = "scp" /\ AllDone /\ UNCHANGED <<kind, at, failed>>
      BY <1>4, <1>i, <1>m DEF CloseByMain, MainInv
    <2>2. errOpen => failed = {}
      BY <2>1, <1>i DEF ErrorInv, AllDone, TypeOK
    <2>3. ~errOpen => failed # {}
      BY <1>4, <2>1, <1>i DEF CloseByMain, ErrorInv
    <2>4. outcome' = IF errOpen THEN "nil" ELSE "panic"
      BY <1>4 DEF CloseByMain, Return
    <2> QED
      BY <2>1, <2>2, <2>3, <2>4, <1>i, <1>n, <1>r, NothingOpen, Returning
  <1>5. CASE DrainErrors /\ outcome # "panic"
    <2>1. outcome = "none" /\ shape = "chan" /\ UNCHANGED <<kind, at, failed>>
      BY <1>5, <1>i, <1>m DEF DrainErrors, MainInv
    <2>2. CASE errChan > 0 /\ outcome' = "error"
      <3>1. failed # {}
        BY <2>2, <1>i DEF ErrorInv
      <3> QED
        BY <2>1, <2>2, <3>1, <1>i, <1>n, Returning
    <2>3. CASE errChan = 0 /\ ~errOpen /\ outcome' \in {"none", "nil"}
      <3>1. failed = {} /\ AllDone
        BY <2>1, <2>3, <1>i, NothingFailed
      <3>2. Abstract!Open = {}
        BY <3>1, <1>i, NothingOpen
      <3>3. CASE outcome' = "none"
        BY <2>1, <3>3, <1>i, Stutters
      <3>4. CASE outcome' = "nil"
        BY <2>1, <3>1, <3>2, <3>4, <1>i, <1>n, Returning
      <3> QED
        BY <2>3, <3>3, <3>4
    <2> QED
      BY <1>5, <2>1, <2>2, <2>3 DEF DrainErrors, Return
  <1>6. CASE CollectResults /\ outcome # "panic"
    <2>1. outcome = "none" /\ failed = {} /\ AllDone /\ UNCHANGED <<kind, at, failed>>
      BY <1>6, <1>i, <1>m DEF CollectResults, ErrorInv
    <2>2. outcome' = outcome \/ outcome' = "nil"
      BY <1>6 DEF CollectResults, Return
    <2>3. Abstract!Open = {}
      BY <2>1, <1>i, NothingOpen
    <2> QED
      BY <2>1, <2>2, <2>3, <1>i, <1>n, Stutters, Returning
  <1>w. ASSUME NEW n \in Nodes, Worker(n), outcome # "panic"
        PROVE  outcome \in {"none", "error"} /\ (outcome = "error" => shape # "scp")
               /\ ~AllDone
    BY <1>w, <1>i, DoneIsForGood DEF MainInv, TypeOK
  <1>7. ASSUME NEW n \in Nodes, Call(n), outcome # "panic"
        PROVE  Abstract!Next \/ UNCHANGED Abstract!vars
    <2>1. UNCHANGED <<kind, failed, outcome>>
      BY <1>7 DEF Call
    <2>2. /\ ~Complete(n) /\ (Complete(n)' <=> at[n] = Last)
          /\ \A m \in Nodes \ {n} : Complete(m)' <=> Complete(m)
      BY <1>7, <1>i, CompleteAfterCall
    <2>3. n \notin failed
      BY <1>7, <1>i DEF Call, WorkersInv
    <2>4. outcome \in {"none", "error"}
      BY <1>7, <1>w DEF Worker
    <2>5. Prepared' = IF at[n] = Last THEN Prepared \cup {n} ELSE Prepared
      BY <2>2 DEF Prepared
    <2>6. CASE at[n] = Last
      <3>1. Abstract!Prepare(n)
        BY <2>1, <2>2, <2>3, <2>4, <2>5, <2>6
        DEF Abstract!Prepare, Abstract!Open, Prepared
      <3> QED
        BY <3>1, <1>p
    <2>7. CASE at[n] # Last
      BY <2>1, <2>5, <2>7 DEF Abstract!vars, Prepared
    <2> QED
      BY <2>6, <2>7
  <1>8. ASSUME NEW n \in Nodes, CallFails(n), outcome # "panic"
        PROVE  Abstract!Next
    <2>1. UNCHANGED <<kind, at, outcome>> /\ failed' = failed \cup {n}
      BY <1>8 DEF CallFails
    <2>2. n \notin failed /\ ~Complete(n)
      BY <1>8, <1>i DEF CallFails, WorkersInv
    <2>3. outcome \in {"none", "error"}
      BY <1>8, <1>w DEF Worker
    <2>4. Abstract!Fail(n)
      BY <2>1, <2>2, <2>3, <1>i, PreparedStays DEF Abstract!Fail, Abstract!Open, Prepared
    <2> QED
      BY <2>4, <1>p
  <1>10. ASSUME NEW n \in Nodes, NilClient(n), outcome # "panic"
         PROVE  Abstract!Next
    <2>1. UNCHANGED <<kind, at>> /\ outcome' = "panic" /\ failed' = failed \cup {n}
      BY <1>10 DEF NilClient
    <2>2. n \in Abstract!Open
      BY <1>10, <1>i DEF NilClient, WorkersInv, Abstract!Open
    <2>3. outcome = "none"
      <3>1. shape = "wait"
        BY <1>10, <1>i, Shapes, FanOutConstants DEF NilClient, shape, TypeOK
      <3> QED
        BY <3>1, <1>10, <1>i, <1>w DEF Worker, MainInv
    <2>4. Abstract!Panic
      BY <2>1, <2>2, <2>3, <1>i, PreparedStays DEF Abstract!Panic, Prepared, Reports
    <2> QED
      BY <2>4, <1>n
  <1>9. ASSUME NEW n \in Nodes, SendError(n) \/ CloseByWorker(n) \/ SendResult(n),
               outcome # "panic"
        PROVE  Abstract!Next \/ UNCHANGED Abstract!vars
    <2>1. UNCHANGED <<kind, at, failed>>
      BY <1>9 DEF SendError, CloseByWorker, SendResult
    <2>2. outcome \in {"none", "error"} /\ (outcome = "error" => shape # "scp") /\ ~AllDone
      BY <1>9, <1>w DEF Worker
    <2>3. CASE outcome' = outcome
      BY <2>1, <2>3, <1>i, Stutters
    <2>4. CASE outcome' # outcome
      <3>1. CASE SendError(n)
        <4>1. outcome' = "panic" /\ ~errOpen /\ n \in failed /\ shape \in {"chan", "scp"}
          BY <3>1, <2>4, <1>i DEF SendError, WorkersInv, Reporting
        <4>2. shape = "scp"
          BY <4>1, <2>2, <1>i DEF MainInv
        <4> QED
          BY <2>1, <2>2, <4>1, <4>2, <1>i, <1>n, <1>r, Returning
      <3>2. CASE CloseByWorker(n)
        <4>1. outcome' = "panic" /\ n \in failed /\ shape = "scp"
          BY <3>2, <2>4, <1>i DEF CloseByWorker, WorkersInv
        <4> QED
          BY <2>1, <2>2, <4>1, <1>i, <1>n, <1>r, Returning
      <3>3. CASE SendResult(n)
        BY <3>3, <2>2, <2>4, <1>i DEF SendResult, MainInv
      <3> QED
        BY <1>9, <3>1, <3>2, <3>3
    <2> QED
      BY <2>3, <2>4
  <1> QED
    BY <1>1, <1>2, <1>3, <1>4, <1>5, <1>6, <1>7, <1>8, <1>9, <1>10 DEF Next, Main, Closer, Worker

\* Every operation that runs one goroutine per node does what its callers rely on: nil
\* only when every call for every node has succeeded, an error or a panic only when one
\* has failed.
THEOREM FanOutPrepares == Spec => PrepareSpec
  BY PrepareInit, PrepareStep, FanOutInvAlways, PTL DEF Spec, PrepareSpec, Abstract!Spec
=============================================================================
