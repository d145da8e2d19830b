------------------------------- MODULE SshPool -------------------------------
(***************************************************************************)
(* The pool of SSH connections of shared/ssh.go, used by goroutines that   *)
(* run commands on one host: ConfigureIPv6OnlyNodes and CopyAssetsOnNodes  *)
(* start one goroutine for each node, and all of them go through the       *)
(* bastion.  The mutex covers single accesses of the map; the check of a   *)
(* connection, its removal and the dialling of a new one interleave.       *)
(* Entries of different hosts do not interact, so one host is modelled.    *)
(***************************************************************************)
EXTENDS Naturals, FiniteSets

CONSTANTS
    Workers,      \* the goroutines
    Conns,        \* the connections that may be dialled
    NoConn,       \* no entry for the host, or a worker that holds no connection
    MaxSessions,  \* sessions the server allows on one connection (sshd MaxSessions)
    MaxCalls,     \* bound: commands run by one worker
    MaxFaults     \* bound: connections that break

ASSUME SshPoolConstants ==
    /\ NoConn \notin Conns
    /\ IsFiniteSet(Workers)
    /\ MaxSessions \in Nat \ {0} /\ MaxCalls \in Nat /\ MaxFaults \in Nat

VARIABLES
    pool,    \* connPool.connClient[host]
    conns,   \* each connection: "new", "open", "broken" by the network, "closed" by Close
    pc,      \* the next step of each worker
    held,    \* the connection a worker works with
    calls,   \* commands a worker has run
    faults   \* connections broken so far

vars == <<pool, conns, pc, held, calls, faults>>

InSession == {"probing", "running"}

Sessions(c) == {w \in Workers : pc[w] \in InSession /\ held[w] = c}
Dialled     == {c \in Conns : conns[c] # "new"}

Init ==
    /\ pool = NoConn
    /\ conns = [c \in Conns |-> "new"]
    /\ pc = [w \in Workers |-> "idle"]
    /\ held = [w \in Workers |-> NoConn]
    /\ calls = [w \in Workers |-> 0]
    /\ faults = 0

Goto(w, l) == pc' = [pc EXCEPT ![w] = l]
Hold(w, c) == held' = [held EXCEPT ![w] = c]

\* NewSession on the connection w holds.
SessionOpens(w) == conns[held[w]] = "open" /\ Cardinality(Sessions(held[w])) < MaxSessions

-----------------------------------------------------------------------------
(* getOrDialSSH *)

Lookup(w) ==
    /\ pc[w] = "idle"
    /\ calls[w] < MaxCalls
    /\ calls' = [calls EXCEPT ![w] = @ + 1]
    /\ Hold(w, pool)
    /\ Goto(w, IF pool = NoConn THEN "dial" ELSE "probe")
    /\ UNCHANGED <<pool, conns, faults>>

\* mutant: a connection that runs a command of another worker is given up
ProbeWhenIdle(w) ==
    /\ pc[w] = "probe"
    /\ Goto(w, IF SessionOpens(w) /\ Sessions(held[w]) = {} THEN "probing" ELSE "close")
    /\ UNCHANGED <<pool, conns, held, calls, faults>>

\* "echo ok" on the connection found: the session opens or the connection is given up.
Probe(w) ==
    /\ pc[w] = "probe"
    /\ Goto(w, IF SessionOpens(w) THEN "probing" ELSE "close")
    /\ UNCHANGED <<pool, conns, held, calls, faults>>

ProbeEnd(w) ==
    /\ pc[w] = "probing"
    /\ Goto(w, IF conns[held[w]] = "open" THEN "run" ELSE "close")
    /\ UNCHANGED <<pool, conns, held, calls, faults>>

\* Close ends every session of the connection, whoever runs it.
Close(w) ==
    /\ pc[w] = "close"
    /\ conns' = [conns EXCEPT ![held[w]] = "closed"]
    /\ Goto(w, "remove")
    /\ UNCHANGED <<pool, held, calls, faults>>

\* mutant: a connection that was closed stays in the pool
RemoveNothing(w) ==
    /\ pc[w] = "remove"
    /\ Hold(w, NoConn)
    /\ Goto(w, "dial")
    /\ UNCHANGED <<pool, conns, calls, faults>>

\* The entry of the host is deleted, whatever it is by now.
Remove(w) ==
    /\ pc[w] = "remove"
    /\ pool' = NoConn
    /\ Hold(w, NoConn)
    /\ Goto(w, "dial")
    /\ UNCHANGED <<conns, calls, faults>>

\* mutant: the error of configureSSH is not checked
DialUnchecked(w) ==
    /\ pc[w] = "dial"
    /\ \/ \E c \in Conns :
             /\ conns[c] = "new"
             /\ conns' = [conns EXCEPT ![c] = "open"]
             /\ Hold(w, c)
       \/ UNCHANGED <<conns, held>>
    /\ Goto(w, "store")
    /\ UNCHANGED <<pool, calls, faults>>

\* configureSSH dials a new connection, or the call fails.
Dial(w) ==
    /\ pc[w] = "dial"
    /\ \/ \E c \in Conns :
             /\ conns[c] = "new"
             /\ conns' = [conns EXCEPT ![c] = "open"]
             /\ Hold(w, c)
             /\ Goto(w, "store")
       \/ Goto(w, "idle") /\ UNCHANGED <<conns, held>>
    /\ UNCHANGED <<pool, calls, faults>>

\* mutant: the new connection is used and not stored
StoreForgotten(w) ==
    /\ pc[w] = "store"
    /\ Goto(w, "run")
    /\ UNCHANGED <<pool, conns, held, calls, faults>>

\* The new connection replaces the entry of the host.
Store(w) ==
    /\ pc[w] = "store"
    /\ pool' = held[w]
    /\ Goto(w, "run")
    /\ UNCHANGED <<conns, held, calls, faults>>

-----------------------------------------------------------------------------
(* RunCommandOnNode: the command on the connection that was returned *)

Run(w) ==
    /\ pc[w] = "run"
    /\ IF SessionOpens(w) THEN Goto(w, "running") /\ UNCHANGED held
                          ELSE Goto(w, "idle") /\ Hold(w, NoConn)
    /\ UNCHANGED <<pool, conns, calls, faults>>

\* The command ends, with its output or because its connection is gone.
RunEnd(w) ==
    /\ pc[w] = "running"
    /\ Goto(w, "idle")
    /\ Hold(w, NoConn)
    /\ UNCHANGED <<pool, conns, calls, faults>>

\* The network or the host breaks a connection (external).
Break(c) ==
    /\ conns[c] = "open"
    /\ faults < MaxFaults
    /\ faults' = faults + 1
    /\ conns' = [conns EXCEPT ![c] = "broken"]
    /\ UNCHANGED <<pool, pc, held, calls>>

Finished == (\A w \in Workers : pc[w] = "idle" /\ calls[w] = MaxCalls) /\ UNCHANGED vars

WorkerStep(w) ==
    \/ Lookup(w) \/ Probe(w) \/ ProbeEnd(w) \/ Close(w) \/ Remove(w) \/ Dial(w) \/ Store(w)
    \/ Run(w) \/ RunEnd(w)

Next ==
    \/ \E w \in Workers : WorkerStep(w)
    \/ \E c \in Conns : Break(c)
    \/ Finished

Spec == Init /\ [][Next]_vars

-----------------------------------------------------------------------------
(* Properties *)

TypeOK ==
    /\ pool \in Conns \cup {NoConn}
    /\ conns \in [Conns -> {"new", "open", "broken", "closed"}]
    /\ pc \in [Workers -> {"idle", "probe", "probing", "close", "remove", "dial", "store",
                           "run", "running"}]
    /\ held \in [Workers -> Conns \cup {NoConn}]
    /\ calls \in [Workers -> 0..MaxCalls]
    /\ faults \in 0..MaxFaults
    /\ \A w \in Workers : pc[w] \notin {"idle", "dial"} => held[w] \in Conns

\* A connection the pool has closed is only in the map while the worker that closed it is
\* about to remove it, so that no later call is given it for good; and one that works is
\* found again: while nothing breaks, the workers dial at most one connection each,
\* however many commands they run.
PoolServes ==
    /\ \A c \in Conns : pool = c /\ conns[c] = "closed" =>
          \E w \in Workers : pc[w] = "remove" /\ held[w] = c
    /\ faults = 0 /\ Cardinality(Workers) <= MaxSessions =>
          Cardinality(Dialled) <= Cardinality(Workers)

\* The check of a connection by one worker never ends the command of another one, as long
\* as the server allows a session to every worker.
CommandsAreNotCut ==
    [][\A w \in Workers :
          Cardinality(Workers) <= MaxSessions /\ pc[w] \in InSession /\ conns[held[w]] = "open"
              => (conns')[held[w]] # "closed"]_vars
=============================================================================
