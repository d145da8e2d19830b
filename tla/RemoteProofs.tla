---------------------------- MODULE RemoteProofs ----------------------------
(***************************************************************************)
(* Proofs about what every test reaches the cluster through: the pool of   *)
(* SSH connections (SshPool), the retried command (SshRetry) and the       *)
(* health gate (NodeWatch).  The three do not share state, and each        *)
(* theorem is about the specification of one of them.                      *)
(***************************************************************************)
EXTENDS SshPool, SshRetry, NodeWatch, FiniteSetTheorems, SequenceTheorems, TLAPS

-----------------------------------------------------------------------------
(* SshPool, for every number of workers, connections, commands and faults.   *)
(* PoolInv is the inductive invariant: a connection about to be stored       *)
(* belongs to one worker alone, one about to be closed does not work, unless *)
(* the server is out of sessions, and while nothing breaks the workers that  *)
(* may still dial are counted.                                               *)

\* A worker works with a connection that was dialled; one it has just dialled is its own.
HoldsInv ==
    /\ pool # NoConn => conns[pool] # "new"
    /\ \A w \in Workers : pc[w] \notin {"idle", "dial"} => conns[held[w]] # "new"
    /\ \A w \in Workers : pc[w] \in {"idle", "dial"} => held[w] = NoConn
    /\ \A w \in Workers : pc[w] = "store" =>
          /\ pool # held[w] /\ conns[held[w]] # "closed"
          /\ \A v \in Workers : held[v] = held[w] => v = w

\* The pool has a closed connection only until it is removed.
RemovalInv ==
    \A c \in Conns : pool = c /\ conns[c] = "closed" =>
        \E w \in Workers : pc[w] = "remove" /\ held[w] = c

\* There is a session for every worker.
EnoughSessions == Cardinality(Workers) <= MaxSessions

\* A connection is given up only when it does not work.
CloseInv ==
    EnoughSessions => \A w \in Workers : pc[w] = "close" => conns[held[w]] # "open"

Dialling == {w \in Workers : pc[w] = "dial"}
Storing  == {w \in Workers : pc[w] = "store"}

\* While nothing breaks nothing is closed, and the workers that may still dial, or have
\* dialled and found no entry, are counted with the connections.
CalmInv ==
    EnoughSessions /\ faults = 0 =>
        /\ \A c \in Conns : conns[c] \in {"new", "open"}
        /\ \A w \in Workers : pc[w] \notin {"close", "remove"}
        /\ IsFiniteSet(Dialled)
        /\ pool = NoConn => Cardinality(Dialled) <= Cardinality(Storing)
        /\ pool # NoConn => Cardinality(Dialled) + Cardinality(Dialling) <= Cardinality(Workers)

PoolInv == TypeOK /\ HoldsInv /\ RemovalInv /\ CloseInv /\ CalmInv

-----------------------------------------------------------------------------

\* The pool is empty in the beginning.
LEMMA PoolInvInit == Init => PoolInv
  <1> SUFFICES ASSUME Init PROVE PoolInv
    OBVIOUS
  <1>1. TypeOK /\ HoldsInv /\ RemovalInv /\ CloseInv
    BY SshPoolConstants DEF Init, TypeOK, HoldsInv, RemovalInv, CloseInv
  <1>2. Dialled = {} /\ Storing = {} /\ IsFiniteSet({}) /\ Cardinality({}) = 0
    BY FS_EmptySet DEF Init, Dialled, Storing
  <1>3. pool = NoConn /\ \A c \in Conns : conns[c] = "new"
    BY DEF Init
  <1>4. \A w \in Workers : pc[w] = "idle"
    BY DEF Init
  <1>5. CalmInv
    BY <1>2, <1>3, <1>4 DEF CalmInv
  <1> QED
    BY <1>1, <1>5 DEF PoolInv

\* The types.
LEMMA PoolTypeStep == TypeOK /\ HoldsInv /\ [Next]_vars => TypeOK'
  <1> SUFFICES ASSUME TypeOK, HoldsInv, [Next]_vars PROVE TypeOK'
    OBVIOUS
  <1> USE SshPoolConstants DEF TypeOK, Goto, Hold
  <1>1. ASSUME NEW w \in Workers, Lookup(w) PROVE TypeOK'
    BY <1>1 DEF Lookup
  <1>2. ASSUME NEW w \in Workers, Probe(w) \/ ProbeEnd(w) \/ Close(w) PROVE TypeOK'
    BY <1>2 DEF Probe, ProbeEnd, Close
  <1>3. ASSUME NEW w \in Workers, Remove(w) \/ Dial(w) \/ Store(w) PROVE TypeOK'
    BY <1>3 DEF Remove, Dial, Store
  <1>4. ASSUME NEW w \in Workers, Run(w) \/ RunEnd(w) PROVE TypeOK'
    BY <1>4 DEF Run, RunEnd
  <1>5. ASSUME NEW c \in Conns, Break(c) PROVE TypeOK'
    BY <1>5 DEF Break
  <1>6. CASE UNCHANGED vars
    BY <1>6 DEF vars
  <1> QED
    BY <1>1, <1>2, <1>3, <1>4, <1>5, <1>6 DEF Next, WorkerStep, Finished

\* Who holds what.
LEMMA HoldsStep == TypeOK /\ HoldsInv /\ [Next]_vars => HoldsInv'
  <1> SUFFICES ASSUME TypeOK, HoldsInv, [Next]_vars PROVE HoldsInv'
    OBVIOUS
  <1> USE SshPoolConstants DEF TypeOK, HoldsInv, Goto, Hold
  <1>1. ASSUME NEW w \in Workers, Lookup(w) PROVE HoldsInv'
    BY <1>1 DEF Lookup
  <1>2. ASSUME NEW w \in Workers, Probe(w) PROVE HoldsInv'
    BY <1>2 DEF Probe
  <1>3. ASSUME NEW w \in Workers, ProbeEnd(w) PROVE HoldsInv'
    BY <1>3 DEF ProbeEnd
  <1>4. ASSUME NEW w \in Workers, Close(w) PROVE HoldsInv'
    BY <1>4 DEF Close
  <1>5. ASSUME NEW w \in Workers, Remove(w) PROVE HoldsInv'
    BY <1>5 DEF Remove
  <1>6. ASSUME NEW w \in Workers, Dial(w) PROVE HoldsInv'
    BY <1>6 DEF Dial
  <1>7. ASSUME NEW w \in Workers, Store(w) PROVE HoldsInv'
    BY <1>7 DEF Store
  <1>8. ASSUME NEW w \in Workers, Run(w) \/ RunEnd(w) PROVE HoldsInv'
    BY <1>8 DEF Run, RunEnd
  <1>9. ASSUME NEW c \in Conns, Break(c) PROVE HoldsInv'
    BY <1>9 DEF Break
  <1>10. CASE UNCHANGED vars
    BY <1>10 DEF vars
  <1> QED
    BY <1>1, <1>2, <1>3, <1>4, <1>5, <1>6, <1>7, <1>8, <1>9, <1>10 DEF Next, WorkerStep, Finished

\* A closed connection in the pool has a worker that removes it.
LEMMA RemovalStep == TypeOK /\ HoldsInv /\ RemovalInv /\ [Next]_vars => RemovalInv'
  <1> SUFFICES ASSUME TypeOK, HoldsInv, RemovalInv, [Next]_vars PROVE RemovalInv'
    OBVIOUS
  <1> USE SshPoolConstants DEF TypeOK, RemovalInv, Goto, Hold
  <1>1. ASSUME NEW w \in Workers, Lookup(w) \/ Probe(w) \/ ProbeEnd(w) PROVE RemovalInv'
    BY <1>1 DEF Lookup, Probe, ProbeEnd
  <1>2. ASSUME NEW w \in Workers, Close(w) PROVE RemovalInv'
    BY <1>2 DEF Close
  <1>3. ASSUME NEW w \in Workers, Remove(w) PROVE RemovalInv'
    BY <1>3 DEF Remove
  <1>4. ASSUME NEW w \in Workers, Dial(w) PROVE RemovalInv'
    BY <1>4 DEF Dial
  <1>5. ASSUME NEW w \in Workers, Store(w) PROVE RemovalInv'
    <2>1. conns[held[w]] # "closed" /\ pool' = held[w] /\ conns' = conns
      BY <1>5 DEF Store, HoldsInv
    <2> QED
      BY <2>1
  <1>6. ASSUME NEW w \in Workers, Run(w) \/ RunEnd(w) PROVE RemovalInv'
    <2>1. UNCHANGED <<pool, conns>> /\ pc[w] # "remove"
      BY <1>6 DEF Run, RunEnd
    <2>2. \A v \in Workers : v # w => pc'[v] = pc[v] /\ held'[v] = held[v]
      BY <1>6 DEF Run, RunEnd
    <2> QED
      BY <2>1, <2>2
  <1>7. ASSUME NEW c \in Conns, Break(c) PROVE RemovalInv'
    BY <1>7 DEF Break
  <1>8. CASE UNCHANGED vars
    BY <1>8 DEF vars
  <1> QED
    BY <1>1, <1>2, <1>3, <1>4, <1>5, <1>6, <1>7, <1>8 DEF Next, WorkerStep, Finished

\* A worker that asks for a session finds one free, if there are enough.
LEMMA SessionsLeft ==
    ASSUME TypeOK, EnoughSessions, NEW w \in Workers, pc[w] \notin InSession
    PROVE  SessionOpens(w) <=> conns[held[w]] = "open"
  <1>1. Sessions(held[w]) \subseteq Workers \ {w}
    BY DEF Sessions
  <1>2. /\ IsFiniteSet(Workers \ {w}) /\ Cardinality(Workers \ {w}) = Cardinality(Workers) - 1
        /\ Cardinality(Workers) \in Nat
    BY SshPoolConstants, FS_RemoveElement, FS_CardinalityType
  <1>3. Cardinality(Sessions(held[w])) <= Cardinality(Workers \ {w})
    BY <1>1, <1>2, FS_Subset
  <1>4. Cardinality(Sessions(held[w])) \in Nat
    BY <1>1, <1>2, FS_Subset, FS_CardinalityType
  <1>5. Cardinality(Sessions(held[w])) < MaxSessions
    BY <1>2, <1>3, <1>4, SshPoolConstants DEF EnoughSessions
  <1> QED
    BY <1>5 DEF SessionOpens

\* No connection that works is given up.
LEMMA CloseStep == TypeOK /\ HoldsInv /\ CloseInv /\ [Next]_vars => CloseInv'
  <1> SUFFICES ASSUME TypeOK, HoldsInv, CloseInv, [Next]_vars, EnoughSessions PROVE CloseInv'
    BY DEF CloseInv, EnoughSessions
  <1> USE SshPoolConstants DEF TypeOK, CloseInv, Goto, Hold
  <1>1. ASSUME NEW w \in Workers, Lookup(w) PROVE CloseInv'
    BY <1>1 DEF Lookup
  <1>2. ASSUME NEW w \in Workers, Probe(w) PROVE CloseInv'
    BY <1>2, SessionsLeft DEF Probe, InSession
  <1>3. ASSUME NEW w \in Workers, ProbeEnd(w) PROVE CloseInv'
    BY <1>3 DEF ProbeEnd
  <1>4. ASSUME NEW w \in Workers, Close(w) PROVE CloseInv'
    BY <1>4 DEF Close
  <1>5. ASSUME NEW w \in Workers, Remove(w) \/ Store(w) PROVE CloseInv'
    BY <1>5 DEF Remove, Store
  <1>6. ASSUME NEW w \in Workers, Dial(w) PROVE CloseInv'
    BY <1>6 DEF Dial, HoldsInv
  <1>7. ASSUME NEW w \in Workers, Run(w) \/ RunEnd(w) PROVE CloseInv'
    BY <1>7 DEF Run, RunEnd
  <1>8. ASSUME NEW c \in Conns, Break(c) PROVE CloseInv'
    BY <1>8 DEF Break
  <1>9. CASE UNCHANGED vars
    BY <1>9 DEF vars
  <1> QED
    BY <1>1, <1>2, <1>3, <1>4, <1>5, <1>6, <1>7, <1>8, <1>9 DEF Next, WorkerStep, Finished

\* The workers that dial and those that store are different ones.
LEMMA DiallersAndStorers ==
    /\ IsFiniteSet(Dialling) /\ Cardinality(Dialling) \in Nat
    /\ IsFiniteSet(Storing) /\ Cardinality(Storing) \in Nat
    /\ Cardinality(Workers) \in Nat
    /\ Cardinality(Storing) + Cardinality(Dialling) <= Cardinality(Workers)
  <1>1. /\ Dialling \subseteq Workers /\ Storing \subseteq Workers
        /\ Dialling \cap Storing = {} /\ Dialling \cup Storing \subseteq Workers
    BY DEF Dialling, Storing
  <1>2. /\ IsFiniteSet(Dialling) /\ Cardinality(Dialling) \in Nat
        /\ IsFiniteSet(Storing) /\ Cardinality(Storing) \in Nat
        /\ Cardinality(Workers) \in Nat
    BY <1>1, SshPoolConstants, FS_Subset, FS_CardinalityType
  <1>3. Cardinality(Dialling \cup Storing) <= Cardinality(Workers)
    BY <1>1, SshPoolConstants, FS_Subset
  <1>4. Cardinality(Dialling \cap Storing) = 0
    BY <1>1, FS_EmptySet
  <1>5. Cardinality(Dialling \cup Storing)
            = Cardinality(Dialling) + Cardinality(Storing) - Cardinality(Dialling \cap Storing)
    BY <1>2, FS_Union
  <1> QED
    BY <1>2, <1>3, <1>4, <1>5

\* While nothing breaks the connections are counted.
LEMMA CalmStep == TypeOK /\ HoldsInv /\ CalmInv /\ [Next]_vars => CalmInv'
  <1> SUFFICES ASSUME TypeOK, HoldsInv, CalmInv, [Next]_vars, EnoughSessions, faults' = 0
               PROVE  CalmInv'
    BY DEF CalmInv, EnoughSessions
  <1>f. faults = 0
    <2>1. faults' = faults \/ faults' = faults + 1
      BY DEF Next, WorkerStep, Finished, vars, Lookup, Probe, ProbeEnd, Close, Remove, Dial,
             Store, Run, RunEnd, Break
    <2> QED
      BY <2>1 DEF TypeOK
  <1>c. /\ \A c \in Conns : conns[c] \in {"new", "open"}
        /\ \A w \in Workers : pc[w] \notin {"close", "remove"}
        /\ IsFiniteSet(Dialled) /\ Cardinality(Dialled) \in Nat
        /\ pool = NoConn => Cardinality(Dialled) <= Cardinality(Storing)
        /\ pool # NoConn => Cardinality(Dialled) + Cardinality(Dialling) <= Cardinality(Workers)
    BY <1>f, FS_CardinalityType DEF CalmInv
  <1>s. ASSUME UNCHANGED <<pool, conns>>, Storing' = Storing,
               Dialling' = Dialling \/ pool = NoConn,
               \A w \in Workers : pc'[w] \notin {"close", "remove"}
        PROVE  CalmInv'
    <2>1. Dialled' = Dialled
      BY <1>s DEF Dialled
    <2> QED
      BY <1>s, <1>c, <2>1 DEF CalmInv
  <1> USE DEF TypeOK, Goto, Hold
  <1>1. ASSUME NEW w \in Workers, Lookup(w) PROVE CalmInv'
    <2>1. Storing' = Storing /\ (Dialling' = Dialling \/ pool = NoConn)
      BY <1>1 DEF Lookup, Storing, Dialling
    <2>2. \A v \in Workers : pc'[v] \notin {"close", "remove"}
      BY <1>1, <1>c DEF Lookup
    <2> QED
      BY <1>1, <1>s, <2>1, <2>2 DEF Lookup
  <1>2. ASSUME NEW w \in Workers, Probe(w) \/ ProbeEnd(w) PROVE CalmInv'
    <2>1. conns[held[w]] = "open"
      BY <1>2, <1>c DEF Probe, ProbeEnd, HoldsInv
    <2>2. Probe(w) => SessionOpens(w)
      BY <2>1, SessionsLeft DEF Probe, InSession
    <2>3. pc' = [pc EXCEPT ![w] = "probing"] \/ pc' = [pc EXCEPT ![w] = "run"]
      BY <1>2, <2>1, <2>2 DEF Probe, ProbeEnd
    <2>4. Storing' = Storing /\ Dialling' = Dialling
      BY <1>2, <2>3 DEF Probe, ProbeEnd, Storing, Dialling
    <2>5. \A v \in Workers : pc'[v] \notin {"close", "remove"}
      BY <1>c, <2>3
    <2> QED
      BY <1>2, <1>s, <2>4, <2>5 DEF Probe, ProbeEnd
  <1>3. ASSUME NEW w \in Workers, Close(w) \/ Remove(w) PROVE CalmInv'
    BY <1>3, <1>c DEF Close, Remove
  <1>4. ASSUME NEW w \in Workers, Dial(w) PROVE CalmInv'
    <2>1. \A v \in Workers : pc'[v] \notin {"close", "remove"}
      BY <1>4, <1>c DEF Dial
    <2>2. Dialling' = Dialling \ {w} /\ w \in Dialling /\ w \notin Storing
      BY <1>4 DEF Dial, Dialling, Storing
    <2>3. Cardinality(Dialling') = Cardinality(Dialling) - 1
      BY <2>2, DiallersAndStorers, FS_RemoveElement
    <2>4. CASE UNCHANGED conns /\ pc' = [pc EXCEPT ![w] = "idle"]
      <3>1. Dialled' = Dialled /\ Storing' = Storing /\ pool' = pool
        BY <1>4, <2>4 DEF Dial, Dialled, Storing
      <3> QED
        BY <1>c, <2>1, <2>3, <2>4, <3>1, DiallersAndStorers DEF CalmInv
    <2>5. ASSUME NEW c \in Conns, conns[c] = "new", conns' = [conns EXCEPT ![c] = "open"],
                 pc' = [pc EXCEPT ![w] = "store"], pool' = pool
          PROVE  CalmInv'
      <3>1. Dialled' = Dialled \cup {c} /\ c \notin Dialled
        BY <2>5 DEF Dialled
      <3>2. Storing' = Storing \cup {w}
        BY <2>5 DEF Storing
      <3>3. IsFiniteSet(Dialled') /\ Cardinality(Dialled') = Cardinality(Dialled) + 1
        BY <1>c, <3>1, FS_AddElement
      <3>4. Cardinality(Storing') = Cardinality(Storing) + 1
        BY <2>2, <3>2, DiallersAndStorers, FS_AddElement
      <3>5. \A d \in Conns : conns'[d] \in {"new", "open"}
        BY <1>c, <2>5
      <3>6. pool = NoConn => Cardinality(Dialled') <= Cardinality(Storing')
        BY <1>c, <3>3, <3>4, DiallersAndStorers
      <3>7. pool # NoConn => Cardinality(Dialled') + Cardinality(Dialling') <= Cardinality(Workers)
        BY <1>c, <2>3, <3>3, DiallersAndStorers
      <3> QED
        BY <2>1, <2>5, <3>3, <3>5, <3>6, <3>7 DEF CalmInv
    <2> QED
      BY <1>4, <2>4, <2>5 DEF Dial
  <1>5. ASSUME NEW w \in Workers, Store(w) PROVE CalmInv'
    <2>1. Dialling' = Dialling /\ Dialled' = Dialled /\ pool' = held[w] /\ pool' # NoConn
      BY <1>5, SshPoolConstants DEF Store, Dialling, Dialled
    <2>2. \A v \in Workers : pc'[v] \notin {"close", "remove"}
      BY <1>5, <1>c DEF Store
    <2>3. Cardinality(Dialled) + Cardinality(Dialling) <= Cardinality(Workers)
      BY <1>c, DiallersAndStorers
    <2> QED
      BY <1>5, <1>c, <2>1, <2>2, <2>3 DEF CalmInv, Store
  <1>6. ASSUME NEW w \in Workers, Run(w) \/ RunEnd(w) PROVE CalmInv'
    <2>1. Storing' = Storing /\ Dialling' = Dialling
      BY <1>6 DEF Run, RunEnd, Storing, Dialling
    <2>2. \A v \in Workers : pc'[v] \notin {"close", "remove"}
      BY <1>6, <1>c DEF Run, RunEnd
    <2> QED
      BY <1>6, <1>s, <2>1, <2>2 DEF Run, RunEnd
  <1>7. ASSUME NEW c \in Conns, Break(c) PROVE CalmInv'
    BY <1>7, <1>f DEF Break
  <1>8. CASE UNCHANGED vars
    <2>1. Storing' = Storing /\ Dialling' = Dialling
      BY <1>8 DEF vars, Storing, Dialling
    <2> QED
      BY <1>8, <1>c, <1>s, <2>1 DEF vars
  <1> QED
    BY <1>1, <1>2, <1>3, <1>4, <1>5, <1>6, <1>7, <1>8 DEF Next, WorkerStep, Finished

-----------------------------------------------------------------------------
\* The theorems

\* The invariant is inductive.
LEMMA PoolInvAlways == Spec => []PoolInv
  <1>1. PoolInv /\ [Next]_vars => PoolInv'
    BY PoolTypeStep, HoldsStep, RemovalStep, CloseStep, CalmStep DEF PoolInv
  <1> QED
    BY PoolInvInit, <1>1, PTL DEF Spec

\* For any workers, connections, commands and faults the variables keep their types.
THEOREM PoolTypes == Spec => []TypeOK
  <1>1. PoolInv => TypeOK
    BY DEF PoolInv
  <1> QED
    BY <1>1, PoolInvAlways, PTL

\* A closed connection leaves the pool, and while nothing breaks there are no more
\* connections than workers, however many commands they run.
THEOREM ThePoolServes == Spec => []PoolServes
  <1>1. PoolInv => PoolServes
    <2> SUFFICES ASSUME PoolInv, EnoughSessions, faults = 0
                 PROVE  Cardinality(Dialled) <= Cardinality(Workers)
      BY DEF PoolInv, RemovalInv, PoolServes, EnoughSessions
    <2>1. Cardinality(Dialled) \in Nat
      BY FS_CardinalityType DEF PoolInv, CalmInv
    <2> QED
      BY <2>1, DiallersAndStorers DEF PoolInv, CalmInv
  <1> QED
    BY <1>1, PoolInvAlways, PTL

\* With a session for every worker no step closes a connection on which a command runs.
THEOREM NoCommandIsCut == Spec => CommandsAreNotCut
  <1>1. PoolInv /\ [Next]_vars =>
            [\A w \in Workers :
                Cardinality(Workers) <= MaxSessions /\ pc[w] \in InSession
                    /\ conns[held[w]] = "open" => (conns')[held[w]] # "closed"]_vars
    <2> SUFFICES ASSUME PoolInv, [Next]_vars, NEW w \in Workers, EnoughSessions,
                        pc[w] \in InSession, conns[held[w]] = "open"
                 PROVE  conns'[held[w]] # "closed"
      BY DEF EnoughSessions
    <2>1. held[w] \in Conns /\ conns \in [Conns -> {"new", "open", "broken", "closed"}]
      BY DEF PoolInv, TypeOK, InSession
    <2>2. ASSUME NEW v \in Workers, Close(v) PROVE conns'[held[w]] # "closed"
      <3>1. conns[held[v]] # "open" /\ conns' = [conns EXCEPT ![held[v]] = "closed"]
        BY <2>2 DEF PoolInv, CloseInv, Close
      <3> QED
        BY <2>1, <3>1
    <2>3. ASSUME NEW v \in Workers, Dial(v) PROVE conns'[held[w]] # "closed"
      BY <2>1, <2>3 DEF Dial
    <2>4. ASSUME NEW c \in Conns, Break(c) PROVE conns'[held[w]] # "closed"
      BY <2>1, <2>4 DEF Break
    <2>5. CASE conns' = conns
      BY <2>5
    <2>6. \/ \E v \in Workers : Close(v) \/ Dial(v)
          \/ \E c \in Conns : Break(c)
          \/ conns' = conns
      BY DEF Next, WorkerStep, Finished, vars, Lookup, Probe, ProbeEnd, Remove, Store, Run,
             RunEnd
    <2> QED
      BY <2>2, <2>3, <2>4, <2>5, <2>6
  <1> QED
    BY <1>1, PoolInvAlways, PTL DEF Spec, CommandsAreNotCut

-----------------------------------------------------------------------------
(* SshRetry, for every number of attempts, every delay and every duration of *)
(* the commands.                                                             *)

\* The products of the invariants, one step apart.
LEMMA NextProduct ==
    ASSUME NEW a \in Int, NEW d \in Int
    PROVE  /\ (a + 1 - 1) * d = (a - 1) * d + d
           /\ (a - 1) * d \in Int
OBVIOUS

\* A product with a smaller factor is smaller: an attempt that fits the deadline is one
\* of the attempts.
LEMMA FactorBound ==
    ASSUME NEW a \in Int, NEW b \in Int, NEW d \in Nat \ {0}, (a - 1) * d <= (b - 1) * d
    PROVE  a <= b
<1> SUFFICES ASSUME a >= b + 1 PROVE FALSE
  OBVIOUS
<1>1. (a - b) * d >= 1 * d
  OBVIOUS
<1>2. (a - 1) * d = (b - 1) * d + (a - b) * d
  OBVIOUS
<1> QED
  BY <1>1, <1>2

\* The time spent so far, and the tick a failed attempt has set.
RetryInv ==
    /\ RetryTypeOK
    /\ RetriesAreSpaced
    /\ StartsInTime
    /\ stage = "select" => tick = now + delay

\* The call begins in its invariant.
LEMMA InitRetryInv == RetryInit => RetryInv
  BY SshRetryConstants DEF RetryInit, RetryInv, RetryTypeOK, RetriesAreSpaced, StartsInTime, Total

\* Each step keeps it.
LEMMA NextRetryInv == RetryInv /\ [RetryNext]_retryVars => RetryInv'
<1> SUFFICES ASSUME RetryInv, [RetryNext]_retryVars PROVE RetryInv'
  OBVIOUS
<1> USE DEF RetryInv, RetryTypeOK, RetriesAreSpaced, StartsInTime
<1>0. /\ attempts \in Nat \ {0} /\ delay \in Nat \ {0}
      /\ attempt \in Int /\ Total \in Int
  BY SshRetryConstants, NextProduct DEF Total
<1>1. CASE RunAttempt
  <2>1. PICK d \in Durations : now' = now + d /\ busy' = busy + d
    BY <1>1 DEF RunAttempt
  <2>2. d \in Nat
    BY <2>1, SshRetryConstants
  <2>3. /\ attempts' = attempts /\ delay' = delay /\ attempt' = attempt
        /\ stage' \in {"ok", "failed", "select"}
        /\ tick' = tick \/ tick' = now' + delay
        /\ stage' = "select" => tick' = now' + delay
    BY <1>1 DEF RunAttempt, Reset
  <2>4. (attempt - 1) * delay \in Int
    BY <1>0, NextProduct
  <2>5. stage = "run" /\ Total' = Total
    BY <1>1, <2>3 DEF RunAttempt, Total
  <2>6. StartsInTime'
    BY <1>0, <2>1, <2>2, <2>3, <2>5
  <2> QED
    BY <1>0, <2>1, <2>2, <2>3, <2>4, <2>6
<1>2. CASE Tick
  <2>1. /\ attempts' = attempts /\ delay' = delay /\ attempt' = attempt + 1
        /\ now' = tick /\ tick' = tick /\ busy' = busy /\ stage' = "run"
        /\ tick = now + delay /\ tick <= Total
    BY <1>2 DEF Tick
  <2>2. (attempt' - 1) * delay = (attempt - 1) * delay + delay /\ (attempt - 1) * delay \in Int
    BY <1>0, <2>1, NextProduct
  <2>3. (attempt' - 1) * delay <= Total
    BY <1>0, <2>1, <2>2
  <2>4. attempt' <= attempts
    BY <1>0, <2>1, <2>3, FactorBound DEF Total
  <2>5. Total' = Total
    BY <2>1 DEF Total
  <2> QED
    BY <1>0, <2>1, <2>2, <2>4, <2>5
<1>3. CASE Timeout
  BY <1>0, <1>3 DEF Timeout, Total
<1>4. CASE UNCHANGED retryVars \/ RetryEnded
  BY <1>4 DEF retryVars, RetryEnded, Total
<1> QED
  BY <1>1, <1>2, <1>3, <1>4 DEF RetryNext

\* The variables keep their types; no attempt is made beyond the last one, which the
\* deadline alone already forbids.
THEOREM RetryTypes == RetrySpec => []RetryTypeOK
<1>1. RetryInv => RetryTypeOK
  BY DEF RetryInv
<1> QED
  BY <1>1, InitRetryInv, NextRetryInv, PTL DEF RetrySpec

\* Two attempts are a full delay apart, whatever time the commands take.
THEOREM RetriesKeepTheirDistance == RetrySpec => []RetriesAreSpaced
<1>1. RetryInv => RetriesAreSpaced
  BY DEF RetryInv
<1> QED
  BY <1>1, InitRetryInv, NextRetryInv, PTL DEF RetrySpec

\* No attempt begins after the deadline, and only a command that is running then makes the
\* call end later.
THEOREM AttemptsStartInTime == RetrySpec => []StartsInTime
<1>1. RetryInv => StartsInTime
  BY DEF RetryInv
<1> QED
  BY <1>1, InitRetryInv, NextRetryInv, PTL DEF RetrySpec

\* The last of the attempts is lost as soon as one command before it takes time.
THEOREM LastAttemptNeedsInstantFailures == RetrySpec => []LastAttemptIsLost
<1>1. RetryInv => LastAttemptIsLost
  <2> SUFFICES ASSUME RetryInv, stage = "run", attempt = attempts PROVE busy = 0
    BY DEF LastAttemptIsLost
  <2>1. now >= Total + busy /\ now <= Total /\ busy \in Nat /\ now \in Nat
    BY DEF RetryInv, RetryTypeOK, RetriesAreSpaced, StartsInTime, Total
  <2>2. Total \in Int
    BY SshRetryConstants, NextProduct DEF RetryInv, RetryTypeOK, Total
  <2> QED
    BY <2>1, <2>2
<1> QED
  BY <1>1, InitRetryInv, NextRetryInv, PTL DEF RetrySpec

\* For every number of attempts, delay and duration of the commands.
THEOREM RetriesKeepTime == RetrySpec => []RetriesAreTimed
<1>1. RetriesAreSpaced /\ StartsInTime /\ LastAttemptIsLost => RetriesAreTimed
  BY DEF RetriesAreTimed
<1> QED
  BY <1>1, RetriesKeepTheirDistance, AttemptsStartInTime, LastAttemptNeedsInstantFailures, PTL

-----------------------------------------------------------------------------
(* NodeWatch, for every set of nodes, every threshold and every number of    *)
(* changes.                                                                  *)

Counting == {n \in Nodes : readyNodesMap[n]}

\* Events on the way only tell of readiness that has been.
SeenBy(S)  == {e \in [node : Nodes, ready : BOOLEAN] : e.ready => e.node \in S}
SeenEvents == SeenBy(everReady)

WatchInv ==
    /\ WatchTypeOK
    /\ nodesReady = Cardinality(Counting)
    /\ Counting \subseteq everReady
    /\ events \in Seq(SeenEvents)
    /\ call # "select" => events = <<>>
    /\ call \in {"watch", "select"} => ReadyNodes \subseteq everReady
    /\ call \in {"watch", "select", "ok"} => minReadyNodes > 0
    /\ call = "ok" => nodesReady >= minReadyNodes

\* Every set of nodes of the cluster is finite.
LEMMA NodeSetsFinite ==
    \A S \in SUBSET Nodes : IsFiniteSet(S) /\ Cardinality(S) \in Nat
  BY NodeWatchConstants, FS_Subset, FS_CardinalityType

\* An event of a node that is not ready, or has been, is one of them.
LEMMA SeenByEvent ==
    ASSUME NEW S, NEW n \in Nodes, NEW ready \in BOOLEAN, ready => n \in S
    PROVE  Event(n, ready) \in SeenBy(S)
  BY DEF Event, SeenBy

\* Counted follows the map: it is the size of the set the map describes after the event.
LEMMA CountedFollows ==
    ASSUME WatchTypeOK, nodesReady = Cardinality(Counting), NEW n \in Nodes, NEW ready \in BOOLEAN
    PROVE  /\ Counted(n, ready) \in Nat
           /\ Counted(n, ready) =
                Cardinality({x \in Nodes : [readyNodesMap EXCEPT ![n] = ready][x]})
  <1> DEFINE After == {x \in Nodes : [readyNodesMap EXCEPT ![n] = ready][x]}
  <1>1. IsFiniteSet(Counting) /\ IsFiniteSet(After) /\ Cardinality(After) \in Nat
    BY NodeSetsFinite DEF Counting
  <1>2. CASE ready /\ ~readyNodesMap[n]
    <2>1. After = Counting \cup {n} /\ n \notin Counting
      BY <1>2 DEF WatchTypeOK, Counting
    <2>2. Cardinality(After) = Cardinality(Counting) + 1
      BY <1>1, <2>1, FS_AddElement
    <2>3. QED
      BY <1>1, <1>2, <2>2 DEF Counted
  <1>3. CASE ~ready /\ readyNodesMap[n]
    <2>1. After = Counting \ {n} /\ n \in Counting
      BY <1>3 DEF WatchTypeOK, Counting
    <2>2. Cardinality(After) = Cardinality(Counting) - 1
      BY <1>1, <2>1, FS_RemoveElement
    <2>3. QED
      BY <1>1, <1>3, <2>2 DEF Counted
  <1>4. CASE ready = readyNodesMap[n]
    <2>1. After = Counting
      BY <1>4 DEF WatchTypeOK, Counting
    <2>2. QED
      BY <1>1, <1>4, <2>1 DEF Counted
  <1>5. QED
    BY <1>2, <1>3, <1>4 DEF WatchTypeOK

\* The threshold is a positive number once a cluster with nodes has been listed.
LEMMA ThresholdType ==
    ASSUME WatchTypeOK, Present # {}, NEW min \in Nat
    PROVE  Threshold(min) \in Nat \ {0}
  <1>1. Cardinality(Present) \in Nat \ {0}
    BY NodeSetsFinite, FS_EmptySet DEF Present
  <1>2. QED
    BY <1>1 DEF Threshold

\* The gate begins in its invariant.
LEMMA WatchInvInit == WatchInit => WatchInv
  <1> SUFFICES ASSUME WatchInit PROVE WatchInv
    OBVIOUS
  <1>1. Counting = {}
    BY DEF WatchInit, Counting
  <1>2. nodesReady = Cardinality(Counting)
    BY <1>1, FS_EmptySet DEF WatchInit
  <1>3. WatchTypeOK
    BY NodeWatchConstants DEF WatchInit, WatchTypeOK
  <1>4. QED
    BY <1>1, <1>2, <1>3 DEF WatchInit, WatchInv

\* Each step keeps it.
LEMMA WatchInvStep == WatchInv /\ [WatchNext]_watchVars => WatchInv'
  <1> SUFFICES ASSUME WatchInv, [WatchNext]_watchVars PROVE WatchInv'
    OBVIOUS
  <1>0. WatchTypeOK
    BY DEF WatchInv
  <1>1. ASSUME NEW n \in Nodes, Change(n) PROVE WatchInv'
    <2>1. PICK status \in {"absent", "notReady", "ready"} \ {cluster[n]} :
             /\ cluster' = [cluster EXCEPT ![n] = status]
             /\ events' = IF call # "select" THEN events
                          ELSE Append(events, Event(n, IF status = "absent" THEN cluster[n] = "ready"
                                                                            ELSE status = "ready"))
             /\ everReady' = IF status = "ready" THEN everReady \cup {n} ELSE everReady
      BY <1>1 DEF Change
    <2>2. UNCHANGED <<call, minReadyNodes, readyNodesMap, nodesReady>> /\ changes' \in 0..MaxChanges
      BY <1>0, <1>1, NodeWatchConstants DEF Change, waiter, WatchTypeOK
    <2>3. /\ cluster' \in [Nodes -> {"absent", "notReady", "ready"}]
          /\ everReady \subseteq everReady' /\ everReady' \subseteq Nodes
      BY <1>0, <2>1 DEF WatchTypeOK
    <2>4. events \in Seq(SeenEvents')
      <3>1. SeenEvents \subseteq SeenEvents'
        BY <2>3 DEF SeenEvents, SeenBy
      <3>2. QED
        BY <3>1, SeqMonotonic DEF WatchInv
    <2>5. call \in {"watch", "select"} =>
             (cluster[n] = "ready" => n \in everReady') /\ ReadyNodes' \subseteq everReady'
      BY <1>0, <2>1, <2>3 DEF WatchInv, WatchTypeOK, ReadyNodes
    <2>6. events' \in Seq(SeenEvents')
      <3>1. CASE call # "select"
        BY <2>1, <2>4, <3>1
      <3>2. CASE call = "select"
        <4> DEFINE ready == IF status = "absent" THEN cluster[n] = "ready" ELSE status = "ready"
                   e     == Event(n, ready)
        <4>1. ready \in BOOLEAN /\ (ready => n \in everReady')
          BY <2>1, <2>5, <3>2
        <4>2. e \in SeenEvents'
          <5> HIDE DEF ready
          <5>1. QED
            BY <4>1, SeenByEvent DEF SeenEvents
        <4>3. events' = Append(events, e)
          BY <2>1, <3>2
        <4> HIDE DEF e
        <4>4. QED
          BY <2>4, <4>2, <4>3, AppendProperties
      <3>3. QED
        BY <3>1, <3>2
    <2>7. events' \in Seq([node : Nodes, ready : BOOLEAN])
      <3>1. SeenEvents' \subseteq [node : Nodes, ready : BOOLEAN]
        BY DEF SeenEvents, SeenBy
      <3>2. QED
        BY <2>6, <3>1, SeqMonotonic
    <2>8. QED
      BY <1>0, <2>1, <2>2, <2>3, <2>5, <2>6, <2>7 DEF WatchInv, WatchTypeOK, Counting
  <1>r. ASSUME NEW result \in {"ok", "err"}, Return(result), UNCHANGED minReadyNodes,
               readyNodesMap' \in [Nodes -> BOOLEAN], nodesReady' \in Nat,
               nodesReady' = Cardinality(Counting'), Counting' \subseteq everReady,
               result = "ok" => minReadyNodes > 0 /\ nodesReady' >= minReadyNodes
        PROVE  WatchInv'
    BY <1>0, <1>r DEF Return, WatchInv, WatchTypeOK, Counting, ReadyNodes
  <1>e. ASSUME Return("err"), UNCHANGED <<minReadyNodes, readyNodesMap, nodesReady>>
        PROVE  WatchInv'
    BY <1>0, <1>e, <1>r DEF WatchInv, WatchTypeOK, Counting
  <1>2. CASE Health
    <2>1. CASE call' = "list" /\ UNCHANGED <<cluster, changes, events, everReady>>
      BY <1>0, <1>2, <2>1 DEF Health, WatchInv, WatchTypeOK, Counting, SeenEvents, SeenBy
    <2>2. QED
      BY <1>2, <1>e, <2>1 DEF Health
  <1>3. CASE List
    <2>1. CASE /\ Present # {}
               /\ minReadyNodes' = Threshold(minReadyNodes)
               /\ readyNodesMap' = [n \in Nodes |-> n \in ReadyNodes]
               /\ nodesReady' = Cardinality(ReadyNodes)
               /\ everReady' = ReadyNodes
               /\ call' = (IF nodesReady' >= minReadyNodes' THEN "ok" ELSE "watch")
               /\ UNCHANGED <<cluster, changes, events>>
      <3>1. minReadyNodes' \in Nat \ {0}
        BY <1>0, <2>1, ThresholdType DEF WatchTypeOK
      <3>2. Counting' = ReadyNodes
        BY <2>1 DEF Counting, ReadyNodes
      <3>3. nodesReady' \in Nat
        BY <2>1, NodeSetsFinite DEF ReadyNodes
      <3>4. events = <<>> /\ events' = <<>>
        BY <1>3, <2>1 DEF List, WatchInv
      <3>5. QED
        BY <1>0, <2>1, <3>1, <3>2, <3>3, <3>4 DEF WatchInv, WatchTypeOK, ReadyNodes
    <2>2. QED
      BY <1>3, <1>e, <2>1 DEF List
  <1>4. CASE Watch
    <2>1. ASSUME NEW order \in Bijection(1..Cardinality(Present), Present), call' = "select",
                 events' = [i \in DOMAIN order |-> Event(order[i], order[i] \in ReadyNodes)],
                 UNCHANGED <<cluster, changes, everReady, minReadyNodes, readyNodesMap, nodesReady>>
          PROVE  WatchInv'
      <3>1. order \in [1..Cardinality(Present) -> Present] /\ Cardinality(Present) \in Nat
        BY NodeSetsFinite DEF Bijection, Injection, Present
      <3>2. \A i \in 1..Cardinality(Present) : Event(order[i], order[i] \in ReadyNodes) \in SeenEvents
        <4> SUFFICES ASSUME NEW i \in 1..Cardinality(Present)
                     PROVE  Event(order[i], order[i] \in ReadyNodes) \in SeenEvents
          OBVIOUS
        <4>1. order[i] \in Nodes
          BY <3>1 DEF Present
        <4>2. (order[i] \in ReadyNodes) \in BOOLEAN /\ (order[i] \in ReadyNodes => order[i] \in everReady)
          BY <1>4 DEF Watch, WatchInv
        <4>3. QED
          BY <4>1, <4>2, SeenByEvent DEF SeenEvents
      <3>3. events' \in Seq(SeenEvents)
        <4>1. events' \in [1..Cardinality(Present) -> SeenEvents]
          BY <2>1, <3>1, <3>2
        <4>2. QED
          BY <3>1, <4>1
      <3>4. events' \in Seq([node : Nodes, ready : BOOLEAN])
        <4>1. SeenEvents \subseteq [node : Nodes, ready : BOOLEAN]
          BY DEF SeenEvents, SeenBy
        <4>2. QED
          BY <3>3, <4>1, SeqMonotonic
      <3>5. QED
        BY <1>0, <1>4, <2>1, <3>3, <3>4
           DEF Watch, WatchInv, WatchTypeOK, Counting, SeenEvents, SeenBy, ReadyNodes
    <2>2. QED
      BY <1>4, <1>e, <2>1 DEF Watch
  <1>5. CASE Receive
    <2> DEFINE e == Head(events)
    <2>1. e \in SeenEvents /\ Tail(events) \in Seq(SeenEvents)
      BY <1>5, HeadTailProperties DEF Receive, WatchInv
    <2>2. /\ readyNodesMap' = [readyNodesMap EXCEPT ![e.node] = e.ready]
          /\ nodesReady' = Counted(e.node, e.ready)
          /\ UNCHANGED minReadyNodes
      BY <1>5 DEF Receive
    <2>3. e.node \in Nodes /\ e.ready \in BOOLEAN /\ (e.ready => e.node \in everReady)
      BY <2>1 DEF SeenEvents, SeenBy
    <2>4. /\ readyNodesMap' \in [Nodes -> BOOLEAN]
          /\ nodesReady' \in Nat
          /\ nodesReady' = Cardinality(Counting')
      BY <1>0, <2>2, <2>3, CountedFollows DEF WatchTypeOK, WatchInv, Counting
    <2>5. Counting' \subseteq everReady
      BY <1>0, <2>2, <2>3 DEF WatchTypeOK, WatchInv, Counting
    <2>6. CASE nodesReady' >= minReadyNodes /\ Return("ok")
      BY <1>5, <1>r, <2>2, <2>4, <2>5, <2>6 DEF Receive, WatchInv
    <2>7. CASE events' = Tail(events) /\ UNCHANGED <<cluster, changes, call, everReady>>
      <3>1. Tail(events) \in Seq([node : Nodes, ready : BOOLEAN])
        <4>1. SeenEvents \subseteq [node : Nodes, ready : BOOLEAN]
          BY DEF SeenEvents, SeenBy
        <4>2. QED
          BY <2>1, <4>1, SeqMonotonic
      <3>2. QED
        BY <1>0, <1>5, <2>1, <2>2, <2>4, <2>5, <2>7, <3>1
        DEF Receive, WatchInv, WatchTypeOK, SeenEvents, SeenBy, ReadyNodes
    <2>8. QED
      BY <1>5, <2>6, <2>7 DEF Receive
  <1>6. CASE GiveUp
    BY <1>6, <1>e DEF GiveUp
  <1>7. CASE UNCHANGED watchVars
    BY <1>0, <1>7 DEF watchVars, WatchInv, WatchTypeOK, Counting, SeenEvents, SeenBy, ReadyNodes
  <1>8. QED
    BY <1>1, <1>2, <1>3, <1>4, <1>5, <1>6, <1>7 DEF WatchNext, WaiterStep, Returned

\* For every set of nodes the variables keep their types.
THEOREM NodeWatchTypes == WatchSpec => []WatchTypeOK
  <1>1. WatchInv => WatchTypeOK
    BY DEF WatchInv
  <1>2. QED
    BY WatchInvInit, WatchInvStep, <1>1, PTL DEF WatchSpec

\* For every set of nodes and every sequence of events, synthetic, repeated or late: the
\* count is the number of nodes the map holds as ready.
THEOREM CountNeverDrifts == WatchSpec => []CountIsOfTheMap
  <1>1. WatchInv => CountIsOfTheMap
    BY DEF WatchInv, CountIsOfTheMap, Counting
  <1>2. QED
    BY WatchInvInit, WatchInvStep, <1>1, PTL DEF WatchSpec

\* For every set of nodes and every threshold: a health check that passes has seen at
\* least the threshold of different nodes ready since it listed them.
THEOREM PassedNodesWereReady == WatchSpec => []OkNodesWereReady
  <1>1. WatchInv => OkNodesWereReady
    <2> SUFFICES ASSUME WatchInv PROVE OkNodesWereReady
      OBVIOUS
    <2>1. Counting \subseteq everReady /\ IsFiniteSet(everReady) /\ Cardinality(everReady) \in Nat
      BY NodeSetsFinite DEF WatchInv, WatchTypeOK
    <2>2. Cardinality(Counting) <= Cardinality(everReady)
      BY <2>1, FS_Subset
    <2>3. Cardinality(Counting) \in Nat
      BY NodeSetsFinite DEF Counting
    <2>4. QED
      BY <2>1, <2>2, <2>3 DEF WatchInv, WatchTypeOK, OkNodesWereReady, CountIsOfTheMap, Counting
  <1>2. QED
    BY WatchInvInit, WatchInvStep, <1>1, PTL DEF WatchSpec
=============================================================================
