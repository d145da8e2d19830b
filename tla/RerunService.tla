---------------------------- MODULE RerunService ----------------------------
(***************************************************************************)
(* What those who reply in a thread can rely on: a rerun is for the reply  *)
(* of a channel member, one at a time, and once a reply has been served    *)
(* none of its thread is served that is not newer.                         *)
(***************************************************************************)
EXTENDS Naturals

CONSTANTS
    Runs,     \* executions of run_tests.sh
    Replies   \* replies: [ts |-> ..., thread |-> ...]

VARIABLES
    asked,    \* the members' replies that ask for a rerun
    reruns,   \* the reruns, each with the timestamp it serves
    running   \* the runs among them that have not ended

vars == <<asked, reruns, running>>

Init == asked = {} /\ reruns = {} /\ running = {}

Ask(m) ==
    /\ \A k \in asked : k.ts < m.ts
    /\ asked' = asked \cup {m}
    /\ UNCHANGED <<reruns, running>>

Served(k) == \E x \in reruns : x.ts = k.ts

\* Older requests of the thread that were never served are dropped.
Begin(r, m) ==
    /\ m \in asked
    /\ \A k \in asked : k.thread = m.thread /\ Served(k) => k.ts < m.ts
    /\ running = {}
    /\ \A x \in reruns : x.run # r
    /\ reruns' = reruns \cup {[run |-> r, ts |-> m.ts]}
    /\ running' = {r}
    /\ UNCHANGED asked

End ==
    /\ running # {}
    /\ running' = {}
    /\ UNCHANGED <<asked, reruns>>

Next ==
    \/ \E m \in Replies : Ask(m)
    \/ \E r \in Runs, m \in Replies : Begin(r, m)
    \/ End

Spec == Init /\ [][Next]_vars
=============================================================================
