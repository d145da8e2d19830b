---------------------------- MODULE PrepareNodes ----------------------------
(***************************************************************************)
(* What a caller of CopyAssetsOnNodes, ConfigureIPv6OnlyNodes,             *)
(* CreateInstances and the like relies on: every node succeeds or fails    *)
(* once, nil is returned only when all of them have succeeded, an error    *)
(* only when one has failed.  An operation that reports no errors returns  *)
(* when every node it has begun with has ended.                            *)
(***************************************************************************)
EXTENDS FiniteSets

CONSTANT Nodes

VARIABLES
    reports,   \* does the operation return errors?
    prepared,  \* the nodes that have succeeded
    failed,    \* the nodes that have failed
    outcome    \* "none", "nil", "error" or "panic"

vars == <<reports, prepared, failed, outcome>>

Init ==
    /\ reports \in BOOLEAN
    /\ prepared = {} /\ failed = {}
    /\ outcome = "none"

Open == Nodes \ (prepared \cup failed)

\* The others may go on after an error has been returned.
Prepare(n) ==
    /\ n \in Open /\ outcome \in {"none", "error"}
    /\ prepared' = prepared \cup {n}
    /\ UNCHANGED <<reports, failed, outcome>>

Fail(n) ==
    /\ n \in Open /\ outcome \in {"none", "error"}
    /\ failed' = failed \cup {n}
    /\ UNCHANGED <<reports, prepared, outcome>>

ReturnNil ==
    /\ outcome = "none"
    /\ Open = {}
    /\ reports => failed = {}
    /\ outcome' = "nil"
    /\ UNCHANGED <<reports, prepared, failed>>

\* An operation that reports no errors of its nodes may still give up.
ReturnError ==
    /\ outcome = "none"
    /\ reports => failed # {}
    /\ outcome' = "error"
    /\ UNCHANGED <<reports, prepared, failed>>

\* The process ends, of a node that has failed before or fails thereby.
Panic ==
    /\ outcome = "none"
    /\ \E n \in Open \cup failed : failed' = failed \cup {n}
    /\ outcome' = "panic"
    /\ UNCHANGED <<reports, prepared>>

Next ==
    \/ \E n \in Nodes : Prepare(n) \/ Fail(n)
    \/ ReturnNil \/ ReturnError \/ Panic

Spec == Init /\ [][Next]_vars
=============================================================================
