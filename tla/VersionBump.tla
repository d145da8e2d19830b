---------------------------- MODULE VersionBump ----------------------------
(***************************************************************************)
(* The version bump template: every row of commands is run on the nodes    *)
(* until the output holds the expected value, the cluster is upgraded, and *)
(* the rows are run again with the values expected of the new version.     *)
(*                                                                         *)
(* What a command prints changes in its own time once the upgrade has      *)
(* begun; a command may fail, or print neither value, at any poll.         *)
(***************************************************************************)
EXTENDS Integers, Sequences, FiniteSets

CONSTANTS
    N,          \* how many nodes the cluster has
    Run,        \* the rows: [etcd : BOOLEAN, cmds : Seq({"node", "host"})]
    MaxPolls    \* bound: ticks of 5 s within the 120 s of a validation

Nodes == 1 .. N
NoIP  == 0      \* an address that no command reaches: empty, or <none>
Rows  == DOMAIN Run

ASSUME BumpConstants ==
    /\ N \in Nat \ {0}
    /\ Run \in Seq([etcd : BOOLEAN, cmds : Seq({"node", "host"})])
    /\ \A r \in Rows : Run[r].cmds # <<>>
    /\ MaxPolls \in Nat \ {0}

VARIABLES
    upgrades,       \* template.InstallMode is set
    external,       \* the nodes that have an address of type ExternalIP
    labelled,       \* the nodes with the label role-etcd
    version,        \* what the components of a node, and those kubectl shows, are at
    pc,             \* where the template is
    expectedValue,  \* of every row
    ips,            \* the addresses of processTestCombination
    row, left, cmd, \* its loops: the row, the addresses to do, the command
    retry,          \* the polls of the current assertion
    results,        \* assert.Results
    testRuns,       \* how often the test cases have run
    verdict         \* "running", "passed" or "failed"

cluster == <<upgrades, external, labelled, version>>
loops   == <<ips, row, left, cmd, retry>>
vars    == <<cluster, pc, expectedValue, loops, results, testRuns, verdict>>

Host   == N + 1 \* kubectl and helm, which run where the test runs
Places == Nodes \cup {Host}

Init ==
    /\ upgrades \in BOOLEAN
    /\ external \in SUBSET Nodes /\ labelled \in SUBSET Nodes
    /\ version = [place \in Places |-> "old"]
    /\ pc = "fetch"
    /\ expectedValue = [r \in Rows |-> "old"]
    /\ ips = {} /\ row = 1 /\ left = {} /\ cmd = 1 /\ retry = 0
    /\ results = {}
    /\ testRuns = 0
    /\ verdict = "running"

At(label) == verdict = "running" /\ pc = label
Fail == verdict' = "failed" /\ UNCHANGED pc
Pass == verdict' = "passed" /\ pc' = "end"
Goto(label) == pc' = label /\ UNCHANGED verdict

-----------------------------------------------------------------------------
(* executeTestCombination, processTestCombination *)

\* What FetchNodeExternalIPs lists: its jsonpath leaves out a node without an external
\* address, and an empty output is split into one empty address.
Listed == IF external = {} THEN {NoIP} ELSE external

\* What GetNodesByRoles lists: it has every node with the label, <none> for some.
Labelled == (labelled \cap external) \cup (IF labelled \subseteq external THEN {} ELSE {NoIP})

\* currentProductVersion may fail, and so may the workload before it; of kubectl's
\* addresses an error is only logged.
FetchIPs ==
    /\ At("fetch")
    /\ (Fail /\ UNCHANGED ips) \/ (ips' \in {Listed, {NoIP}} /\ Goto("row"))
    /\ row' = 1
    /\ UNCHANGED <<cluster, expectedValue, left, cmd, retry, results, testRuns>>

\* The nodes with the label are the addresses of an etcd row and of all after it.
BeginRow ==
    /\ At("row") /\ row \in Rows
    /\ \/ /\ ips' = IF Run[row].etcd THEN Labelled ELSE ips
          /\ left' = ips'
          /\ Goto("address")
       \/ (Run[row].etcd /\ Fail /\ UNCHANGED <<ips, left>>)
    /\ cmd' = 1 /\ retry' = 0
    /\ UNCHANGED <<cluster, expectedValue, row, results, testRuns>>

BeginTestCases ==
    /\ At("row") /\ row \notin Rows
    /\ Goto("testCases")
    /\ UNCHANGED <<cluster, expectedValue, loops, results, testRuns>>

EndRow ==
    /\ At("address") /\ left = {}
    /\ row' = row + 1
    /\ Goto("row")
    /\ UNCHANGED <<cluster, expectedValue, ips, left, cmd, retry, results, testRuns>>

-----------------------------------------------------------------------------
(* processCmds, validate, runAssertion *)

\* The next address, in whatever order kubectl has listed them, and where its command runs.
Address == CHOOSE ip \in left : TRUE
Where == IF Run[row].cmds[cmd] = "host" THEN Host ELSE Address

Matches ==
    /\ At("address") /\ left # {}
    /\ Where \in Places /\ version[Where] = expectedValue[row]
    /\ retry < MaxPolls

\* mutant: the commands of the next address begin where those of this one ended
MatchKeepsCmd ==
    /\ Matches
    /\ results' = results \cup {<<row, cmd, Address, expectedValue[row]>>}
    /\ retry' = 0
    /\ cmd' = cmd + 1
    /\ left' = IF cmd < Len(Run[row].cmds) THEN left ELSE left \ {Address}
    /\ UNCHANGED <<cluster, pc, expectedValue, ips, row, testRuns, verdict>>

\* The output holds the expected value: on to the next command, or address, with a
\* ticker and a timer of its own.
Match ==
    /\ Matches
    /\ results' = results \cup {<<row, cmd, Address, expectedValue[row]>>}
    /\ retry' = 0
    /\ IF cmd < Len(Run[row].cmds)
       THEN cmd' = cmd + 1 /\ UNCHANGED left
       ELSE cmd' = 1 /\ left' = left \ {Address}
    /\ UNCHANGED <<cluster, pc, expectedValue, ips, row, testRuns, verdict>>

\* Other output is polled again, and so is an error among the first five polls.
Poll ==
    /\ At("address") /\ left # {}
    /\ retry < MaxPolls
    /\ retry' = retry + 1
    /\ \/ UNCHANGED <<pc, verdict>>
       \/ (retry' > 5 /\ Fail)
    /\ UNCHANGED <<cluster, expectedValue, ips, row, left, cmd, results, testRuns>>

\* The time is up; commands that take long leave room for few polls.
Timeout ==
    /\ At("address") /\ left # {}
    /\ retry > 0
    /\ Fail
    /\ UNCHANGED <<cluster, expectedValue, loops, results, testRuns>>

-----------------------------------------------------------------------------
(* The test cases and the upgrade *)

\* testCaseWrapper: at the end of each executeTestCombination, and once more after
\* the upgrade.
RunTestCases ==
    /\ At("testCases") \/ At("again")
    /\ testRuns' = testRuns + 1
    /\ CASE pc = "again"  -> Fail \/ Pass
         [] testRuns = 0  -> Fail \/ Goto("client")
         [] OTHER         -> Fail \/ Goto("again")
    /\ UNCHANGED <<cluster, expectedValue, loops, results>>

\* k8s.AddClient; without an InstallMode the template has ended.
AddClient ==
    /\ At("client")
    /\ Fail \/ (IF upgrades THEN Goto("upgrading") ELSE Pass)
    /\ UNCHANGED <<cluster, expectedValue, loops, results, testRuns>>

\* mutant: the new values are set in a copy of the row
UpgradeCopies ==
    /\ At("upgrading")
    /\ Goto("fetch") \/ Fail
    /\ UNCHANGED <<cluster, expectedValue, loops, results, testRuns>>

\* TestUpgradeClusterManual has ended, and updateExpectedValue sets the new values.
Upgrade ==
    /\ At("upgrading")
    /\ \/ (expectedValue' = [r \in Rows |-> "new"] /\ Goto("fetch"))
       \/ (Fail /\ UNCHANGED expectedValue)
    /\ UNCHANGED <<cluster, loops, results, testRuns>>

\* A component is rolled out, once the upgrade has begun (external).
Roll(place) ==
    /\ upgrades /\ testRuns > 0 /\ pc # "client" /\ version[place] = "old"
    /\ version' = [version EXCEPT ![place] = "new"]
    /\ UNCHANGED <<upgrades, external, labelled, pc, expectedValue, loops, results, testRuns,
                   verdict>>

Next ==
    \/ FetchIPs \/ BeginRow \/ EndRow \/ Match \/ Poll \/ Timeout
    \/ BeginTestCases \/ RunTestCases \/ AddClient \/ Upgrade
    \/ \E place \in Places : Roll(place)

Spec == Init /\ [][Next]_vars

-----------------------------------------------------------------------------
(* Properties *)

\* Every variable keeps its type.
TypeOK ==
    /\ upgrades \in BOOLEAN /\ external \subseteq Nodes /\ labelled \subseteq Nodes
    /\ version \in [Places -> {"old", "new"}]
    /\ pc \in {"fetch", "row", "address", "testCases", "client", "upgrading", "again",
              "end"}
    /\ expectedValue \in [Rows -> {"old", "new"}]
    /\ ips \subseteq Nodes \cup {NoIP} /\ left \subseteq ips
    /\ row \in 1 .. Len(Run) + 1
    /\ row \in Rows => cmd \in DOMAIN Run[row].cmds
    /\ retry \in 0 .. MaxPolls
    /\ \A res \in results : res[1] \in Rows /\ res[3] \in Nodes \cup {NoIP}
    /\ testRuns \in 0 .. 3
    /\ verdict \in {"running", "passed", "failed"}

\* The nodes a row is owed to: those with the label for an etcd row, those with an
\* external address for a row that none comes before.
Owed(r) ==
    CASE Run[r].etcd -> labelled
      [] \A q \in 1 .. r : ~Run[q].etcd -> external
      [] OTHER -> {}

Checked(value) ==
    \A r \in Rows : \A c \in DOMAIN Run[r].cmds :
        IF Run[r].cmds[c] = "host"
        THEN Owed(r) # {} => \E ip \in Nodes \cup {NoIP} : <<r, c, ip, value>> \in results
        ELSE \A n \in Owed(r) : <<r, c, n, value>> \in results

\* A template that passes has seen the old value of every command on every node it is
\* owed to and, with an upgrade, the new value there, too: a failed kubectl, errors
\* that are polled again and components that roll out late included.
PassedWasChecked ==
    verdict = "passed" => Checked("old") /\ (upgrades => Checked("new"))
=============================================================================
