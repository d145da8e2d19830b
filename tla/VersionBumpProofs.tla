-------------------------- MODULE VersionBumpProofs --------------------------
(***************************************************************************)
(* Proofs about VersionBump, for any number of nodes, any rows of commands *)
(* and any number of polls.                                                *)
(***************************************************************************)
EXTENDS VersionBump, TLAPS

\* The value that the current executeTestCombination expects.
Value == IF testRuns = 0 THEN "old" ELSE "new"

\* Between two rows the loops of the addresses and of the commands are at their beginning.
PlaceInv ==
    /\ pc # "address" => left = {} /\ cmd = 1
    /\ pc = "address" => row \in Rows /\ (left = {} => cmd = 1)

\* How often the test cases have run at each place, and whether there is an upgrade.
PhaseInv ==
    verdict = "running" =>
        /\ pc \in {"fetch", "row", "address", "testCases"} =>
              /\ testRuns \in {0, 1}
              /\ expectedValue = [r \in Rows |-> Value]
        /\ pc \in {"client", "upgrading"} => testRuns = 1
        /\ pc = "upgrading" => upgrades
        /\ pc = "again" => testRuns = 2

\* Every command of row r has shown the value on the nodes that the row is owed to.
RowDone(r, value) ==
    \A c \in DOMAIN Run[r].cmds :
        IF Run[r].cmds[c] = "host"
        THEN Owed(r) # {} => \E ip \in Nodes \cup {NoIP} : <<r, c, ip, value>> \in results
        ELSE \A n \in Owed(r) : <<r, c, n, value>> \in results

\* Command c of row r has shown the value for an address.
Seen(r, c, ip) ==
    /\ <<r, c, ip, Value>> \in results
    /\ Run[r].cmds[c] = "node" => ip # NoIP

\* The addresses are those of FetchNodeExternalIPs until an etcd row has replaced them.
AddressInv ==
    verdict = "running" =>
        /\ pc = "row" /\ (\A q \in Rows : q < row => ~Run[q].etcd) => ips \in {Listed, {NoIP}}
        /\ pc = "address" =>
              /\ (\A q \in Rows : q <= row => ~Run[q].etcd) => ips \in {Listed, {NoIP}}
              /\ Run[row].etcd => ips = Labelled

\* The loops have done the rows before the current one, the addresses that are not left,
\* and the commands before the current one on the current address.
LoopInv ==
    verdict = "running" =>
        /\ pc \in {"row", "address"} => \A r \in Rows : r < row => RowDone(r, Value)
        /\ pc = "address" =>
              /\ \A ip \in ips \ left : \A c \in DOMAIN Run[row].cmds : Seen(row, c, ip)
              /\ left # {} =>
                    \A c \in DOMAIN Run[row].cmds : c < cmd => Seen(row, c, Address)
        /\ pc = "testCases" => \A r \in Rows : RowDone(r, Value)

\* The old values have been seen before the upgrade, the new ones before the last run
\* of the test cases.
DoneInv ==
    verdict = "running" =>
        /\ testRuns # 0 => \A r \in Rows : RowDone(r, "old")
        /\ pc = "again" => \A r \in Rows : RowDone(r, "new")

BumpInv == PlaceInv /\ PhaseInv

CheckInv == AddressInv /\ LoopInv /\ DoneInv /\ PassedWasChecked

-----------------------------------------------------------------------------

\* A command runs at the host or on a node, and there is one in every row.
LEMMA Commands ==
    ASSUME NEW r \in Rows
    PROVE  /\ Len(Run[r].cmds) \in Nat \ {0}
           /\ DOMAIN Run[r].cmds = 1 .. Len(Run[r].cmds)
           /\ \A c \in DOMAIN Run[r].cmds : Run[r].cmds[c] \in {"node", "host"}
           /\ Run[r].etcd \in BOOLEAN
  <1>1. Run[r] \in [etcd : BOOLEAN, cmds : Seq({"node", "host"})]
    <2> DEFINE RowSet == [etcd : BOOLEAN, cmds : Seq({"node", "host"})]
    <2>1. Run \in Seq(RowSet) /\ r \in DOMAIN Run
      BY BumpConstants DEF Rows
    <2>2. ASSUME NEW S, Run \in Seq(S)
          PROVE  Run[r] \in S
      BY <2>1, <2>2
    <2>3. QED
      BY <2>1, <2>2
  <1>2. Run[r].cmds # <<>>
    BY BumpConstants
  <1>3. QED
    BY <1>1, <1>2

\* The rows are numbered from 1.
LEMMA RowNumbers == Len(Run) \in Nat /\ Rows = 1 .. Len(Run)
  BY BumpConstants DEF Rows

\* A validation has room for a poll.
LEMMA Polls == MaxPolls \in Nat \ {0}
  BY BumpConstants

\* The types and the places are kept by every step.
LEMMA TypeStep ==
    ASSUME TypeOK, BumpInv, [Next]_vars
    PROVE  TypeOK' /\ BumpInv'
  <1> USE RowNumbers, Commands, Polls
  <1> USE DEF TypeOK, BumpInv, PlaceInv, PhaseInv, Value, cluster, loops, vars,
              At, Fail, Pass, Goto
  <1>1. CASE FetchIPs
    BY <1>1 DEF FetchIPs, Listed
  <1>2. CASE BeginRow
    <2>1. CASE Fail /\ UNCHANGED <<ips, left>>
      BY <1>2, <2>1 DEF BeginRow
    <2>2. CASE left' = ips' /\ Goto("address")
      <3>1. ips' \subseteq Nodes \cup {NoIP}
        BY <1>2, <2>2 DEF BeginRow, Labelled
      <3>2. row \in Rows /\ 1 \in DOMAIN Run[row].cmds
        BY <1>2 DEF BeginRow
      <3>3. QED
        BY <1>2, <2>2, <3>1, <3>2 DEF BeginRow
    <2>3. QED
      BY <1>2, <2>1, <2>2 DEF BeginRow
  <1>3. CASE EndRow
    BY <1>3 DEF EndRow
  <1>4. CASE Match
    <2>1. Address \in left
      BY <1>4 DEF Match, Matches, Address
    <2>2. row \in Rows /\ cmd \in DOMAIN Run[row].cmds /\ Address \in Nodes \cup {NoIP}
      BY <1>4, <2>1 DEF Match, Matches
    <2>3. \A res \in results' : res[1] \in Rows /\ res[3] \in Nodes \cup {NoIP}
      BY <1>4, <2>2 DEF Match, Matches
    <2>4. CASE cmd < Len(Run[row].cmds)
      <3>1. cmd' \in DOMAIN Run[row].cmds
        BY <1>4, <2>2, <2>4 DEF Match
      <3>2. QED
        BY <1>4, <2>2, <2>3, <2>4, <3>1 DEF Match, Matches
    <2>5. CASE ~(cmd < Len(Run[row].cmds))
      <3>1. 1 \in DOMAIN Run[row].cmds
        BY <2>2
      <3>2. QED
        BY <1>4, <2>2, <2>3, <2>5, <3>1 DEF Match, Matches
    <2>6. QED
      BY <2>4, <2>5
  <1>5. CASE Poll
    BY <1>5 DEF Poll
  <1>6. CASE Timeout
    BY <1>6 DEF Timeout
  <1>7. CASE BeginTestCases
    BY <1>7 DEF BeginTestCases
  <1>8. CASE RunTestCases
    BY <1>8 DEF RunTestCases
  <1>9. CASE AddClient
    BY <1>9 DEF AddClient
  <1>10. CASE Upgrade
    BY <1>10 DEF Upgrade
  <1>11. CASE \E place \in Places : Roll(place)
    BY <1>11 DEF Roll
  <1>12. CASE UNCHANGED vars
    BY <1>12
  <1>13. QED
    BY <1>1, <1>2, <1>3, <1>4, <1>5, <1>6, <1>7, <1>8, <1>9, <1>10, <1>11, <1>12 DEF Next


-----------------------------------------------------------------------------

\* What has been seen stays seen, and the nodes that a row is owed to stay the same.
LEMMA RowStaysDone ==
    ASSUME results \subseteq results', UNCHANGED <<external, labelled>>,
           NEW r \in Rows, NEW value, RowDone(r, value)
    PROVE  RowDone(r, value)'
  BY DEF RowDone, Owed

\* A row is done once no address is left: the addresses include those it is owed to
\* unless kubectl has failed, and then no command on a node has matched.
LEMMA RowEnds ==
    ASSUME TypeOK, BumpInv, AddressInv, LoopInv, At("address"), left = {}
    PROVE  RowDone(row, Value)
  <1>1. row \in Rows /\ Run[row].etcd \in BOOLEAN
    BY Commands DEF At, BumpInv, PlaceInv
  <1>2. \A ip \in ips : \A c \in DOMAIN Run[row].cmds : Seen(row, c, ip)
    BY DEF LoopInv, At
  <1>3. Owed(row) # {} => ips # {} /\ (Owed(row) \subseteq ips \/ NoIP \in ips)
    <2>1. CASE Run[row].etcd
      BY <1>1, <2>1, RowNumbers DEF Owed, AddressInv, At, Labelled
    <2>2. CASE \A q \in 1 .. row : ~Run[q].etcd
      <3>1. Owed(row) = external
        BY <1>1, <2>2, RowNumbers DEF Owed
      <3>2. \A q \in Rows : q <= row => ~Run[q].etcd
        BY <1>1, <2>2, RowNumbers
      <3>3. ips \in {Listed, {NoIP}}
        BY <3>2 DEF AddressInv, At
      <3>4. QED
        BY <3>1, <3>3 DEF Listed
    <2>3. CASE ~Run[row].etcd /\ ~(\A q \in 1 .. row : ~Run[q].etcd)
      BY <2>3 DEF Owed
    <2>4. QED
      BY <1>1, <2>1, <2>2, <2>3
  <1>4. ASSUME NEW c \in DOMAIN Run[row].cmds, Run[row].cmds[c] = "host", Owed(row) # {}
        PROVE  \E ip \in Nodes \cup {NoIP} : <<row, c, ip, Value>> \in results
    <2>1. PICK ip \in ips : TRUE
      BY <1>3, <1>4
    <2>2. <<row, c, ip, Value>> \in results
      BY <1>2, <1>4, <2>1 DEF Seen
    <2>3. QED
      BY <2>1, <2>2 DEF TypeOK
  <1>5. ASSUME NEW c \in DOMAIN Run[row].cmds, Run[row].cmds[c] # "host", NEW n \in Owed(row)
        PROVE  <<row, c, n, Value>> \in results
    <2>1. Run[row].cmds[c] = "node"
      BY <1>1, <1>5, Commands
    <2>2. NoIP \notin ips
      BY <1>2, <1>5, <2>1 DEF Seen
    <2>3. n \in ips
      BY <1>3, <1>5, <2>2
    <2>4. QED
      BY <1>2, <1>5, <2>3 DEF Seen
  <1>6. QED
    BY <1>4, <1>5 DEF RowDone

\* A match shows the value of one more command for the address at hand.
LEMMA MatchStep ==
    ASSUME TypeOK, BumpInv, AddressInv, LoopInv, DoneInv, PassedWasChecked, Match
    PROVE  CheckInv'
  <1>1. At("address") /\ left # {} /\ Address \in left
    BY DEF Match, Matches, Address
  <1>2. /\ row \in Rows /\ cmd \in DOMAIN Run[row].cmds
        /\ expectedValue[row] = Value
    BY <1>1 DEF At, BumpInv, PlaceInv, PhaseInv, TypeOK
  <1>3. results' = results \cup {<<row, cmd, Address, Value>>}
    BY <1>2 DEF Match
  <1>4. /\ UNCHANGED <<upgrades, external, labelled, pc, expectedValue, ips, row, testRuns, verdict>>
        /\ Value' = Value
    BY DEF Match, Value, cluster
  <1>5. PICK this, at : this = Address /\ at = cmd
    OBVIOUS
  <1>6. Seen(row, at, this)'
    <2>1. <<row, at, this, Value>> \in results'
      BY <1>3, <1>4, <1>5
    <2>2. Run[row].cmds[cmd] = "node" => Address # NoIP
      <3>1. Where \in 1 .. N + 1
        BY BumpConstants DEF Match, Matches, Places, Nodes, Host
      <3>2. Run[row].cmds[cmd] = "node" => Where = Address
        BY DEF Where
      <3>3. QED
        BY <3>1, <3>2, BumpConstants DEF NoIP
    <2>3. QED
      BY <2>1, <2>2, <1>4, <1>5 DEF Seen
  <1>7. AddressInv'
    BY <1>4 DEF AddressInv, Listed, Labelled
  <1>8. \A r \in Rows : \A value : RowDone(r, value) => RowDone(r, value)'
    BY <1>3, <1>4, RowStaysDone
  <1>9. DoneInv'
    BY <1>4, <1>8 DEF DoneInv
  <1>10. PassedWasChecked'
    BY <1>1, <1>4 DEF PassedWasChecked, At
  <1>11. LoopInv'
    <2> SUFFICES /\ \A r \in Rows : r < row => RowDone(r, Value)'
                 /\ \A ip \in (ips \ left)' : \A c \in DOMAIN Run[row].cmds :
                       Seen(row, c, ip)'
                 /\ left' # {} =>
                       \A c \in DOMAIN Run[row].cmds : c < cmd' => Seen(row, c, Address)'
      BY <1>1, <1>4 DEF LoopInv, At
    <2>1. \A r \in Rows : r < row => RowDone(r, Value)'
      BY <1>1, <1>3, <1>4 DEF LoopInv, At, RowDone, Owed
    <2>2. \A ip \in ips \ left : \A c \in DOMAIN Run[row].cmds : Seen(row, c, ip)'
      BY <1>1, <1>2, <1>3, <1>4 DEF LoopInv, At, Seen
    <2>3. \A c \in DOMAIN Run[row].cmds : c < cmd => Seen(row, c, this)'
      BY <1>1, <1>2, <1>3, <1>4, <1>5 DEF LoopInv, At, Seen
    <2>4. \A c \in DOMAIN Run[row].cmds : c <= cmd => Seen(row, c, this)'
      BY <1>2, <1>5, <1>6, <2>3, Commands
    <2>5. CASE cmd < Len(Run[row].cmds)
      <3>1. left' = left /\ cmd' = cmd + 1
        BY <2>5 DEF Match
      <3>2. \A c \in DOMAIN Run[row].cmds : c < cmd' => c <= cmd
        BY <1>2, <3>1, Commands
      <3>3. Address' = Address
        BY <3>1 DEF Address
      <3>4. QED
        BY <1>4, <1>5, <2>1, <2>2, <2>4, <3>1, <3>2, <3>3
    <2>6. CASE ~(cmd < Len(Run[row].cmds))
      <3>1. left' = left \ {Address} /\ cmd' = 1
        BY <2>6 DEF Match
      <3>2. \A c \in DOMAIN Run[row].cmds : c <= cmd /\ ~(c < cmd')
        BY <1>2, <2>6, <3>1, Commands
      <3>3. \A ip \in (ips \ left)' : ip \in ips \ left \/ ip = this
        BY <1>4, <1>5, <3>1
      <3>4. QED
        BY <2>1, <2>2, <2>4, <3>2, <3>3
    <2>7. QED
      BY <2>5, <2>6
  <1>12. QED
    BY <1>7, <1>9, <1>10, <1>11 DEF CheckInv

-----------------------------------------------------------------------------

\* Every row done is what Checked says.
LEMMA CheckedIsRows ==
    ASSUME NEW value
    PROVE  Checked(value) <=> \A r \in Rows : RowDone(r, value)
  BY DEF Checked, RowDone

\* A step that fails or passes leaves nothing to show but PassedWasChecked.
LEMMA EndStep ==
    ASSUME verdict' # "running"
    PROVE  AddressInv' /\ LoopInv' /\ DoneInv'
  BY DEF AddressInv, LoopInv, DoneInv

\* The other steps of the loops.
LEMMA LoopStep ==
    ASSUME TypeOK, BumpInv, CheckInv,
           FetchIPs \/ BeginRow \/ EndRow \/ Poll \/ Timeout \/ BeginTestCases
    PROVE  CheckInv'
  <1>1. /\ UNCHANGED <<upgrades, external, labelled, expectedValue, results, testRuns>>
        /\ Value' = Value
    BY DEF FetchIPs, BeginRow, EndRow, Poll, Timeout, BeginTestCases, cluster, loops, Value
  <1>2. verdict = "running" /\ verdict' \in {"running", "failed"}
    BY DEF FetchIPs, BeginRow, EndRow, Poll, Timeout, BeginTestCases, At, Goto, Fail
  <1>3. PassedWasChecked'
    BY <1>2 DEF PassedWasChecked
  <1>4. CASE verdict' = "failed"
    BY <1>3, <1>4, EndStep DEF CheckInv
  <1>5. CASE verdict' = "running"
    <2>1. DoneInv'
      <3>1. pc' = "again" => pc = "again"
        BY <1>5 DEF FetchIPs, BeginRow, EndRow, Poll, Timeout, BeginTestCases, Goto, Fail
      <3>2. QED
        BY <1>1, <1>2, <3>1, RowStaysDone DEF CheckInv, DoneInv, RowDone, Owed
    <2>2. CASE FetchIPs
      <3>1. pc' = "row" /\ row' = 1 /\ ips' \in {Listed, {NoIP}}
        BY <1>5, <2>2 DEF FetchIPs, Fail, Goto
      <3>2. AddressInv' /\ LoopInv'
        BY <1>1, <3>1, RowNumbers DEF AddressInv, LoopInv, Listed
      <3>3. QED
        BY <1>3, <2>1, <3>2 DEF CheckInv
    <2>3. CASE BeginRow
      <3>1. /\ pc = "row" /\ row \in Rows /\ pc' = "address" /\ row' = row /\ cmd' = 1
            /\ ips' = IF Run[row].etcd THEN Labelled ELSE ips
            /\ left' = ips'
        BY <1>5, <2>3 DEF BeginRow, At, Fail, Goto
      <3>2. AddressInv'
        BY <1>1, <1>2, <3>1, RowNumbers DEF AddressInv, CheckInv, Listed, Labelled
      <3>3. \A r \in Rows : r < row => RowDone(r, Value)'
        BY <1>1, <1>2, <3>1 DEF CheckInv, LoopInv, RowDone, Owed
      <3>4. \A c \in DOMAIN Run[row].cmds : ~(c < cmd')
        BY <3>1, Commands
      <3>5. LoopInv'
        BY <3>1, <3>3, <3>4 DEF LoopInv
      <3>6. QED
        BY <1>3, <2>1, <3>2, <3>5 DEF CheckInv
    <2>4. CASE EndRow
      <3>1. /\ At("address") /\ left = {} /\ pc' = "row" /\ row' = row + 1 /\ ips' = ips
            /\ row \in Rows
        BY <2>4 DEF EndRow, Goto, At, BumpInv, PlaceInv
      <3>2. AddressInv'
        BY <1>1, <1>2, <3>1, RowNumbers DEF AddressInv, CheckInv, Listed, Labelled, At
      <3>3. RowDone(row, Value)
        BY <3>1, RowEnds DEF CheckInv
      <3>4. \A r \in Rows : r < row => RowDone(r, Value)
        BY <3>1 DEF CheckInv, LoopInv, At
      <3>5. \A r \in Rows : r < row + 1 => RowDone(r, Value)
        BY <3>1, <3>3, <3>4, RowNumbers
      <3>6. \A r \in Rows : r < row' => RowDone(r, Value)'
        BY <1>1, <3>1, <3>5 DEF RowDone, Owed
      <3>7. LoopInv'
        BY <3>1, <3>6 DEF LoopInv
      <3>8. QED
        BY <1>3, <2>1, <3>2, <3>7 DEF CheckInv
    <2>5. CASE Poll \/ Timeout
      <3>1. UNCHANGED <<pc, ips, row, left, cmd>>
        BY <1>5, <2>5 DEF Poll, Timeout, Fail
      <3>2. Address' = Address
        BY <3>1 DEF Address
      <3>3. AddressInv' /\ LoopInv'
        BY <1>1, <1>2, <3>1, <3>2 DEF Listed, Labelled, CheckInv, AddressInv, LoopInv, RowDone, Owed, Seen
      <3>4. QED
        BY <1>3, <2>1, <3>3 DEF CheckInv
    <2>6. CASE BeginTestCases
      <3>1. /\ pc = "row" /\ row \in 1 .. Len(Run) + 1 /\ row \notin Rows
            /\ pc' = "testCases"
        BY <2>6 DEF BeginTestCases, At, Goto, TypeOK
      <3>2. \A r \in Rows : r < row
        BY <3>1, RowNumbers
      <3>3. \A r \in Rows : RowDone(r, Value)
        BY <1>2, <3>1, <3>2 DEF CheckInv, LoopInv
      <3>4. AddressInv' /\ LoopInv'
        BY <1>1, <3>1, <3>3 DEF Listed, Labelled, AddressInv, LoopInv, RowDone, Owed
      <3>5. QED
        BY <1>3, <2>1, <3>4 DEF CheckInv
    <2>7. QED
      BY <2>2, <2>3, <2>4, <2>5, <2>6
  <1>6. QED
    BY <1>2, <1>4, <1>5

\* The test cases, the client, the upgrade and the components.
LEMMA RunStep ==
    ASSUME TypeOK, BumpInv, CheckInv,
           \/ RunTestCases \/ AddClient \/ Upgrade
           \/ \E place \in Places : Roll(place)
           \/ UNCHANGED vars
    PROVE  CheckInv'
  <1>1. UNCHANGED <<upgrades, external, labelled, ips, row, left, cmd, results>>
    BY DEF RunTestCases, AddClient, Upgrade, Roll, vars, cluster, loops
  <1>2. \A value : Checked(value)' <=> Checked(value)
    BY <1>1 DEF Checked, Owed
  <1>3. CASE RunTestCases
    <2>1. verdict = "running" /\ testRuns' = testRuns + 1
      BY <1>3 DEF RunTestCases, At
    <2>2. CASE pc = "again"
      <3>1. testRuns = 2
        BY <2>1, <2>2 DEF BumpInv, PhaseInv
      <3>2. verdict' \in {"failed", "passed"}
        BY <1>3, <2>2, <3>1 DEF RunTestCases, Fail, Pass
      <3>3. Checked("old") /\ Checked("new")
        BY <2>1, <2>2, <3>1, CheckedIsRows DEF CheckInv, DoneInv
      <3>4. PassedWasChecked'
        BY <1>1, <1>2, <3>3 DEF PassedWasChecked
      <3>5. QED
        BY <3>2, <3>4, EndStep DEF CheckInv
    <2>3. CASE pc = "testCases"
      <3>1. testRuns \in {0, 1} /\ \A r \in Rows : RowDone(r, Value)
        BY <2>1, <2>3 DEF BumpInv, PhaseInv, CheckInv, LoopInv
      <3>2. \/ verdict' = "failed"
            \/ verdict' = "running" /\ pc' = IF testRuns = 0 THEN "client" ELSE "again"
        BY <1>3, <2>1, <2>3, <3>1 DEF RunTestCases, Fail, Goto
      <3>3. \A r \in Rows : RowDone(r, "old")
        BY <2>1, <3>1 DEF Value, CheckInv, DoneInv
      <3>4. testRuns # 0 => \A r \in Rows : RowDone(r, "new")
        BY <3>1 DEF Value
      <3>5. DoneInv'
        BY <1>1, <3>2, <3>3, <3>4 DEF DoneInv, RowDone, Owed
      <3>6. AddressInv' /\ LoopInv' /\ PassedWasChecked'
        BY <3>2 DEF AddressInv, LoopInv, PassedWasChecked
      <3>7. QED
        BY <3>5, <3>6 DEF CheckInv
    <2>4. QED
      BY <1>3, <2>2, <2>3 DEF RunTestCases, At
  <1>4. CASE AddClient
    <2>1. /\ At("client") /\ testRuns' = testRuns /\ testRuns = 1
          /\ \/ verdict' = "failed"
             \/ verdict' = "running" /\ upgrades /\ pc' = "upgrading"
             \/ verdict' = "passed" /\ ~upgrades
      BY <1>4 DEF AddClient, At, Fail, Goto, Pass, BumpInv, PhaseInv, TypeOK
    <2>2. \A r \in Rows : RowDone(r, "old")
      BY <2>1 DEF CheckInv, DoneInv, At
    <2>3. Checked("old")
      BY <2>2, CheckedIsRows
    <2>4. PassedWasChecked'
      BY <1>1, <1>2, <2>1, <2>3 DEF PassedWasChecked
    <2>5. DoneInv'
      BY <1>1, <2>1, <2>2 DEF DoneInv, RowDone, Owed
    <2>6. AddressInv' /\ LoopInv'
      BY <2>1 DEF AddressInv, LoopInv
    <2>7. QED
      BY <2>4, <2>5, <2>6 DEF CheckInv
  <1>5. CASE Upgrade
    <2>1. /\ verdict = "running" /\ testRuns' = testRuns
          /\ verdict' = "failed" \/ (verdict' = "running" /\ pc' = "fetch")
      BY <1>5 DEF Upgrade, At, Fail, Goto
    <2>2. DoneInv'
      BY <1>1, <2>1 DEF CheckInv, DoneInv, RowDone, Owed
    <2>3. AddressInv' /\ LoopInv' /\ PassedWasChecked'
      BY <2>1 DEF AddressInv, LoopInv, PassedWasChecked
    <2>4. QED
      BY <2>2, <2>3 DEF CheckInv
  <1>6. CASE (\E place \in Places : Roll(place)) \/ UNCHANGED vars
    <2>1. UNCHANGED <<pc, testRuns, verdict>> /\ Address' = Address /\ Value' = Value
      BY <1>1, <1>6 DEF Roll, vars, Address, Value
    <2>2. AddressInv' /\ LoopInv' /\ DoneInv'
      BY <1>1, <2>1 DEF Listed, Labelled, CheckInv, AddressInv, LoopInv, DoneInv, RowDone, Owed, Seen
    <2>3. PassedWasChecked'
      BY <1>1, <1>2, <2>1 DEF CheckInv, PassedWasChecked
    <2>4. QED
      BY <2>2, <2>3 DEF CheckInv
  <1>7. QED
    BY <1>3, <1>4, <1>5, <1>6

\* All of it holds in the beginning.
LEMMA InitBump == Init => TypeOK /\ BumpInv /\ CheckInv
  <1> SUFFICES ASSUME Init
               PROVE  TypeOK /\ BumpInv /\ CheckInv
    OBVIOUS
  <1>1. TypeOK /\ BumpInv
    BY RowNumbers, Commands, Polls
       DEF Init, TypeOK, BumpInv, PlaceInv, PhaseInv, Value
  <1>2. CheckInv
    BY DEF Init, CheckInv, AddressInv, LoopInv, DoneInv, PassedWasChecked
  <1>3. QED
    BY <1>1, <1>2

\* TypeOK for any number of nodes and any rows of commands: the loops of
\* processTestCombination stay within the row and its commands.
THEOREM BumpTypes == Spec => []TypeOK
  <1>1. Init => TypeOK /\ BumpInv
    BY InitBump
  <1>2. TypeOK /\ BumpInv /\ [Next]_vars => TypeOK' /\ BumpInv'
    BY TypeStep
  <1>3. QED
    BY <1>1, <1>2, PTL DEF Spec

\* PassedWasChecked for any number of nodes, any rows of commands and any number of
\* polls: no failed kubectl, lost output or late rollout lets a template pass that has
\* not seen the values before the upgrade and after it on every node.
THEOREM NothingPassesUnchecked == Spec => []PassedWasChecked
  <1>1. Init => TypeOK /\ BumpInv /\ CheckInv
    BY InitBump
  <1>2. TypeOK /\ BumpInv /\ CheckInv /\ [Next]_vars => TypeOK' /\ BumpInv' /\ CheckInv'
    BY TypeStep, LoopStep, RunStep, MatchStep DEF Next, CheckInv
  <1>3. CheckInv => PassedWasChecked
    BY DEF CheckInv
  <1>4. QED
    BY <1>1, <1>2, <1>3, PTL DEF Spec

=============================================================================
