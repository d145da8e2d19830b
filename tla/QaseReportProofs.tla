-------------------------- MODULE QaseReportProofs --------------------------
(* Proofs about QaseReport: a failure of the log reaches Slack, the rerun and  *)
(* Qase; the counts are those of the tests; and an exit with 0 has reported.   *)
EXTENDS QaseReport, TLAPS

-----------------------------------------------------------------------------
(* The steps and their types *)

Readers  == {"qaseRows", "slackRows"}
Writing  == \E s \in Suites : WriteOutput(s) \/ WriteCompletion(s) \/ WritePackage(s)
Labels   == {"log", "qaseRows", "bulk", "complete", "slack", "slackRows", "details", "save",
             "exit0", "exit1"}

\* Counting keeps the counts natural numbers.
LEMMA CountType ==
    ASSUME NEW counts \in Statuses, NEW found
    PROVE  Count(counts, found) \in Statuses
  BY DEF Count, Statuses

\* Nothing has been counted at first.
LEMMA ZeroType == Zero \in Statuses
  BY DEF Zero, Statuses

\* No row closes more braces than are open.
LEMMA RemainingType ==
    ASSUME NEW rest \in Blocks, NEW out \in AllOutputs
    PROVE  Remaining(rest, out) \in Blocks
  <1>1. NoBlock \in Blocks /\ rest.depth \in Nat /\ rest.head \in BOOLEAN
    BY DEF NoBlock, Blocks
  <1>2. [depth |-> rest.depth + 1, head |-> FALSE] \in Blocks
    BY <1>1 DEF Blocks
  <1>3. [depth |-> rest.depth + 1, head |-> rest.depth = 0] \in Blocks
    BY <1>1 DEF Blocks
  <1>4. rest.depth > 1 => [depth |-> rest.depth - 1, head |-> FALSE] \in Blocks
    BY <1>1 DEF Blocks
  <1>5. [rest EXCEPT !.head = FALSE] \in Blocks
    BY <1>1 DEF Blocks
  <1> QED
    BY <1>1, <1>2, <1>3, <1>4, <1>5 DEF Remaining, AllOutputs, States

\* What is recorded for a suite of the log is a record of a suite.
LEMMA RecordedType ==
    ASSUME allSuites \in [Names -> SuiteRecords],
           NEW name \in Names, NEW action \in Actions, NEW counts \in Statuses
    PROVE  Recorded(name, action, counts) \in [Names -> SuiteRecords]
  <1>1. [known |-> TRUE, status |-> action, counts |-> counts] \in SuiteRecords
    BY DEF SuiteRecords
  <1> QED
    BY <1>1 DEF Recorded

\* A row that is written is a row, and the log only grows at its end.
LEMMA WritingAppends ==
    ASSUME log \in Seq(Rows), Writing
    PROVE  /\ pc = "log" /\ UNCHANGED <<interleaved, pc, reading, outside>>
           /\ \E row \in Rows : log' = Append(log, row)
  <1>1. PICK s \in Suites : WriteOutput(s) \/ WriteCompletion(s) \/ WritePackage(s)
    BY DEF Writing
  <1>2. CASE WriteOutput(s)
    <2>1. PICK out \in Outputs :
             Write([package |-> s, test |-> s, action |-> "output", output |-> out])
      BY <1>2 DEF WriteOutput
    <2>2. [package |-> s, test |-> s, action |-> "output", output |-> out] \in Rows
      BY ReportConstants DEF Rows, Names, Actions
    <2> QED
      BY <2>1, <2>2 DEF Write
  <1>3. CASE WriteCompletion(s)
    <2>1. PICK action \in Actions \ {"output"} :
             Write([package |-> s, test |-> s, action |-> action, output |-> "text"])
      BY <1>3 DEF WriteCompletion
    <2>2. [package |-> s, test |-> s, action |-> action, output |-> "text"] \in Rows
      BY DEF Rows, Names, Actions, AllOutputs
    <2> QED
      BY <2>1, <2>2 DEF Write
  <1>4. CASE WritePackage(s)
    <2>1. PICK action \in Actions \ {"output"} :
             Write([package |-> s, test |-> NoSuite, action |-> action, output |-> "text"])
      BY <1>4 DEF WritePackage
    <2>2. [package |-> s, test |-> NoSuite, action |-> action, output |-> "text"] \in Rows
      BY DEF Rows, Names, Actions, AllOutputs
    <2> QED
      BY <2>1, <2>2 DEF Write
  <1> QED
    BY <1>1, <1>2, <1>3, <1>4

\* The row the loop is at, while there is one.
LEMMA RowRead ==
    ASSUME log \in Seq(Rows), pos \in DOMAIN log
    PROVE  /\ log[pos] \in Rows
           /\ log[pos].test \in Names /\ log[pos].action \in Actions
           /\ log[pos].output \in AllOutputs
           /\ pos \in 1 .. Len(log)
  <1>1. pos \in 1 .. Len(log) /\ log[pos] \in Rows
    OBVIOUS
  <1> QED
    BY <1>1 DEF Rows

\* The report begins with its types.
LEMMA TypeInit == Init => TypeOK
  <1> SUFFICES ASSUME Init PROVE TypeOK
    OBVIOUS
  <1>1. NoBlock \in Blocks /\ Zero \in Statuses /\ Unknown \in SuiteRecords
    BY ZeroType DEF NoBlock, Blocks, Unknown, SuiteRecords, Actions
  <1>2. log \in Seq(Rows) /\ interleaved \in BOOLEAN /\ pos \in Nat \ {0}
    BY ReportConstants DEF Init
  <1>3. /\ allTests \in [Names -> Statuses] /\ allSuites \in [Names -> SuiteRecords]
        /\ suiteStatus \in Statuses /\ remainingData \in Blocks
    BY <1>1 DEF Init
  <1>4. NoRun \in [step : {"none", "open", "complete"},
                   results : [Suites -> {"none", "passed", "failed"}]]
    BY DEF NoRun
  <1> QED
    BY <1>2, <1>3, <1>4 DEF Init, TypeOK, NoFile, Names

\* A reading starts with its types.
LEMMA StartTypes ==
    ASSUME StartReading
    PROVE  /\ pos' \in Nat \ {0} /\ remainingData' \in Blocks
           /\ allTests' \in [Names -> Statuses] /\ allSuites' \in [Names -> SuiteRecords]
           /\ suiteStatus' \in Statuses /\ testSuiteName' \in Names
           /\ withJSON' \subseteq Suites /\ processedSuites' \subseteq Suites
  <1>1. NoBlock \in Blocks /\ Unknown \in SuiteRecords
    BY ZeroType DEF NoBlock, Blocks, Unknown, SuiteRecords, Actions
  <1> QED
    BY <1>1, ZeroType DEF StartReading, Start, Names

\* The results for Qase are "failed", "passed" or none at all.
LEMMA BulkType == BulkResults \in [Suites -> {"none", "passed", "failed"}]
  BY DEF BulkResults

\* Each step keeps the types.
LEMMA TypeStep == TypeOK /\ [Next]_vars => TypeOK'
  <1> SUFFICES ASSUME TypeOK, [Next]_vars PROVE TypeOK'
    OBVIOUS
  <1>1. CASE Writing
    <2>0. log \in Seq(Rows)
      BY DEF TypeOK
    <2>2. /\ UNCHANGED <<interleaved, pc, reading, outside>>
          /\ \E row \in Rows : log' = Append(log, row)
      BY <1>1, <2>0, WritingAppends
    <2>1. log' \in Seq(Rows)
      BY <2>0, <2>2
    <2> QED
      BY <2>1, <2>2 DEF TypeOK, reading, outside
  <1>2. CASE OutputRow
    <2> DEFINE s == log[pos].test
               found == Found(remainingData, log[pos].output)
    <2>1. /\ s \in Suites /\ pos' \in Nat \ {0}
          /\ testSuiteName' = s /\ remainingData' = Remaining(remainingData, log[pos].output)
          /\ withJSON' \in {withJSON, withJSON \cup {s}}
          /\ allTests' = [allTests EXCEPT ![s] = Count(@, found)]
          /\ suiteStatus' = Count(suiteStatus, found)
          /\ log[pos].output \in AllOutputs
      BY <1>2, RowRead DEF OutputRow, Reading, TypeOK, Names
    <2>2. remainingData' \in Blocks /\ suiteStatus' \in Statuses
      BY <2>1, RemainingType, CountType DEF TypeOK
    <2>3. allTests' \in [Names -> Statuses]
      <3>1. Count(allTests[s], found) \in Statuses
        BY <2>1, CountType DEF TypeOK, Names
      <3> QED
        BY <2>1, <3>1 DEF TypeOK
    <2>4. withJSON' \subseteq Suites /\ testSuiteName' \in Names
      BY <2>1 DEF TypeOK, Names
    <2> QED
      BY <1>2, <2>1, <2>2, <2>3, <2>4 DEF OutputRow, TypeOK, environment, outside
  <1>3. CASE CompletionRow
    <2> DEFINE s == log[pos].test
               result == SuiteResult(s, log[pos].action)
    <2>1. /\ s \in Suites /\ pos' \in Nat \ {0} /\ testSuiteName' = s
          /\ allTests' = [allTests EXCEPT ![s] = Count(@, result)]
          /\ allSuites' = Recorded(s, log[pos].action, Count(suiteStatus, result))
          /\ processedSuites' = processedSuites \cup {s}
          /\ suiteStatus' = Zero /\ log[pos].action \in Actions
      BY <1>3, RowRead DEF CompletionRow, Reading, TypeOK, Names
    <2>2. allTests' \in [Names -> Statuses]
      <3>1. Count(allTests[s], result) \in Statuses
        BY <2>1, CountType DEF TypeOK, Names
      <3> QED
        BY <2>1, <3>1 DEF TypeOK
    <2>3. allSuites' \in [Names -> SuiteRecords]
      <3>1. Count(suiteStatus, result) \in Statuses
        BY CountType DEF TypeOK
      <3> QED
        BY <2>1, <3>1, RecordedType DEF TypeOK, Names
    <2>4. processedSuites' \subseteq Suites /\ testSuiteName' \in Names
          /\ suiteStatus' \in Statuses
      BY <2>1, ZeroType DEF TypeOK, Names
    <2> QED
      BY <1>3, <2>1, <2>2, <2>3, <2>4 DEF CompletionRow, TypeOK, environment, outside
  <1>4. CASE PackageRow
    <2>1. pos' \in Nat \ {0}
      BY <1>4 DEF PackageRow, TypeOK
    <2>2. allSuites' \in [Names -> SuiteRecords] /\ suiteStatus' \in Statuses
      <3>1. Recorded(testSuiteName, log[pos].action, suiteStatus) \in [Names -> SuiteRecords]
        BY <1>4, RowRead, RecordedType DEF PackageRow, Reading, TypeOK
      <3> QED
        BY <1>4, <3>1, ZeroType DEF PackageRow, TypeOK
    <2> QED
      BY <1>4, <2>1, <2>2 DEF PackageRow, TypeOK, environment, outside
  <1>5. CASE Run \/ Connect
    BY <1>5, StartTypes DEF Run, Connect, SlackFails, Goto, TypeOK, environment, outside, reading
  <1>6. CASE CreateRun \/ Bulk \/ Complete
    BY <1>6, BulkType DEF CreateRun, Bulk, Complete, QaseFails, Goto, TypeOK, environment, reading
  <1>7. CASE Post \/ Details \/ Save
    <2>1. FailedDirs \subseteq Names
      BY ReportConstants DEF FailedDirs, FailedTests, Reported, Names
    <2> QED
      BY <1>7, <2>1 DEF Post, Details, Save, SlackFails, Goto, TypeOK, environment, reading
  <1>8. CASE UNCHANGED vars
    BY <1>8 DEF TypeOK, vars, environment, reading, outside
  <1> QED
    BY <1>1, <1>2, <1>3, <1>4, <1>5, <1>6, <1>7, <1>8 DEF Next, Writing

\* Every variable keeps its type, whatever the log holds: counts are natural numbers, and
\* everything is recorded under a name of the log.
THEOREM ReportTypes == Spec => []TypeOK
  BY TypeInit, TypeStep, PTL DEF Spec

-----------------------------------------------------------------------------
(* What the reports claim *)

\* Nothing is linked before the run on Qase is complete, Slack has its message when, with
\* Qase failed, the end is reached, unless it is a dry run; and then it has nothing.
ClaimsInv ==
    /\ pc \in {"log", "qaseRows", "bulk", "complete"} =>
          runID = 0 /\ slack.link = 0 /\ qaseRun.step # "complete"
    /\ pc \notin {"details", "save", "exit0"} => /\ slack.status = "none" /\ saved = NoFile
                                                /\ ~slack.details
    /\ pc \in {"details", "save"} => slack.status # "none" \/ dryRun
    /\ pc = "exit0" /\ qaseErr = "failed" => slack.status # "none" \/ dryRun
    /\ dryRun => slack.status = "none" /\ ~slack.details /\ saved = NoFile
    /\ runID = 1 \/ slack.link = 1 => qaseRun.step = "complete"

\* Each step keeps the claims.
LEMMA ClaimsStep == TypeOK /\ ClaimsInv /\ [Next]_vars => ClaimsInv'
  <1> SUFFICES ASSUME TypeOK, ClaimsInv, [Next]_vars PROVE ClaimsInv'
    OBVIOUS
  <1>1. CASE Writing
    BY <1>1, WritingAppends DEF ClaimsInv, TypeOK, outside
  <1>2. CASE OutputRow \/ CompletionRow \/ PackageRow
    BY <1>2 DEF ClaimsInv, OutputRow, CompletionRow, PackageRow, environment, outside
  <1>3. CASE Run \/ Connect
    BY <1>3 DEF ClaimsInv, Run, Connect, SlackFails, Goto, environment, outside
  <1>4. CASE CreateRun
    BY <1>4 DEF ClaimsInv, TypeOK, CreateRun, QaseFails, Goto
  <1>5. CASE Bulk
    BY <1>5 DEF ClaimsInv, TypeOK, Bulk, QaseFails, Goto
  <1>6. CASE Complete
    BY <1>6 DEF ClaimsInv, TypeOK, Complete, QaseFails, Goto
  <1>7. CASE Post
    BY <1>7 DEF ClaimsInv, TypeOK, Post, SlackFails, Goto
  <1>8. CASE Details
    BY <1>8 DEF ClaimsInv, TypeOK, Details, Goto
  <1>9. CASE Save
    BY <1>9 DEF ClaimsInv, TypeOK, Save, Goto
  <1>10. CASE UNCHANGED vars
    BY <1>10 DEF ClaimsInv, vars, outside
  <1> QED
    BY <1>1, <1>2, <1>3, <1>4, <1>5, <1>6, <1>7, <1>8, <1>9, <1>10 DEF Next, Writing

\* The claims are true of every state.
LEMMA Claims == Spec => []ClaimsInv
  <1>1. Init => ClaimsInv
    BY DEF Init, ClaimsInv, NoRun
  <1> QED
    BY <1>1, ReportTypes, ClaimsStep, PTL DEF Spec

\* With Qase configured, an exit with 0 has one report at least that got through, or was a
\* dry run, which leaves nothing behind; and a run that Slack links to is complete:
\* whichever of the calls fails, for any log.
THEOREM ReportedIsSent == Spec => []SuccessIsReported
  <1>1. TypeOK /\ ClaimsInv => SuccessIsReported
    BY DEF TypeOK, ClaimsInv, SuccessIsReported
  <1> QED
    BY <1>1, ReportTypes, Claims, PTL

-----------------------------------------------------------------------------
(* The log *)

Completes(i) == log[i].test # NoSuite /\ log[i].action # "output"

\* A row belongs to the suite of its package or, once, to the end of the package.
RowsInv ==
    \A i \in DOMAIN log :
        /\ log[i].test \in {log[i].package, NoSuite}
        /\ log[i].test = NoSuite => log[i].action # "output"

\* After its completion no row of a suite follows, after its end no row of a package; and
\* a package without interleaving ends before a row of another one.
OrderInv ==
    \A i, j \in DOMAIN log : i < j =>
        /\ Completes(i) => log[j].test # log[i].test
        /\ log[i].test = NoSuite => log[j].package # log[i].package
        /\ ~interleaved /\ log[i].package # log[j].package =>
              \E k \in DOMAIN log : /\ k < j /\ log[k].test = NoSuite
                                    /\ log[k].package = log[i].package

LogInv == RowsInv /\ OrderInv

\* What a row that is written has to respect of the rows before it.
LEMMA WritingRespects ==
    ASSUME log \in Seq(Rows), Writing
    PROVE  \E row \in Rows :
              /\ log' = Append(log, row)
              /\ row.test \in {row.package, NoSuite}
              /\ row.test = NoSuite => row.action # "output"
              /\ \A i \in DOMAIN log :
                    /\ Completes(i) => log[i].test # row.test
                    /\ log[i].test = NoSuite => log[i].package # row.package
                    /\ ~interleaved /\ log[i].package # row.package =>
                          \E k \in DOMAIN log : /\ log[k].test = NoSuite
                                                /\ log[k].package = log[i].package
  <1>1. PICK s \in Suites : WriteOutput(s) \/ WriteCompletion(s) \/ WritePackage(s)
    BY DEF Writing
  <1>2. \A i \in DOMAIN log :
           /\ log[i].test = NoSuite => log[i].package # s
           /\ ~interleaved /\ log[i].package # s =>
                 \E k \in DOMAIN log : /\ log[k].test = NoSuite
                                       /\ log[k].package = log[i].package
    BY <1>1 DEF WriteOutput, WriteCompletion, WritePackage, MayWrite, Ended
  <1>3. ~IsCompleted(s) => \A i \in DOMAIN log : Completes(i) => log[i].test # s
    <2>1. \A i \in DOMAIN log : log[i].action \in Actions
      <3>1. \A i \in DOMAIN log : log[i] \in Rows
        OBVIOUS
      <3> QED
        BY <3>1 DEF Rows
    <2> QED
      BY <2>1 DEF IsCompleted, Completed, Completes, RowsOf
  <1>4. CASE WriteOutput(s)
    <2>1. PICK out \in Outputs :
             Write([package |-> s, test |-> s, action |-> "output", output |-> out])
      BY <1>4 DEF WriteOutput
    <2> DEFINE row == [package |-> s, test |-> s, action |-> "output", output |-> out]
    <2>2. row \in Rows /\ row.test = s /\ row.package = s /\ s # NoSuite
      BY ReportConstants DEF Rows, Names, Actions
    <2>3. log' = Append(log, row) /\ ~IsCompleted(s)
      BY <1>4, <2>1 DEF Write, WriteOutput
    <2> QED
      BY <1>2, <1>3, <2>2, <2>3
  <1>5. CASE WriteCompletion(s)
    <2>1. PICK action \in Actions \ {"output"} :
             Write([package |-> s, test |-> s, action |-> action, output |-> "text"])
      BY <1>5 DEF WriteCompletion
    <2> DEFINE row == [package |-> s, test |-> s, action |-> action, output |-> "text"]
    <2>2. row \in Rows /\ row.test = s /\ row.package = s /\ s # NoSuite
      BY ReportConstants DEF Rows, Names, Actions, AllOutputs
    <2>3. log' = Append(log, row) /\ ~IsCompleted(s)
      BY <1>5, <2>1 DEF Write, WriteCompletion
    <2> QED
      BY <1>2, <1>3, <2>2, <2>3
  <1>6. CASE WritePackage(s)
    <2>1. PICK action \in Actions \ {"output"} :
             Write([package |-> s, test |-> NoSuite, action |-> action, output |-> "text"])
      BY <1>6 DEF WritePackage
    <2> DEFINE row == [package |-> s, test |-> NoSuite, action |-> action, output |-> "text"]
    <2>2. /\ row \in Rows /\ row.test = NoSuite /\ row.package = s /\ row.action # "output"
          /\ \A i \in DOMAIN log : Completes(i) => log[i].test # row.test
      BY DEF Rows, Names, Actions, AllOutputs, Completes
    <2>3. log' = Append(log, row)
      BY <2>1 DEF Write
    <2> QED
      BY <1>2, <2>2, <2>3
  <1> QED
    BY <1>1, <1>4, <1>5, <1>6

\* The order of the log survives a row that respects it.
LEMMA LogStep == TypeOK /\ LogInv /\ [Next]_vars => LogInv'
  <1> SUFFICES ASSUME TypeOK, LogInv, [Next]_vars PROVE LogInv'
    OBVIOUS
  <1>1. CASE Writing
    <2>0. log \in Seq(Rows) /\ interleaved' = interleaved
      BY <1>1, WritingAppends DEF TypeOK
    <2>1. PICK row \in Rows :
              /\ log' = Append(log, row)
              /\ row.test \in {row.package, NoSuite}
              /\ row.test = NoSuite => row.action # "output"
              /\ \A i \in DOMAIN log :
                    /\ Completes(i) => log[i].test # row.test
                    /\ log[i].test = NoSuite => log[i].package # row.package
                    /\ ~interleaved /\ log[i].package # row.package =>
                          \E k \in DOMAIN log : /\ log[k].test = NoSuite
                                                /\ log[k].package = log[i].package
      BY <1>1, <2>0, WritingRespects
    <2>2. /\ DOMAIN log = 1 .. Len(log) /\ DOMAIN log' = 1 .. Len(log) + 1
          /\ \A i \in DOMAIN log : log'[i] = log[i]
          /\ log'[Len(log) + 1] = row /\ Len(log) \in Nat
      BY <2>0, <2>1
    <2>3. RowsInv'
      BY <2>1, <2>2 DEF LogInv, RowsInv
    <2>4. ASSUME NEW i \in DOMAIN log', NEW j \in DOMAIN log', i < j
          PROVE  /\ Completes(i)' => log'[j].test # log'[i].test
                 /\ log'[i].test = NoSuite => log'[j].package # log'[i].package
                 /\ ~interleaved' /\ log'[i].package # log'[j].package =>
                       \E k \in DOMAIN log' : /\ k < j /\ log'[k].test = NoSuite
                                              /\ log'[k].package = log'[i].package
      <3>1. i \in DOMAIN log /\ i \in 1 .. Len(log)
        BY <2>2, <2>4
      <3>2. Completes(i)' <=> Completes(i)
        BY <2>2, <3>1 DEF Completes
      <3>3. CASE j \in DOMAIN log
        <4>1. log'[i] = log[i] /\ log'[j] = log[j]
          BY <2>2, <3>1, <3>3
        <4>2. /\ Completes(i) => log[j].test # log[i].test
              /\ log[i].test = NoSuite => log[j].package # log[i].package
              /\ ~interleaved /\ log[i].package # log[j].package =>
                    \E k \in DOMAIN log : /\ k < j /\ log[k].test = NoSuite
                                          /\ log[k].package = log[i].package
          BY <2>4, <3>1, <3>3 DEF LogInv, OrderInv
        <4>3. DOMAIN log \subseteq DOMAIN log'
          BY <2>2
        <4> QED
          BY <2>0, <2>2, <3>2, <4>1, <4>2, <4>3
      <3>4. CASE j \notin DOMAIN log
        <4>1. j = Len(log) + 1 /\ log'[j] = row /\ log'[i] = log[i]
          BY <2>2, <3>1, <3>4
        <4>2. \A k \in DOMAIN log : k \in DOMAIN log' /\ k < j /\ log'[k] = log[k]
          BY <2>2, <4>1
        <4> QED
          BY <2>0, <2>1, <3>1, <3>2, <4>1, <4>2
      <3> QED
        BY <3>3, <3>4
    <2>5. OrderInv'
      BY <2>4 DEF OrderInv
    <2> QED
      BY <2>3, <2>5 DEF LogInv
  <1>2. CASE ~Writing
    <2>1. UNCHANGED <<interleaved, log>>
      BY <1>2 DEF Next, Writing, vars, environment, OutputRow, CompletionRow, PackageRow, Run,
                  CreateRun, Bulk, Complete, Connect, Post, Details, Save
    <2> QED
      BY <2>1 DEF LogInv, RowsInv, OrderInv, Completes
  <1> QED
    BY <1>1, <1>2

\* The log is in order in every state.
LEMMA LogOrder == Spec => []LogInv
  <1>1. Init => LogInv
    BY DEF Init, LogInv, RowsInv, OrderInv
  <1> QED
    BY <1>1, ReportTypes, LogStep, PTL DEF Spec

-----------------------------------------------------------------------------
(* What a reading has found so far *)

ReadSoFar == pc \in {"qaseRows", "bulk", "complete", "slackRows", "details", "save"}

\* The loop is in the log and past its end when a report is made of the reading.
PositionInv ==
    ReadSoFar =>
        /\ pos \in 1 .. Len(log) + 1
        /\ pc \in {"bulk", "complete", "details", "save"} => ReadAll

\* A suite is processed by its completion row only; and one that has failed stays
\* recorded with a failed test: nothing that is read later takes it back.
FailedInv ==
    ReadSoFar =>
        /\ \A s \in processedSuites : \E i \in DOMAIN log :
              i < pos /\ log[i].test = s /\ Completes(i)
        /\ \A i \in DOMAIN log :
              i < pos /\ log[i].test # NoSuite /\ log[i].action = "fail" =>
                 /\ log[i].test \in processedSuites
                 /\ allSuites[log[i].test].known
                 /\ allSuites[log[i].test].counts["failed"] > 0

FoundInv == PositionInv /\ FailedInv

\* The suite of a completion that fails gets a failed test, whatever it has printed.
LEMMA FailureCounts ==
    ASSUME suiteStatus \in Statuses, NEW s
    PROVE  Count(suiteStatus, SuiteResult(s, "fail"))["failed"] > 0
  <1>1. suiteStatus["failed"] \in Nat /\ "failed" \in States
    BY DEF Statuses, States
  <1>2. StateOf["fail"] = "failed"
    BY DEF StateOf
  <1>3. "failed" \in SuiteResult(s, "fail") \/ suiteStatus["failed"] > 0
    BY <1>1, <1>2 DEF SuiteResult
  <1>4. Count(suiteStatus, SuiteResult(s, "fail"))["failed"]
           = suiteStatus["failed"] + (IF "failed" \in SuiteResult(s, "fail") THEN 1 ELSE 0)
    BY <1>1 DEF Count
  <1> QED
    BY <1>1, <1>3, <1>4

\* Each step keeps what was found.
LEMMA FoundStep == TypeOK /\ LogInv /\ FoundInv /\ [Next]_vars => FoundInv'
  <1> SUFFICES ASSUME TypeOK, LogInv, FoundInv, [Next]_vars PROVE FoundInv'
    OBVIOUS
  <1> USE DEF FoundInv, PositionInv, FailedInv, ReadSoFar
  <1>0. log \in Seq(Rows) /\ DOMAIN log = 1 .. Len(log) /\ Len(log) \in Nat
    BY DEF TypeOK
  <1>1. CASE Writing
    BY <1>1, <1>0, WritingAppends
  <1>2. CASE OutputRow
    <2>1. /\ UNCHANGED <<log, pc, allSuites, processedSuites>> /\ pos' = pos + 1
          /\ pc \in Readers /\ pos \in DOMAIN log /\ log[pos].action = "output"
      BY <1>2 DEF OutputRow, Reading, Readers, environment
    <2>2. PositionInv'
      BY <1>0, <2>1 DEF Readers, ReadAll
    <2>3. \A i \in DOMAIN log : (i < pos + 1 <=> i < pos \/ i = pos) /\ (i < pos => i < pos + 1)
      BY <1>0, <2>1
    <2>4. FailedInv'
      BY <2>1, <2>3 DEF Readers, Completes
    <2> QED
      BY <2>2, <2>4
  <1>3. CASE CompletionRow
    <2> DEFINE s == log[pos].test
    <2>1. /\ UNCHANGED <<log, pc>> /\ pos' = pos + 1
          /\ pc \in Readers /\ pos \in DOMAIN log
          /\ s # NoSuite /\ log[pos].action # "output" /\ s \in Suites
          /\ processedSuites' = processedSuites \cup {s}
          /\ allSuites' = Recorded(s, log[pos].action,
                                   Count(suiteStatus, SuiteResult(s, log[pos].action)))
      BY <1>3, RowRead DEF CompletionRow, Reading, Readers, environment, TypeOK, Names
    <2>2. PositionInv'
      BY <1>0, <2>1 DEF Readers, ReadAll
    <2>3. \A i \in DOMAIN log : (i < pos + 1 <=> i < pos \/ i = pos) /\ (i < pos => i < pos + 1)
      BY <1>0, <2>1
    <2>4. \A i \in DOMAIN log : i < pos /\ Completes(i) => log[i].test # s
      BY <2>1 DEF LogInv, OrderInv
    <2>5. /\ allSuites'[s].known
          /\ log[pos].action = "fail" => allSuites'[s].counts["failed"] > 0
      <3>1. allSuites'[s] = [known |-> TRUE, status |-> log[pos].action,
                             counts |-> Count(suiteStatus, SuiteResult(s, log[pos].action))]
        BY <2>1 DEF Recorded, TypeOK, Names
      <3> QED
        BY <3>1, FailureCounts DEF TypeOK
    <2>6. \A t \in Names : t # s => allSuites'[t] = allSuites[t]
      BY <2>1 DEF Recorded, TypeOK
    <2>7. \A i \in DOMAIN log : log[i].test \in Names
      <3>1. \A i \in DOMAIN log : log[i] \in Rows
        BY <1>0
      <3> QED
        BY <3>1 DEF Rows
    <2>8. ASSUME NEW t \in processedSuites'
          PROVE  \E i \in DOMAIN log : i < pos' /\ log[i].test = t /\ Completes(i)
      <3>1. CASE t = s
        BY <2>1, <2>3, <3>1 DEF Completes
      <3>2. CASE t # s
        BY <2>1, <2>3, <2>8, <3>2 DEF Readers
      <3> QED
        BY <3>1, <3>2
    <2>9. ASSUME NEW i \in DOMAIN log,
                 i < pos', log[i].test # NoSuite, log[i].action = "fail"
          PROVE  /\ log[i].test \in processedSuites'
                 /\ allSuites'[log[i].test].known
                 /\ allSuites'[log[i].test].counts["failed"] > 0
      <3>1. CASE i = pos
        BY <2>1, <2>5, <2>9, <3>1
      <3>2. CASE i < pos
        <4>1. log[i].test # s
          BY <2>4, <2>9, <3>2 DEF Completes
        <4> QED
          BY <2>1, <2>6, <2>7, <2>9, <3>2, <4>1 DEF Readers
      <3> QED
        BY <2>1, <2>3, <2>9, <3>1, <3>2
    <2>10. FailedInv'
      BY <2>1, <2>8, <2>9 DEF Completes
    <2> QED
      BY <2>2, <2>10
  <1>4. CASE PackageRow
    <2>1. /\ UNCHANGED <<log, pc, processedSuites>> /\ pos' = pos + 1
          /\ pc \in Readers /\ pos \in DOMAIN log /\ log[pos].test = NoSuite
          /\ \/ allSuites' = allSuites
             \/ /\ testSuiteName \notin processedSuites
                /\ allSuites' = Recorded(testSuiteName, log[pos].action, suiteStatus)
      BY <1>4 DEF PackageRow, Reading, Readers, environment
    <2>2. PositionInv'
      BY <1>0, <2>1 DEF Readers, ReadAll
    <2>3. \A i \in DOMAIN log : (i < pos + 1 <=> i < pos \/ i = pos) /\ (i < pos => i < pos + 1)
      BY <1>0, <2>1
    <2>4. \A t \in processedSuites : allSuites'[t] = allSuites[t]
      BY <2>1 DEF Recorded, TypeOK, Names
    <2>5. FailedInv'
      BY <2>1, <2>3, <2>4 DEF Readers, Completes
    <2> QED
      BY <2>2, <2>5
  <1>5. CASE Run \/ Connect
    <2>1. /\ log' = log
          /\ \/ pc' \in {"slack", "exit0", "exit1"}
             \/ pc' \in Readers /\ pos' = 1 /\ processedSuites' = {}
      BY <1>5 DEF Run, Connect, SlackFails, Goto, StartReading, Start, environment, Readers
    <2>2. PositionInv'
      BY <1>0, <2>1 DEF Readers
    <2>3. FailedInv'
      BY <1>0, <2>1 DEF Readers
    <2> QED
      BY <2>2, <2>3
  <1>6. CASE CreateRun \/ Bulk \/ Complete \/ Post \/ Details \/ Save
    <2>1. /\ UNCHANGED <<log, pos, allSuites, processedSuites>>
          /\ ReadSoFar
          /\ pc' \in {"bulk", "complete", "details", "save"} => ReadAll
      BY <1>6 DEF CreateRun, Bulk, Complete, Post, Details, Save, QaseFails, SlackFails, Goto,
                  environment, reading
    <2>2. PositionInv'
      <3>1. pc' # "qaseRows" /\ pc' # "slackRows"
        BY <1>6 DEF CreateRun, Bulk, Complete, Post, Details, Save, QaseFails, SlackFails, Goto
      <3> QED
        BY <2>1, <3>1 DEF ReadAll
    <2>3. FailedInv'
      BY <2>1 DEF Completes
    <2> QED
      BY <2>2, <2>3
  <1>7. CASE UNCHANGED vars
    BY <1>7 DEF vars, environment, reading, Completes, ReadAll
  <1> QED
    BY <1>1, <1>2, <1>3, <1>4, <1>5, <1>6, <1>7 DEF Next, Writing

\* What is read is found in every state.
LEMMA Findings == Spec => []FoundInv
  <1>1. Init => FoundInv
    BY DEF Init, FoundInv, PositionInv, FailedInv, ReadSoFar
  <1> QED
    BY <1>1, ReportTypes, LogOrder, FoundStep, PTL DEF Spec

\* A reading that is through has the suites that failed, with a failed test.
LEMMA FailuresFound ==
    ASSUME TypeOK, FoundInv, ReadSoFar, ReadAll, NEW s \in Suites, Completed(s, "fail")
    PROVE  /\ s \in processedSuites /\ allSuites[s].known
           /\ allSuites[s].counts["failed"] > 0
  <1>1. PICK i \in DOMAIN log : log[i].test = s /\ log[i].action = "fail"
    BY DEF Completed, RowsOf
  <1>2. i < pos /\ s # NoSuite
    BY <1>1, ReportConstants DEF ReadAll, TypeOK
  <1> QED
    BY <1>1, <1>2 DEF FoundInv, FailedInv

\* Each step keeps them in Slack's message and in the rerun state, once they are there.
LEMMA SentStep ==
    TypeOK /\ ClaimsInv /\ FoundInv /\ FailureReachesSlack /\ [Next]_vars => FailureReachesSlack'
  <1> SUFFICES ASSUME TypeOK, ClaimsInv, FoundInv, FailureReachesSlack, [Next]_vars,
                      NEW s \in Suites, ReportedFailing(s)'
               PROVE  /\ slack.status' # "PASSED"
                      /\ saved' # NoFile /\ s \in WithDir => s \in saved'
    BY DEF FailureReachesSlack
  <1>1. CASE Writing
    BY <1>1, WritingAppends DEF ClaimsInv, TypeOK, outside
  <1>2. CASE ~Writing
    <2>1. log' = log
      BY <1>2 DEF Next, Writing, vars, environment, OutputRow, CompletionRow, PackageRow, Run,
                  CreateRun, Bulk, Complete, Connect, Post, Details, Save
    <2>2. s \in Included /\ Completed(s, "fail") /\ ReportedFailing(s)
      BY <2>1 DEF ReportedFailing, Completed, RowsOf
    <2>3. ReadSoFar /\ ReadAll => s \in FailedTests
      BY <2>2, FailuresFound DEF FailedTests, Reported
    <2>4. /\ slack.status # "PASSED"
          /\ saved # NoFile /\ s \in WithDir => s \in saved
      BY <2>2 DEF FailureReachesSlack
    <2>5. CASE Post
      BY <2>3, <2>4, <2>5 DEF Post, ReadSoFar, TypeOK
    <2>6. CASE Details
      BY <2>4, <2>6 DEF Details, TypeOK
    <2>7. CASE Save
      <3>1. saved' \in {saved, FailedDirs} /\ slack' = slack /\ ReadSoFar /\ ReadAll
        BY <2>7 DEF Save, ReadSoFar, FoundInv, PositionInv
      <3> QED
        BY <2>3, <2>4, <3>1 DEF FailedDirs
    <2>8. CASE ~Post /\ ~Details /\ ~Save
      <3>1. UNCHANGED <<slack, saved>>
        BY <1>2, <2>8 DEF Next, Writing, vars, outside, OutputRow, CompletionRow, PackageRow,
                          Run, CreateRun, Bulk, Complete, Connect
      <3> QED
        BY <2>4, <3>1
    <2> QED
      BY <2>5, <2>6, <2>7, <2>8
  <1> QED
    BY <1>1, <1>2

\* Slack never says PASSED of a log with a completed suite that failed, and a rerun has
\* each of them: for any suites, any output, and any order of their rows.
THEOREM FailuresReachSlack == Spec => []FailureReachesSlack
  <1>1. Init => FailureReachesSlack
    BY DEF Init, FailureReachesSlack
  <1> QED
    BY <1>1, ReportTypes, Claims, Findings, SentStep, PTL DEF Spec

-----------------------------------------------------------------------------
(* The counts *)

\* Without interleaving the results since the last reset are those of the suite that is
\* being read, and a suite that has not been read has none.
BlockInv ==
    ReadSoFar /\ ~interleaved =>
        /\ testSuiteName \in processedSuites \/ pos = 1 => suiteStatus = Zero
        /\ \A i \in DOMAIN log : i = pos - 1 =>
              /\ log[i].test = NoSuite => suiteStatus = Zero
              /\ log[i].test # NoSuite =>
                    /\ testSuiteName = log[i].test
                    /\ testSuiteName \in processedSuites
                          \/ suiteStatus = allTests[testSuiteName]
        /\ \A s \in Suites :
              (\A i \in DOMAIN log : i < pos => log[i].test # s) => allTests[s] = Zero

\* The rows of a suite are next to each other: before one of them comes another one, or
\* the suite begins here, after the end of a package.
LEMMA SuiteBegins ==
    ASSUME TypeOK, LogInv, ~interleaved, NEW p \in DOMAIN log, log[p].test # NoSuite
    PROVE  \/ p - 1 \in DOMAIN log /\ log[p - 1].test = log[p].test
           \/ /\ p - 1 \in DOMAIN log => log[p - 1].test = NoSuite
              /\ \A i \in DOMAIN log : i < p => log[i].test # log[p].test
  <1> DEFINE s == log[p].test
  <1>0. DOMAIN log = 1 .. Len(log) /\ Len(log) \in Nat /\ p \in 1 .. Len(log)
    BY DEF TypeOK
  <1>1. log[p].package = s
    BY DEF LogInv, RowsInv
  <1>2. \A i \in DOMAIN log : i < p /\ log[i].test = NoSuite => log[i].package # s
    BY <1>1 DEF LogInv, OrderInv
  <1>3. \A i \in DOMAIN log : i < p /\ log[i].package # s =>
           \E k \in DOMAIN log : /\ k < p /\ log[k].test = NoSuite
                                 /\ log[k].package = log[i].package
    BY <1>1 DEF LogInv, OrderInv
  <1>4. CASE p - 1 \in DOMAIN log /\ log[p - 1].test # NoSuite
    <2> DEFINE i == p - 1
    <2>1. i \in DOMAIN log /\ i < p /\ log[i].package = log[i].test
      BY <1>0, <1>4 DEF LogInv, RowsInv
    <2>2. ASSUME log[i].package # s PROVE FALSE
      <3>1. PICK k \in DOMAIN log : /\ k < p /\ log[k].test = NoSuite
                                    /\ log[k].package = log[i].package
        BY <1>3, <2>1, <2>2
      <3>2. k < i
        BY <1>0, <1>4, <3>1
      <3> QED
        BY <2>1, <3>1, <3>2 DEF LogInv, OrderInv
    <2> QED
      BY <1>4, <2>1, <2>2
  <1>5. CASE p - 1 \in DOMAIN log /\ log[p - 1].test = NoSuite
    <2> DEFINE i == p - 1
    <2>1. i \in DOMAIN log /\ i < p /\ log[i].package # s
      BY <1>0, <1>2, <1>5
    <2>2. ASSUME NEW j \in DOMAIN log, j < p, log[j].test = s PROVE FALSE
      <3>1. j < i /\ log[j].package = s
        BY <1>0, <1>5, <2>2 DEF LogInv, RowsInv
      <3>2. PICK k \in DOMAIN log : /\ k < i /\ log[k].test = NoSuite
                                    /\ log[k].package = s
        BY <2>1, <3>1 DEF LogInv, OrderInv
      <3>3. k < p
        BY <1>0, <3>2
      <3> QED
        BY <1>2, <3>2, <3>3
    <2> QED
      BY <1>5, <2>2
  <1>6. CASE p - 1 \notin DOMAIN log
    <2>1. p = 1
      BY <1>0, <1>6
    <2> QED
      BY <1>0, <1>6, <2>1
  <1> QED
    BY <1>4, <1>5, <1>6

\* The status that the row of a suite adds to is that of the tests recorded for it.
LEMMA StatusIsTests ==
    ASSUME TypeOK, LogInv, FoundInv, BlockInv, ReadSoFar, ~interleaved,
           pos \in DOMAIN log, log[pos].test # NoSuite
    PROVE  /\ log[pos].test \notin processedSuites
           /\ suiteStatus = allTests[log[pos].test]
  <1> DEFINE s == log[pos].test
  <1>0. DOMAIN log = 1 .. Len(log) /\ Len(log) \in Nat /\ pos \in 1 .. Len(log) /\ s \in Suites
    BY RowRead DEF TypeOK, Names
  <1>1. s \notin processedSuites
    <2>1. ASSUME s \in processedSuites PROVE FALSE
      <3>1. PICK i \in DOMAIN log : i < pos /\ log[i].test = s /\ Completes(i)
        BY <2>1 DEF FoundInv, FailedInv
      <3> QED
        BY <3>1 DEF LogInv, OrderInv
    <2> QED
      BY <2>1
  <1>2. CASE pos - 1 \in DOMAIN log /\ log[pos - 1].test = s
    BY <1>1, <1>2 DEF BlockInv
  <1>3. CASE /\ pos - 1 \in DOMAIN log => log[pos - 1].test = NoSuite
             /\ \A i \in DOMAIN log : i < pos => log[i].test # s
    <2>1. allTests[s] = Zero
      BY <1>0, <1>3 DEF BlockInv
    <2>2. pos = 1 \/ pos - 1 \in DOMAIN log
      BY <1>0
    <2>3. suiteStatus = Zero
      BY <1>3, <2>2 DEF BlockInv
    <2> QED
      BY <1>1, <2>1, <2>3
  <1> QED
    BY <1>2, <1>3, SuiteBegins

\* Each step keeps the block that is read, and the counts of those read before.
LEMMA CountsStep ==
    TypeOK /\ LogInv /\ FoundInv /\ BlockInv /\ CountsMatchTests /\ [Next]_vars
        => BlockInv' /\ CountsMatchTests'
  <1> SUFFICES ASSUME TypeOK, LogInv, FoundInv, BlockInv, CountsMatchTests, [Next]_vars
               PROVE  BlockInv' /\ CountsMatchTests'
    OBVIOUS
  <1>0. /\ log \in Seq(Rows) /\ DOMAIN log = 1 .. Len(log) /\ Len(log) \in Nat
        /\ \A i \in DOMAIN log : log[i].test \in Names
    <2>1. \A i \in DOMAIN log : log[i] \in Rows
      BY DEF TypeOK
    <2> QED
      BY <2>1 DEF TypeOK, Rows
  <1>1. CASE Writing
    BY <1>0, <1>1, WritingAppends DEF BlockInv, ReadSoFar, CountsMatchTests, reading
  <1>2. CASE OutputRow /\ ~interleaved
    <2> DEFINE s == log[pos].test
               found == Found(remainingData, log[pos].output)
    <2>1. /\ UNCHANGED <<interleaved, log, pc, allSuites, processedSuites>> /\ pos' = pos + 1
          /\ ReadSoFar /\ pos \in DOMAIN log /\ s # NoSuite /\ s \in Suites
          /\ testSuiteName' = s
          /\ allTests' = [allTests EXCEPT ![s] = Count(@, found)]
          /\ suiteStatus' = Count(suiteStatus, found)
      BY <1>0, <1>2 DEF OutputRow, Reading, ReadSoFar, environment, Names
    <2>2. s \notin processedSuites /\ suiteStatus = allTests[s]
      BY <1>2, <2>1, StatusIsTests
    <2>3. /\ allTests'[s] = suiteStatus'
          /\ \A t \in Names : t # s => allTests'[t] = allTests[t]
      BY <2>1, <2>2 DEF TypeOK, Names
    <2>4. /\ pos' # 1 /\ pos' - 1 = pos
          /\ \A i \in DOMAIN log : i < pos => i < pos'
          /\ pos < pos'
      BY <1>0, <2>1
    <2>5. BlockInv'
      BY <1>2, <2>1, <2>2, <2>3, <2>4 DEF BlockInv, Names
    <2>6. CountsMatchTests'
      BY <1>2, <2>1, <2>2, <2>3 DEF CountsMatchTests, TypeOK, Names
    <2> QED
      BY <2>5, <2>6
  <1>3. CASE CompletionRow /\ ~interleaved
    <2> DEFINE s == log[pos].test
               result == SuiteResult(s, log[pos].action)
    <2>1. /\ UNCHANGED <<interleaved, log, pc>> /\ pos' = pos + 1
          /\ ReadSoFar /\ pos \in DOMAIN log /\ s # NoSuite /\ s \in Suites
          /\ testSuiteName' = s /\ processedSuites' = processedSuites \cup {s}
          /\ allTests' = [allTests EXCEPT ![s] = Count(@, result)]
          /\ allSuites' = Recorded(s, log[pos].action, Count(suiteStatus, result))
          /\ suiteStatus' = Zero
      BY <1>0, <1>3 DEF CompletionRow, Reading, ReadSoFar, environment, Names
    <2>2. s \notin processedSuites /\ suiteStatus = allTests[s]
      BY <1>3, <2>1, StatusIsTests
    <2>3. /\ allTests'[s] = Count(suiteStatus, result)
          /\ \A t \in Names : t # s => allTests'[t] = allTests[t]
      BY <2>1, <2>2 DEF TypeOK, Names
    <2>4. /\ pos' # 1 /\ pos' - 1 = pos
          /\ \A i \in DOMAIN log : i < pos => i < pos'
          /\ pos < pos'
      BY <1>0, <2>1
    <2>5. BlockInv'
      BY <1>3, <2>1, <2>3, <2>4 DEF BlockInv, Names
    <2>6. /\ allSuites'[s].counts = Count(suiteStatus, result)
          /\ \A t \in Names : t # s => allSuites'[t] = allSuites[t]
      BY <2>1 DEF Recorded, TypeOK, Names
    <2>7. CountsMatchTests'
      BY <1>3, <2>1, <2>3, <2>6 DEF CountsMatchTests, TypeOK, Names
    <2> QED
      BY <2>5, <2>7
  <1>4. CASE PackageRow /\ ~interleaved
    <2>1. /\ UNCHANGED <<interleaved, log, pc, allTests, testSuiteName, processedSuites>>
          /\ pos' = pos + 1 /\ ReadSoFar /\ pos \in DOMAIN log /\ log[pos].test = NoSuite
      BY <1>4 DEF PackageRow, Reading, ReadSoFar, environment
    <2>2. suiteStatus' = Zero
      BY <1>4, <2>1 DEF PackageRow, BlockInv
    <2>3. \A t \in processedSuites : allSuites'[t] = allSuites[t]
      BY <1>4 DEF PackageRow, Recorded, TypeOK, Names
    <2>4. /\ pos' # 1 /\ pos' - 1 = pos
          /\ \A i \in DOMAIN log : i < pos => i < pos'
      BY <1>0, <2>1
    <2>5. BlockInv'
      BY <1>4, <2>1, <2>2, <2>4 DEF BlockInv
    <2>6. CountsMatchTests'
      BY <1>4, <2>1, <2>3 DEF CountsMatchTests
    <2> QED
      BY <2>5, <2>6
  <1>5. CASE Run \/ Connect
    <2>1. /\ interleaved' = interleaved /\ log' = log
          /\ \/ /\ pc' \in {"slack", "exit0", "exit1"}
                /\ UNCHANGED <<processedSuites, allSuites, allTests>>
             \/ /\ StartReading /\ processedSuites' = {}
      BY <1>5 DEF Run, Connect, SlackFails, Goto, StartReading, Start, environment, reading
    <2>2. CountsMatchTests'
      BY <2>1 DEF CountsMatchTests
    <2>3. BlockInv'
      <3>1. CASE pc' \in {"slack", "exit0", "exit1"}
        BY <3>1 DEF BlockInv, ReadSoFar
      <3>2. CASE StartReading
        <4>1. /\ pos' = 1 /\ suiteStatus' = Zero /\ \A s \in Suites : allTests'[s] = Zero
              /\ \A i \in DOMAIN log : i # pos' - 1
          BY <1>0, <3>2 DEF StartReading, Start, Names
        <4> QED
          BY <2>1, <4>1 DEF BlockInv
      <3> QED
        BY <2>1, <3>1, <3>2
    <2> QED
      BY <2>2, <2>3
  <1>6. CASE CreateRun \/ Bulk \/ Complete \/ Post \/ Details \/ Save
    <2>1. UNCHANGED <<interleaved, log, pos, testSuiteName, suiteStatus, allTests, allSuites,
                      processedSuites>> /\ ReadSoFar
      BY <1>6 DEF CreateRun, Bulk, Complete, Post, Details, Save, environment, reading, ReadSoFar
    <2> QED
      BY <2>1 DEF BlockInv, CountsMatchTests
  <1>7. CASE UNCHANGED vars
    BY <1>7 DEF vars, environment, reading, BlockInv, CountsMatchTests, ReadSoFar
  <1>8. CASE interleaved /\ (OutputRow \/ CompletionRow \/ PackageRow)
    BY <1>8 DEF OutputRow, CompletionRow, PackageRow, environment, BlockInv, CountsMatchTests
  <1> QED
    BY <1>1, <1>2, <1>3, <1>4, <1>5, <1>6, <1>7, <1>8 DEF Next, Writing

\* The block and the counts are right in every state.
LEMMA Counts == Spec => [](BlockInv /\ CountsMatchTests)
  <1>1. Init => BlockInv /\ CountsMatchTests
    BY DEF Init, BlockInv, CountsMatchTests, ReadSoFar
  <1> QED
    BY <1>1, ReportTypes, LogOrder, Findings, CountsStep, PTL DEF Spec

\* The counts of a suite that completed are those of its tests: neither the leftovers of
\* another suite nor the end of another package get into them.
THEOREM CountsAreRight == Spec => []CountsMatchTests
  BY Counts, PTL

-----------------------------------------------------------------------------
(* The failures on Qase *)

\* The case of a suite that failed has failed once the results are sent.
VerdictsInv ==
    pc = "complete" \/ qaseRun.step = "complete" =>
        (~interleaved => \A s \in Suites :
            ReportedFailing(s) /\ CaseIds[s] # 0 => qaseRun.results[s] = "failed")

\* What is sent has it.
LEMMA BulkHasFailures ==
    ASSUME TypeOK, FoundInv, CountsMatchTests, ReadSoFar, ReadAll, ~interleaved,
           NEW s \in Suites, ReportedFailing(s), CaseIds[s] # 0
    PROVE  BulkResults[s] = "failed"
  <1>1. /\ s \in processedSuites /\ allSuites[s].known
        /\ allSuites[s].counts["failed"] > 0
    BY FailuresFound DEF ReportedFailing
  <1>2. s \in Reported /\ s \in CasesOf(s)
    BY <1>1 DEF Reported, CasesOf, ReportedFailing
  <1>3. allTests[s]["failed"] > 0
    BY <1>1 DEF CountsMatchTests
  <1>4. allTests[s] # Zero
    BY <1>3 DEF Zero, States
  <1> QED
    BY <1>2, <1>3, <1>4 DEF BulkResults

\* Steps that change neither the log nor, once it may be complete, the run.
LEMMA RunStays ==
    ASSUME TypeOK, [Next]_vars, ~Writing, ~CreateRun, ~Bulk, ~Complete
    PROVE  UNCHANGED <<interleaved, log, qaseRun>>
  BY DEF Next, Writing, vars, environment, outside, OutputRow, CompletionRow, PackageRow, Run,
         Connect, Post, Details, Save

\* Each step keeps the failed cases.
LEMMA VerdictsStep ==
    TypeOK /\ ClaimsInv /\ FoundInv /\ CountsMatchTests /\ VerdictsInv /\ [Next]_vars
        => VerdictsInv'
  <1> SUFFICES ASSUME TypeOK, ClaimsInv, FoundInv, CountsMatchTests, VerdictsInv, [Next]_vars
               PROVE  VerdictsInv'
    OBVIOUS
  <1> USE DEF VerdictsInv
  <1>1. CASE Writing
    BY <1>1, WritingAppends DEF TypeOK, ClaimsInv, outside
  <1>2. CASE CreateRun
    BY <1>2 DEF CreateRun, QaseFails, Goto, ClaimsInv, TypeOK
  <1>3. CASE Bulk
    <2>1. ReadSoFar /\ ReadAll /\ UNCHANGED <<interleaved, log>> /\ qaseRun.step # "complete"
      BY <1>3 DEF Bulk, ReadSoFar, FoundInv, PositionInv, ClaimsInv, environment
    <2>2. \/ pc' = "slack" /\ qaseRun' = qaseRun
          \/ qaseRun'.results = BulkResults
      BY <1>3 DEF Bulk, QaseFails, Goto, TypeOK
    <2>3. \A s \in Suites : ReportedFailing(s)' <=> ReportedFailing(s)
      BY <2>1 DEF ReportedFailing, Completed, RowsOf
    <2> QED
      BY <2>1, <2>2, <2>3, BulkHasFailures
  <1>4. CASE Complete
    <2>1. /\ pc = "complete" /\ UNCHANGED <<interleaved, log>>
          /\ qaseRun'.results = qaseRun.results
      BY <1>4 DEF Complete, TypeOK, environment
    <2> QED
      BY <2>1 DEF ReportedFailing, Completed, RowsOf
  <1>5. CASE ~Writing /\ ~CreateRun /\ ~Bulk /\ ~Complete
    <2>1. UNCHANGED <<interleaved, log, qaseRun>>
      BY <1>5, RunStays
    <2>2. pc' = "complete" => pc = "complete"
      BY <1>5 DEF Next, Writing, vars, OutputRow, CompletionRow, PackageRow, Run, Connect, Post,
                  Details, Save, SlackFails, Goto
    <2> QED
      BY <2>1, <2>2 DEF ReportedFailing, Completed, RowsOf
  <1> QED
    BY <1>1, <1>2, <1>3, <1>4, <1>5

-----------------------------------------------------------------------------
(* The second reading finds what the first has found *)

\* What the loop carries from row to row, at first and as it is.
Fresh   == [rest |-> NoBlock, tests |-> [s \in Names |-> Zero],
            suites |-> [s \in Names |-> Unknown], status |-> Zero, last |-> NoSuite,
            json |-> {}, processed |-> {}]
Current == [rest |-> remainingData, tests |-> allTests, suites |-> allSuites,
            status |-> suiteStatus, last |-> testSuiteName,
            json |-> withJSON, processed |-> processedSuites]

\* A row of the loop as a function of what it carries.
AfterOutput(c, s, out) ==
    LET found == Found(c.rest, out)
    IN  [rest |-> Remaining(c.rest, out), tests |-> [c.tests EXCEPT ![s] = Count(@, found)],
         suites |-> c.suites, status |-> Count(c.status, found), last |-> s,
         json |-> IF found = {} THEN c.json ELSE c.json \cup {s}, processed |-> c.processed]

ResultAfter(c, s, action) ==
    CASE s \notin c.json -> {StateOf[action]}
      [] s \in c.json /\ action = "fail" /\ c.status["failed"] = 0 -> {"failed"}
      [] OTHER -> {}

WithSuite(c, name, action, counts) ==
    [c.suites EXCEPT ![name] = [known |-> TRUE, status |-> action, counts |-> counts]]

AfterCompletion(c, s, action) ==
    LET result == ResultAfter(c, s, action)
    IN  [rest |-> c.rest, tests |-> [c.tests EXCEPT ![s] = Count(@, result)],
         suites |-> WithSuite(c, s, action, Count(c.status, result)), status |-> Zero,
         last |-> s, json |-> c.json, processed |-> c.processed \cup {s}]

AfterPackage(c, action) ==
    IF c.last \in c.processed THEN c
    ELSE [rest |-> c.rest, tests |-> c.tests,
          suites |-> WithSuite(c, c.last, action, c.status), status |-> Zero,
          last |-> c.last, json |-> c.json, processed |-> c.processed]

AfterRow(c, row) ==
    IF row.test = NoSuite THEN AfterPackage(c, row.action)
    ELSE IF row.action = "output" THEN AfterOutput(c, row.test, row.output)
    ELSE AfterCompletion(c, row.test, row.action)

\* tr is what a reading carries before each of the first n rows, and after them.
Reads(tr, n) ==
    /\ tr[1] = Fresh
    /\ \A i \in DOMAIN log : i <= n => tr[i + 1] = AfterRow(tr[i], log[i])

\* BulkResults of what a reading carries at its end.
ReportedOf(c)  == {s \in Included : c.suites[s].known}
CasesIn(c, s)  == {t \in ReportedOf(c) : CaseIds[t] = CaseIds[s]}
ResultsOf(c) ==
    [s \in Suites |->
        IF \/ s \notin ReportedOf(c) \/ CaseIds[s] = 0
           \/ \A t \in CasesIn(c, s) : c.tests[t] = Zero
        THEN "none"
        ELSE IF \E t \in CasesIn(c, s) : c.tests[t]["failed"] > 0
             THEN "failed" ELSE "passed"]

\* The readings follow the log from the same beginning: that for Qase is the one that the
\* run has its results of, and that for Slack takes the same course.
FirstReading ==
    pc \in {"qaseRows", "bulk"} => \E tr : Reads(tr, pos - 1) /\ Current = tr[pos]

SecondReading ==
    pc = "complete" \/ qaseRun.step = "complete" => \E tr :
        /\ Reads(tr, Len(log))
        /\ qaseRun.results = ResultsOf(tr[Len(log) + 1])
        /\ pc \in {"slackRows", "details", "save"} => Current = tr[pos]

RepeatInv == FirstReading /\ SecondReading

\* A reading starts afresh.
LEMMA StartIsFresh == StartReading => Current' = Fresh /\ pos' = 1
  BY DEF StartReading, Start, Current, Fresh

\* The beginning alone is a reading of no rows.
LEMMA FreshReads == log \in Seq(Rows) => \E tr : Reads(tr, 0) /\ tr[1] = Fresh
  <1> SUFFICES ASSUME log \in Seq(Rows) PROVE \E tr : Reads(tr, 0) /\ tr[1] = Fresh
    OBVIOUS
  <1> DEFINE tr == [i \in {1} |-> Fresh]
  <1>1. tr[1] = Fresh /\ \A i \in DOMAIN log : ~(i <= 0)
    OBVIOUS
  <1>2. Reads(tr, 0)
    BY <1>1 DEF Reads
  <1> QED
    BY <1>1, <1>2

\* The function is what the three steps of the loop do.
LEMMA RowIsRead ==
    ASSUME OutputRow \/ CompletionRow \/ PackageRow
    PROVE  Current' = AfterRow(Current, log[pos])
  <1> DEFINE row == log[pos]
  <1>1. CASE OutputRow
    <2> DEFINE found == Found(remainingData, row.output)
    <2>1. row.test # NoSuite /\ row.action = "output"
      BY <1>1 DEF OutputRow
    <2>2. /\ testSuiteName' = row.test
          /\ remainingData' = Remaining(remainingData, row.output)
          /\ withJSON' = IF found = {} THEN withJSON ELSE withJSON \cup {row.test}
          /\ allTests' = [allTests EXCEPT ![row.test] = Count(@, found)]
          /\ suiteStatus' = Count(suiteStatus, found)
          /\ UNCHANGED <<allSuites, processedSuites>>
      BY <1>1 DEF OutputRow
    <2>3. Current' = AfterOutput(Current, row.test, row.output)
      BY <2>2 DEF Current, AfterOutput
    <2> QED
      BY <2>1, <2>3 DEF AfterRow
  <1>2. CASE CompletionRow
    <2> DEFINE result == SuiteResult(row.test, row.action)
    <2>1. row.test # NoSuite /\ row.action # "output"
      BY <1>2 DEF CompletionRow
    <2>2. /\ testSuiteName' = row.test
          /\ allTests' = [allTests EXCEPT ![row.test] = Count(@, result)]
          /\ allSuites' = Recorded(row.test, row.action, Count(suiteStatus, result))
          /\ processedSuites' = processedSuites \cup {row.test}
          /\ suiteStatus' = Zero
          /\ UNCHANGED <<remainingData, withJSON>>
      BY <1>2 DEF CompletionRow
    <2>3. result = ResultAfter(Current, row.test, row.action)
      BY DEF SuiteResult, ResultAfter, Current
    <2>4. Recorded(row.test, row.action, Count(suiteStatus, result))
             = WithSuite(Current, row.test, row.action, Count(suiteStatus, result))
      BY DEF Recorded, WithSuite, Current
    <2>5. Current' = AfterCompletion(Current, row.test, row.action)
      BY <2>2, <2>3, <2>4 DEF Current, AfterCompletion
    <2> QED
      BY <2>1, <2>5 DEF AfterRow
  <1>3. CASE PackageRow
    <2>1. row.test = NoSuite
      BY <1>3 DEF PackageRow
    <2>2. /\ UNCHANGED <<remainingData, allTests, testSuiteName, withJSON, processedSuites>>
          /\ IF testSuiteName \in processedSuites
             THEN UNCHANGED <<allSuites, suiteStatus>>
             ELSE /\ allSuites' = Recorded(testSuiteName, row.action, suiteStatus)
                  /\ suiteStatus' = Zero
      BY <1>3 DEF PackageRow
    <2>3. Recorded(testSuiteName, row.action, suiteStatus)
             = WithSuite(Current, testSuiteName, row.action, suiteStatus)
      BY DEF Recorded, WithSuite, Current
    <2>4. Current' = AfterPackage(Current, row.action)
      BY <2>2, <2>3 DEF Current, AfterPackage
    <2> QED
      BY <2>1, <2>4 DEF AfterRow
  <1> QED
    BY <1>1, <1>2, <1>3

\* What is sent to Qase is the result of what the reading carries.
LEMMA BulkIsResults == BulkResults = ResultsOf(Current)
  BY DEF BulkResults, ResultsOf, Reported, ReportedOf, CasesOf, CasesIn, Current

\* Two readings of the log carry the same before every row.
LEMMA ReadsExtend ==
    ASSUME log \in Seq(Rows), NEW n \in DOMAIN log, NEW tr, Reads(tr, n - 1), NEW next,
           next = AfterRow(tr[n], log[n])
    PROVE  \E tr2 : Reads(tr2, n) /\ tr2[n + 1] = next
  <1> DEFINE tr2 == [i \in 1 .. n + 1 |-> IF i = n + 1 THEN next ELSE tr[i]]
  <1>1. DOMAIN log = 1 .. Len(log) /\ n \in Nat \ {0}
    OBVIOUS
  <1>2. tr2[n + 1] = next /\ \A i \in 1 .. n : tr2[i] = tr[i]
    BY <1>1
  <1>3. tr2[1] = Fresh
    BY <1>1, <1>2 DEF Reads
  <1>4. ASSUME NEW i \in DOMAIN log, i <= n
        PROVE  tr2[i + 1] = AfterRow(tr2[i], log[i])
    <2>1. i \in 1 .. n /\ tr2[i] = tr[i]
      BY <1>1, <1>2, <1>4
    <2>2. CASE i = n
      BY <1>2, <2>1, <2>2
    <2>3. CASE i # n
      <3>1. i <= n - 1 /\ i + 1 \in 1 .. n
        BY <1>1, <2>1, <2>3
      <3> QED
        BY <1>2, <2>1, <3>1 DEF Reads
    <2> QED
      BY <2>2, <2>3
  <1>5. Reads(tr2, n)
    BY <1>3, <1>4 DEF Reads
  <1> HIDE DEF tr2
  <1> QED
    BY <1>2, <1>5

\* Each step keeps the readings on their course.
LEMMA RepeatStep ==
    TypeOK /\ ClaimsInv /\ FoundInv /\ RepeatInv /\ [Next]_vars => RepeatInv'
  <1> SUFFICES ASSUME TypeOK, ClaimsInv, FoundInv, RepeatInv, [Next]_vars PROVE RepeatInv'
    OBVIOUS
  <1>0. /\ log \in Seq(Rows) /\ DOMAIN log = 1 .. Len(log) /\ Len(log) \in Nat
    BY DEF TypeOK
  <1>1. CASE Writing
    BY <1>1, WritingAppends DEF TypeOK, ClaimsInv, RepeatInv, FirstReading, SecondReading, outside
  <1>2. CASE OutputRow \/ CompletionRow \/ PackageRow
    <2>1. /\ UNCHANGED <<log, pc, qaseRun>> /\ pos' = pos + 1
          /\ pc \in Readers /\ pos \in DOMAIN log /\ pos \in Nat
          /\ Current' = AfterRow(Current, log[pos])
      BY <1>2, RowIsRead DEF OutputRow, CompletionRow, PackageRow, Reading, Readers, environment,
                             outside, TypeOK
    <2>2. pos' - 1 = pos
      BY <2>1
    <2>3. FirstReading'
      <3>1. CASE pc = "qaseRows"
        <4>1. PICK tr : Reads(tr, pos - 1) /\ Current = tr[pos]
          BY <3>1 DEF RepeatInv, FirstReading
        <4>2. PICK tr2 : Reads(tr2, pos) /\ tr2[pos + 1] = Current'
          BY <1>0, <2>1, <4>1, ReadsExtend
        <4>3. Reads(tr2, pos - 1)' /\ Current' = tr2[pos']
          BY <2>1, <2>2, <4>2 DEF Reads
        <4> QED
          BY <4>3 DEF FirstReading
      <3>2. CASE pc # "qaseRows"
        BY <2>1, <3>2 DEF FirstReading, Readers
      <3> QED
        BY <3>1, <3>2
    <2>4. SecondReading'
      <3>1. CASE qaseRun.step = "complete"
        <4>1. PICK tr : /\ Reads(tr, Len(log))
                        /\ qaseRun.results = ResultsOf(tr[Len(log) + 1])
                        /\ pc \in {"slackRows", "details", "save"} => Current = tr[pos]
          BY <3>1 DEF RepeatInv, SecondReading
        <4>2. pc = "slackRows"
          BY <2>1, <3>1 DEF ClaimsInv, Readers
        <4>3. tr[pos + 1] = AfterRow(tr[pos], log[pos])
          BY <1>0, <2>1, <4>1 DEF Reads
        <4>4. Current' = tr[pos']
          BY <2>1, <4>1, <4>2, <4>3
        <4>5. Reads(tr, Len(log))'
          BY <2>1, <4>1 DEF Reads
        <4> QED
          BY <2>1, <4>1, <4>4, <4>5 DEF SecondReading
      <3>2. CASE qaseRun.step # "complete"
        BY <2>1, <3>2 DEF SecondReading, Readers
      <3> QED
        BY <3>1, <3>2
    <2> QED
      BY <2>3, <2>4 DEF RepeatInv
  <1>3. CASE Run
    <2>1. /\ UNCHANGED <<log, qaseRun>> /\ qaseRun.step # "complete"
          /\ pc' = "slack" \/ (pc' = "qaseRows" /\ StartReading)
      BY <1>3 DEF Run, Goto, ClaimsInv, environment
    <2>2. FirstReading'
      <3>1. CASE pc' = "slack"
        BY <3>1 DEF FirstReading
      <3>2. CASE StartReading
        <4>1. PICK tr : Reads(tr, 0) /\ tr[1] = Fresh
          BY <1>0, FreshReads
        <4>2. Current' = tr[pos'] /\ pos' = 1
          BY <3>2, <4>1, StartIsFresh
        <4>3. Reads(tr, pos - 1)'
          <5>1. pos' - 1 = 0
            BY <4>2
          <5> QED
            BY <2>1, <4>1, <5>1 DEF Reads
        <4> QED
          BY <4>2, <4>3 DEF FirstReading
      <3> QED
        BY <2>1, <3>1, <3>2
    <2>3. SecondReading'
      BY <2>1 DEF SecondReading
    <2> QED
      BY <2>2, <2>3 DEF RepeatInv
  <1>4. CASE Connect
    <2>1. /\ pc = "slack" /\ UNCHANGED <<log, qaseRun>>
          /\ \/ pc' \in {"exit0", "exit1"}
             \/ pc' = "slackRows" /\ StartReading
      BY <1>4 DEF Connect, SlackFails, Goto, environment, outside
    <2>2. FirstReading'
      BY <2>1 DEF FirstReading
    <2>3. SecondReading'
      <3>1. CASE qaseRun.step = "complete"
        <4>1. PICK tr : /\ Reads(tr, Len(log))
                        /\ qaseRun.results = ResultsOf(tr[Len(log) + 1])
          BY <3>1 DEF RepeatInv, SecondReading
        <4>2. pc' = "slackRows" => Current' = tr[pos']
          BY <2>1, <4>1, StartIsFresh DEF Reads
        <4>3. Reads(tr, Len(log))'
          BY <2>1, <4>1 DEF Reads
        <4> QED
          BY <2>1, <4>1, <4>2, <4>3 DEF SecondReading
      <3>2. CASE qaseRun.step # "complete"
        BY <2>1, <3>2 DEF SecondReading
      <3> QED
        BY <3>1, <3>2
    <2> QED
      BY <2>2, <2>3 DEF RepeatInv
  <1>5. CASE CreateRun
    <2>1. /\ pc = "qaseRows" /\ UNCHANGED <<log, reading>>
          /\ pc' = "slack" \/ pc' = "bulk"
          /\ qaseRun'.step # "complete"
      BY <1>5 DEF CreateRun, QaseFails, Goto, environment, ClaimsInv, TypeOK
    <2>2. FirstReading'
      <3>1. PICK tr : Reads(tr, pos - 1) /\ Current = tr[pos]
        BY <2>1 DEF RepeatInv, FirstReading
      <3>2. Reads(tr, pos - 1)' /\ Current' = tr[pos']
        BY <2>1, <3>1 DEF Reads, Current, reading
      <3> QED
        BY <3>2 DEF FirstReading
    <2>3. SecondReading'
      BY <2>1 DEF SecondReading
    <2> QED
      BY <2>2, <2>3 DEF RepeatInv
  <1>6. CASE Bulk
    <2>1. /\ pc = "bulk" /\ UNCHANGED <<log, reading>> /\ pos = Len(log) + 1
          /\ \/ pc' = "slack" /\ qaseRun' = qaseRun /\ qaseRun.step # "complete"
             \/ pc' = "complete" /\ qaseRun'.results = BulkResults
      BY <1>6 DEF Bulk, QaseFails, Goto, environment, ClaimsInv, FoundInv, PositionInv,
                  ReadSoFar, ReadAll, TypeOK
    <2>2. FirstReading'
      BY <2>1 DEF FirstReading
    <2>3. SecondReading'
      <3>1. CASE pc' = "complete"
        <4>1. PICK tr : Reads(tr, pos - 1) /\ Current = tr[pos]
          BY <2>1 DEF RepeatInv, FirstReading
        <4>2. Reads(tr, Len(log))'
          <5>1. pos - 1 = Len(log)
            BY <1>0, <2>1
          <5> QED
            BY <2>1, <4>1, <5>1 DEF Reads
        <4>3. qaseRun'.results = ResultsOf(tr[Len(log') + 1])
          BY <2>1, <3>1, <4>1, BulkIsResults
        <4> QED
          BY <3>1, <4>2, <4>3 DEF SecondReading
      <3>2. CASE pc' # "complete"
        BY <2>1, <3>2 DEF SecondReading
      <3> QED
        BY <3>1, <3>2
    <2> QED
      BY <2>2, <2>3 DEF RepeatInv
  <1>7. CASE Complete
    <2>1. /\ pc = "complete" /\ pc' = "slack" /\ log' = log
          /\ qaseRun'.results = qaseRun.results
      BY <1>7 DEF Complete, QaseFails, Goto, environment, TypeOK
    <2>2. PICK tr : /\ Reads(tr, Len(log))
                    /\ qaseRun.results = ResultsOf(tr[Len(log) + 1])
      BY <2>1 DEF RepeatInv, SecondReading
    <2>3. Reads(tr, Len(log))'
      BY <2>1, <2>2 DEF Reads
    <2> QED
      BY <2>1, <2>2, <2>3 DEF RepeatInv, FirstReading, SecondReading
  <1>8. CASE Post \/ Details \/ Save
    <2>1. /\ UNCHANGED <<log, reading, qaseRun>>
          /\ pc \in {"slackRows", "details", "save"}
          /\ pc' \in {"details", "save", "exit0", "exit1"}
      BY <1>8 DEF Post, Details, Save, SlackFails, Goto, environment
    <2>2. FirstReading'
      BY <2>1 DEF FirstReading
    <2>3. SecondReading'
      <3>1. CASE qaseRun.step = "complete"
        <4>1. PICK tr : /\ Reads(tr, Len(log))
                        /\ qaseRun.results = ResultsOf(tr[Len(log) + 1])
                        /\ Current = tr[pos]
          BY <2>1, <3>1 DEF RepeatInv, SecondReading
        <4>2. Reads(tr, Len(log))' /\ Current' = tr[pos']
          BY <2>1, <4>1 DEF Reads, Current, reading
        <4> QED
          BY <2>1, <4>1, <4>2 DEF SecondReading
      <3>2. CASE qaseRun.step # "complete"
        BY <2>1, <3>2 DEF SecondReading
      <3> QED
        BY <3>1, <3>2
    <2> QED
      BY <2>2, <2>3 DEF RepeatInv
  <1>9. CASE UNCHANGED vars
    BY <1>9 DEF vars, environment, reading, outside, RepeatInv, FirstReading, SecondReading,
                Reads, Current
  <1> QED
    BY <1>1, <1>2, <1>3, <1>4, <1>5, <1>6, <1>7, <1>8, <1>9 DEF Next, Writing

\* Qase has the failures, and what Slack is told, in every state.
LEMMA Repeats == Spec => [](VerdictsInv /\ RepeatInv)
  <1>1. Init => VerdictsInv /\ RepeatInv
    BY DEF Init, VerdictsInv, RepeatInv, FirstReading, SecondReading, NoRun
  <1> QED
    BY <1>1, ReportTypes, Claims, Findings, Counts, VerdictsStep, RepeatStep, PTL DEF Spec

\* A complete run on Qase has the case of each suite that failed as failed, as long as the
\* rows of suites do not mix; and in any case the results that Slack and the rerun have.
THEOREM FailuresReachQase == Spec => []FailureReachesQase
  <1>1. TypeOK /\ FoundInv /\ VerdictsInv /\ RepeatInv => FailureReachesQase
    <2> SUFFICES ASSUME TypeOK, FoundInv, VerdictsInv, RepeatInv, qaseRun.step = "complete"
                 PROVE  /\ ~interleaved => \A s \in Suites :
                             ReportedFailing(s) /\ CaseIds[s] # 0 => qaseRun.results[s] = "failed"
                        /\ pc = "save" => qaseRun.results = BulkResults
      BY DEF FailureReachesQase
    <2>1. ASSUME pc = "save" PROVE qaseRun.results = BulkResults
      <3>1. PICK tr : /\ qaseRun.results = ResultsOf(tr[Len(log) + 1])
                      /\ Current = tr[pos]
        BY <2>1 DEF RepeatInv, SecondReading
      <3>2. pos = Len(log) + 1
        BY <2>1 DEF FoundInv, PositionInv, ReadSoFar, ReadAll
      <3> QED
        BY <3>1, <3>2, BulkIsResults
    <2> QED
      BY <2>1 DEF VerdictsInv
  <1> QED
    BY <1>1, ReportTypes, Findings, Repeats, PTL
=============================================================================
