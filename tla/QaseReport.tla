----------------------------- MODULE QaseReport -----------------------------
(***************************************************************************)
(* The report of an e2e run: cmd/qase reads the log of go test -json row   *)
(* by row, extracts the results the suites have printed into their output, *)
(* and reports to Qase and then to Slack, each from a reading of its own.  *)
(*                                                                         *)
(* The log comes first: suites run, time out or are never built, their     *)
(* output is whole or cut off, and the log itself may end at any row.      *)
(***************************************************************************)
EXTENDS Integers, Sequences, FiniteSets

CONSTANTS
    Suites,        \* suites, each in a package of its own
    NoSuite,       \* a row without Test; also the empty suite name
    Outputs,       \* what a row of output may hold, out of AllOutputs
    CaseIds,       \* the Qase case of a suite, 0 if it has none
    Included,      \* the suites reported for this product and architecture
    WithDir,       \* the suites whose directory is listed in .test-dirs.txt
    Interleavings, \* may rows of several suites mix?
    MaxRows        \* bound: rows of the log

\* text: nothing that counts; open, close: one brace that the row does not match;
\* half: the head of a failed result; the others: a whole result.
States     == {"passed", "failed", "skipped"}
AllOutputs == States \cup {"text", "open", "close", "half"}
Actions    == {"output", "pass", "fail", "skip"}

Names   == Suites \cup {NoSuite}
Rows    == [package : Suites, test : Names, action : Actions, output : AllOutputs]
Statuses == [States -> Nat]
Zero    == [st \in States |-> 0]

ASSUME ReportConstants ==
    /\ IsFiniteSet(Suites) /\ NoSuite \notin Suites
    /\ Outputs \subseteq AllOutputs
    /\ CaseIds \in [Suites -> Nat]
    /\ Included \subseteq Suites /\ WithDir \subseteq Suites
    /\ Interleavings \subseteq BOOLEAN
    /\ MaxRows \in Nat

VARIABLES
    interleaved,     \* do rows of several suites mix in this log?
    log,             \* the log file
    pc,              \* where main is
    pos,             \* the row the loop of processTestData is at
    remainingData,   \* the package variable: the JSON block that is not closed yet
    allTests,        \* the tests recorded so far: how many per suite and state
    allSuites,       \* the suites recorded so far
    suiteStatus,     \* results since the last reset
    testSuiteName,   \* Test of the last row that had one
    withJSON,        \* suitesWithEmbeddedJSON
    processedSuites,
    qaseErr,         \* "off": no client, "ok" or "failed"
    qaseRun,         \* the run on Qase
    runID,           \* what ReportE2ETestRun returned, 0 or 1
    dryRun,          \* of the Slack client: nothing is sent
    slack,           \* the message in Slack
    saved            \* failed_tests of the rerun state, NoFile if it is not written

environment == <<interleaved, log>>
reading  == <<pos, remainingData, allTests, allSuites, suiteStatus, testSuiteName,
              withJSON, processedSuites>>
outside  == <<qaseErr, qaseRun, runID, dryRun, slack, saved>>
vars     == <<environment, pc, reading, outside>>

\* An open block of remainingData: unmatched braces, and whether it is so far the
\* head of a result.
Blocks  == [depth : Nat, head : BOOLEAN]
NoBlock == [depth |-> 0, head |-> FALSE]

\* A recorded suite; known: it is in the slice.
SuiteRecords == [known : BOOLEAN, status : Actions, counts : Statuses]
Unknown      == [known |-> FALSE, status |-> "output", counts |-> Zero]

NoFile == {NoSuite}
NoRun  == [step |-> "none", results |-> [s \in Suites |-> "none"]]

Init ==
    /\ interleaved \in Interleavings
    /\ log = <<>>
    /\ pc = "log"
    /\ pos = 1
    /\ remainingData = NoBlock
    /\ allTests = [s \in Names |-> Zero]
    /\ allSuites = [s \in Names |-> Unknown]
    /\ suiteStatus = Zero
    /\ testSuiteName = NoSuite
    /\ withJSON = {} /\ processedSuites = {}
    /\ qaseErr = "off"
    /\ qaseRun = NoRun /\ runID = 0
    /\ dryRun = FALSE
    /\ slack = [status |-> "none", link |-> 0, details |-> FALSE]
    /\ saved = NoFile

-----------------------------------------------------------------------------
(* The log: what go test -json writes *)

RowsOf(s)    == {i \in DOMAIN log : log[i].test = s}
Ended(s)     == \E i \in DOMAIN log : log[i].package = s /\ log[i].test = NoSuite
Completed(s, action) == \E i \in RowsOf(s) : log[i].action = action
IsCompleted(s) == \E action \in Actions \ {"output"} : Completed(s, action)
HasFailed(s)   == \E i \in RowsOf(s) : log[i].output \in {"failed", "half"}

\* Without interleaving a package begins when the one before it has ended.
MayWrite(s) ==
    /\ Len(log) < MaxRows
    /\ ~Ended(s)
    /\ \/ interleaved
       \/ \A i \in DOMAIN log : log[i].package # s => Ended(log[i].package)

Write(row) ==
    /\ pc = "log"
    /\ log' = Append(log, row)
    /\ UNCHANGED <<interleaved, pc, reading, outside>>

WriteOutput(s) ==
    /\ MayWrite(s) /\ ~IsCompleted(s)
    /\ \E out \in Outputs :
          Write([package |-> s, test |-> s, action |-> "output", output |-> out])

\* A suite that has printed a failed result does not pass.
WriteCompletion(s) ==
    /\ MayWrite(s) /\ ~IsCompleted(s)
    /\ \E action \in Actions \ {"output"} :
          /\ HasFailed(s) => action = "fail"
          /\ Write([package |-> s, test |-> s, action |-> action, output |-> "text"])

\* The end of the package.  A suite that did not complete has timed out; a package
\* without a row of a suite has not been built or has nothing to run.
WritePackage(s) ==
    /\ MayWrite(s)
    /\ \E action \in Actions \ {"output"} :
          /\ IsCompleted(s) => action = IF Completed(s, "fail") THEN "fail" ELSE "pass"
          /\ RowsOf(s) # {} /\ ~IsCompleted(s) => action = "fail"
          /\ RowsOf(s) = {} => action # "pass"
          /\ Write([package |-> s, test |-> NoSuite, action |-> action, output |-> "text"])

-----------------------------------------------------------------------------
(* extractTestOutput *)

\* mutant: a brace that closes nothing is counted
RemainingBelow(rest, out) ==
    CASE out = "open"  -> [depth |-> rest.depth + 1, head |-> FALSE]
      [] out = "half"  -> [depth |-> rest.depth + 1, head |-> rest.depth = 0]
      [] out = "close" -> [depth |-> rest.depth - 1, head |-> FALSE]
      [] OTHER         -> [rest EXCEPT !.head = FALSE]

\* What is left open after a row: braces are counted from the first open one, and
\* whatever comes inside makes the block something else than a result.
Remaining(rest, out) ==
    CASE out = "open"  -> [depth |-> rest.depth + 1, head |-> FALSE]
      [] out = "half"  -> [depth |-> rest.depth + 1, head |-> rest.depth = 0]
      [] out = "close" /\ rest.depth <= 1 -> NoBlock
      [] out = "close" /\ rest.depth > 1  -> [depth |-> rest.depth - 1, head |-> FALSE]
      [] OTHER         -> IF rest.depth = 0 THEN NoBlock ELSE [rest EXCEPT !.head = FALSE]

\* The results a row completes: a whole one outside of any block, or the half one
\* that is closed.  A result inside an open block is part of that block.
Found(rest, out) ==
    {st \in States : \/ rest.depth = 0 /\ out = st
                     \/ rest.head /\ out = "close" /\ st = "failed"}

-----------------------------------------------------------------------------
(* processTestData: the loop over the rows *)

Count(counts, found) == [st \in States |-> counts[st] + (IF st \in found THEN 1 ELSE 0)]

StateOf == [pass |-> "passed", fail |-> "failed", skip |-> "skipped"]

\* updateTestSuiteDetails: a suite of that name is replaced.
Recorded(name, action, counts) ==
    [allSuites EXCEPT ![name] = [known |-> TRUE, status |-> action, counts |-> counts]]

Reading == pc \in {"qaseRows", "slackRows"} /\ pos \in DOMAIN log

\* updateTestDetails, for a row that is not a completion.
OutputRow ==
    /\ Reading
    /\ log[pos].test # NoSuite /\ log[pos].action = "output"
    /\ LET s == log[pos].test
           found == Found(remainingData, log[pos].output)
       IN  /\ testSuiteName' = s
           /\ remainingData' = Remaining(remainingData, log[pos].output)
           /\ withJSON' = IF found = {} THEN withJSON ELSE withJSON \cup {s}
           /\ allTests' = [allTests EXCEPT ![s] = Count(@, found)]
           /\ suiteStatus' = Count(suiteStatus, found)
    /\ pos' = pos + 1
    /\ UNCHANGED <<environment, pc, allSuites, processedSuites, outside>>

\* mutant: the failure of a suite that printed results is not added
SuiteResultEmbedded(s, action) ==
    IF s \notin withJSON THEN {StateOf[action]} ELSE {}

\* The test that stands for the suite itself: always without embedded results, with
\* them only if the suite failed and no result did.
SuiteResult(s, action) ==
    CASE s \notin withJSON -> {StateOf[action]}
      [] s \in withJSON /\ action = "fail" /\ suiteStatus["failed"] = 0 -> {"failed"}
      [] OTHER -> {}

\* A completion row has no output.
CompletionRow ==
    /\ Reading
    /\ log[pos].test # NoSuite /\ log[pos].action # "output"
    /\ LET s == log[pos].test
           result == SuiteResult(s, log[pos].action)
       IN  /\ testSuiteName' = s
           /\ allTests' = [allTests EXCEPT ![s] = Count(@, result)]
           /\ allSuites' = Recorded(s, log[pos].action, Count(suiteStatus, result))
           /\ processedSuites' = processedSuites \cup {s}
           /\ suiteStatus' = Zero
    /\ pos' = pos + 1
    /\ UNCHANGED <<environment, pc, remainingData, withJSON, outside>>

\* mutant: the end of a package is recorded for a suite that was processed, too
PackageRowAlways ==
    /\ Reading
    /\ log[pos].test = NoSuite
    /\ allSuites' = Recorded(testSuiteName, log[pos].action, suiteStatus)
    /\ suiteStatus' = Zero
    /\ pos' = pos + 1
    /\ UNCHANGED <<environment, pc, remainingData, allTests, testSuiteName, withJSON,
                   processedSuites, outside>>

\* The end of a package, whichever it is, is recorded for the last suite seen unless
\* that one has been processed.
PackageRow ==
    /\ Reading
    /\ log[pos].test = NoSuite
    /\ IF testSuiteName \in processedSuites
       THEN UNCHANGED <<allSuites, suiteStatus>>
       ELSE /\ allSuites' = Recorded(testSuiteName, log[pos].action, suiteStatus)
            /\ suiteStatus' = Zero
    /\ pos' = pos + 1
    /\ UNCHANGED <<environment, pc, remainingData, allTests, testSuiteName, withJSON,
                   processedSuites, outside>>

Start ==
    /\ pos' = 1
    /\ allTests' = [s \in Names |-> Zero]
    /\ allSuites' = [s \in Names |-> Unknown]
    /\ suiteStatus' = Zero
    /\ testSuiteName' = NoSuite
    /\ withJSON' = {} /\ processedSuites' = {}

\* mutant: remainingData is what the reading before has left
StartReadingUncleared == Start /\ UNCHANGED remainingData

\* The beginning of processTestData.
StartReading == Start /\ remainingData' = NoBlock

ReadAll == pos = Len(log) + 1

-----------------------------------------------------------------------------
(* processData: what is reported of a reading *)

Reported == {s \in Included : allSuites[s].known}

FailedTests == {s \in Reported : allSuites[s].counts["failed"] > 0}

CasesOf(s) == {t \in Reported : CaseIds[t] = CaseIds[s]}

\* mutant: a passed sub-test makes up for the failed ones
BulkResultsUnlessPassed ==
    [s \in Suites |->
        IF \/ s \notin Reported \/ CaseIds[s] = 0
           \/ \A t \in CasesOf(s) : allTests[t] = Zero
        THEN "none"
        ELSE IF \E t \in CasesOf(s) : allTests[t]["passed"] > 0
             THEN "passed" ELSE "failed"]

\* parseBulkResults: one result per case, of all tests of the suites that share it;
\* any failed one fails the case.  A suite without tests adds nothing.
BulkResults ==
    [s \in Suites |->
        IF \/ s \notin Reported \/ CaseIds[s] = 0
           \/ \A t \in CasesOf(s) : allTests[t] = Zero
        THEN "none"
        ELSE IF \E t \in CasesOf(s) : allTests[t]["failed"] > 0
             THEN "failed" ELSE "passed"]

-----------------------------------------------------------------------------
(* main, ReportE2ETestRun *)

Goto(label) == pc' = label

\* The log is closed and cmd/qase is run.  Without a token there is no client.
Run ==
    /\ pc = "log"
    /\ \/ Goto("slack") /\ UNCHANGED <<qaseErr, reading>>
       \/ /\ qaseErr' = "ok"
          /\ StartReading
          /\ Goto("qaseRows")
    /\ UNCHANGED <<environment, qaseRun, runID, dryRun, slack, saved>>

QaseFails == /\ qaseErr' = "failed"
             /\ Goto("slack")

\* An empty log, or one that is not JSON throughout, is an error before the loop.
CreateRun ==
    /\ pc = "qaseRows" /\ ReadAll
    /\ \/ QaseFails /\ UNCHANGED qaseRun
       \/ /\ log # <<>>
          /\ qaseRun' = [qaseRun EXCEPT !.step = "open"]
          /\ Goto("bulk") /\ UNCHANGED qaseErr
    /\ UNCHANGED <<environment, reading, runID, dryRun, slack, saved>>

\* createBulkTestResult; with no results there is no request to fail.
Bulk ==
    /\ pc = "bulk"
    /\ \/ QaseFails /\ UNCHANGED qaseRun
       \/ /\ qaseRun' = [qaseRun EXCEPT !.results = BulkResults]
          /\ Goto("complete") /\ UNCHANGED qaseErr
    /\ UNCHANGED <<environment, reading, runID, dryRun, slack, saved>>

\* mutant: the id of the run is returned with the error
CompleteKeepsId ==
    /\ pc = "complete"
    /\ \/ QaseFails /\ UNCHANGED qaseRun
       \/ /\ qaseRun' = [qaseRun EXCEPT !.step = "complete"]
          /\ Goto("slack") /\ UNCHANGED qaseErr
    /\ runID' = 1
    /\ UNCHANGED <<environment, reading, dryRun, slack, saved>>

Complete ==
    /\ pc = "complete"
    /\ \/ QaseFails /\ UNCHANGED <<qaseRun, runID>>
       \/ /\ qaseRun' = [qaseRun EXCEPT !.step = "complete"]
          /\ runID' = 1
          /\ Goto("slack") /\ UNCHANGED qaseErr
    /\ UNCHANGED <<environment, reading, dryRun, slack, saved>>

-----------------------------------------------------------------------------
(* ReportToSlack and the exit of main *)

\* mutant: a failing Slack report is only logged
SlackFailsQuietly == Goto("exit0")

\* Only when both reports have failed does main exit with 1.
SlackFails == Goto(IF qaseErr = "failed" THEN "exit1" ELSE "exit0")

\* newSlackClient, which reads SLACK_DRY_RUN, and validateConnection: a dry run needs no
\* token and connects to nothing.
Connect ==
    /\ pc = "slack"
    /\ \/ SlackFails /\ UNCHANGED <<reading, dryRun>>
       \/ StartReading /\ dryRun' \in BOOLEAN /\ Goto("slackRows")
    /\ UNCHANGED <<environment, qaseErr, qaseRun, runID, slack, saved>>

\* PostTestResults: the header says FAILED if any failed test is counted.  A dry run
\* passes without sending.  A log that is empty or not JSON is an error in both.
Post ==
    /\ pc = "slackRows" /\ ReadAll
    /\ \/ SlackFails /\ UNCHANGED slack
       \/ /\ log # <<>>
          /\ slack' = IF dryRun THEN slack
                      ELSE [slack EXCEPT !.link = runID,
                              !.status = IF FailedTests = {} THEN "PASSED" ELSE "FAILED"]
          /\ Goto("details")
    /\ UNCHANGED <<environment, reading, qaseErr, qaseRun, runID, dryRun, saved>>

\* PostFailureDetails: one more message, if a failed test is recorded; that it fails
\* is only logged.
Details ==
    /\ pc = "details"
    /\ \/ UNCHANGED slack
       \/ /\ ~dryRun /\ FailedTests # {}
          /\ \E s \in Reported : allTests[s]["failed"] > 0
          /\ slack' = [slack EXCEPT !.details = TRUE]
    /\ Goto("save")
    /\ UNCHANGED <<environment, reading, qaseErr, qaseRun, runID, dryRun, saved>>

\* getFailedTestDirs.
FailedDirs == FailedTests \cap WithDir

\* The rerun state is written or, in a dry run or with a warning, not.
Save ==
    /\ pc = "save"
    /\ saved' \in {saved} \cup IF dryRun THEN {} ELSE {FailedDirs}
    /\ Goto("exit0")
    /\ UNCHANGED <<environment, reading, qaseErr, qaseRun, runID, dryRun, slack>>

Next ==
    \/ \E s \in Suites : WriteOutput(s) \/ WriteCompletion(s) \/ WritePackage(s)
    \/ Run \/ OutputRow \/ CompletionRow \/ PackageRow
    \/ CreateRun \/ Bulk \/ Complete
    \/ Connect \/ Post \/ Details \/ Save

Spec == Init /\ [][Next]_vars

-----------------------------------------------------------------------------
(* Properties *)

\* Every variable keeps its type: a count is never negative, and what is recorded is
\* recorded under a name of the log.
TypeOK ==
    /\ interleaved \in BOOLEAN /\ dryRun \in BOOLEAN
    /\ log \in Seq(Rows) /\ pos \in Nat \ {0}
    /\ pc \in {"log", "qaseRows", "bulk", "complete", "slack", "slackRows", "details",
               "save", "exit0", "exit1"}
    /\ remainingData \in Blocks
    /\ allTests \in [Names -> Statuses]
    /\ allSuites \in [Names -> SuiteRecords]
    /\ suiteStatus \in Statuses
    /\ testSuiteName \in Names
    /\ withJSON \subseteq Suites /\ processedSuites \subseteq Suites
    /\ qaseErr \in {"off", "ok", "failed"}
    /\ qaseRun \in [step : {"none", "open", "complete"},
                    results : [Suites -> {"none", "passed", "failed"}]]
    /\ runID \in {0, 1}
    /\ slack \in [status : {"none", "PASSED", "FAILED"}, link : {0, 1}, details : BOOLEAN]
    /\ saved \subseteq Names

ReportedFailing(s) == s \in Included /\ Completed(s, "fail")

\* A suite of the log that failed is not hidden by output that is cut off, nor by rows of
\* other suites in between: Slack does not say PASSED, and a rerun of the failed tests
\* covers the suite if it has a directory.
FailureReachesSlack ==
    \A s \in Suites : ReportedFailing(s) =>
        /\ slack.status # "PASSED"
        /\ saved # NoFile /\ s \in WithDir => s \in saved

\* A complete run on Qase has the case of a suite that failed as failed, as long as suites
\* do not mix; and it has what the second reading of the log, for Slack, has found.
FailureReachesQase ==
    qaseRun.step = "complete" =>
        /\ ~interleaved => \A s \in Suites :
              ReportedFailing(s) /\ CaseIds[s] # 0 => qaseRun.results[s] = "failed"
        /\ pc = "save" => qaseRun.results = BulkResults

\* The counts of a suite that completed are those of the tests recorded for it, the
\* leftovers of other suites and the ends of other packages included.
CountsMatchTests ==
    ~interleaved => \A s \in processedSuites : allSuites[s].counts = allTests[s]

\* With Qase configured, exit code 0 means that one report at least got through, or that
\* Slack was a dry run; a dry run leaves no trace outside; and a run that Slack links to
\* is complete, whichever call has failed.
SuccessIsReported ==
    /\ pc = "exit0" /\ qaseErr # "off" =>
          qaseErr = "ok" \/ slack.status # "none" \/ dryRun
    /\ dryRun => slack.status = "none" /\ ~slack.details /\ saved = NoFile
    /\ slack.link = 1 => qaseRun.step = "complete"
=============================================================================
