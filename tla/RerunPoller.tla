---------------------------- MODULE RerunPoller ----------------------------
(***************************************************************************)
(* The cron-launched poller of cmd/rerunpoller, which turns a Slack reply  *)
(* `rerun: failed` into one execution of run_tests.sh, together with what  *)
(* it shares files with: the report step of pkg/qase/slack.go and the test *)
(* runs themselves.                                                        *)
(*                                                                         *)
(* Shared files: the poller lock (a pid), the test lock (the pid of a      *)
(* run), .rerun-state.json and the one .tmp beside it that every writer    *)
(* renames over it.  Every read and every write of them is a step, so that *)
(* pollers, reports and runs interleave as separate processes do.          *)
(***************************************************************************)
EXTENDS Naturals, FiniteSets

CONSTANTS
    Pollers,   \* process ids a poller may run under
    Runs,      \* executions of run_tests.sh, each used once
    NoPid,     \* the poller lock file does not exist
    NoRun,     \* the test lock file does not exist, or a poller has no child
    Overlap,   \* may cron launch a poller while another one is acquiring the lock?
    MaxTS,     \* bound: Slack timestamps handed out
    MaxFresh,  \* bound: runs started by CI and not by a poller
    MaxFaults  \* bound: crashes, kills and failing membership checks

ASSUME PollerConstants ==
    /\ NoPid \notin Pollers
    /\ NoRun \notin Runs
    /\ Overlap \in BOOLEAN
    /\ MaxTS \in Nat /\ MaxFresh \in Nat /\ MaxFaults \in Nat

VARIABLES
    pc,        \* where each poller process is, "off" when there is no such process
    lock,      \* content of /tmp/rerun-poller.lock
    copy,      \* the rerunState a poller has in memory
    child,     \* the run a poller waits for
    state,     \* .rerun-state.json
    tmp,       \* .rerun-state.json.tmp
    testLock,  \* content of /tmp/e2e-tests.lock
    runs,      \* the test runs and their report step
    messages,  \* the replies that ask for a rerun
    clock,     \* the last Slack timestamp handed out
    faults     \* faults so far

pollerVars == <<pc, lock, copy, child>>
slackVars  == <<messages, clock>>
vars == <<pc, lock, copy, child, state, tmp, testLock, runs, messages, clock, faults>>

(***************************************************************************)
(* A state file holds the thread, the last processed timestamp and whether *)
(* failed tests are recorded.  thread = 0 is a missing file, which         *)
(* loadState refuses like a file without thread_ts.                        *)
(***************************************************************************)
States  == [thread : Nat, last : Nat, failed : BOOLEAN]
NoState == [thread |-> 0, last |-> 0, failed |-> FALSE]

\* A run: how far it is, the request it serves (0: none, CI started it), the thread
\* it reports to and the state file its report is about to write.
RunRecords == [step : {"new", "testing", "post", "readState", "writeTmp", "rename",
                       "ended", "done"},
               request : Nat, thread : Nat, file : States]

Acquiring == {"readLock", "removeLock", "writeLock"}
Holding   == {"readTest1", "removeTest1", "pgrep1", "load", "find", "saveTmp",
              "saveRename", "readTest2", "removeTest2", "pgrep2", "execute", "wait"}

\* The two calls of isTestsRunning: before the state is read, and before the rerun.
ReadTest   == <<"readTest1", "readTest2">>
RemoveTest == <<"removeTest1", "removeTest2">>
PgrepAt    == <<"pgrep1", "pgrep2">>
Idle       == <<"load", "execute">>

Active(r)   == runs[r].step \notin {"new", "done"}
IsRerun(r)  == runs[r].request # 0
Threads     == {runs[r].thread : r \in Runs} \ {0}
FreshRuns   == {r \in Runs : runs[r].step # "new" /\ ~IsRerun(r)}

Init ==
    /\ pc = [p \in Pollers |-> "off"]
    /\ lock = NoPid
    /\ copy = [p \in Pollers |-> NoState]
    /\ child = [p \in Pollers |-> NoRun]
    /\ state = NoState
    /\ tmp = NoState
    /\ testLock = NoRun
    /\ runs = [r \in Runs |->
                  [step |-> "new", request |-> 0, thread |-> 0, file |-> NoState]]
    /\ messages = {}
    /\ clock = 0
    /\ faults = 0

Goto(p, l) == pc' = [pc EXCEPT ![p] = l]

\* os.Exit: the deferred releasePollerLock does not run, the lock file stays.
Exit(p) == /\ Goto(p, "off")
           /\ copy' = [copy EXCEPT ![p] = NoState]
           /\ child' = [child EXCEPT ![p] = NoRun]

\* main returns: releasePollerLock removes the lock file, whoever wrote it.
Return(p) == Exit(p) /\ lock' = NoPid

-----------------------------------------------------------------------------
(* acquirePollerLock *)

\* Cron starts a poller.  The pid is not the one a stale lock file names.
Launch(p) ==
    /\ pc[p] = "off"
    /\ lock # p
    /\ Overlap \/ \A q \in Pollers : pc[q] \notin Acquiring
    /\ Goto(p, "readLock")
    /\ UNCHANGED <<lock, copy, child, state, tmp, testLock, runs, slackVars, faults>>

\* mutant: a lock file is always taken for stale
ReadLockAlwaysStale(p) ==
    /\ pc[p] = "readLock"
    /\ Goto(p, IF lock = NoPid THEN "writeLock" ELSE "removeLock")
    /\ UNCHANGED <<lock, copy, child, state, tmp, testLock, runs, slackVars, faults>>

\* mutant: a lock file is never taken for stale
ReadLockNeverStale(p) ==
    /\ pc[p] = "readLock"
    /\ IF lock = NoPid THEN Goto(p, "writeLock") /\ UNCHANGED <<copy, child>> ELSE Exit(p)
    /\ UNCHANGED <<lock, state, tmp, testLock, runs, slackVars, faults>>

\* A lock file that names a live process ends the poller, any other one is stale.
ReadLock(p) ==
    /\ pc[p] = "readLock"
    /\ \/ /\ lock = NoPid
          /\ Goto(p, "writeLock")
          /\ UNCHANGED <<copy, child>>
       \/ /\ lock \in Pollers /\ pc[lock] = "off"
          /\ Goto(p, "removeLock")
          /\ UNCHANGED <<copy, child>>
       \/ /\ lock \in Pollers /\ pc[lock] # "off"
          /\ Exit(p)
    /\ UNCHANGED <<lock, state, tmp, testLock, runs, slackVars, faults>>

RemoveStaleLock(p) ==
    /\ pc[p] = "removeLock"
    /\ lock' = NoPid
    /\ Goto(p, "writeLock")
    /\ UNCHANGED <<copy, child, state, tmp, testLock, runs, slackVars, faults>>

WriteLock(p) ==
    /\ pc[p] = "writeLock"
    /\ lock' = p
    /\ Goto(p, "readTest1")
    /\ UNCHANGED <<copy, child, state, tmp, testLock, runs, slackVars, faults>>

-----------------------------------------------------------------------------
(* isTestsRunning; s is 1 for the call in main, 2 for the one before the rerun *)

\* Tests are running: main returns at the first call, the second one is os.Exit(0).
Busy(p, s) == IF s = 1 THEN Return(p) ELSE Exit(p) /\ UNCHANGED lock

ReadTestLock(p, s) ==
    /\ pc[p] = ReadTest[s]
    /\ \/ /\ testLock \in Runs /\ Active(testLock)
          /\ Busy(p, s)
       \/ /\ testLock \in Runs /\ ~Active(testLock)
          /\ Goto(p, RemoveTest[s])
          /\ UNCHANGED <<lock, copy, child>>
       \/ /\ testLock = NoRun
          /\ Goto(p, PgrepAt[s])
          /\ UNCHANGED <<lock, copy, child>>
    /\ UNCHANGED <<state, tmp, testLock, runs, slackVars, faults>>

RemoveStaleTestLock(p, s) ==
    /\ pc[p] = RemoveTest[s]
    /\ testLock' = NoRun
    /\ Goto(p, PgrepAt[s])
    /\ UNCHANGED <<lock, copy, child, state, tmp, runs, slackVars, faults>>

\* mutant: the process list is not consulted
PgrepSkipped(p, s) ==
    /\ pc[p] = PgrepAt[s]
    /\ Goto(p, Idle[s])
    /\ UNCHANGED <<lock, copy, child, state, tmp, testLock, runs, slackVars, faults>>

Pgrep(p, s) ==
    /\ pc[p] = PgrepAt[s]
    /\ \/ /\ \E r \in Runs : Active(r)
          /\ Busy(p, s)
       \/ /\ \A r \in Runs : ~Active(r)
          /\ Goto(p, Idle[s])
          /\ UNCHANGED <<lock, copy, child>>
    /\ UNCHANGED <<state, tmp, testLock, runs, slackVars, faults>>

-----------------------------------------------------------------------------
(* initializePoller, findRerunRequest, processRerunRequest *)

LoadState(p) ==
    /\ pc[p] = "load"
    /\ \/ /\ state.thread = 0
          /\ Exit(p)
       \/ /\ state.thread # 0
          /\ copy' = [copy EXCEPT ![p] = state]
          /\ Goto(p, "find")
          /\ UNCHANGED child
    /\ UNCHANGED <<lock, state, tmp, testLock, runs, slackVars, faults>>

\* mutant: a message that was already processed is looked at again
NewRequestsAll(s) == {m \in messages : m.thread = s.thread /\ m.member}

\* mutant: the membership of the author is not asked for
NewRequestsOfAnyone(s) == {m \in messages : m.thread = s.thread /\ m.ts > s.last}

\* The replies the scan does not skip: of the thread, newer than the last one
\* processed, a rerun request, from a channel member.
NewRequests(s) == {m \in messages : m.thread = s.thread /\ m.ts > s.last /\ m.member}

\* The scan runs from the newest reply to the oldest.  A membership check that
\* fails (errs) skips that reply and the scan goes on.
FindRequest(p) ==
    /\ pc[p] = "find"
    /\ \E errs \in SUBSET NewRequests(copy[p]) :
          LET found == NewRequests(copy[p]) \ errs
          IN  /\ IF errs = {} THEN UNCHANGED faults
                 ELSE faults < MaxFaults /\ faults' = faults + 1
              /\ \/ /\ found = {}
                    /\ Return(p)
                 \/ /\ \E newest \in found :
                          /\ \A m \in found : m.ts <= newest.ts
                          /\ copy' = [copy EXCEPT ![p].last = newest.ts]
                    /\ Goto(p, "saveTmp")
                    /\ UNCHANGED <<lock, child>>
    /\ UNCHANGED <<state, tmp, testLock, runs, slackVars>>

\* saveState: write the temporary file ...
SaveTmp(p) ==
    /\ pc[p] = "saveTmp"
    /\ tmp' = copy[p]
    /\ Goto(p, "saveRename")
    /\ UNCHANGED <<lock, copy, child, state, testLock, runs, slackVars, faults>>

\* ... and rename it.  The rename fails when another writer has renamed the file
\* away, and the poller gives up.  `failed` with no failed test recorded ends
\* the poller with the request consumed.
SaveRename(p) ==
    /\ pc[p] = "saveRename"
    /\ \/ /\ tmp = NoState
          /\ Exit(p)
          /\ UNCHANGED <<state, tmp>>
       \/ /\ tmp # NoState
          /\ state' = tmp /\ tmp' = NoState
          /\ IF copy[p].failed THEN Goto(p, "readTest2") /\ UNCHANGED <<copy, child>>
                               ELSE Exit(p)
    /\ UNCHANGED <<lock, testLock, runs, slackVars, faults>>

\* mutant: run_tests.sh is given the pid of the poller for its lock file
ExecuteLocksAsPoller(p) ==
    /\ pc[p] = "execute"
    /\ \E r \in Runs :
          /\ runs[r].step = "new"
          /\ runs' = [runs EXCEPT ![r].step = "testing", ![r].request = copy[p].last]
          /\ child' = [child EXCEPT ![p] = r]
          /\ testLock' = p
    /\ Goto(p, "wait")
    /\ UNCHANGED <<lock, copy, state, tmp, slackVars, faults>>

\* executeRerun up to the start of cmd.Run.  run_tests.sh may or may not write
\* the test lock: the script is not part of the repository.
Execute(p) ==
    /\ pc[p] = "execute"
    /\ \E r \in Runs :
          /\ runs[r].step = "new"
          /\ runs' = [runs EXCEPT ![r].step = "testing", ![r].request = copy[p].last]
          /\ child' = [child EXCEPT ![p] = r]
          /\ testLock' \in {testLock, r}
    /\ Goto(p, "wait")
    /\ UNCHANGED <<lock, copy, state, tmp, slackVars, faults>>

\* cmd.Run returns: success returns from main, a non-zero exit code is os.Exit(1).
Wait(p) ==
    /\ pc[p] = "wait"
    /\ child[p] \in Runs /\ runs[child[p]].step = "done"
    /\ Return(p) \/ (Exit(p) /\ UNCHANGED lock)
    /\ UNCHANGED <<state, tmp, testLock, runs, slackVars, faults>>

\* A poller ends without releasing the lock: it is killed, or takes one of the
\* os.Exit paths on a missing token, a failing Slack call, a state file it cannot
\* write, a missing run_tests.sh.  A run it has started goes on.
Crash(p) ==
    /\ pc[p] # "off"
    /\ faults < MaxFaults
    /\ Exit(p)
    /\ faults' = faults + 1
    /\ UNCHANGED <<lock, state, tmp, testLock, runs, slackVars>>

-----------------------------------------------------------------------------
(* Test runs (external) and their report: postSlackResults *)

SetRun(r, step) == runs' = [runs EXCEPT ![r].step = step]

StartFresh(r) ==
    /\ runs[r].step = "new"
    /\ Cardinality(FreshRuns) < MaxFresh
    /\ SetRun(r, "testing")
    /\ testLock' \in {testLock, r}
    /\ UNCHANGED <<pollerVars, state, tmp, slackVars, faults>>

\* The tests are over and the report begins: under IS_RERUN it takes the parent
\* thread from the state file.
ReadParent(r) ==
    /\ runs[r].step = "testing"
    /\ runs' = [runs EXCEPT ![r].step = "post",
                            ![r].thread = IF IsRerun(r) THEN state.thread ELSE 0]
    /\ UNCHANGED <<pollerVars, state, tmp, testLock, slackVars, faults>>

\* PostTestResults: a new thread without a parent thread, otherwise a reply.  When
\* the post fails nothing is saved.
PostResults(r) ==
    /\ runs[r].step = "post"
    /\ \/ /\ SetRun(r, "ended")
          /\ UNCHANGED clock
       \/ /\ runs[r].thread = 0
          /\ clock < MaxTS
          /\ clock' = clock + 1
          /\ \E f \in BOOLEAN :
                runs' = [runs EXCEPT ![r].step = "writeTmp", ![r].thread = clock + 1,
                            ![r].file = [thread |-> clock + 1, last |-> clock + 1, failed |-> f]]
       \/ /\ runs[r].thread # 0
          /\ SetRun(r, "readState")
          /\ UNCHANGED clock
    /\ UNCHANGED <<pollerVars, state, tmp, testLock, messages, faults>>

\* mutant: updateFailedTests resets the last processed timestamp with the failed tests
ReadForUpdateResets(r) ==
    /\ runs[r].step = "readState"
    /\ \E f \in BOOLEAN :
          runs' = [runs EXCEPT ![r].step = "writeTmp",
                               ![r].file = [state EXCEPT !.failed = f, !.last = state.thread]]
    /\ UNCHANGED <<pollerVars, state, tmp, testLock, slackVars, faults>>

\* updateFailedTests reads the state file, sets failed_tests and keeps the rest.
ReadForUpdate(r) ==
    /\ runs[r].step = "readState"
    /\ \E f \in BOOLEAN :
          runs' = [runs EXCEPT ![r].step = "writeTmp", ![r].file = [state EXCEPT !.failed = f]]
    /\ UNCHANGED <<pollerVars, state, tmp, testLock, slackVars, faults>>

\* The end of saveRerunState and of updateFailedTests.
ReportTmp(r) ==
    /\ runs[r].step = "writeTmp"
    /\ tmp' = runs[r].file
    /\ SetRun(r, "rename")
    /\ UNCHANGED <<pollerVars, state, testLock, slackVars, faults>>

ReportRename(r) ==
    /\ runs[r].step = "rename"
    /\ SetRun(r, "ended")
    /\ IF tmp = NoState THEN UNCHANGED state ELSE state' = tmp
    /\ tmp' = NoState
    /\ UNCHANGED <<pollerVars, testLock, slackVars, faults>>

EndRun(r) ==
    /\ runs[r].step = "ended"
    /\ SetRun(r, "done")
    /\ testLock' = IF testLock = r THEN NoRun ELSE testLock
    /\ UNCHANGED <<pollerVars, state, tmp, slackVars, faults>>

\* A run is killed and leaves its lock behind.
KillRun(r) ==
    /\ Active(r)
    /\ faults < MaxFaults
    /\ SetRun(r, "done")
    /\ faults' = faults + 1
    /\ UNCHANGED <<pollerVars, state, tmp, testLock, slackVars>>

\* Someone replies `rerun: failed` in a thread; member: the author is in the channel.
PostRequest ==
    /\ clock < MaxTS
    /\ clock' = clock + 1
    /\ \E t \in Threads, b \in BOOLEAN :
          messages' = messages \cup {[ts |-> clock + 1, thread |-> t, member |-> b]}
    /\ UNCHANGED <<pollerVars, state, tmp, testLock, runs, faults>>

-----------------------------------------------------------------------------
PollerStep(p) ==
    \/ ReadLock(p) \/ RemoveStaleLock(p) \/ WriteLock(p)
    \/ \E s \in 1..2 : ReadTestLock(p, s) \/ RemoveStaleTestLock(p, s) \/ Pgrep(p, s)
    \/ LoadState(p) \/ FindRequest(p) \/ SaveTmp(p) \/ SaveRename(p)
    \/ Execute(p) \/ Wait(p)

RunStep(r) ==
    \/ ReadParent(r) \/ PostResults(r) \/ ReadForUpdate(r)
    \/ ReportTmp(r) \/ ReportRename(r) \/ EndRun(r)

Next ==
    \/ \E p \in Pollers : Launch(p) \/ PollerStep(p) \/ Crash(p)
    \/ \E r \in Runs : StartFresh(r) \/ RunStep(r) \/ KillRun(r)
    \/ PostRequest

Spec == Init /\ [][Next]_vars

\* Cron keeps launching pollers, a process that is running goes on, and a test run
\* comes to an end (executeRerun waits for it without a timeout).
Fairness ==
    /\ WF_vars(\E p \in Pollers : Launch(p))
    /\ \A p \in Pollers : WF_vars(PollerStep(p))
    /\ \A r \in Runs : WF_vars(RunStep(r))

FairSpec == Spec /\ Fairness

-----------------------------------------------------------------------------
(* Properties *)

\* Every variable keeps its type; copies and files are states of the JSON file.
TypeOK ==
    /\ pc \in [Pollers -> {"off"} \cup Acquiring \cup Holding]
    /\ lock \in Pollers \cup {NoPid}
    /\ copy \in [Pollers -> States]
    /\ child \in [Pollers -> Runs \cup {NoRun}]
    /\ state \in States /\ tmp \in States
    /\ testLock \in Runs \cup {NoRun}
    /\ runs \in [Runs -> RunRecords]
    /\ messages \subseteq [ts : Nat, thread : Nat, member : BOOLEAN]
    /\ clock \in Nat /\ faults \in Nat

\* Two pollers are never past acquirePollerLock at the same time, crashes, os.Exit
\* paths and stale lock files included.
PollerExclusion ==
    \A p, q \in Pollers : pc[p] \in Holding /\ pc[q] \in Holding => p = q

\* No reply triggers two reruns: the timestamp is saved before the rerun starts, and
\* neither a crash nor a report of a run brings an older one back.
RerunAtMostOnce ==
    \A r1, r2 \in Runs : IsRerun(r1) /\ runs[r1].request = runs[r2].request => r1 = r2

\* Two reruns never run at the same time, even when the poller that started the
\* first one has died and its child goes on.
RerunsDoNotOverlap ==
    \A r1, r2 \in Runs :
        IsRerun(r1) /\ IsRerun(r2) /\ Active(r1) /\ Active(r2) => r1 = r2

\* The service as it shows outside: the members' requests, and the reruns and their requests.
Asked   == {[ts |-> m.ts, thread |-> m.thread] : m \in {k \in messages : k.member}}
Reruns  == {[run |-> r, ts |-> runs[r].request] : r \in {q \in Runs : IsRerun(q)}}
Running == {r \in Runs : IsRerun(r) /\ Active(r)}

Service == INSTANCE RerunService WITH
    Replies <- [ts : 1..MaxTS, thread : 1..MaxTS],
    asked <- Asked, reruns <- Reruns, running <- Running

\* Whatever pollers, runs and reports do to the shared files, what comes out is the service
\* that is asked for: reruns of members' replies, one at a time, none of them served twice
\* or after a newer one of its thread.
ServiceSpec == Service!Spec

\* While the state file stays on a thread, the last processed timestamp never goes
\* back, whichever of poller and report renames the temporary file.
ProcessedNeverGoesBack ==
    [][state'.thread = state.thread => state'.last >= state.last]_vars

\* A member's request in the thread of the state file is processed in the end, or the
\* state file moves to another thread.
RequestsAreProcessed ==
    \A t \in 1..MaxTS :
        (\E m \in NewRequests(state) : m.ts = t) ~> ~(\E m \in NewRequests(state) : m.ts = t)
=============================================================================
