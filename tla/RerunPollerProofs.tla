-------------------------- MODULE RerunPollerProofs --------------------------
(***************************************************************************)
(* Proofs about RerunPoller, for any number of pollers, runs, messages and *)
(* faults: types, exclusion of pollers and of reruns, at most one run of a *)
(* request, and a processed timestamp that only advances.  All but the     *)
(* first assume that cron does not launch a poller while another one is    *)
(* inside acquirePollerLock.                                               *)
(***************************************************************************)
EXTENDS RerunPoller, TLAPS

\* The steps of a poller before it has seen, while holding the lock, that no run is active.
Early == {"readTest1", "removeTest1", "pgrep1"}

\* The poller lock protocol, made inductive: one acquirer at most; an acquirer
\* that is about to remove or to write the file knows nobody holds the lock; the
\* file names the holder.
LockInv ==
    /\ \A p, q \in Pollers : pc[p] \in Acquiring /\ pc[q] \in Acquiring => p = q
    /\ \A p, q \in Pollers : pc[p] \in {"removeLock", "writeLock"} => pc[q] \notin Holding
    /\ \A p \in Pollers : pc[p] \in Holding => lock = p

\* A rerun that is still active leaves every poller either before its first look at
\* the running tests or waiting for that very rerun.
RerunInv ==
    /\ \A r \in Runs : runs[r].step = "new" => runs[r].request = 0
    /\ \A p \in Pollers, r \in Runs :
          IsRerun(r) /\ Active(r) /\ pc[p] \in Holding \ Early
             => pc[p] = "wait" /\ child[p] = r

-----------------------------------------------------------------------------

\* Each of the two calls of isTestsRunning goes to locations of the same call.
LEMMA Locations ==
    ASSUME NEW s \in 1..2
    PROVE  /\ ReadTest[s] \in Holding /\ RemoveTest[s] \in Holding
           /\ PgrepAt[s] \in Holding /\ Idle[s] \in Holding
           /\ s = 1 => ReadTest[s] \in Early /\ RemoveTest[s] \in Early /\ PgrepAt[s] \in Early
           /\ s = 2 => /\ {ReadTest[s], RemoveTest[s], PgrepAt[s]} \cap Early = {}
                       /\ "wait" \notin {ReadTest[s], RemoveTest[s], PgrepAt[s]}
  BY DEF ReadTest, RemoveTest, PgrepAt, Idle, Holding, Early

\* A missing state file is a state as well.
LEMMA NoStateType == NoState \in States
  BY DEF NoState, States

\* A run that changes its step, and one field besides, is still a run.
LEMMA RunUpdates ==
    ASSUME NEW all \in [Runs -> RunRecords], NEW r \in Runs, NEW ts \in Nat, NEW file \in States
    PROVE  /\ [all EXCEPT ![r].step = "testing", ![r].request = ts] \in [Runs -> RunRecords]
           /\ [all EXCEPT ![r].step = "writeTmp", ![r].file = file] \in [Runs -> RunRecords]
  <1>1. ASSUME NEW rec \in RunRecords
        PROVE  /\ [[rec EXCEPT !.step = "testing"] EXCEPT !.request = ts] \in RunRecords
               /\ [[rec EXCEPT !.step = "writeTmp"] EXCEPT !.file = file] \in RunRecords
    BY <1>1 DEF RunRecords
  <1>2. /\ [[all[r] EXCEPT !.step = "testing"] EXCEPT !.request = ts] \in RunRecords
        /\ [[all[r] EXCEPT !.step = "writeTmp"] EXCEPT !.file = file] \in RunRecords
    BY <1>1
  <1>3. QED
    BY <1>2

\* Every variable keeps its type in every behaviour of the poller system.
THEOREM TypeCorrect == Spec => []TypeOK
  <1>1. Init => TypeOK
    BY PollerConstants, NoStateType DEF Init, TypeOK, RunRecords
  <1>2. TypeOK /\ [Next]_vars => TypeOK'
    <2> SUFFICES ASSUME TypeOK, [Next]_vars PROVE TypeOK'
      OBVIOUS
    <2> USE PollerConstants, NoStateType DEF TypeOK, Goto, Exit, Return, Busy, pollerVars, slackVars
    <2>1. ASSUME NEW p \in Pollers, Launch(p) PROVE TypeOK'
      BY <2>1 DEF Launch, Acquiring
    <2>2. ASSUME NEW p \in Pollers, ReadLock(p) PROVE TypeOK'
      BY <2>2 DEF ReadLock, Acquiring
    <2>3. ASSUME NEW p \in Pollers, RemoveStaleLock(p) PROVE TypeOK'
      BY <2>3 DEF RemoveStaleLock, Acquiring
    <2>4. ASSUME NEW p \in Pollers, WriteLock(p) PROVE TypeOK'
      BY <2>4 DEF WriteLock, Holding
    <2>5. ASSUME NEW p \in Pollers, NEW s \in 1..2, ReadTestLock(p, s) PROVE TypeOK'
      BY <2>5, Locations DEF ReadTestLock
    <2>6. ASSUME NEW p \in Pollers, NEW s \in 1..2, RemoveStaleTestLock(p, s) PROVE TypeOK'
      BY <2>6, Locations DEF RemoveStaleTestLock
    <2>7. ASSUME NEW p \in Pollers, NEW s \in 1..2, Pgrep(p, s) PROVE TypeOK'
      BY <2>7, Locations DEF Pgrep
    <2>8. ASSUME NEW p \in Pollers, LoadState(p) PROVE TypeOK'
      BY <2>8 DEF LoadState, Holding
    <2>9. ASSUME NEW p \in Pollers, SaveTmp(p) PROVE TypeOK'
      BY <2>9 DEF SaveTmp, Holding
    <2>10. ASSUME NEW p \in Pollers, SaveRename(p) PROVE TypeOK'
      BY <2>10 DEF SaveRename, Holding
    <2>11. ASSUME NEW p \in Pollers, Execute(p) PROVE TypeOK'
      <3>1. PICK r \in Runs :
              /\ runs' = [runs EXCEPT ![r].step = "testing", ![r].request = copy[p].last]
              /\ child' = [child EXCEPT ![p] = r]
              /\ testLock' \in {testLock, r}
        BY <2>11 DEF Execute
      <3>2. copy[p].last \in Nat
        BY DEF States
      <3>3. runs' \in [Runs -> RunRecords]
        BY <3>1, <3>2, RunUpdates, NoStateType
      <3>4. QED
        BY <2>11, <3>1, <3>3 DEF Execute, Holding
    <2>12. ASSUME NEW p \in Pollers, Wait(p) PROVE TypeOK'
      BY <2>12 DEF Wait
    <2>13. ASSUME NEW p \in Pollers, Crash(p) PROVE TypeOK'
      BY <2>13 DEF Crash
    <2>14. ASSUME NEW p \in Pollers, FindRequest(p) PROVE TypeOK'
      <3>1. PICK errs \in SUBSET NewRequests(copy[p]) :
              /\ faults' \in Nat
              /\ \/ Return(p)
                 \/ /\ \E m \in NewRequests(copy[p]) : copy' = [copy EXCEPT ![p].last = m.ts]
                    /\ Goto(p, "saveTmp") /\ UNCHANGED <<lock, child>>
        BY <2>14 DEF FindRequest
      <3>2. UNCHANGED <<state, tmp, testLock, runs, messages, clock>>
        BY <2>14 DEF FindRequest
      <3>3. CASE Return(p)
        BY <3>1, <3>2, <3>3
      <3>4. ASSUME NEW m \in NewRequests(copy[p]),
                   copy' = [copy EXCEPT ![p].last = m.ts],
                   Goto(p, "saveTmp"), UNCHANGED <<lock, child>>
            PROVE  TypeOK'
        <4>1. m.ts \in Nat
          BY DEF NewRequests
        <4>2. copy' \in [Pollers -> States]
          BY <3>4, <4>1 DEF States
        <4>3. QED
          BY <3>1, <3>2, <3>4, <4>2 DEF Holding
      <3>5. QED
        BY <3>1, <3>3, <3>4
    <2>15. ASSUME NEW r \in Runs, StartFresh(r) PROVE TypeOK'
      <3>1. runs' \in [Runs -> RunRecords]
        BY <2>15 DEF StartFresh, SetRun, RunRecords
      <3>2. testLock' \in Runs \cup {NoRun}
        BY <2>15 DEF StartFresh
      <3>3. QED
        BY <2>15, <3>1, <3>2 DEF StartFresh
    <2>16. ASSUME NEW r \in Runs, ReadParent(r) PROVE TypeOK'
      <3>1. (IF IsRerun(r) THEN state.thread ELSE 0) \in Nat
        BY DEF States
      <3>2. [[runs[r] EXCEPT !.step = "post"]
               EXCEPT !.thread = IF IsRerun(r) THEN state.thread ELSE 0] \in RunRecords
        BY <3>1 DEF RunRecords
      <3>3. runs' = [runs EXCEPT ![r] = [[runs[r] EXCEPT !.step = "post"]
               EXCEPT !.thread = IF IsRerun(r) THEN state.thread ELSE 0]]
        BY <2>16 DEF ReadParent
      <3>4. runs' \in [Runs -> RunRecords]
        BY <3>2, <3>3
      <3>5. QED
        BY <2>16, <3>4 DEF ReadParent
    <2>17. ASSUME NEW r \in Runs, PostResults(r) PROVE TypeOK'
      <3>1. clock + 1 \in Nat /\ runs[r] \in RunRecords
        OBVIOUS
      <3>2. ASSUME NEW f \in BOOLEAN
            PROVE  [thread |-> clock + 1, last |-> clock + 1, failed |-> f] \in States
        BY <3>1 DEF States
      <3>3. runs' \in [Runs -> RunRecords] /\ clock' \in Nat
        BY <2>17, <3>1, <3>2 DEF PostResults, SetRun, RunRecords
      <3>4. QED
        BY <2>17, <3>3 DEF PostResults
    <2>18. ASSUME NEW r \in Runs, ReadForUpdate(r) PROVE TypeOK'
      <3>1. PICK f \in BOOLEAN :
              runs' = [runs EXCEPT ![r].step = "writeTmp",
                                   ![r].file = [state EXCEPT !.failed = f]]
        BY <2>18 DEF ReadForUpdate
      <3> DEFINE file == [state EXCEPT !.failed = f]
      <3>a. file \in States
        BY DEF States
      <3> HIDE DEF file
      <3>b. runs' = [runs EXCEPT ![r].step = "writeTmp", ![r].file = file]
        BY <3>1 DEF file
      <3>2. runs' \in [Runs -> RunRecords]
        BY <3>a, <3>b, RunUpdates
      <3>3. QED
        BY <2>18, <3>2 DEF ReadForUpdate
    <2>19. ASSUME NEW r \in Runs, ReportTmp(r) PROVE TypeOK'
      BY <2>19 DEF ReportTmp, SetRun, RunRecords
    <2>20. ASSUME NEW r \in Runs, ReportRename(r) PROVE TypeOK'
      BY <2>20 DEF ReportRename, SetRun, RunRecords
    <2>21. ASSUME NEW r \in Runs, EndRun(r) PROVE TypeOK'
      BY <2>21 DEF EndRun, SetRun, RunRecords
    <2>22. ASSUME NEW r \in Runs, KillRun(r) PROVE TypeOK'
      BY <2>22 DEF KillRun, SetRun, RunRecords
    <2>23. CASE PostRequest
      <3>1. ASSUME NEW t \in Threads PROVE t \in Nat
        BY DEF Threads, RunRecords
      <3>2. clock' \in Nat /\ messages' \subseteq [ts : Nat, thread : Nat, member : BOOLEAN]
        BY <2>23, <3>1 DEF PostRequest
      <3>3. QED
        BY <2>23, <3>2 DEF PostRequest
    <2>24. CASE UNCHANGED vars
      BY <2>24 DEF vars
    <2>25. QED
      BY <2>1, <2>2, <2>3, <2>4, <2>5, <2>6, <2>7, <2>8, <2>9, <2>10, <2>11, <2>12, <2>13,
         <2>14, <2>15, <2>16, <2>17, <2>18, <2>19, <2>20, <2>21, <2>22, <2>23, <2>24
         DEF Next, PollerStep, RunStep
  <1>3. QED
    BY <1>1, <1>2, PTL DEF Spec

-----------------------------------------------------------------------------

\* What every step of the test runs and of their report leaves alone.
LEMMA RunsLeavePollers ==
    ASSUME \/ \E r \in Runs : StartFresh(r) \/ RunStep(r) \/ KillRun(r)
           \/ PostRequest
    PROVE  UNCHANGED <<pc, lock, child>>
  BY DEF StartFresh, RunStep, ReadParent, PostResults, ReadForUpdate, ReportTmp,
         ReportRename, EndRun, KillRun, PostRequest, pollerVars

\* A poller step other than those of acquirePollerLock moves only that poller: it goes
\* on while holding the lock file untouched, ends, or returns and removes the file.
HolderStep(p) ==
    /\ pc[p] \in Holding
    /\ \E l \in Holding \cup {"off"} : pc' = [pc EXCEPT ![p] = l]
    /\ lock' = lock \/ (lock' = NoPid /\ pc'[p] = "off")

\* Each step keeps the lock and those that hold it together.
LEMMA HoldersStep ==
    ASSUME TypeOK, NEW p \in Pollers,
           \/ \E s \in 1..2 : ReadTestLock(p, s) \/ RemoveStaleTestLock(p, s) \/ Pgrep(p, s)
           \/ LoadState(p) \/ FindRequest(p) \/ SaveTmp(p) \/ SaveRename(p)
           \/ Execute(p) \/ Wait(p)
    PROVE  HolderStep(p)
  <1> USE DEF HolderStep, Goto, Exit, Return, Busy, TypeOK
  <1>1. ASSUME NEW s \in 1..2, ReadTestLock(p, s) PROVE HolderStep(p)
    BY <1>1, Locations DEF ReadTestLock
  <1>2. ASSUME NEW s \in 1..2, RemoveStaleTestLock(p, s) PROVE HolderStep(p)
    BY <1>2, Locations DEF RemoveStaleTestLock
  <1>3. ASSUME NEW s \in 1..2, Pgrep(p, s) PROVE HolderStep(p)
    BY <1>3, Locations DEF Pgrep
  <1>4. CASE LoadState(p)
    BY <1>4 DEF LoadState, Holding
  <1>5. CASE FindRequest(p)
    BY <1>5 DEF FindRequest, Holding
  <1>6. CASE SaveTmp(p)
    BY <1>6 DEF SaveTmp, Holding
  <1>7. CASE SaveRename(p)
    BY <1>7 DEF SaveRename, Holding
  <1>8. CASE Execute(p)
    BY <1>8 DEF Execute, Holding
  <1>9. CASE Wait(p)
    BY <1>9 DEF Wait, Holding
  <1>10. QED
    BY <1>1, <1>2, <1>3, <1>4, <1>5, <1>6, <1>7, <1>8, <1>9

\* The lock invariant is preserved by every step when acquisitions are serialised.
LEMMA LockInvStep ==
    ASSUME Overlap = FALSE, TypeOK, LockInv, [Next]_vars
    PROVE  LockInv'
  <1> USE DEF LockInv, TypeOK, Goto, Exit
  <1> Acquiring \cap Holding = {} /\ "off" \notin Acquiring \cup Holding
    BY DEF Acquiring, Holding
  <1>1. ASSUME NEW p \in Pollers, Launch(p) PROVE LockInv'
    BY <1>1 DEF Launch, Acquiring, Holding
  <1>2. ASSUME NEW p \in Pollers, ReadLock(p) PROVE LockInv'
    <2>1. UNCHANGED lock /\ pc[p] = "readLock"
      BY <1>2 DEF ReadLock
    <2>2. CASE pc' = [pc EXCEPT ![p] = "off"]
      BY <2>1, <2>2 DEF Acquiring, Holding
    <2>3. CASE /\ lock = NoPid \/ pc[lock] = "off"
               /\ \E l \in {"removeLock", "writeLock"} : pc' = [pc EXCEPT ![p] = l]
      <3>1. \A q \in Pollers : pc[q] \notin Holding
        BY <2>3, PollerConstants
      <3>2. \A q \in Pollers : pc'[q] \notin Holding
        BY <2>3, <3>1 DEF Holding
      <3>3. \A q \in Pollers : pc'[q] \in Acquiring => pc[q] \in Acquiring
        BY <2>1, <2>3 DEF Acquiring
      <3>4. QED
        BY <3>2, <3>3
    <2>4. QED
      BY <1>2, <2>2, <2>3 DEF ReadLock
  <1>3. ASSUME NEW p \in Pollers, RemoveStaleLock(p) PROVE LockInv'
    BY <1>3 DEF RemoveStaleLock, Acquiring, Holding
  <1>4. ASSUME NEW p \in Pollers, WriteLock(p) PROVE LockInv'
    BY <1>4 DEF WriteLock, Acquiring, Holding
  <1>5. ASSUME NEW p \in Pollers, HolderStep(p) PROVE LockInv'
    <2>1. PICK l \in Holding \cup {"off"} : pc' = [pc EXCEPT ![p] = l]
      BY <1>5 DEF HolderStep
    <2>2. \A q \in Pollers : q # p => pc'[q] = pc[q] /\ pc[q] \notin Holding
      BY <1>5, <2>1, PollerConstants DEF HolderStep
    <2>3. \A q \in Pollers : pc'[q] \in Holding => q = p /\ lock' = lock
      BY <1>5, <2>1, <2>2 DEF HolderStep
    <2>4. \A q \in Pollers : pc'[q] \in Acquiring => q # p /\ pc[q] \in Acquiring
      BY <2>1, <2>2
    <2>5. \A q \in Pollers : pc[q] \notin {"removeLock", "writeLock"}
      BY <1>5 DEF HolderStep
    <2>6. \A q \in Pollers : pc'[q] \notin {"removeLock", "writeLock"}
      <3>1. {"removeLock", "writeLock"} \subseteq Acquiring
        BY DEF Acquiring
      <3>2. QED
        BY <2>4, <2>5, <2>2, <3>1
    <2>7. QED
      BY <1>5, <2>2, <2>3, <2>4, <2>6 DEF HolderStep
  <1>6. ASSUME NEW p \in Pollers, Crash(p) PROVE LockInv'
    BY <1>6 DEF Crash, Acquiring, Holding
  <1>7. CASE UNCHANGED <<pc, lock, child>>
    BY <1>7
  <1>8. QED
    BY <1>1, <1>2, <1>3, <1>4, <1>5, <1>6, <1>7, HoldersStep, RunsLeavePollers
       DEF Next, PollerStep, vars

\* PollerExclusion for any number of pollers: the lock file keeps two pollers from
\* being past acquirePollerLock together, as long as acquisitions do not overlap.
THEOREM PollersExclude ==
    ASSUME Overlap = FALSE
    PROVE  Spec => []PollerExclusion
  <1>1. Init => LockInv
    BY DEF Init, LockInv, Acquiring, Holding
  <1>2. TypeOK /\ LockInv /\ [Next]_vars => LockInv'
    BY LockInvStep
  <1>3. LockInv => PollerExclusion
    BY DEF LockInv, PollerExclusion
  <1>4. QED
    BY <1>1, <1>2, <1>3, TypeCorrect, PTL DEF Spec

-----------------------------------------------------------------------------

\* The request of a run never changes once it has started, and a step of a run or of
\* its report never makes a rerun active.
LEMMA RunsOnlyEnd ==
    ASSUME TypeOK, RerunInv,
           \/ \E r \in Runs : StartFresh(r) \/ RunStep(r) \/ KillRun(r)
           \/ PostRequest
    PROVE  /\ \A r \in Runs : (IsRerun(r) /\ Active(r))' => IsRerun(r) /\ Active(r)
           /\ \A r \in Runs : runs'[r].step = "new" => runs'[r].request = 0
  <1> USE DEF TypeOK, RunRecords, RerunInv, IsRerun, Active, SetRun, pollerVars
  <1>1. ASSUME NEW r \in Runs, StartFresh(r)
        PROVE  /\ \A q \in Runs : (IsRerun(q) /\ Active(q))' => IsRerun(q) /\ Active(q)
               /\ \A q \in Runs : runs'[q].step = "new" => runs'[q].request = 0
    BY <1>1 DEF StartFresh
  <1>2. ASSUME NEW r \in Runs, RunStep(r) \/ KillRun(r)
        PROVE  /\ Active(r) /\ runs'[r].step # "new"
               /\ \A q \in Runs : /\ runs'[q].request = runs[q].request
                                  /\ q # r => runs'[q].step = runs[q].step
    <2>1. CASE ReadParent(r)
      BY <2>1 DEF ReadParent
    <2>2. CASE PostResults(r)
      BY <2>2 DEF PostResults
    <2>3. CASE ReadForUpdate(r)
      BY <2>3 DEF ReadForUpdate
    <2>4. CASE ReportTmp(r)
      BY <2>4 DEF ReportTmp
    <2>5. CASE ReportRename(r)
      BY <2>5 DEF ReportRename
    <2>6. CASE EndRun(r)
      BY <2>6 DEF EndRun
    <2>7. CASE KillRun(r)
      BY <2>7 DEF KillRun
    <2>8. QED
      BY <1>2, <2>1, <2>2, <2>3, <2>4, <2>5, <2>6, <2>7 DEF RunStep
  <1>3. ASSUME NEW r \in Runs, RunStep(r) \/ KillRun(r)
        PROVE  /\ \A q \in Runs : (IsRerun(q) /\ Active(q))' => IsRerun(q) /\ Active(q)
               /\ \A q \in Runs : runs'[q].step = "new" => runs'[q].request = 0
    <2>1. /\ Active(r) /\ runs'[r].step # "new"
          /\ \A q \in Runs : /\ runs'[q].request = runs[q].request
                             /\ q # r => runs'[q].step = runs[q].step
      BY <1>2, <1>3
    <2>2. ASSUME NEW q \in Runs, (IsRerun(q) /\ Active(q))'
          PROVE  IsRerun(q) /\ Active(q)
      BY <2>1, <2>2
    <2>3. ASSUME NEW q \in Runs, runs'[q].step = "new"
          PROVE  runs'[q].request = 0
      BY <2>1, <2>3
    <2>4. QED
      BY <2>2, <2>3
  <1>4. CASE PostRequest
    BY <1>4 DEF PostRequest
  <1>5. QED
    BY <1>1, <1>3, <1>4

\* A poller step that leaves the runs alone keeps RerunInv when the poller ends, is at
\* most at its first look at the tests afterwards, or no rerun is active.
LEMMA PollerMove ==
    ASSUME TypeOK, RerunInv, UNCHANGED runs,
           NEW p \in Pollers, NEW l, pc' = [pc EXCEPT ![p] = l],
           \A q \in Pollers : q # p => child'[q] = child[q],
           \/ l \notin Holding \ Early
           \/ \A r \in Runs : ~(IsRerun(r) /\ Active(r))
    PROVE  RerunInv'
  <1>1. \A r \in Runs : (IsRerun(r) /\ Active(r))' <=> IsRerun(r) /\ Active(r)
    BY DEF IsRerun, Active
  <1>2. \A r \in Runs : runs'[r].step = "new" => runs'[r].request = 0
    BY DEF RerunInv
  <1>3. ASSUME NEW q \in Pollers, NEW r \in Runs,
               (IsRerun(r) /\ Active(r))', pc'[q] \in Holding \ Early
        PROVE  pc'[q] = "wait" /\ child'[q] = r
    <2>1. q # p
      BY <1>1, <1>3 DEF TypeOK
    <2>2. pc'[q] = pc[q] /\ child'[q] = child[q]
      BY <2>1 DEF TypeOK
    <2>3. QED
      BY <1>1, <1>3, <2>2 DEF RerunInv
  <1>4. QED
    BY <1>2, <1>3 DEF RerunInv

\* A poller past its first look at the tests and not waiting sees no active rerun.
LEMMA NoneActive ==
    ASSUME RerunInv, NEW p \in Pollers, pc[p] \in Holding \ Early, pc[p] # "wait"
    PROVE  \A r \in Runs : ~(IsRerun(r) /\ Active(r))
  BY DEF RerunInv

\* RerunInv is preserved, and a rerun becomes active only when no other one is.
LEMMA RerunInvStep ==
    ASSUME TypeOK, LockInv, RerunInv, RerunsDoNotOverlap, [Next]_vars
    PROVE  RerunInv' /\ RerunsDoNotOverlap'
  <1> USE DEF TypeOK, Goto, Exit, Return, Busy
  <1> DEFINE Inv == RerunInv' /\ RerunsDoNotOverlap'
  <1>0. ASSUME UNCHANGED runs PROVE RerunsDoNotOverlap'
    BY <1>0 DEF RerunsDoNotOverlap, IsRerun, Active
  <1>1. ASSUME NEW p \in Pollers, UNCHANGED runs,
               NEW l \in {"off"} \cup Acquiring \cup Early,
               pc' = [pc EXCEPT ![p] = l],
               \A q \in Pollers : q # p => child'[q] = child[q]
        PROVE  Inv
    <2>1. l \notin Holding \ Early
      BY DEF Acquiring, Early, Holding
    <2>2. QED
      BY <1>0, <1>1, <2>1, PollerMove
  <1>2. ASSUME NEW p \in Pollers, UNCHANGED <<runs, child>>, NEW l,
               pc' = [pc EXCEPT ![p] = l],
               pc[p] \in Holding \ Early, pc[p] # "wait"
        PROVE  Inv
    BY <1>0, <1>2, NoneActive, PollerMove
  <1>3. ASSUME NEW p \in Pollers, Launch(p) PROVE Inv
    BY <1>1, <1>3 DEF Launch, Acquiring
  <1>4. ASSUME NEW p \in Pollers, ReadLock(p) PROVE Inv
    BY <1>1, <1>4 DEF ReadLock, Acquiring
  <1>5. ASSUME NEW p \in Pollers, RemoveStaleLock(p) PROVE Inv
    BY <1>1, <1>5 DEF RemoveStaleLock, Acquiring
  <1>6. ASSUME NEW p \in Pollers, WriteLock(p) PROVE Inv
    BY <1>1, <1>6 DEF WriteLock, Early
  <1>7. ASSUME NEW p \in Pollers, Exit(p), UNCHANGED runs PROVE Inv
    BY <1>1, <1>7
  <1>8. ASSUME NEW p \in Pollers, NEW s \in 1..2, ReadTestLock(p, s) PROVE Inv
    <2>1. CASE Exit(p)
      BY <1>7, <1>8, <2>1 DEF ReadTestLock
    <2>2. CASE s = 1 /\ UNCHANGED child /\ \E l \in Early : pc' = [pc EXCEPT ![p] = l]
      BY <1>1, <1>8, <2>2 DEF ReadTestLock
    <2>3. CASE s = 2 /\ UNCHANGED child /\ \E l : pc' = [pc EXCEPT ![p] = l]
      BY <1>2, <1>8, <2>3, Locations DEF ReadTestLock
    <2>4. QED
      BY <1>8, <2>1, <2>2, <2>3, Locations DEF ReadTestLock
  <1>9. ASSUME NEW p \in Pollers, NEW s \in 1..2, RemoveStaleTestLock(p, s) PROVE Inv
    <2>1. CASE s = 1
      BY <1>1, <1>9, <2>1, Locations DEF RemoveStaleTestLock
    <2>2. CASE s = 2
      BY <1>2, <1>9, <2>2, Locations DEF RemoveStaleTestLock
    <2>3. QED
      BY <2>1, <2>2
  <1>10. ASSUME NEW p \in Pollers, NEW s \in 1..2, Pgrep(p, s) PROVE Inv
    <2>1. CASE Exit(p)
      BY <1>7, <1>10, <2>1 DEF Pgrep
    <2>2. CASE /\ \A r \in Runs : ~Active(r)
               /\ Goto(p, Idle[s]) /\ UNCHANGED child
      BY <1>0, <1>10, <2>2, PollerMove DEF Pgrep
    <2>3. QED
      BY <1>10, <2>1, <2>2 DEF Pgrep
  <1>11. ASSUME NEW p \in Pollers, LoadState(p) PROVE Inv
    BY <1>2, <1>7, <1>11 DEF LoadState, Holding, Early
  <1>12. ASSUME NEW p \in Pollers, FindRequest(p) PROVE Inv
    BY <1>2, <1>7, <1>12 DEF FindRequest, Holding, Early
  <1>13. ASSUME NEW p \in Pollers, SaveTmp(p) PROVE Inv
    BY <1>2, <1>13 DEF SaveTmp, Holding, Early
  <1>14. ASSUME NEW p \in Pollers, SaveRename(p) PROVE Inv
    BY <1>2, <1>7, <1>14 DEF SaveRename, Holding, Early
  <1>15. ASSUME NEW p \in Pollers, Execute(p) PROVE Inv
    <2>1. pc[p] \in Holding \ Early /\ pc[p] # "wait"
      BY <1>15 DEF Execute, Holding, Early
    <2>2. \A r \in Runs : ~(IsRerun(r) /\ Active(r))
      BY <2>1, NoneActive
    <2>3. PICK r \in Runs : /\ runs' = [runs EXCEPT ![r].step = "testing",
                                                   ![r].request = copy[p].last]
                            /\ child' = [child EXCEPT ![p] = r]
      BY <1>15 DEF Execute
    <2>4. \A q \in Runs : q # r => runs'[q] = runs[q]
      BY <2>3
    <2>5. \A q \in Runs : (IsRerun(q) /\ Active(q))' => q = r
      BY <2>2, <2>4 DEF IsRerun, Active
    <2>6. RerunsDoNotOverlap'
      BY <2>5 DEF RerunsDoNotOverlap
    <2>7. \A q \in Runs : runs'[q].step = "new" => runs'[q].request = 0
      <3>1. runs'[r].step = "testing"
        BY <2>3 DEF RunRecords
      <3>2. QED
        BY <2>4, <3>1 DEF RerunInv
    <2>8. pc' = [pc EXCEPT ![p] = "wait"]
      BY <1>15 DEF Execute
    <2>9. \A q \in Pollers : pc'[q] \in Holding => q = p
      BY <2>1, <2>8 DEF LockInv
    <2>10. pc'[p] = "wait" /\ child'[p] = r
      BY <2>3, <2>8
    <2>11. RerunInv'
      BY <2>5, <2>7, <2>9, <2>10 DEF RerunInv
    <2>12. QED
      BY <2>6, <2>11
  <1>16. ASSUME NEW p \in Pollers, Wait(p) PROVE Inv
    BY <1>7, <1>16 DEF Wait
  <1>17. ASSUME NEW p \in Pollers, Crash(p) PROVE Inv
    BY <1>7, <1>17 DEF Crash
  <1>18. CASE (\E r \in Runs : StartFresh(r) \/ RunStep(r) \/ KillRun(r)) \/ PostRequest
    <2>1. UNCHANGED <<pc, child>>
      BY <1>18, RunsLeavePollers
    <2>2. /\ \A r \in Runs : (IsRerun(r) /\ Active(r))' => IsRerun(r) /\ Active(r)
          /\ \A r \in Runs : runs'[r].step = "new" => runs'[r].request = 0
      BY <1>18, RunsOnlyEnd
    <2>3. RerunInv'
      BY <2>1, <2>2 DEF RerunInv
    <2>4. ASSUME NEW r1 \in Runs, NEW r2 \in Runs,
                 (IsRerun(r1) /\ IsRerun(r2) /\ Active(r1) /\ Active(r2))'
          PROVE  r1 = r2
      BY <2>2, <2>4 DEF RerunsDoNotOverlap
    <2>5. QED
      BY <2>3, <2>4 DEF RerunsDoNotOverlap
  <1>19. CASE UNCHANGED vars
    BY <1>19 DEF vars, RerunInv, RerunsDoNotOverlap, IsRerun, Active
  <1>20. QED
    BY <1>3, <1>4, <1>5, <1>6, <1>8, <1>9, <1>10, <1>11, <1>12, <1>13, <1>14, <1>15,
       <1>16, <1>17, <1>18, <1>19
       DEF Next, PollerStep

\* RerunsDoNotOverlap for any number of pollers and runs: a poller that dies leaves its
\* rerun behind, and the pollers after it see that rerun before they start another.
THEOREM RerunsExclude ==
    ASSUME Overlap = FALSE
    PROVE  Spec => []RerunsDoNotOverlap
  <1>1. Init => LockInv /\ RerunInv /\ RerunsDoNotOverlap
    BY DEF Init, LockInv, RerunInv, RerunsDoNotOverlap, Acquiring, Holding, IsRerun, Active
  <1>2. TypeOK /\ LockInv /\ RerunInv /\ RerunsDoNotOverlap /\ [Next]_vars
          => LockInv' /\ RerunInv' /\ RerunsDoNotOverlap'
    BY LockInvStep, RerunInvStep
  <1>3. QED
    BY <1>1, <1>2, TypeCorrect, PTL DEF Spec

-----------------------------------------------------------------------------
(* No reply triggers two reruns *)

\* The steps at which a poller has a state in memory, and, among them, those at which that
\* state has the request it is about to serve, before and after it is saved.
Loaded   == {"find", "saveTmp", "saveRename", "readTest2", "removeTest2", "pgrep2", "execute",
             "wait"}
Saved    == {"readTest2", "removeTest2", "pgrep2", "execute"}
Carrying == {"saveTmp", "saveRename"} \cup Saved

\* Slack's timestamps: nothing is later than the clock, and a reply has its own.
ClockInv ==
    /\ state.thread <= clock /\ tmp.thread <= clock
    /\ \A p \in Pollers : copy[p].thread <= clock
    /\ \A r \in Runs : /\ runs[r].thread <= clock /\ runs[r].request <= clock
                       /\ runs[r].file.thread <= clock
    /\ \A m \in messages : m.ts \in 1..clock /\ m.thread \in 1..clock
    /\ \A m1, m2 \in messages : m1.ts = m2.ts => m1.thread = m2.thread

\* What a poller has in memory; the request it is about to serve is a member's reply
\* that nobody has served.
CopyInv ==
    \A p \in Pollers :
        /\ pc[p] \notin Loaded => copy[p] = NoState
        /\ pc[p] \in Loaded => copy[p].thread # 0
        /\ pc[p] \in Carrying =>
              /\ \E m \in messages :
                    m.member /\ m.ts = copy[p].last /\ m.thread = copy[p].thread
              /\ \A r \in Runs : runs[r].request # copy[p].last

\* Only a rerun updates a state file it has read; the thread of a fresh run is known to
\* nobody until it is written.
FreshInv ==
    /\ \A r \in Runs : runs[r].step = "readState" => IsRerun(r)
    /\ \A r \in Runs : runs[r].step = "post" /\ ~IsRerun(r) => runs[r].thread = 0
    /\ \A r \in Runs : runs[r].step = "writeTmp" /\ ~IsRerun(r) =>
          LET t == runs[r].file.thread
          IN  /\ t # 0 /\ t # state.thread /\ t # tmp.thread
              /\ \A p \in Pollers : t # copy[p].thread
              /\ \A q \in Runs : runs[q].step = "writeTmp" /\ q # r => t # runs[q].file.thread

\* s is of another thread than p works on, or has the request of p as processed.
Follows(s, p) == s.thread = copy[p].thread => s.last >= copy[p].last

\* Once p has renamed the state file no older one of its thread is left.
SavedInv ==
    \A p \in Pollers :
        /\ pc[p] \in {"saveRename"} \cup Saved => Follows(tmp, p)
        /\ pc[p] \in Saved => Follows(state, p)

\* s has every request that was served in its thread as processed.
Covers(s) ==
    \A r \in Runs, m \in messages :
        IsRerun(r) /\ runs[r].request = m.ts /\ m.thread = s.thread => s.last >= m.ts

\* No copy of the state file, on disk or in memory, makes a poller serve a reply again.
CoverInv ==
    /\ Covers(state) /\ Covers(tmp)
    /\ \A p \in Pollers : Covers(copy[p])
    /\ \A r \in Runs : runs[r].step = "writeTmp" => Covers(runs[r].file)

OnceInv == ClockInv /\ CopyInv /\ FreshInv /\ SavedInv /\ CoverInv

\* The steps at which a poller has a state are steps at which it holds the lock, after
\* its first look at the tests.
LEMMA LoadedHolds ==
    /\ Loaded \subseteq Holding \ Early
    /\ Saved \subseteq Carrying /\ Carrying \subseteq Loaded
    /\ "wait" \notin Carrying /\ "saveRename" \in Carrying \ Saved
  BY DEF Loaded, Saved, Carrying, Holding, Early

\* A poller that goes on with what it has keeps the invariant.
LEMMA PollerGoesOn ==
    ASSUME TypeOK, OnceInv, UNCHANGED <<copy, state, tmp, runs, messages, clock>>,
           NEW p \in Pollers, NEW l, pc' = [pc EXCEPT ![p] = l],
           l \in Loaded <=> pc[p] \in Loaded,
           l \in Carrying => pc[p] \in Carrying,
           l \in Saved => pc[p] \in Saved,
           l # "saveRename"
    PROVE  OnceInv'
  <1> USE DEF OnceInv, TypeOK
  <1>1. ClockInv'
    BY DEF ClockInv
  <1>2. CopyInv'
    BY DEF CopyInv
  <1>3. FreshInv'
    BY DEF FreshInv, IsRerun
  <1>4. SavedInv'
    BY DEF SavedInv, Follows
  <1>5. CoverInv'
    BY DEF CoverInv, Covers, IsRerun
  <1>6. QED
    BY <1>1, <1>2, <1>3, <1>4, <1>5

\* A poller that ends forgets its state.
LEMMA PollerEnds ==
    ASSUME TypeOK, OnceInv, UNCHANGED <<state, tmp, runs, messages, clock>>,
           NEW p \in Pollers, Exit(p)
    PROVE  OnceInv'
  <1> USE DEF OnceInv, TypeOK, Exit, Goto
  <1>1. /\ pc'[p] = "off" /\ copy'[p] = NoState
        /\ \A q \in Pollers : q # p => pc'[q] = pc[q] /\ copy'[q] = copy[q]
    OBVIOUS
  <1>2. "off" \notin Loaded \cup Carrying \cup Saved \cup {"saveRename"}
    BY DEF Loaded, Carrying, Saved
  <1>3. NoState.thread = 0
    BY DEF NoState
  <1>4. ClockInv'
    BY <1>1, <1>3 DEF ClockInv
  <1>5. CopyInv'
    BY <1>1, <1>2 DEF CopyInv
  <1>6. FreshInv'
    BY <1>1, <1>3 DEF FreshInv, IsRerun
  <1>7. SavedInv'
    BY <1>1, <1>2 DEF SavedInv, Follows
  <1>8. Covers(NoState)
    BY <1>3 DEF Covers, ClockInv
  <1>9. CoverInv'
    BY <1>1, <1>8 DEF CoverInv, Covers, IsRerun
  <1>10. QED
    BY <1>4, <1>5, <1>6, <1>7, <1>9

\* LoadState takes the state file, which has every request that was served in its thread.
LEMMA LoadStep ==
    ASSUME TypeOK, OnceInv, NEW p \in Pollers, LoadState(p)
    PROVE  OnceInv'
  <1> USE DEF OnceInv, TypeOK
  <1>1. CASE Exit(p)
    BY <1>1, PollerEnds DEF LoadState, slackVars
  <1>2. CASE /\ state.thread # 0
             /\ copy' = [copy EXCEPT ![p] = state]
             /\ pc' = [pc EXCEPT ![p] = "find"]
    <2> UNCHANGED <<state, tmp, runs, messages, clock>>
      BY DEF LoadState, slackVars
    <2>1. /\ pc'[p] = "find" /\ copy'[p] = state
          /\ \A q \in Pollers : q # p => pc'[q] = pc[q] /\ copy'[q] = copy[q]
      BY <1>2
    <2>2. "find" \in Loaded /\ "find" \notin Carrying \cup Saved \cup {"saveRename"}
      BY DEF Loaded, Carrying, Saved
    <2>3. ClockInv'
      BY <2>1 DEF ClockInv
    <2>4. CopyInv'
      BY <1>2, <2>1, <2>2 DEF CopyInv
    <2>5. FreshInv'
      BY <2>1 DEF FreshInv, IsRerun
    <2>6. SavedInv'
      BY <2>1, <2>2 DEF SavedInv, Follows
    <2>7. CoverInv'
      BY <2>1 DEF CoverInv, Covers, IsRerun
    <2>8. QED
      BY <2>3, <2>4, <2>5, <2>6, <2>7
  <1>3. QED
    BY <1>1, <1>2 DEF LoadState, Goto

\* FindRequest takes a reply newer than any that was served in the thread.
LEMMA FindStep ==
    ASSUME TypeOK, OnceInv, NEW p \in Pollers, FindRequest(p)
    PROVE  OnceInv'
  <1> USE DEF OnceInv, TypeOK
  <1> UNCHANGED <<state, tmp, runs, messages, clock>>
    BY DEF FindRequest, slackVars
  <1>1. CASE Exit(p)
    BY <1>1, PollerEnds
  <1>2. ASSUME NEW m \in NewRequests(copy[p]),
               copy' = [copy EXCEPT ![p].last = m.ts],
               pc' = [pc EXCEPT ![p] = "saveTmp"]
        PROVE  OnceInv'
    <2>1. /\ pc'[p] = "saveTmp"
          /\ copy'[p].thread = copy[p].thread /\ copy'[p].last = m.ts
          /\ \A q \in Pollers : q # p => pc'[q] = pc[q] /\ copy'[q] = copy[q]
      BY <1>2 DEF States
    <2>2. pc[p] = "find"
      BY DEF FindRequest
    <2>3. /\ "saveTmp" \in Loaded \cap Carrying /\ "saveTmp" \notin Saved \cup {"saveRename"}
          /\ "find" \in Loaded
      BY DEF Loaded, Carrying, Saved
    <2>4. m \in messages /\ m.member /\ m.thread = copy[p].thread /\ m.ts > copy[p].last
      BY <1>2 DEF NewRequests
    <2>5. \A r \in Runs : runs[r].request # m.ts
      <3>1. SUFFICES ASSUME NEW r \in Runs, runs[r].request = m.ts PROVE FALSE
        OBVIOUS
      <3>2. IsRerun(r)
        BY <2>4, <3>1 DEF ClockInv, IsRerun
      <3>3. copy[p].last >= m.ts
        BY <2>4, <3>1, <3>2 DEF CoverInv, Covers
      <3>4. copy[p].last \in Nat /\ m.ts \in Nat
        BY <2>4 DEF States
      <3>5. QED
        BY <2>4, <3>3, <3>4
    <2>6. ClockInv'
      BY <2>1 DEF ClockInv
    <2>7. CopyInv'
      BY <2>1, <2>2, <2>3, <2>4, <2>5 DEF CopyInv
    <2>8. FreshInv'
      BY <2>1 DEF FreshInv, IsRerun
    <2>9. SavedInv'
      BY <2>1, <2>3 DEF SavedInv, Follows
    <2>10. Covers(copy[p])
      BY DEF CoverInv
    <2>11. Covers(copy'[p])
      <3>1. copy[p].last \in Nat /\ m.ts \in Nat /\ \A m2 \in messages : m2.ts \in Nat
        BY <2>4 DEF States
      <3>2. QED
        BY <2>1, <2>4, <2>10, <3>1 DEF Covers
    <2>12. CoverInv'
      BY <2>1, <2>11 DEF CoverInv, Covers, IsRerun
    <2>13. QED
      BY <2>6, <2>7, <2>8, <2>9, <2>12
  <1>3. QED
    BY <1>1, <1>2 DEF FindRequest, Return, Goto

\* saveState writes what the poller has.
LEMMA SaveTmpStep ==
    ASSUME TypeOK, LockInv, OnceInv, NEW p \in Pollers, SaveTmp(p)
    PROVE  OnceInv'
  <1> USE DEF OnceInv, TypeOK, SaveTmp, Goto, slackVars
  <1>1. /\ pc'[p] = "saveRename" /\ tmp' = copy[p]
        /\ \A q \in Pollers : q # p => pc'[q] = pc[q]
    OBVIOUS
  <1>2. /\ "saveRename" \in Loaded \cap Carrying /\ "saveRename" \notin Saved
        /\ "saveTmp" \in Loaded \cap Carrying
    BY DEF Loaded, Carrying, Saved
  <1>3. \A q \in Pollers : q # p => pc[q] \notin Loaded
    BY <1>2, LoadedHolds DEF LockInv
  <1>4. ClockInv'
    BY <1>1 DEF ClockInv
  <1>5. CopyInv'
    BY <1>1, <1>2 DEF CopyInv
  <1>6. FreshInv'
    BY <1>1 DEF FreshInv, IsRerun
  <1>7. SavedInv'
    <2>1. Follows(tmp, p)'
      BY <1>1 DEF Follows, States
    <2>2. QED
      BY <1>1, <1>2, <1>3, <2>1, LoadedHolds DEF SavedInv
  <1>8. CoverInv'
    BY <1>1 DEF CoverInv, Covers, IsRerun
  <1>9. QED
    BY <1>4, <1>5, <1>6, <1>7, <1>8

\* The rename makes what was written, by this poller or for another thread, the state.
LEMMA SaveRenameStep ==
    ASSUME TypeOK, LockInv, OnceInv, NEW p \in Pollers, SaveRename(p)
    PROVE  OnceInv'
  <1> USE DEF OnceInv, TypeOK, Goto, Exit
  <1> UNCHANGED <<runs, messages, clock>>
    BY DEF SaveRename, slackVars
  <1>1. NoState.thread = 0
    BY DEF NoState
  <1>2. CASE UNCHANGED <<state, tmp>> /\ Exit(p)
    BY <1>2, PollerEnds
  <1>3. CASE state' = tmp /\ tmp' = NoState
    <2>1. /\ pc[p] = "saveRename" /\ pc'[p] \in {"off", "readTest2"}
          /\ copy'[p] = IF pc'[p] = "off" THEN NoState ELSE copy[p]
          /\ \A q \in Pollers : q # p => pc'[q] = pc[q] /\ copy'[q] = copy[q]
      <3>1. pc[p] = "saveRename"
        BY DEF SaveRename
      <3>2. CASE Exit(p)
        BY <3>1, <3>2
      <3>3. CASE pc' = [pc EXCEPT ![p] = "readTest2"] /\ UNCHANGED copy
        BY <3>1, <3>3
      <3>4. QED
        BY <1>3, <3>2, <3>3 DEF SaveRename
    <2>2. /\ "saveRename" \in Loaded \cap Carrying
          /\ "readTest2" \in Loaded \cap Carrying
          /\ "off" \notin Loaded \cup Carrying \cup Saved \cup {"saveRename"}
      BY DEF Loaded, Carrying, Saved
    <2>3. \A q \in Pollers : q # p => pc[q] \notin Loaded
      BY <2>1, <2>2, LoadedHolds DEF LockInv
    <2>4. ClockInv'
      BY <1>1, <1>3, <2>1 DEF ClockInv
    <2>5. CopyInv'
      BY <2>1, <2>2 DEF CopyInv
    <2>6. FreshInv'
      BY <1>1, <1>3, <2>1 DEF FreshInv, IsRerun
    <2>7. SavedInv'
      <3>1. Follows(tmp, p) /\ copy[p].thread # 0
        BY <2>1, <2>2 DEF SavedInv, CopyInv
      <3>2. pc'[p] = "readTest2" => Follows(state, p)' /\ Follows(tmp, p)'
        BY <1>1, <1>3, <2>1, <3>1 DEF Follows
      <3>3. QED
        BY <2>1, <2>2, <2>3, <3>2, LoadedHolds DEF SavedInv
    <2>8. Covers(NoState)
      BY <1>1 DEF Covers, ClockInv
    <2>9. CoverInv'
      BY <1>3, <2>1, <2>8 DEF CoverInv, Covers, IsRerun
    <2>10. QED
      BY <2>4, <2>5, <2>6, <2>7, <2>9
  <1>4. QED
    BY <1>2, <1>3 DEF SaveRename

\* The request a poller is about to serve has not been served, and what may still become
\* the state has it as processed.
LEMMA ExecuteStep ==
    ASSUME TypeOK, LockInv, RerunInv, OnceInv, RerunAtMostOnce,
           NEW p \in Pollers, Execute(p)
    PROVE  OnceInv' /\ RerunAtMostOnce'
  <1> USE DEF OnceInv, TypeOK
  <1> UNCHANGED <<copy, state, tmp, messages, clock>>
    BY DEF Execute, slackVars
  <1>1. PICK r \in Runs : /\ runs[r].step = "new"
                          /\ runs' = [runs EXCEPT ![r].step = "testing",
                                                  ![r].request = copy[p].last]
    BY DEF Execute
  <1>2. /\ runs'[r].step = "testing" /\ runs'[r].request = copy[p].last
        /\ runs'[r].thread = runs[r].thread /\ runs'[r].file = runs[r].file
        /\ \A q \in Runs : q # r => runs'[q] = runs[q]
    BY <1>1 DEF RunRecords
  <1>3. pc[p] = "execute" /\ pc' = [pc EXCEPT ![p] = "wait"]
    BY DEF Execute, Goto
  <1>4. pc'[p] = "wait" /\ \A q \in Pollers : q # p => pc'[q] = pc[q]
    BY <1>3
  <1>5. /\ "execute" \in Loaded /\ "execute" \in Saved /\ "execute" \in Carrying
        /\ "wait" \in Loaded /\ "wait" \notin Carrying \cup Saved \cup {"saveRename"}
    BY DEF Loaded, Carrying, Saved
  <1>6. \A q \in Pollers : q # p => pc[q] \notin Loaded
    BY <1>3, <1>5, LoadedHolds DEF LockInv
  <1>7. PICK m \in messages : m.ts = copy[p].last /\ m.thread = copy[p].thread
    BY <1>3, <1>5 DEF CopyInv
  <1>8. \A q \in Runs : runs[q].request # copy[p].last
    BY <1>3, <1>5 DEF CopyInv
  <1>9. \A q \in Runs : runs[q].step = "writeTmp" => ~IsRerun(q)
    BY <1>3, <1>5, NoneActive, LoadedHolds DEF Active
  <1>10. \A m2 \in messages : m2.ts = copy[p].last => m2.thread = copy[p].thread
    BY <1>7 DEF ClockInv
  <1>11. ClockInv'
    BY <1>2, <1>7 DEF ClockInv
  <1>12. CopyInv'
    BY <1>3, <1>4, <1>5, <1>6, LoadedHolds DEF CopyInv
  <1>13. FreshInv'
    <2>1. \A q \in Runs : runs'[q].step \in {"readState", "post", "writeTmp"} =>
             q # r /\ runs'[q] = runs[q]
      BY <1>2
    <2>2. QED
      BY <2>1 DEF FreshInv, IsRerun
  <1>14. SavedInv'
    BY <1>4, <1>5 DEF SavedInv, Follows
  <1>15. ASSUME NEW s, Covers(s), s.thread = copy[p].thread => s.last >= copy[p].last
         PROVE  \A q \in Runs, m2 \in messages :
                   runs'[q].request # 0 /\ runs'[q].request = m2.ts /\ m2.thread = s.thread
                     => s.last >= m2.ts
    BY <1>2, <1>10, <1>15 DEF Covers, IsRerun
  <1>16. Follows(state, p) /\ Follows(tmp, p)
    BY <1>3, <1>5 DEF SavedInv
  <1>17. copy[p].last \in Nat
    BY DEF States
  <1>18. CoverInv'
    <2>1. Covers(state)' /\ Covers(tmp)'
      BY <1>15, <1>16 DEF CoverInv, Covers, IsRerun, Follows
    <2>2. Covers(copy[p])'
      BY <1>15, <1>17 DEF CoverInv, Covers, IsRerun
    <2>3. ASSUME NEW q \in Pollers, q # p PROVE Covers(copy[q])'
      <3>1. copy[q].thread = 0 /\ copy[p].thread # 0
        BY <1>3, <1>5, <1>6, <2>3 DEF CopyInv, NoState
      <3>2. QED
        BY <1>15, <3>1 DEF CoverInv, Covers, IsRerun
    <2>4. ASSUME NEW q \in Runs, runs'[q].step = "writeTmp" PROVE Covers(runs[q].file)'
      <3>1. runs'[q] = runs[q] /\ runs[q].file.thread # copy[p].thread
        BY <1>2, <1>9, <2>4 DEF FreshInv
      <3>2. Covers(runs[q].file)
        BY <2>4, <3>1 DEF CoverInv
      <3>3. QED
        BY <1>15, <3>1, <3>2 DEF Covers, IsRerun
    <2>5. QED
      BY <2>1, <2>2, <2>3, <2>4 DEF CoverInv
  <1>19. RerunAtMostOnce'
    <2>1. ASSUME NEW r1 \in Runs, NEW r2 \in Runs,
                 runs'[r1].request # 0, runs'[r1].request = runs'[r2].request
          PROVE  r1 = r2
      BY <1>2, <1>8, <2>1 DEF RerunAtMostOnce, IsRerun
    <2>2. QED
      BY <2>1 DEF RerunAtMostOnce, IsRerun
  <1>20. QED
    BY <1>11, <1>12, <1>13, <1>14, <1>18, <1>19

-----------------------------------------------------------------------------

\* A run that goes on without a state file keeps the invariant.
LEMMA RunGoesOn ==
    ASSUME TypeOK, OnceInv, UNCHANGED <<pc, copy, state, tmp, messages, clock>>,
           NEW r \in Runs, \A q \in Runs : q # r => runs'[q] = runs[q],
           runs'[r].request = runs[r].request, runs'[r].file = runs[r].file,
           runs'[r].thread <= clock,
           runs'[r].step # "writeTmp",
           runs'[r].step = "readState" => IsRerun(r),
           runs'[r].step = "post" /\ ~IsRerun(r) => runs'[r].thread = 0
    PROVE  OnceInv'
  <1> USE DEF OnceInv, TypeOK
  <1>1. \A q \in Runs : runs'[q].request = runs[q].request /\ (IsRerun(q)' <=> IsRerun(q))
    BY DEF IsRerun
  <1>2. \A q \in Runs : runs'[q].step = "writeTmp" => runs'[q] = runs[q]
    OBVIOUS
  <1>3. ClockInv'
    BY <1>1 DEF ClockInv
  <1>4. CopyInv'
    BY <1>1 DEF CopyInv
  <1>5. FreshInv'
    BY <1>1, <1>2 DEF FreshInv
  <1>6. SavedInv'
    BY DEF SavedInv, Follows
  <1>7. CoverInv'
    BY <1>1, <1>2 DEF CoverInv, Covers
  <1>8. QED
    BY <1>3, <1>4, <1>5, <1>6, <1>7

\* A run that begins to save a state keeps it if the state covers what was served and
\* is of a new thread or, for a rerun, of the one in the state file.
LEMMA RunSaves ==
    ASSUME TypeOK, OnceInv, UNCHANGED <<pc, copy, state, tmp, messages>>,
           clock' \in Nat, clock <= clock',
           NEW r \in Runs, \A q \in Runs : q # r => runs'[q] = runs[q],
           runs'[r].request = runs[r].request, runs'[r].step = "writeTmp",
           runs'[r].thread \in 0..clock', runs'[r].file.thread \in 0..clock',
           Covers(runs'[r].file),
           \/ IsRerun(r) /\ runs'[r].file.thread = state.thread
           \/ runs'[r].file.thread > clock
    PROVE  OnceInv'
  <1> USE DEF OnceInv, TypeOK
  <1>1. \A q \in Runs : runs'[q].request = runs[q].request /\ (IsRerun(q)' <=> IsRerun(q))
    BY DEF IsRerun
  <1>2. /\ state.thread \in Nat /\ tmp.thread \in Nat
        /\ \A p \in Pollers : copy[p].thread \in Nat
        /\ \A q \in Runs : /\ runs[q].thread \in Nat /\ runs[q].request \in Nat
                            /\ runs[q].file.thread \in Nat
        /\ \A m \in messages : m.ts \in Nat /\ m.thread \in Nat
    BY DEF States, RunRecords
  <1>3. /\ runs'[r].thread \in Nat /\ runs'[r].thread <= clock'
        /\ runs'[r].file.thread \in Nat /\ runs'[r].file.thread <= clock'
    OBVIOUS
  <1>4. ClockInv'
    <2>1. /\ state.thread <= clock' /\ tmp.thread <= clock'
          /\ \A p \in Pollers : copy[p].thread <= clock'
      BY <1>2 DEF ClockInv
    <2>2. \A q \in Runs : /\ runs'[q].thread <= clock' /\ runs'[q].request <= clock'
                          /\ runs'[q].file.thread <= clock'
      BY <1>1, <1>2, <1>3 DEF ClockInv
    <2>3. \A m \in messages : m.ts \in 1..clock' /\ m.thread \in 1..clock'
      BY <1>2 DEF ClockInv
    <2>4. QED
      BY <2>1, <2>2, <2>3 DEF ClockInv
  <1>5. CopyInv'
    BY <1>1 DEF CopyInv
  <1>6. FreshInv'
    <2>1. CASE IsRerun(r) /\ runs'[r].file.thread = state.thread
      BY <1>1, <2>1 DEF FreshInv
    <2>2. CASE runs'[r].file.thread > clock
      <3> DEFINE t == runs'[r].file.thread
      <3>1. /\ t # 0 /\ t # state.thread /\ t # tmp.thread
            /\ \A p \in Pollers : t # copy[p].thread
            /\ \A q \in Runs : t # runs[q].file.thread
        BY <1>2, <1>3, <2>2 DEF ClockInv
      <3>2. QED
        BY <1>1, <3>1 DEF FreshInv
    <2>3. QED
      BY <2>1, <2>2
  <1>7. SavedInv'
    BY DEF SavedInv, Follows
  <1>8. CoverInv'
    BY <1>1 DEF CoverInv, Covers
  <1>9. QED
    BY <1>4, <1>5, <1>6, <1>7, <1>8

\* Every step of a run or its report keeps the invariant.
LEMMA RunOnceStep ==
    ASSUME TypeOK, RerunInv, OnceInv, NEW r \in Runs,
           StartFresh(r) \/ RunStep(r) \/ KillRun(r)
    PROVE  OnceInv' /\ \A q \in Runs : runs'[q].request = runs[q].request
  <1> DEFINE Goal == OnceInv' /\ \A q \in Runs : runs'[q].request = runs[q].request
  <1> USE DEF TypeOK, SetRun, pollerVars, slackVars
  <1>t. /\ runs[r].thread \in Nat /\ runs[r].thread <= clock
        /\ runs[r].file.thread \in Nat /\ runs[r].file.thread <= clock
        /\ state.thread \in Nat /\ state.thread <= clock
    BY DEF OnceInv, ClockInv, States, RunRecords
  <1>1. ASSUME NEW step \in {"testing", "ended", "done", "rename"}, SetRun(r, step),
               UNCHANGED <<pc, copy, state, tmp, messages, clock>>
        PROVE  Goal
    <2>1. /\ \A q \in Runs : q # r => runs'[q] = runs[q]
          /\ runs'[r].request = runs[r].request /\ runs'[r].file = runs[r].file
          /\ runs'[r].thread = runs[r].thread /\ runs'[r].step = step
      BY <1>1 DEF RunRecords
    <2>2. QED
      BY <1>1, <1>t, <2>1, RunGoesOn
  <1>2. CASE StartFresh(r) \/ EndRun(r) \/ KillRun(r)
    BY <1>1, <1>2 DEF StartFresh, EndRun, KillRun
  <1>3. CASE ReadParent(r)
    <2> DEFINE t == IF IsRerun(r) THEN state.thread ELSE 0
    <2>1. /\ \A q \in Runs : q # r => runs'[q] = runs[q]
          /\ runs'[r].request = runs[r].request /\ runs'[r].file = runs[r].file
          /\ runs'[r].thread = t /\ runs'[r].step = "post"
      BY <1>3 DEF ReadParent, RunRecords
    <2>2. t <= clock /\ (~IsRerun(r) => t = 0)
      BY <1>t
    <2>3. QED
      BY <1>3, <2>1, <2>2, RunGoesOn DEF ReadParent
  <1>4. CASE PostResults(r)
    <2>1. CASE SetRun(r, "ended") /\ UNCHANGED clock
      BY <1>1, <1>4, <2>1 DEF PostResults
    <2>2. ASSUME NEW f \in BOOLEAN, runs[r].thread = 0, clock' = clock + 1,
                 runs' = [runs EXCEPT ![r].step = "writeTmp", ![r].thread = clock + 1,
                            ![r].file = [thread |-> clock + 1, last |-> clock + 1, failed |-> f]]
          PROVE  Goal
      <3> DEFINE file == [thread |-> clock + 1, last |-> clock + 1, failed |-> f]
      <3>1. /\ \A q \in Runs : q # r => runs'[q] = runs[q]
            /\ runs'[r].request = runs[r].request /\ runs'[r].file = file
            /\ runs'[r].thread = clock + 1 /\ runs'[r].step = "writeTmp"
        BY <2>2 DEF RunRecords
      <3>2. Covers(file)
        BY DEF Covers, OnceInv, ClockInv
      <3>3. file.thread = clock + 1
        OBVIOUS
      <3>4. UNCHANGED <<pc, copy, state, tmp, messages>>
        BY <1>4 DEF PostResults
      <3> HIDE DEF file
      <3>5. QED
        BY <2>2, <3>1, <3>2, <3>3, <3>4, RunSaves
    <2>3. CASE runs[r].thread # 0 /\ SetRun(r, "readState") /\ UNCHANGED clock
      <3>1. /\ \A q \in Runs : q # r => runs'[q] = runs[q]
            /\ runs'[r].request = runs[r].request /\ runs'[r].file = runs[r].file
            /\ runs'[r].thread = runs[r].thread /\ runs'[r].step = "readState"
        BY <2>3 DEF RunRecords
      <3>2. IsRerun(r)
        BY <1>4, <2>3 DEF PostResults, OnceInv, FreshInv
      <3>3. QED
        BY <1>4, <1>t, <2>3, <3>1, <3>2, RunGoesOn DEF PostResults
    <2>4. QED
      BY <1>4, <2>1, <2>2, <2>3 DEF PostResults
  <1>5. CASE ReadForUpdate(r)
    <2>1. PICK f \in BOOLEAN :
             runs' = [runs EXCEPT ![r].step = "writeTmp", ![r].file = [state EXCEPT !.failed = f]]
      BY <1>5 DEF ReadForUpdate
    <2> DEFINE file == [state EXCEPT !.failed = f]
    <2>2. file.thread = state.thread /\ file.last = state.last
      BY DEF States
    <2>3. /\ \A q \in Runs : q # r => runs'[q] = runs[q]
          /\ runs'[r].request = runs[r].request /\ runs'[r].file = file
          /\ runs'[r].thread = runs[r].thread /\ runs'[r].step = "writeTmp"
      BY <2>1 DEF RunRecords
    <2>4. IsRerun(r)
      BY <1>5 DEF ReadForUpdate, OnceInv, FreshInv
    <2>5. Covers(file)
      BY <2>2 DEF OnceInv, CoverInv, Covers
    <2>6. UNCHANGED <<pc, copy, state, tmp, messages, clock>>
      BY <1>5 DEF ReadForUpdate
    <2> HIDE DEF file
    <2>7. QED
      BY <1>t, <2>2, <2>3, <2>4, <2>5, <2>6, RunSaves
  <1>6. CASE ReportTmp(r)
    <2> USE DEF OnceInv
    <2>1. /\ \A q \in Runs : q # r => runs'[q] = runs[q]
          /\ runs'[r].request = runs[r].request /\ runs'[r].file = runs[r].file
          /\ runs'[r].thread = runs[r].thread /\ runs'[r].step = "rename"
      BY <1>6 DEF ReportTmp, RunRecords
    <2>2. /\ runs[r].step = "writeTmp" /\ tmp' = runs[r].file
          /\ UNCHANGED <<pc, copy, state, messages, clock>>
      BY <1>6 DEF ReportTmp
    <2>3. \A q \in Runs : runs'[q].request = runs[q].request /\ (IsRerun(q)' <=> IsRerun(q))
      BY <2>1 DEF IsRerun
    <2>4. \A q \in Runs : runs'[q].step \in {"readState", "post", "writeTmp"} =>
             q # r /\ runs'[q] = runs[q]
      BY <2>1
    <2>5. ClockInv'
      BY <2>1, <2>2, <2>3 DEF ClockInv
    <2>6. CopyInv'
      BY <2>2, <2>3 DEF CopyInv
    <2>7. FreshInv'
      BY <2>2, <2>3, <2>4 DEF FreshInv
    <2>8. SavedInv'
      <3>1. ASSUME NEW p \in Pollers, pc[p] \in {"saveRename"} \cup Saved
            PROVE  tmp'.thread # copy[p].thread
        <4>1. pc[p] \in Holding \ Early /\ pc[p] # "wait"
          BY <3>1, LoadedHolds
        <4>2. ~IsRerun(r)
          BY <2>2, <4>1, NoneActive DEF Active
        <4>3. QED
          BY <2>2, <4>2 DEF FreshInv
      <3>2. QED
        BY <2>2, <3>1 DEF SavedInv, Follows
    <2>9. CoverInv'
      BY <2>1, <2>2, <2>3, <2>4 DEF CoverInv, Covers
    <2>10. QED
      BY <2>3, <2>5, <2>6, <2>7, <2>8, <2>9
  <1>7. CASE ReportRename(r)
    <2> USE DEF OnceInv
    <2>1. /\ \A q \in Runs : q # r => runs'[q] = runs[q]
          /\ runs'[r].request = runs[r].request /\ runs'[r].file = runs[r].file
          /\ runs'[r].thread = runs[r].thread /\ runs'[r].step = "ended"
      BY <1>7 DEF ReportRename, RunRecords
    <2>2. /\ state' \in {state, tmp} /\ tmp' = NoState
          /\ UNCHANGED <<pc, copy, messages, clock>>
      BY <1>7 DEF ReportRename
    <2>3. \A q \in Runs : runs'[q].request = runs[q].request /\ (IsRerun(q)' <=> IsRerun(q))
      BY <2>1 DEF IsRerun
    <2>4. \A q \in Runs : runs'[q].step \in {"readState", "post", "writeTmp"} =>
             q # r /\ runs'[q] = runs[q]
      BY <2>1
    <2>5. NoState.thread = 0
      BY DEF NoState
    <2>6. ClockInv'
      BY <2>1, <2>2, <2>3, <2>5 DEF ClockInv
    <2>7. CopyInv'
      BY <2>2, <2>3 DEF CopyInv
    <2>8. FreshInv'
      BY <2>2, <2>3, <2>4, <2>5 DEF FreshInv
    <2>9. SavedInv'
      BY <2>2, <2>5, LoadedHolds DEF SavedInv, Follows, CopyInv
    <2>10. Covers(NoState)
      BY <2>5 DEF Covers, ClockInv
    <2>11. CoverInv'
      BY <2>1, <2>2, <2>3, <2>4, <2>10 DEF CoverInv, Covers
    <2>12. QED
      BY <2>3, <2>6, <2>7, <2>8, <2>9, <2>11
  <1>8. QED
    BY <1>2, <1>3, <1>4, <1>5, <1>6, <1>7 DEF RunStep

\* A new reply has a timestamp nobody has served.
LEMMA RequestStep ==
    ASSUME TypeOK, OnceInv, PostRequest
    PROVE  OnceInv'
  <1> USE DEF OnceInv, TypeOK
  <1>1. PICK t \in Threads, b \in BOOLEAN :
           messages' = messages \cup {[ts |-> clock + 1, thread |-> t, member |-> b]}
    BY DEF PostRequest
  <1>2. /\ clock' = clock + 1
        /\ UNCHANGED <<pc, copy, state, tmp, runs>>
    BY DEF PostRequest, pollerVars
  <1>3. t \in 1..clock
    BY DEF Threads, ClockInv, RunRecords
  <1>4. \A m \in messages' : m \in messages \/ (m.ts = clock + 1 /\ m.thread = t)
    BY <1>1
  <1>5. /\ state.thread \in Nat /\ tmp.thread \in Nat
        /\ \A p \in Pollers : copy[p].thread \in Nat
        /\ \A q \in Runs : /\ runs[q].thread \in Nat /\ runs[q].request \in Nat
                            /\ runs[q].file.thread \in Nat
        /\ \A m \in messages : m.ts \in Nat /\ m.thread \in Nat
    BY DEF States, RunRecords
  <1>6. ClockInv'
    <2>1. /\ state.thread <= clock' /\ tmp.thread <= clock'
          /\ \A p \in Pollers : copy[p].thread <= clock'
          /\ \A q \in Runs : /\ runs[q].thread <= clock' /\ runs[q].request <= clock'
                              /\ runs[q].file.thread <= clock'
      BY <1>2, <1>5 DEF ClockInv
    <2>2. \A m \in messages' : m.ts \in 1..clock' /\ m.thread \in 1..clock'
      BY <1>2, <1>3, <1>4, <1>5 DEF ClockInv
    <2>3. \A m1, m2 \in messages' : m1.ts = m2.ts => m1.thread = m2.thread
      BY <1>4, <1>5 DEF ClockInv
    <2>4. QED
      BY <1>2, <2>1, <2>2, <2>3 DEF ClockInv
  <1>7. CopyInv'
    BY <1>1, <1>2 DEF CopyInv
  <1>8. FreshInv'
    BY <1>2 DEF FreshInv, IsRerun
  <1>9. SavedInv'
    BY <1>2 DEF SavedInv, Follows
  <1>10. \A q \in Runs : runs[q].request # clock + 1
    BY <1>5 DEF ClockInv
  <1>12. CoverInv'
    BY <1>2, <1>4, <1>10 DEF CoverInv, Covers, IsRerun
  <1>13. QED
    BY <1>6, <1>7, <1>8, <1>9, <1>12

\* Every step keeps the invariant, and none serves a reply that has been served.
LEMMA OnceInvStep ==
    ASSUME TypeOK, LockInv, RerunInv, OnceInv, RerunAtMostOnce, [Next]_vars
    PROVE  OnceInv' /\ RerunAtMostOnce'
  <1> USE DEF Goto
  <1>0. ASSUME \A r \in Runs : runs'[r].request = runs[r].request PROVE RerunAtMostOnce'
    BY <1>0 DEF RerunAtMostOnce, IsRerun
  <1>1. ASSUME NEW p \in Pollers, UNCHANGED <<state, tmp, runs, messages, clock>>, Exit(p)
        PROVE  OnceInv' /\ RerunAtMostOnce'
    BY <1>0, <1>1, PollerEnds
  <1>2. ASSUME NEW p \in Pollers, UNCHANGED <<copy, state, tmp, runs, messages, clock>>,
               NEW l \in Acquiring \cup Early \cup {"load"}, pc' = [pc EXCEPT ![p] = l],
               pc[p] \notin Loaded
        PROVE  OnceInv' /\ RerunAtMostOnce'
    <2>1. l \notin Loaded \cup Carrying \cup Saved \cup {"saveRename"}
      BY DEF Acquiring, Early, Loaded, Carrying, Saved
    <2>2. QED
      BY <1>0, <1>2, <2>1, LoadedHolds, PollerGoesOn
  <1>3. ASSUME NEW p \in Pollers, UNCHANGED <<copy, state, tmp, runs, messages, clock>>,
               NEW l \in Saved, pc' = [pc EXCEPT ![p] = l], pc[p] \in Saved
        PROVE  OnceInv' /\ RerunAtMostOnce'
    BY <1>0, <1>3, LoadedHolds, PollerGoesOn
  <1>4. ASSUME NEW p \in Pollers,
               Launch(p) \/ ReadLock(p) \/ RemoveStaleLock(p) \/ WriteLock(p)
        PROVE  OnceInv' /\ RerunAtMostOnce'
    <2>1. pc[p] \notin Loaded
      BY <1>4 DEF Launch, ReadLock, RemoveStaleLock, WriteLock, Loaded
    <2>2. CASE Exit(p) /\ ReadLock(p)
      BY <1>1, <2>2 DEF ReadLock, slackVars
    <2>3. CASE /\ UNCHANGED <<copy, state, tmp, runs, messages, clock>>
               /\ \E l \in Acquiring \cup Early : pc' = [pc EXCEPT ![p] = l]
      BY <1>2, <2>1, <2>3
    <2>4. QED
      BY <1>4, <2>2, <2>3 DEF Launch, ReadLock, RemoveStaleLock, WriteLock, Acquiring, Early,
                              slackVars
  <1>5. ASSUME NEW p \in Pollers, NEW s \in 1..2,
               ReadTestLock(p, s) \/ RemoveStaleTestLock(p, s) \/ Pgrep(p, s)
        PROVE  OnceInv' /\ RerunAtMostOnce'
    <2>1. UNCHANGED <<state, tmp, runs, messages, clock>>
      BY <1>5 DEF ReadTestLock, RemoveStaleTestLock, Pgrep, slackVars
    <2>2. CASE Exit(p)
      BY <1>1, <2>1, <2>2
    <2>3. CASE /\ UNCHANGED copy
               /\ pc[p] \in {ReadTest[s], RemoveTest[s], PgrepAt[s]}
               /\ \E l \in {RemoveTest[s], PgrepAt[s], Idle[s]} : pc' = [pc EXCEPT ![p] = l]
      <3>1. CASE s = 1
        <4>1. /\ {ReadTest[s], RemoveTest[s], PgrepAt[s]} \cap Loaded = {}
              /\ {RemoveTest[s], PgrepAt[s], Idle[s]} \subseteq Early \cup {"load"}
          BY <3>1 DEF ReadTest, RemoveTest, PgrepAt, Idle, Early, Loaded
        <4>2. QED
          BY <1>2, <2>1, <2>3, <4>1
      <3>2. CASE s = 2
        <4>1. {ReadTest[s], RemoveTest[s], PgrepAt[s], Idle[s]} \subseteq Saved
          BY <3>2 DEF ReadTest, RemoveTest, PgrepAt, Idle, Saved
        <4>2. QED
          BY <1>3, <2>1, <2>3, <4>1
      <3>3. QED
        BY <3>1, <3>2
    <2>4. QED
      BY <1>5, <2>2, <2>3 DEF ReadTestLock, RemoveStaleTestLock, Pgrep, Busy, Return
  <1>6. ASSUME NEW p \in Pollers, LoadState(p) \/ FindRequest(p) \/ SaveTmp(p) \/ SaveRename(p)
        PROVE  OnceInv' /\ RerunAtMostOnce'
    <2>1. UNCHANGED runs
      BY <1>6 DEF LoadState, FindRequest, SaveTmp, SaveRename
    <2>2. QED
      BY <1>0, <1>6, <2>1, LoadStep, FindStep, SaveTmpStep, SaveRenameStep
  <1>7. ASSUME NEW p \in Pollers, Wait(p) \/ Crash(p)
        PROVE  OnceInv' /\ RerunAtMostOnce'
    BY <1>1, <1>7 DEF Wait, Crash, Return, slackVars
  <1>8. ASSUME NEW r \in Runs, StartFresh(r) \/ RunStep(r) \/ KillRun(r)
        PROVE  OnceInv' /\ RerunAtMostOnce'
    BY <1>0, <1>8, RunOnceStep
  <1>9. CASE PostRequest
    BY <1>0, <1>9, RequestStep DEF PostRequest
  <1>10. CASE UNCHANGED vars
    BY <1>10 DEF vars, OnceInv, ClockInv, CopyInv, FreshInv, SavedInv, CoverInv, Covers,
                 Follows, IsRerun, RerunAtMostOnce
  <1>11. QED
    BY <1>4, <1>5, <1>6, <1>7, <1>8, <1>9, <1>10, ExecuteStep DEF Next, PollerStep

\* Nothing is served in the beginning.
LEMMA InitOnce == Init => OnceInv /\ RerunAtMostOnce
  BY DEF Init, OnceInv, ClockInv, CopyInv, FreshInv, SavedInv, CoverInv, Covers, Follows,
         IsRerun, RerunAtMostOnce, Loaded, Carrying, Saved, NoState

\* RerunAtMostOnce for any number of pollers, runs, replies and faults: the timestamp is
\* saved before the rerun starts, and no copy of the state file that a report or a dead
\* poller has left can bring an older one back for the poller that reads it next.
THEOREM ReplyIsServedOnce ==
    ASSUME Overlap = FALSE
    PROVE  Spec => []RerunAtMostOnce
  <1>1. Init => LockInv /\ RerunInv /\ RerunsDoNotOverlap /\ OnceInv /\ RerunAtMostOnce
    <2>1. Init => LockInv /\ RerunInv /\ RerunsDoNotOverlap
      BY DEF Init, LockInv, RerunInv, RerunsDoNotOverlap, Acquiring, Holding, IsRerun, Active
    <2>2. Init => OnceInv /\ RerunAtMostOnce
      BY InitOnce
    <2>3. QED
      BY <2>1, <2>2
  <1>2. TypeOK /\ LockInv /\ RerunInv /\ RerunsDoNotOverlap /\ OnceInv /\ RerunAtMostOnce
           /\ [Next]_vars
          => LockInv' /\ RerunInv' /\ RerunsDoNotOverlap' /\ OnceInv' /\ RerunAtMostOnce'
    BY LockInvStep, RerunInvStep, OnceInvStep
  <1>3. QED
    BY <1>1, <1>2, TypeCorrect, PTL DEF Spec

-----------------------------------------------------------------------------
(* The last processed timestamp does not go back *)

\* Two states of one thread are both missing files, or there are none.
Apart(s, t) == s.thread = t.thread => s.thread = 0

\* If s and t are of one thread, s is not older.
NotOlder(s, t) == s.thread = t.thread => s.last >= t.last

\* A missing file has processed nothing.
MissingInv ==
    /\ state.thread = 0 => state.last = 0
    /\ tmp.thread = 0 => tmp.last = 0
    /\ \A r \in Runs : runs[r].step = "writeTmp" /\ runs[r].file.thread = 0 =>
          runs[r].file.last = 0

\* What a poller is about to save is not older than the state; a report that is about to
\* rename does so to a thread the poller does not know, as it has begun to write after
\* the first look of the poller at the tests.  Once the poller has saved, what is left in
\* the temporary file is of another thread.
PollerOrder ==
    \A p \in Pollers :
        /\ pc[p] \in {"find", "saveTmp"} => NotOlder(copy[p], state)
        /\ pc[p] \in Saved => Apart(tmp, state)
        /\ \A q \in Runs : runs[q].step = "rename" =>
              /\ pc[p] = "load" => Apart(tmp, state)
              /\ pc[p] \in {"find", "saveTmp"} => Apart(tmp, copy[p])

\* So it is when a rerun begins and until it writes.
RerunOrder ==
    \A r \in Runs : IsRerun(r) =>
        /\ runs[r].step \in {"testing", "post", "readState"} => Apart(tmp, state)
        /\ runs[r].step = "writeTmp" =>
              Apart(tmp, runs[r].file) /\ NotOlder(runs[r].file, state)

OrderInv == NotOlder(tmp, state) /\ MissingInv /\ PollerOrder /\ RerunOrder

\* A poller that moves with the files as they are.
LEMMA OrderKept ==
    ASSUME TypeOK, OrderInv, UNCHANGED <<state, tmp, runs>>,
           NEW p \in Pollers, NEW l, pc' = [pc EXCEPT ![p] = l],
           \A q \in Pollers : q # p => copy'[q] = copy[q],
           l \in Saved => pc[p] \in Saved,
           l = "load" => \A q \in Runs : runs[q].step # "rename",
           l \in {"find", "saveTmp"} =>
              /\ NotOlder(copy'[p], state)
              /\ \A q \in Runs : runs[q].step = "rename" => Apart(tmp, copy'[p])
    PROVE  OrderInv'
  <1> USE DEF OrderInv, TypeOK
  <1>1. pc'[p] = l /\ \A q \in Pollers : q # p => pc'[q] = pc[q]
    OBVIOUS
  <1>2. "find" \notin Saved /\ "saveTmp" \notin Saved /\ "load" \notin Saved
    BY DEF Saved
  <1>3. NotOlder(tmp, state)' /\ MissingInv'
    BY DEF NotOlder, MissingInv
  <1>4. PollerOrder'
    BY <1>1, <1>2 DEF PollerOrder, NotOlder, Apart
  <1>5. RerunOrder'
    BY DEF RerunOrder, IsRerun, NotOlder, Apart
  <1>6. QED
    BY <1>3, <1>4, <1>5

\* A poller that is past its first look at the tests and does not wait is the only one,
\* and there is no rerun.
LEMMA OnlyOnePast ==
    ASSUME LockInv, RerunInv, NEW p \in Pollers, pc[p] \in Carrying
    PROVE  /\ \A q \in Pollers : q # p => pc[q] \notin Holding
           /\ \A r \in Runs : IsRerun(r) =>
                 runs[r].step \notin {"testing", "post", "readState", "writeTmp", "rename"}
  BY LoadedHolds, NoneActive DEF LockInv, Active

\* SaveTmp writes what is not older than the state.
LEMMA SaveTmpOrder ==
    ASSUME TypeOK, LockInv, RerunInv, OnceInv, OrderInv, NEW p \in Pollers, SaveTmp(p)
    PROVE  OrderInv'
  <1> USE DEF OrderInv, TypeOK
  <1>1. /\ pc[p] = "saveTmp" /\ pc'[p] = "saveRename" /\ tmp' = copy[p]
        /\ UNCHANGED <<state, runs, copy>>
        /\ \A q \in Pollers : q # p => pc'[q] = pc[q]
    BY DEF SaveTmp, Goto
  <1>2. /\ "saveTmp" \in Carrying /\ "saveTmp" \in Loaded
        /\ Saved \cup {"load", "find", "saveTmp"} \subseteq Holding
        /\ "saveRename" \notin Saved
    BY DEF Carrying, Loaded, Saved, Holding
  <1>3. NotOlder(tmp, state)' /\ MissingInv'
    BY <1>1, <1>2 DEF NotOlder, MissingInv, PollerOrder, OnceInv, CopyInv
  <1>4. PollerOrder'
    BY <1>1, <1>2, OnlyOnePast DEF PollerOrder
  <1>5. RerunOrder'
    BY <1>1, <1>2, OnlyOnePast DEF RerunOrder, IsRerun
  <1>6. QED
    BY <1>3, <1>4, <1>5

\* SaveRename leaves no temporary file.
LEMMA SaveRenameOrder ==
    ASSUME TypeOK, LockInv, RerunInv, OrderInv, NEW p \in Pollers, SaveRename(p)
    PROVE  OrderInv' /\ NotOlder(state', state)
  <1> USE DEF OrderInv, TypeOK
  <1>1. /\ pc[p] = "saveRename" /\ UNCHANGED runs
        /\ pc'[p] \in {"off", "readTest2"}
        /\ \A q \in Pollers : q # p => pc'[q] = pc[q] /\ copy'[q] = copy[q]
    <2>1. pc[p] = "saveRename" /\ UNCHANGED runs
      BY DEF SaveRename
    <2>2. CASE Exit(p)
      BY <2>1, <2>2 DEF Exit, Goto
    <2>3. CASE Goto(p, "readTest2") /\ UNCHANGED copy
      BY <2>1, <2>3 DEF Goto
    <2>4. QED
      BY <2>2, <2>3 DEF SaveRename
  <1>2. NoState.thread = 0 /\ NoState.last = 0
    BY DEF NoState
  <1>3. state.last \in Nat /\ tmp.last \in Nat
    BY DEF States
  <1>4. CASE UNCHANGED <<state, tmp>> /\ Exit(p)
    <2>1. OrderInv'
      BY <1>1, <1>4, OrderKept DEF Exit, Goto, Saved
    <2>2. QED
      BY <1>3, <1>4, <2>1 DEF NotOlder
  <1>5. CASE state' = tmp /\ tmp' = NoState
    <2>1. /\ "saveRename" \in Carrying
          /\ Saved \cup {"load", "find", "saveTmp"} \subseteq Holding
          /\ pc'[p] \notin {"load", "find", "saveTmp"}
      BY <1>1 DEF Carrying, Saved, Holding
    <2>2. NotOlder(tmp, state)' /\ MissingInv'
      BY <1>1, <1>2, <1>5 DEF NotOlder, MissingInv
    <2>3. PollerOrder'
      BY <1>1, <1>2, <1>5, <2>1, OnlyOnePast DEF PollerOrder, Apart
    <2>4. RerunOrder'
      BY <1>1, <2>1, OnlyOnePast DEF RerunOrder, IsRerun
    <2>5. QED
      BY <1>5, <2>2, <2>3, <2>4 DEF NotOlder
  <1>6. QED
    BY <1>4, <1>5 DEF SaveRename

\* A rerun begins when what is left in the temporary file is of another thread.
LEMMA ExecuteOrder ==
    ASSUME TypeOK, LockInv, OrderInv, NEW p \in Pollers, Execute(p)
    PROVE  OrderInv'
  <1> USE DEF OrderInv, TypeOK
  <1>1. PICK r \in Runs : runs' = [runs EXCEPT ![r].step = "testing",
                                              ![r].request = copy[p].last]
    BY DEF Execute
  <1>2. /\ runs'[r].step = "testing"
        /\ \A q \in Runs : q # r => runs'[q] = runs[q]
    BY <1>1 DEF RunRecords
  <1>3. /\ pc[p] = "execute" /\ pc'[p] = "wait" /\ \A q \in Pollers : q # p => pc'[q] = pc[q]
        /\ UNCHANGED <<copy, state, tmp>>
    BY DEF Execute, Goto
  <1>4. /\ "execute" \in Saved /\ "wait" \notin Saved
    BY DEF Saved
  <1>5. NotOlder(tmp, state)' /\ MissingInv'
    BY <1>2, <1>3 DEF NotOlder, MissingInv
  <1>6. PollerOrder'
    <2>1. \A q \in Runs : runs'[q].step = "rename" => runs[q].step = "rename"
      BY <1>2
    <2>2. QED
      BY <1>3, <1>4, <2>1 DEF PollerOrder, NotOlder, Apart
  <1>7. RerunOrder'
    <2>1. Apart(tmp, state)
      BY <1>3, <1>4 DEF PollerOrder
    <2>2. ASSUME NEW q \in Runs, q # r, IsRerun(q)'
          PROVE  runs'[q] = runs[q] /\ IsRerun(q)
      BY <1>2, <2>2 DEF IsRerun
    <2>3. QED
      BY <1>2, <1>3, <2>1, <2>2 DEF RerunOrder, NotOlder, Apart
  <1>8. QED
    BY <1>5, <1>6, <1>7

\* A run that goes on with the files as they are.
LEMMA RunOrder ==
    ASSUME TypeOK, OrderInv, UNCHANGED <<pc, copy, state, tmp>>,
           NEW r \in Runs, \A q \in Runs : q # r => runs'[q] = runs[q],
           runs'[r].request = runs[r].request,
           runs'[r].step # "rename",
           IsRerun(r) /\ runs'[r].step \in {"testing", "post", "readState"} =>
              runs[r].step \in {"testing", "post", "readState"},
           runs'[r].step = "writeTmp" =>
              /\ Apart(tmp, runs'[r].file) /\ NotOlder(runs'[r].file, state)
              /\ runs'[r].file.thread = 0 => runs'[r].file.last = 0
    PROVE  OrderInv'
  <1> USE DEF OrderInv, TypeOK
  <1>1. \A q \in Runs : IsRerun(q)' <=> IsRerun(q)
    BY DEF IsRerun
  <1>2. NotOlder(tmp, state)' /\ MissingInv'
    BY DEF NotOlder, MissingInv
  <1>3. PollerOrder'
    BY DEF PollerOrder, NotOlder, Apart
  <1>4. ASSUME NEW q \in Runs, IsRerun(q)
        PROVE  /\ runs'[q].step \in {"testing", "post", "readState"} => Apart(tmp, state)
               /\ runs'[q].step = "writeTmp" =>
                     Apart(tmp, runs'[q].file) /\ NotOlder(runs'[q].file, state)
    BY <1>4 DEF RerunOrder
  <1>5. RerunOrder'
    BY <1>1, <1>4 DEF RerunOrder, Apart, NotOlder
  <1>6. QED
    BY <1>2, <1>3, <1>5

\* Every step of a run or its report keeps the order, and a report makes no older state
\* of the same thread the state.
LEMMA RunOrderStep ==
    ASSUME TypeOK, RerunInv, RerunsDoNotOverlap, OnceInv, OrderInv, NEW r \in Runs,
           StartFresh(r) \/ RunStep(r) \/ KillRun(r)
    PROVE  OrderInv' /\ NotOlder(state', state)
  <1> DEFINE Goal == OrderInv' /\ NotOlder(state', state)
  <1> USE DEF TypeOK, SetRun, pollerVars, slackVars
  <1>0. ASSUME UNCHANGED state PROVE NotOlder(state', state)
    BY <1>0 DEF NotOlder, States
  <1>1. ASSUME NEW step \in {"testing", "ended", "done"}, SetRun(r, step),
               step = "testing" => ~IsRerun(r),
               UNCHANGED <<pc, copy, state, tmp>>
        PROVE  Goal
    <2>1. /\ \A q \in Runs : q # r => runs'[q] = runs[q]
          /\ runs'[r].request = runs[r].request /\ runs'[r].step = step
      BY <1>1 DEF RunRecords
    <2>2. QED
      BY <1>0, <1>1, <2>1, RunOrder
  <1>2. CASE StartFresh(r) \/ EndRun(r) \/ KillRun(r)
    BY <1>1, <1>2 DEF StartFresh, EndRun, KillRun, RerunInv, IsRerun
  <1>3. CASE ReadParent(r)
    <2>1. /\ \A q \in Runs : q # r => runs'[q] = runs[q]
          /\ runs'[r].request = runs[r].request
          /\ runs[r].step = "testing" /\ runs'[r].step = "post"
      BY <1>3 DEF ReadParent, RunRecords
    <2>2. QED
      BY <1>0, <1>3, <2>1, RunOrder DEF ReadParent
  <1>4. CASE PostResults(r)
    <2>1. CASE SetRun(r, "ended") /\ UNCHANGED clock
      BY <1>1, <1>4, <2>1 DEF PostResults
    <2>2. ASSUME NEW f \in BOOLEAN,
                 runs' = [runs EXCEPT ![r].step = "writeTmp", ![r].thread = clock + 1,
                            ![r].file = [thread |-> clock + 1, last |-> clock + 1, failed |-> f]]
          PROVE  Goal
      <3> DEFINE file == [thread |-> clock + 1, last |-> clock + 1, failed |-> f]
      <3>1. /\ \A q \in Runs : q # r => runs'[q] = runs[q]
            /\ runs'[r].request = runs[r].request /\ runs'[r].file = file
            /\ runs'[r].step = "writeTmp"
        BY <2>2 DEF RunRecords
      <3>2. file.thread = clock + 1
        OBVIOUS
      <3>3. UNCHANGED <<pc, copy, state, tmp>>
        BY <1>4 DEF PostResults
      <3> HIDE DEF file
      <3>4. /\ state.thread \in Nat /\ state.thread <= clock
            /\ tmp.thread \in Nat /\ tmp.thread <= clock
        BY DEF OnceInv, ClockInv, States
      <3>5. Apart(tmp, file) /\ NotOlder(file, state) /\ file.thread # 0
        BY <3>2, <3>4 DEF Apart, NotOlder
      <3>6. QED
        BY <1>0, <3>1, <3>3, <3>5, RunOrder
    <2>3. CASE runs[r].thread # 0 /\ SetRun(r, "readState") /\ UNCHANGED clock
      <3>1. /\ \A q \in Runs : q # r => runs'[q] = runs[q]
            /\ runs'[r].request = runs[r].request
            /\ runs[r].step = "post" /\ runs'[r].step = "readState"
        BY <1>4, <2>3 DEF RunRecords, PostResults
      <3>2. QED
        BY <1>0, <1>4, <3>1, RunOrder DEF PostResults
    <2>4. QED
      BY <1>4, <2>1, <2>2, <2>3 DEF PostResults
  <1>5. CASE ReadForUpdate(r)
    <2>1. PICK f \in BOOLEAN :
             runs' = [runs EXCEPT ![r].step = "writeTmp", ![r].file = [state EXCEPT !.failed = f]]
      BY <1>5 DEF ReadForUpdate
    <2> DEFINE file == [state EXCEPT !.failed = f]
    <2>2. file.thread = state.thread /\ file.last = state.last /\ state.last \in Nat
      BY DEF States
    <2>3. /\ \A q \in Runs : q # r => runs'[q] = runs[q]
          /\ runs'[r].request = runs[r].request /\ runs'[r].file = file
          /\ runs[r].step = "readState" /\ runs'[r].step = "writeTmp"
      BY <1>5, <2>1 DEF RunRecords, ReadForUpdate
    <2> HIDE DEF file
    <2>4. IsRerun(r)
      BY <2>3 DEF OnceInv, FreshInv
    <2>5. Apart(tmp, file) /\ NotOlder(file, state) /\ (file.thread = 0 => file.last = 0)
      BY <2>2, <2>3, <2>4 DEF OrderInv, RerunOrder, MissingInv, Apart, NotOlder
    <2>6. QED
      BY <1>0, <1>5, <2>3, <2>5, RunOrder DEF ReadForUpdate
  <1>6. CASE ReportTmp(r)
    <2> USE DEF OrderInv
    <2>1. /\ \A q \in Runs : q # r => runs'[q] = runs[q]
          /\ runs'[r].request = runs[r].request /\ runs'[r].step = "rename"
      BY <1>6 DEF ReportTmp, RunRecords
    <2>2. /\ runs[r].step = "writeTmp" /\ tmp' = runs[r].file
          /\ UNCHANGED <<pc, copy, state>>
      BY <1>6 DEF ReportTmp
    <2>3. \A q \in Runs : IsRerun(q)' <=> IsRerun(q)
      BY <2>1 DEF IsRerun
    <2>4. MissingInv'
      BY <2>1, <2>2 DEF MissingInv
    <2>5. CASE ~IsRerun(r)
      <3>1. /\ tmp'.thread # state.thread
            /\ \A p \in Pollers : tmp'.thread # copy[p].thread
            /\ \A q \in Runs : runs[q].step = "writeTmp" /\ q # r =>
                  tmp'.thread # runs[q].file.thread
        BY <2>2, <2>5 DEF OnceInv, FreshInv
      <3>2. NotOlder(tmp, state)'
        BY <2>2, <3>1 DEF NotOlder
      <3>3. PollerOrder'
        BY <2>2, <3>1 DEF PollerOrder, NotOlder, Apart
      <3>4. RerunOrder'
        BY <2>1, <2>2, <2>3, <3>1 DEF RerunOrder, NotOlder, Apart
      <3>5. QED
        BY <1>0, <2>2, <2>4, <3>2, <3>3, <3>4
    <2>6. CASE IsRerun(r)
      <3>1. Active(r)
        BY <2>2 DEF Active
      <3>2. \A p \in Pollers : pc[p] \notin Saved \cup {"load", "find", "saveTmp"}
        <4>1. /\ Saved \cup {"load", "find", "saveTmp"} \subseteq Holding \ Early
              /\ "wait" \notin Saved \cup {"load", "find", "saveTmp"}
          BY DEF Saved, Holding, Early
        <4>2. QED
          BY <2>6, <3>1, <4>1, NoneActive
      <3>3. \A q \in Runs : IsRerun(q) /\ q # r =>
               runs[q].step \notin {"testing", "post", "readState", "writeTmp"}
        BY <2>6, <3>1 DEF RerunsDoNotOverlap, Active
      <3>4. NotOlder(tmp, state)'
        BY <2>2, <2>6 DEF RerunOrder, NotOlder
      <3>5. PollerOrder'
        BY <2>2, <3>2 DEF PollerOrder
      <3>6. RerunOrder'
        BY <2>1, <2>3, <3>3 DEF RerunOrder
      <3>7. QED
        BY <1>0, <2>2, <2>4, <3>4, <3>5, <3>6
    <2>7. QED
      BY <2>5, <2>6
  <1>7. CASE ReportRename(r)
    <2> USE DEF OrderInv
    <2>1. /\ \A q \in Runs : q # r => runs'[q] = runs[q]
          /\ runs'[r].request = runs[r].request /\ runs'[r].step = "ended"
      BY <1>7 DEF ReportRename, RunRecords
    <2>2. /\ state' \in {state, tmp} /\ tmp' = NoState
          /\ runs[r].step = "rename"
          /\ UNCHANGED <<pc, copy>>
      BY <1>7 DEF ReportRename
    <2>3. \A q \in Runs : IsRerun(q)' <=> IsRerun(q)
      BY <2>1 DEF IsRerun
    <2>4. NoState.thread = 0 /\ NoState.last = 0
      BY DEF NoState
    <2>5. /\ state.last \in Nat /\ tmp.last \in Nat
          /\ \A q \in Runs : runs[q].file.last \in Nat
      BY DEF States, RunRecords
    <2>6. MissingInv'
      BY <2>1, <2>2, <2>4 DEF MissingInv
    <2>7. NotOlder(tmp, state)' /\ NotOlder(state', state)
      BY <2>2, <2>4, <2>5 DEF NotOlder, MissingInv
    <2>8. PollerOrder'
      <3>1. ASSUME NEW p \in Pollers, pc[p] \in {"find", "saveTmp"}
            PROVE  NotOlder(copy[p], state')
        <4>1. copy[p].thread # 0
          BY <3>1 DEF OnceInv, CopyInv, Loaded
        <4>2. NotOlder(copy[p], state) /\ Apart(tmp, copy[p])
          BY <2>2, <3>1 DEF PollerOrder
        <4>3. QED
          BY <2>2, <4>1, <4>2 DEF Apart, NotOlder
      <3>2. QED
        BY <2>2, <2>4, <3>1 DEF PollerOrder, Apart, NotOlder
    <2>9. RerunOrder'
      <3>1. ASSUME NEW q \in Runs, q # r, IsRerun(q), runs[q].step = "writeTmp"
            PROVE  NotOlder(runs[q].file, state')
        <4>1. NotOlder(runs[q].file, state) /\ Apart(tmp, runs[q].file)
          BY <3>1 DEF RerunOrder
        <4>2. QED
          BY <2>2, <2>5, <3>1, <4>1 DEF Apart, NotOlder, MissingInv
      <3>2. QED
        BY <2>1, <2>2, <2>3, <2>4, <3>1 DEF RerunOrder, Apart, NotOlder
    <2>10. QED
      BY <2>6, <2>7, <2>8, <2>9
  <1>8. QED
    BY <1>2, <1>3, <1>4, <1>5, <1>6, <1>7 DEF RunStep

\* Every step keeps the order, and none makes an older state of the same thread the state.
LEMMA OrderStep ==
    ASSUME TypeOK, LockInv, RerunInv, RerunsDoNotOverlap, OnceInv, OrderInv, [Next]_vars
    PROVE  OrderInv' /\ NotOlder(state', state)
  <1> USE DEF TypeOK, Goto, slackVars
  <1> DEFINE Goal == OrderInv' /\ NotOlder(state', state)
  <1>0. ASSUME UNCHANGED state PROVE NotOlder(state', state)
    BY <1>0 DEF NotOlder, States
  <1>1. ASSUME NEW p \in Pollers, UNCHANGED <<state, tmp, runs>>, Exit(p)
        PROVE  Goal
    BY <1>0, <1>1, OrderKept DEF Exit, Saved
  <1>2. ASSUME NEW p \in Pollers, UNCHANGED <<copy, state, tmp, runs>>,
               NEW l, pc' = [pc EXCEPT ![p] = l],
               l \in Saved => pc[p] \in Saved,
               l \notin {"load", "find", "saveTmp"}
        PROVE  Goal
    BY <1>0, <1>2, OrderKept
  <1>3. ASSUME NEW p \in Pollers,
               Launch(p) \/ ReadLock(p) \/ RemoveStaleLock(p) \/ WriteLock(p)
        PROVE  Goal
    <2>1. CASE Exit(p)
      BY <1>1, <1>3, <2>1 DEF Launch, ReadLock, RemoveStaleLock, WriteLock
    <2>2. CASE /\ UNCHANGED <<copy, state, tmp, runs>>
               /\ \E l \in Acquiring \cup Early : pc' = [pc EXCEPT ![p] = l]
      <3>1. (Acquiring \cup Early) \cap (Saved \cup {"load", "find", "saveTmp"}) = {}
        BY DEF Acquiring, Early, Saved
      <3>2. QED
        BY <1>2, <2>2, <3>1
    <2>3. QED
      BY <1>3, <2>1, <2>2 DEF Launch, ReadLock, RemoveStaleLock, WriteLock, Acquiring, Early
  <1>4. ASSUME NEW p \in Pollers, NEW s \in 1..2,
               ReadTestLock(p, s) \/ RemoveStaleTestLock(p, s) \/ Pgrep(p, s)
        PROVE  Goal
    <2>1. UNCHANGED <<state, tmp, runs>>
      BY <1>4 DEF ReadTestLock, RemoveStaleTestLock, Pgrep
    <2>2. CASE Exit(p)
      BY <1>1, <2>1, <2>2
    <2>3. CASE /\ UNCHANGED copy
               /\ pc[p] \in {ReadTest[s], RemoveTest[s], PgrepAt[s]}
               /\ \E l \in {RemoveTest[s], PgrepAt[s]} : pc' = [pc EXCEPT ![p] = l]
      <3>1. /\ {RemoveTest[s], PgrepAt[s]} \cap {"load", "find", "saveTmp"} = {}
            /\ s = 1 => {RemoveTest[s], PgrepAt[s]} \cap Saved = {}
            /\ s = 2 => {ReadTest[s], RemoveTest[s], PgrepAt[s]} \subseteq Saved
        BY DEF ReadTest, RemoveTest, PgrepAt, Saved
      <3>2. PICK l \in {RemoveTest[s], PgrepAt[s]} : pc' = [pc EXCEPT ![p] = l]
        BY <2>3
      <3>3. l \notin {"load", "find", "saveTmp"}
        BY <3>1
      <3>4. CASE s = 1
        <4>1. l \notin Saved
          BY <3>1, <3>4
        <4>2. QED
          BY <1>2, <2>1, <2>3, <3>2, <3>3, <4>1
      <3>5. CASE s = 2
        <4>1. pc[p] \in Saved
          BY <2>3, <3>1, <3>5
        <4>2. QED
          BY <1>2, <2>1, <2>3, <3>2, <3>3, <4>1
      <3>6. QED
        BY <3>4, <3>5
    <2>4. CASE /\ UNCHANGED copy
               /\ pc[p] = PgrepAt[s] /\ pc' = [pc EXCEPT ![p] = Idle[s]]
               /\ \A r \in Runs : ~Active(r)
      <3>1. \A q \in Runs : runs[q].step # "rename"
        BY <2>4 DEF Active
      <3>2. /\ Idle[s] \notin {"find", "saveTmp"}
            /\ Idle[s] \in Saved => PgrepAt[s] \in Saved
        BY DEF Idle, PgrepAt, Saved
      <3>3. QED
        BY <1>0, <2>1, <2>4, <3>1, <3>2, OrderKept
    <2>5. QED
      BY <1>4, <2>2, <2>3, <2>4 DEF ReadTestLock, RemoveStaleTestLock, Pgrep, Busy, Return
  <1>5. ASSUME NEW p \in Pollers, LoadState(p) PROVE Goal
    <2>1. CASE Exit(p)
      BY <1>1, <1>5, <2>1 DEF LoadState
    <2>2. CASE copy' = [copy EXCEPT ![p] = state] /\ pc' = [pc EXCEPT ![p] = "find"]
      <3>1. pc[p] = "load" /\ UNCHANGED <<state, tmp, runs>>
        BY <1>5 DEF LoadState
      <3>2. copy'[p] = state /\ \A q \in Pollers : q # p => copy'[q] = copy[q]
        BY <2>2
      <3>3. \A q \in Runs : runs[q].step = "rename" => Apart(tmp, copy'[p])
        BY <3>1, <3>2 DEF OrderInv, PollerOrder
      <3>4. NotOlder(copy'[p], state)
        BY <3>2 DEF NotOlder, States
      <3>5. "find" \notin Saved
        BY DEF Saved
      <3>6. QED
        BY <1>0, <2>2, <3>1, <3>2, <3>3, <3>4, <3>5, OrderKept
    <2>3. QED
      BY <1>5, <2>1, <2>2 DEF LoadState
  <1>6. ASSUME NEW p \in Pollers, FindRequest(p) PROVE Goal
    <2>1. pc[p] = "find" /\ UNCHANGED <<state, tmp, runs>>
      BY <1>6 DEF FindRequest
    <2>2. CASE Exit(p)
      BY <1>1, <2>1, <2>2
    <2>3. ASSUME NEW m \in NewRequests(copy[p]),
                 copy' = [copy EXCEPT ![p].last = m.ts],
                 pc' = [pc EXCEPT ![p] = "saveTmp"]
          PROVE  Goal
      <3>1. /\ copy'[p].thread = copy[p].thread /\ copy'[p].last = m.ts
            /\ \A q \in Pollers : q # p => copy'[q] = copy[q]
        BY <2>3 DEF States
      <3>2. /\ m.ts > copy[p].last /\ m.ts \in Nat /\ copy[p].last \in Nat
            /\ state.last \in Nat
        BY <2>3 DEF NewRequests, States
      <3>3. NotOlder(copy[p], state)
        BY <2>1 DEF OrderInv, PollerOrder
      <3>4. NotOlder(copy'[p], state)
        BY <3>1, <3>2, <3>3 DEF NotOlder
      <3>5. \A q \in Runs : runs[q].step = "rename" => Apart(tmp, copy'[p])
        BY <2>1, <3>1 DEF OrderInv, PollerOrder, Apart
      <3>6. "saveTmp" \notin Saved
        BY DEF Saved
      <3>7. QED
        BY <1>0, <2>1, <2>3, <3>1, <3>4, <3>5, <3>6, OrderKept
    <2>4. QED
      BY <1>6, <2>2, <2>3 DEF FindRequest, Return
  <1>7. ASSUME NEW p \in Pollers, SaveTmp(p) PROVE Goal
    BY <1>0, <1>7, SaveTmpOrder DEF SaveTmp
  <1>8. ASSUME NEW p \in Pollers, SaveRename(p) PROVE Goal
    BY <1>8, SaveRenameOrder
  <1>9. ASSUME NEW p \in Pollers, Execute(p) PROVE Goal
    BY <1>0, <1>9, ExecuteOrder DEF Execute
  <1>10. ASSUME NEW p \in Pollers, Wait(p) \/ Crash(p) PROVE Goal
    BY <1>1, <1>10 DEF Wait, Crash, Return
  <1>11. ASSUME NEW r \in Runs, StartFresh(r) \/ RunStep(r) \/ KillRun(r) PROVE Goal
    BY <1>11, RunOrderStep
  <1>12. CASE PostRequest \/ UNCHANGED vars
    <2>1. UNCHANGED <<pc, copy, state, tmp, runs>>
      BY <1>12 DEF PostRequest, pollerVars, vars
    <2>2. OrderInv'
      BY <2>1 DEF OrderInv, MissingInv, PollerOrder, RerunOrder, NotOlder, Apart, IsRerun
    <2>3. QED
      BY <1>0, <2>1, <2>2
  <1>13. QED
    BY <1>3, <1>4, <1>5, <1>6, <1>7, <1>8, <1>9, <1>10, <1>11, <1>12 DEF Next, PollerStep

\* ProcessedNeverGoesBack for any number of pollers, runs, replies and faults: pollers and
\* reports read, change and rename the one state file without a lock of its own, and yet
\* none of them makes a state the state that is older than the one it replaces.
THEOREM ProcessedOnlyAdvances ==
    ASSUME Overlap = FALSE
    PROVE  Spec => ProcessedNeverGoesBack
  <1> DEFINE Inv == LockInv /\ RerunInv /\ RerunsDoNotOverlap /\ OnceInv /\ RerunAtMostOnce
                    /\ OrderInv
  <1>1. Init => Inv
    <2>1. Init => LockInv /\ RerunInv /\ RerunsDoNotOverlap
      BY DEF Init, LockInv, RerunInv, RerunsDoNotOverlap, Acquiring, Holding, IsRerun, Active
    <2>2. Init => OnceInv /\ RerunAtMostOnce
      BY InitOnce
    <2>3. Init => OrderInv
      BY DEF Init, OrderInv, MissingInv, PollerOrder, RerunOrder, NotOlder, Apart, IsRerun,
             Saved, NoState
    <2>4. QED
      BY <2>1, <2>2, <2>3
  <1>2. TypeOK /\ Inv /\ [Next]_vars => Inv'
    BY LockInvStep, RerunInvStep, OnceInvStep, OrderStep
  <1>3. TypeOK /\ Inv /\ [Next]_vars
           => [state'.thread = state.thread => state'.last >= state.last]_vars
    BY OrderStep DEF NotOlder
  <1> HIDE DEF Inv
  <1>4. Spec => []Inv
    BY <1>1, <1>2, TypeCorrect, PTL DEF Spec
  <1>5. QED
    BY <1>3, <1>4, TypeCorrect, PTL DEF Spec, ProcessedNeverGoesBack

-----------------------------------------------------------------------------
(* The poller implements the service *)

\* No timestamp is past the last one.
BoundInv == clock <= MaxTS

\* Each step keeps to the bound.
LEMMA BoundStep == TypeOK /\ BoundInv /\ [Next]_vars => BoundInv'
  <1> SUFFICES ASSUME TypeOK, BoundInv, [Next]_vars PROVE BoundInv'
    OBVIOUS
  <1>1. clock \in Nat /\ MaxTS \in Nat
    BY PollerConstants DEF TypeOK
  <1>2. clock' = clock \/ (clock < MaxTS /\ clock' = clock + 1)
    <2>1. CASE \E r \in Runs : PostResults(r)
      BY <2>1 DEF PostResults
    <2>2. CASE PostRequest
      BY <2>2 DEF PostRequest
    <2>3. CASE ~(\E r \in Runs : PostResults(r)) /\ ~PostRequest
      BY <2>3 DEF Next, vars, PollerStep, Launch, ReadLock, RemoveStaleLock, WriteLock,
                  ReadTestLock, RemoveStaleTestLock, Pgrep, LoadState, FindRequest, SaveTmp,
                  SaveRename, Execute, Wait, Crash, RunStep, StartFresh, ReadParent,
                  ReadForUpdate, ReportTmp, ReportRename, EndRun, KillRun, slackVars
    <2> QED
      BY <2>1, <2>2, <2>3
  <1> QED
    BY <1>1, <1>2 DEF BoundInv

\* Nothing is asked for, and nothing runs, in the beginning.
LEMMA ServiceInit == Init => Service!Init
  BY DEF Init, Service!Init, Asked, Reruns, Running, IsRerun

\* A step that starts no rerun goes on with the service as it is, or ends the one rerun.
LEMMA ServiceGoesOn ==
    ASSUME RerunsDoNotOverlap, UNCHANGED messages,
           \A r \in Runs : runs'[r].request = runs[r].request,
           \A r \in Runs : (IsRerun(r) /\ Active(r))' => IsRerun(r) /\ Active(r)
    PROVE  Service!End \/ UNCHANGED Service!vars
  <1>1. Asked' = Asked
    BY DEF Asked
  <1>2. Reruns' = Reruns
    BY DEF Reruns, IsRerun
  <1>3. Running' \subseteq Running
    BY DEF Running
  <1>4. \A r1, r2 \in Running : r1 = r2
    BY DEF Running, RerunsDoNotOverlap
  <1>5. Running' = Running \/ (Running' = {} /\ Running # {})
    BY <1>3, <1>4
  <1> QED
    BY <1>1, <1>2, <1>5 DEF Service!End, Service!vars

\* A reply of a member is a request, newer than all before it; other replies are none.
LEMMA ServiceAsk ==
    ASSUME TypeOK, OnceInv, PostRequest
    PROVE  (\E m \in [ts : 1..MaxTS, thread : 1..MaxTS] : Service!Ask(m))
              \/ UNCHANGED Service!vars
  <1>1. PICK t \in Threads, b \in BOOLEAN :
           messages' = messages \cup {[ts |-> clock + 1, thread |-> t, member |-> b]}
    BY DEF PostRequest
  <1>2. UNCHANGED runs /\ clock < MaxTS /\ clock \in Nat /\ MaxTS \in Nat
    BY PollerConstants DEF PostRequest, TypeOK
  <1>3. Reruns' = Reruns /\ Running' = Running
    BY <1>2 DEF Reruns, Running, IsRerun, Active
  <1>4. t \in 1..clock
    BY <1>2 DEF Threads, OnceInv, ClockInv, RunRecords, TypeOK
  <1> DEFINE new == [ts |-> clock + 1, thread |-> t, member |-> b]
             m   == [ts |-> clock + 1, thread |-> t]
  <1>5. m \in [ts : 1..MaxTS, thread : 1..MaxTS]
    BY <1>2, <1>4
  <1>6. CASE b
    <2>2. Asked' = Asked \cup {m}
      <3>1. \A x : x \in Asked' <=>
               \E k \in messages \cup {new} : k.member /\ x = [ts |-> k.ts, thread |-> k.thread]
        BY <1>1 DEF Asked
      <3>2. \A x : x \in Asked <=>
               \E k \in messages : k.member /\ x = [ts |-> k.ts, thread |-> k.thread]
        BY DEF Asked
      <3>3. new.member /\ [ts |-> new.ts, thread |-> new.thread] = m
        BY <1>6
      <3> HIDE DEF new, m
      <3> QED
        BY <3>1, <3>2, <3>3
    <2>3. \A k \in Asked : k.ts < m.ts
      BY <1>2 DEF Asked, OnceInv, ClockInv
    <2> QED
      BY <1>3, <1>5, <2>2, <2>3 DEF Service!Ask
  <1>7. CASE ~b
    <2>1. {k \in messages' : k.member} = {k \in messages : k.member}
      BY <1>1, <1>7
    <2>2. Asked' = Asked
      BY <2>1 DEF Asked
    <2> QED
      BY <1>3, <2>2 DEF Service!vars
  <1> QED
    BY <1>6, <1>7

\* A poller that executes begins a rerun: of the member's reply it carries, with none
\* running, and newer than all that were served in the thread.
LEMMA ServiceBegin ==
    ASSUME TypeOK, RerunInv, OnceInv, BoundInv, NEW p \in Pollers, Execute(p)
    PROVE  \E r \in Runs, m \in [ts : 1..MaxTS, thread : 1..MaxTS] : Service!Begin(r, m)
  <1>1. PICK r \in Runs : /\ runs[r].step = "new"
                          /\ runs' = [runs EXCEPT ![r].step = "testing",
                                                  ![r].request = copy[p].last]
    BY DEF Execute
  <1>2. /\ runs'[r].step = "testing" /\ runs'[r].request = copy[p].last
        /\ \A q \in Runs : q # r => runs'[q] = runs[q]
    BY <1>1 DEF RunRecords, TypeOK
  <1>3. pc[p] = "execute" /\ "execute" \in Loaded /\ "execute" \in Carrying
    BY DEF Execute, Loaded, Carrying, Saved
  <1>4. UNCHANGED messages
    BY DEF Execute, slackVars
  <1>5. /\ \A q \in Runs : ~(IsRerun(q) /\ Active(q))
        /\ \A q \in Runs : runs[q].request # copy[p].last
    BY <1>3, NoneActive, LoadedHolds DEF OnceInv, CopyInv
  <1>6. PICK k \in messages :
           k.member /\ k.ts = copy[p].last /\ k.thread = copy[p].thread
    BY <1>3 DEF OnceInv, CopyInv
  <1> DEFINE m == [ts |-> k.ts, thread |-> k.thread]
  <1>7. /\ m \in Asked /\ Asked' = Asked
        /\ m.ts = copy[p].last /\ m.thread = copy[p].thread
    BY <1>4, <1>6 DEF Asked
  <1>8. k.ts \in 1..clock /\ k.thread \in 1..clock /\ clock <= MaxTS /\ clock \in Nat
    BY DEF OnceInv, ClockInv, TypeOK, BoundInv
  <1>9. m \in [ts : 1..MaxTS, thread : 1..MaxTS] /\ copy[p].last # 0
    BY <1>6, <1>8, PollerConstants
  <1>10. runs[r].request = 0
    BY <1>1 DEF RerunInv
  <1>11. Running = {} /\ Running' = {r}
    <2>1. \A q \in Runs : (IsRerun(q) /\ Active(q))' <=> q = r
      BY <1>2, <1>5, <1>9 DEF IsRerun, Active
    <2> QED
      BY <1>5, <2>1 DEF Running
  <1>12. Reruns' = Reruns \cup {[run |-> r, ts |-> m.ts]}
    <2>1. \A q \in Runs : IsRerun(q)' <=> IsRerun(q) \/ q = r
      BY <1>2, <1>9 DEF IsRerun
    <2>2. ~IsRerun(r)
      BY <1>10 DEF IsRerun
    <2> QED
      BY <1>2, <1>7, <2>1, <2>2 DEF Reruns
  <1>13. \A x \in Reruns : x.run # r
    BY <1>10 DEF Reruns, IsRerun
  <1>14. ASSUME NEW a \in Asked, a.thread = m.thread, Service!Served(a)
         PROVE  a.ts < m.ts
    <2>1. PICK x \in Reruns : x.ts = a.ts
      BY <1>14 DEF Service!Served
    <2>2. PICK q \in Runs : IsRerun(q) /\ runs[q].request = a.ts
      BY <2>1 DEF Reruns
    <2>3. PICK b \in messages : b.ts = a.ts /\ b.thread = a.thread
      BY DEF Asked
    <2>4. copy[p].last >= b.ts
      BY <1>7, <1>14, <2>2, <2>3 DEF OnceInv, CoverInv, Covers
    <2>5. copy[p].last # a.ts
      BY <1>5, <2>2
    <2>6. copy[p].last \in Nat /\ b.ts \in Nat
      BY DEF TypeOK, States
    <2> QED
      BY <1>7, <2>3, <2>4, <2>5, <2>6
  <1> HIDE DEF m
  <1> QED
    BY <1>7, <1>9, <1>11, <1>12, <1>13, <1>14 DEF Service!Begin

\* Every step is a step of the service or leaves it as it is.
LEMMA ServiceStep ==
    TypeOK /\ RerunInv /\ RerunsDoNotOverlap /\ OnceInv /\ BoundInv /\ [Next]_vars
        => [Service!Next]_(Service!vars)
  <1> SUFFICES ASSUME TypeOK, RerunInv, RerunsDoNotOverlap, OnceInv, BoundInv, [Next]_vars
               PROVE  Service!Next \/ UNCHANGED Service!vars
    OBVIOUS
  <1>1. ASSUME UNCHANGED <<runs, messages>> PROVE Service!Next \/ UNCHANGED Service!vars
    BY <1>1, ServiceGoesOn DEF Service!Next, IsRerun, Active
  <1>2. CASE \E p \in Pollers : Execute(p)
    BY <1>2, ServiceBegin DEF Service!Next
  <1>3. CASE \E p \in Pollers : Launch(p) \/ (PollerStep(p) /\ ~Execute(p)) \/ Crash(p)
    <2>1. UNCHANGED <<runs, messages>>
      BY <1>3 DEF PollerStep, Launch, ReadLock, RemoveStaleLock, WriteLock, ReadTestLock,
                  RemoveStaleTestLock, Pgrep, LoadState, FindRequest, SaveTmp, SaveRename, Wait,
                  Crash, slackVars
    <2> QED
      BY <1>1, <2>1
  <1>4. CASE \E r \in Runs : StartFresh(r) \/ RunStep(r) \/ KillRun(r)
    <2>1. UNCHANGED messages
      BY <1>4 DEF RunStep, StartFresh, ReadParent, PostResults, ReadForUpdate, ReportTmp,
                  ReportRename, EndRun, KillRun, slackVars
    <2>2. \A q \in Runs : runs'[q].request = runs[q].request
      BY <1>4, RunOnceStep
    <2>3. \A r \in Runs : (IsRerun(r) /\ Active(r))' => IsRerun(r) /\ Active(r)
      BY <1>4, RunsOnlyEnd
    <2> QED
      BY <2>1, <2>2, <2>3, ServiceGoesOn DEF Service!Next
  <1>5. CASE PostRequest
    BY <1>5, ServiceAsk DEF Service!Next
  <1>6. CASE UNCHANGED vars
    BY <1>1, <1>6 DEF vars
  <1> QED
    BY <1>2, <1>3, <1>4, <1>5, <1>6 DEF Next, PollerStep

\* ServiceSpec for any number of pollers, runs, replies and faults: whatever the processes do
\* to the shared files, what comes out is the service RerunService describes.
THEOREM PollerServes ==
    ASSUME Overlap = FALSE
    PROVE  Spec => ServiceSpec
  <1> DEFINE Inv == LockInv /\ RerunInv /\ RerunsDoNotOverlap /\ OnceInv /\ RerunAtMostOnce
                    /\ BoundInv
  <1>1. Init => Inv
    <2>1. Init => LockInv /\ RerunInv /\ RerunsDoNotOverlap
      BY DEF Init, LockInv, RerunInv, RerunsDoNotOverlap, Acquiring, Holding, IsRerun, Active
    <2>2. Init => BoundInv
      BY PollerConstants DEF Init, BoundInv
    <2> QED
      BY <2>1, <2>2, InitOnce
  <1>2. TypeOK /\ Inv /\ [Next]_vars => Inv'
    BY LockInvStep, RerunInvStep, OnceInvStep, BoundStep
  <1>3. TypeOK /\ Inv /\ [Next]_vars => [Service!Next]_(Service!vars)
    BY ServiceStep
  <1> HIDE DEF Inv
  <1> QED
    BY <1>1, <1>2, <1>3, ServiceInit, TypeCorrect, PTL DEF Spec, ServiceSpec, Service!Spec
=============================================================================
