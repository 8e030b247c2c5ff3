-------------------------- MODULE SubworkflowProofs --------------------------
(***************************************************************************)
(* Theorems about SubworkflowCall, for any number of cancellers,           *)
(* reconcilers, controllers and crashes, and whatever faults occur: what   *)
(* the commands may not do to each other's journal and to Core, and that   *)
(* what a call reports is true, as SubworkflowContract promises.           *)
(*                                                                         *)
(* The observer decides on a copy of the journal and on views of the run   *)
(* read earlier, and writes its verdict in two steps of its own, so a      *)
(* report is true only if nothing it rests on is ever taken back.  The     *)
(* invariant says so: the journal only grows, what Core has ended stays    *)
(* ended, a copy differs from the journal only where it has grown, every   *)
(* process holds what brought it to its place, and a verdict not yet saved *)
(* is as true as one that is.                                              *)
(***************************************************************************)
EXTENDS SubworkflowCall, TLAPS

-----------------------------------------------------------------------------
(* Updates of the journal keep its type *)

LEMMA NoJournalType == NoJournal \in Journals /\ Prepared \in Journals
  BY DEF NoJournal, Prepared, Journals, Phases, Receipts, Views, NoView,
         RunStatus, Outcomes, Rows, NoRow, TerminalStatus

LEMMA ReceiptType ==
  ASSUME NEW j \in Journals, NEW receipt \in Receipts
  PROVE  WithCreate(j, receipt) \in Journals /\ WithStart(j, receipt) \in Journals
  BY DEF WithCreate, WithStart, Journals, Phases, Receipts

LEMMA ObservationType ==
  ASSUME NEW j \in Journals, NEW v \in Views
  PROVE  /\ WithObservation(j, v) \in Journals
         /\ WithObservationLimit(j) \in Journals
  BY DEF WithObservation, WithObservationLimit, Journals, Phases, Views,
         NoView, RunStatus

LEMMA RowType ==
  ASSUME NEW j \in Journals, NEW c \in Controller,
         NEW op \in {"create", "start", "cancel"},
         NEW spawned \in BOOLEAN, NEW joined \in BOOLEAN
  PROVE  /\ Reserved(j, c, op) \in Journals
         /\ WithPid(j, c) \in Journals
         /\ WithJoin(j, c) \in Journals
         /\ WithLaunchFailure(j, c, spawned, joined) \in Journals
<1>1. \A rows \in [Controller -> Rows], phase \in Phases, limit \in BOOLEAN :
         /\ [j EXCEPT !.rows = rows] \in Journals
         /\ [j EXCEPT !.phase = phase, !.limit = limit, !.rows = rows]
               \in Journals
         /\ [j EXCEPT !.limit = limit, !.rows = rows] \in Journals
  BY DEF Journals
<1>2. j.rows \in [Controller -> Rows]
  BY DEF Journals
<1>3. \A row \in Rows : [j.rows EXCEPT ![c] = row] \in [Controller -> Rows]
  BY <1>2
<1>4. Reserved(j, c, op) \in Journals
  <2>1. [op |-> op, pid |-> FALSE, joined |-> FALSE] \in Rows
    BY DEF Rows
  <2>2. SendingPhase[op] \in Phases
    BY DEF SendingPhase, Phases
  <2> QED BY <1>1, <1>3, <2>1, <2>2 DEF Reserved
<1>5. WithPid(j, c) \in Journals
  <2>1. [j.rows EXCEPT ![c].pid = TRUE] \in [Controller -> Rows]
    BY <1>2 DEF Rows
  <2> QED BY <2>1 DEF WithPid, Journals
<1>6. WithJoin(j, c) \in Journals
  <2>1. [j.rows EXCEPT ![c].joined = TRUE] \in [Controller -> Rows]
    BY <1>2 DEF Rows
  <2> QED BY <2>1 DEF WithJoin, Journals
<1>7. WithLaunchFailure(j, c, spawned, joined) \in Journals
  <2>1. [j.rows EXCEPT ![c] = [op |-> j.rows[c].op, pid |-> spawned,
                               joined |-> joined]] \in [Controller -> Rows]
    BY <1>2 DEF Rows
  <2>2. "cleanup_required" \in Phases
    BY DEF Phases
  <2> QED BY <2>1, <2>2 DEF WithLaunchFailure, Journals
<1> QED BY <1>4, <1>5, <1>6, <1>7

LEMMA FieldType ==
  ASSUME NEW j \in Journals
  PROVE  /\ WithIntent(j) \in Journals
         /\ [j EXCEPT !.copied = TRUE] \in Journals
         /\ [j EXCEPT !.startSaved = TRUE] \in Journals
         /\ \A phase \in Phases : /\ WithPhase(j, phase) \in Journals
                                  /\ [j EXCEPT !.phase = phase] \in Journals
         /\ \A v \in Verdicts : WithResult(j, v) \in Journals
<1>1. \A v \in Verdicts : WithResult(j, v) \in Journals
  <2>1. \A v \in Verdicts : /\ v.outcome \in Outcomes /\ v.limit \in BOOLEAN
                            /\ PhaseOfOutcome(v.outcome) \in Phases
    BY DEF Verdicts, PhaseOfOutcome, Phases
  <2> QED BY <2>1 DEF WithResult, Journals
<1> QED BY <1>1 DEF WithIntent, WithPhase, Journals

LEMMA ViewType == \A v \in Views : NextViews(v) \subseteq Views
  BY EndingsAssumption
  DEF NextViews, Views, RunStatus, TerminalStatus

-----------------------------------------------------------------------------
(* Type correctness *)

LEMMA LeaveType ==
  /\ NoJournal \in Journals /\ NoVerdict \in Verdicts /\ NoView \in Views
  BY NoJournalType
  DEF NoVerdict, Verdicts, Outcomes, NoView, Views, RunStatus, TerminalStatus

LEMMA ObservedType ==
  ASSUME TypeOK, NEW settled \in BOOLEAN
  PROVE  Observed(settled) \in Outcomes
  BY DEF TypeOK, Observed, Closed, OutcomeOf, Outcomes, TerminalStatus

LEMMA ReportType ==
  ASSUME NEW outcome \in Outcomes, NEW limit \in BOOLEAN,
         TypeOK, Report(outcome, limit)
  PROVE  /\ verdict' \in Verdicts /\ snap' \in Journals
         /\ unresolved' \in BOOLEAN /\ pc' \in [Process -> Labels]
  BY NoJournalType
  DEF Report, Continue, Verdicts, TypeOK, Goto, Labels

LEMMA OutcomeType ==
  /\ "CHILD_UNCERTAIN" \in Outcomes /\ "CHILD_CANCELLED" \in Outcomes
  /\ "CHILD_REFUSED" \in Outcomes
  BY DEF Outcomes

LEMMA InitType == Init => TypeOK
<1> SUFFICES ASSUME Init PROVE TypeOK
  OBVIOUS
<1> USE DEF Init
<1>1. journal \in Journals /\ snap \in Journals
  BY NoJournalType
<1>2. manifest \in Manifests /\ verdict \in Verdicts
  BY LeaveType DEF NoManifest, Manifests, Outcomes
<1>3. instance \in Receipts /\ started \in Receipts /\ run \in Views
  BY LeaveType DEF Receipts
<1>4. /\ proc \in [Controller -> {"none", "live", "printed", "silent"}]
      /\ pc \in [Process -> Labels] /\ view \in [Process -> Views]
      /\ own \in [Process -> SUBSET Controller]
  BY LeaveType DEF Labels
<1>5. crashes \in 0..MaxCrashes
  BY BoundAssumption
<1> QED BY <1>1, <1>2, <1>3, <1>4, <1>5 DEF TypeOK


LEMMA StepType == TypeOK /\ LaunchIsExclusive /\ [Next]_vars => TypeOK'
<1> SUFFICES ASSUME TypeOK, LaunchIsExclusive, [Next]_vars
             PROVE  TypeOK'
  OBVIOUS
<1> USE DEF TypeOK, Labels, Goto, Save, LockFree, durable, core, local, clock

<1>1. CASE MakeRoot
  BY <1>1 DEF MakeRoot
<1>2. CASE Prepare
  BY <1>2, NoJournalType DEF Prepare
<1>3. CASE Enter
  BY <1>3 DEF Enter
<1>4. CASE \E c \in Controller : PollCreate(c)
  BY <1>4, ReceiptType DEF PollCreate
<1>5. CASE \E c \in Controller : PollStart(c)
  <2>1. pc' \in [Process -> Labels]
    BY <1>5 DEF PollStart
  <2> QED BY <1>5, <2>1 DEF PollStart
<1>6. CASE \E c \in Controller : PollJoin(c)
  BY <1>6, RowType DEF PollJoin, OwnOp, Unjoined
<1>7. CASE RecordPolled
  BY <1>7, ReceiptType DEF RecordPolled
<1>8. CASE Polled
  BY <1>8 DEF Polled
<1>9. ASSUME NEW p \in Process, RefreshNothing(p)
     PROVE  TypeOK'
  BY <1>9 DEF RefreshNothing, AfterRefresh
<1>10. ASSUME NEW p \in Process, RefreshInstance(p)
     PROVE  TypeOK'
  BY <1>10 DEF RefreshInstance
<1>11. ASSUME NEW p \in Process, RecordStart(p)
     PROVE  TypeOK'
  BY <1>11, ReceiptType DEF RecordStart
<1>12. ASSUME NEW p \in Process, InspectRun(p)
     PROVE  TypeOK'
  BY <1>12 DEF InspectRun, AfterRefresh
<1>13. ASSUME NEW p \in Process, WriteObs(p)
     PROVE  TypeOK'
  BY <1>13, ObservationType, LeaveType DEF WriteObs, AfterRefresh
<1>14. CASE Snapshot
  BY <1>14 DEF Snapshot, Unresolved
<1>15. CASE ReportLimit
  BY <1>15, ReportType, OutcomeType DEF ReportLimit
<1>16. CASE Intend
  BY <1>16, FieldType DEF Intend
<1>17. CASE Reload
  BY <1>17 DEF Reload
<1>18. CASE InTime
  BY <1>18 DEF InTime
<1>19. CASE ActReports
  BY <1>19, ReportType, ObservedType DEF ActReports
<1>20. CASE ActCancels
  BY <1>20 DEF ActCancels
<1>21. CASE ActPrevents
  <2>1. \/ Report("CHILD_CANCELLED", FALSE)
        \/ /\ pc' \in [Process -> Labels]
           /\ UNCHANGED <<snap, unresolved, verdict>>
    BY <1>21 DEF ActPrevents
  <2>2. /\ verdict' \in Verdicts /\ snap' \in Journals
        /\ unresolved' \in BOOLEAN /\ pc' \in [Process -> Labels]
    BY <2>1, ReportType, OutcomeType
  <2> QED BY <1>21, <2>2 DEF ActPrevents
<1>22. CASE ActCreates
  BY <1>22, ReportType, OutcomeType, NoJournalType
  DEF ActCreates, Continue
<1>23. CASE ActStarts
  BY <1>23, ReportType, OutcomeType, NoJournalType
  DEF ActStarts, Continue
<1>24. CASE ActWaits
  BY <1>24, NoJournalType DEF ActWaits, Continue
<1>25. CASE CleanupOver
  BY <1>25, ReportType, OutcomeType DEF CleanupOver
<1>26. CASE CleanupContinues
  BY <1>26, NoJournalType DEF CleanupContinues, Continue
<1>27. CASE CopyNotOwned
  BY <1>27, NoJournalType, LeaveType DEF CopyNotOwned, Leave
<1>28. CASE CopyFiles
  BY <1>28 DEF CopyFiles
<1>29. CASE CopyAgain
  BY <1>29 DEF CopyAgain
<1>30. CASE CopyPrepared
  BY <1>30, FieldType DEF CopyPrepared
<1>31. CASE SaveStart
  BY <1>31, FieldType DEF SaveStart
<1>32. CASE LaunchPrevented
  BY <1>32, FieldType DEF LaunchPrevented, Phases
<1>33. ASSUME NEW p \in Process, Reserve(p)
     PROVE  TypeOK'
  BY <1>33, RowType DEF Reserve, MaySend, SendOf, Unused
<1>34. ASSUME NEW p \in Process, LaunchExceeds(p)
     PROVE  TypeOK'
  BY <1>34, LeaveType DEF LaunchExceeds, Leave
<1>35. ASSUME NEW p \in Process, Spawn(p)
     PROVE  TypeOK'
  BY <1>35, RowType DEF Spawn, AfterLaunch, LaunchIsExclusive
<1>36. ASSUME NEW p \in Process, LaunchFails(p)
     PROVE  TypeOK'
  <2>1. reserved \in Controller
    BY <1>36 DEF LaunchFails, LaunchIsExclusive
  <2>2. journal' \in Journals
    <3>1. PICK spawned, joined \in BOOLEAN :
             journal' = WithLaunchFailure(journal, reserved, spawned, joined)
      BY <1>36 DEF LaunchFails
    <3>2. journal \in Journals
      OBVIOUS
    <3> QED BY <2>1, <3>1, <3>2, RowType
  <2>3. /\ proc' \in [Controller -> {"none", "live", "printed", "silent"}]
        /\ reserved' = NoController
    BY <1>36, <2>1 DEF LaunchFails
  <2>4. /\ snap' \in Journals /\ unresolved' \in BOOLEAN
        /\ verdict' \in Verdicts /\ own' \in [Process -> SUBSET Controller]
        /\ view' \in [Process -> Views] /\ pc' \in [Process -> Labels]
    BY <1>36, LeaveType DEF LaunchFails, Leave
  <2> QED BY <1>36, <2>2, <2>3, <2>4 DEF LaunchFails
<1>37. CASE WriteManifest
  <2>1. verdict' \in Verdicts
    <3>1. [outcome |-> "CHILD_UNCERTAIN", limit |-> FALSE] \in Verdicts
      BY OutcomeType DEF Verdicts
    <3> QED BY <1>37, <3>1 DEF WriteManifest
  <2>2. manifest' \in Manifests
    BY <1>37, <2>1 DEF WriteManifest, Verdicts, Manifests, RunKnown
  <2> QED BY <1>37, <2>1, <2>2 DEF WriteManifest
<1>38. CASE SaveResult
  BY <1>38, FieldType, LeaveType DEF SaveResult, Leave
<1>39. ASSUME NEW p \in Process, CancelIntends(p)
     PROVE  TypeOK'
  BY <1>39, FieldType DEF CancelIntends
<1>40. ASSUME NEW p \in Process, CancelJoins(p)
     PROVE  TypeOK'
  BY <1>40, RowType DEF CancelJoins, Unjoined
<1>41. ASSUME NEW p \in Process, CancelDetaches(p)
     PROVE  TypeOK'
  BY <1>41, FieldType DEF CancelDetaches, Phases
<1>42. ASSUME NEW p \in Process, ReconcileBegins(p)
     PROVE  TypeOK'
  BY <1>42 DEF ReconcileBegins
<1>43. ASSUME NEW p \in Process, ReconcileJudges(p)
     PROVE  TypeOK'
  BY <1>43 DEF ReconcileJudges
<1>44. ASSUME NEW p \in Process, ReconcileSaves(p)
     PROVE  TypeOK'
  BY <1>44, FieldType DEF ReconcileSaves, Phases
<1>45. ASSUME NEW p \in Process, Crash(p)
     PROVE  TypeOK'
  <2>1. crashes' \in 0..MaxCrashes
    BY <1>45, BoundAssumption DEF Crash
  <2>2. /\ proc' \in [Controller -> {"none", "live", "printed", "silent"}]
        /\ reserved' \in Controller \union {NoController}
    BY <1>45 DEF Crash, LaunchIsExclusive
  <2>3. /\ snap' \in Journals /\ unresolved' \in BOOLEAN
        /\ verdict' \in Verdicts /\ own' \in [Process -> SUBSET Controller]
        /\ view' \in [Process -> Views] /\ pc' \in [Process -> Labels]
    BY <1>45, LeaveType DEF Crash, Leave
  <2> QED BY <1>45, <2>1, <2>2, <2>3 DEF Crash
<1>46. CASE \E c \in Controller : CoreCreates(c)
  BY <1>46 DEF CoreCreates, Receipts
<1>47. CASE \E c \in Controller : CoreStarts(c)
  <2>1. [status |-> "running", stopped |-> FALSE] \in Views
    BY DEF Views, RunStatus
  <2> QED BY <1>47, <2>1 DEF CoreStarts, Receipts
<1>48. CASE RunMoves
  BY <1>48, ViewType DEF RunMoves
<1>49. CASE \E c \in Controller : ControllerExits(c)
  BY <1>49 DEF ControllerExits
<1>50. CASE WaitExpires
  BY <1>50 DEF WaitExpires
<1>51. CASE CleanupExpires
  BY <1>51 DEF CleanupExpires
<1>52. CASE UNCHANGED vars
  BY <1>52 DEF vars
<1> QED
  BY <1>1, <1>2, <1>3, <1>4, <1>5, <1>6, <1>7, <1>8, <1>9, <1>10, <1>11, <1>12, <1>13, <1>14, <1>15, <1>16, <1>17, <1>18, <1>19, <1>20, <1>21, <1>22, <1>23, <1>24, <1>25, <1>26, <1>27, <1>28, <1>29, <1>30, <1>31, <1>32, <1>33, <1>34, <1>35, <1>36, <1>37, <1>38, <1>39, <1>40, <1>41, <1>42, <1>43, <1>44, <1>45, <1>46, <1>47, <1>48, <1>49, <1>50, <1>51, <1>52
  DEF Next, CallStep, Decide, Refresh, Launch, CancelStep, ReconcileStep, CoreStep, Process

\* A launch holds the lock, so no second one begins and no other row is taken.
LEMMA StepExclusive ==
  TypeOK /\ LaunchIsExclusive /\ [Next]_vars => LaunchIsExclusive'
<1> SUFFICES ASSUME TypeOK, LaunchIsExclusive, [Next]_vars
             PROVE  LaunchIsExclusive'
  OBVIOUS
<1> USE DEF LaunchIsExclusive
<1>1. CASE \E p \in Process : Reserve(p)
  BY <1>1, ControllerAssumption
  DEF Reserve, MaySend, LockFree, Goto, Unused, TypeOK
<1>2. ASSUME NEW p \in Process, Spawn(p) \/ LaunchFails(p) \/ Crash(p)
      PROVE  LaunchIsExclusive'
  <2>1. \A q \in Process \ {p} : pc'[q] = pc[q]
    BY <1>2 DEF Spawn, LaunchFails, Crash, Leave, Goto, TypeOK
  <2>2. pc'[p] # "launching"
    BY <1>2 DEF Spawn, AfterLaunch, LaunchFails, Crash, Leave, Goto, TypeOK
  <2>3. pc[p] = "launching" \/ reserved' = reserved
    BY <1>2 DEF Spawn, LaunchFails, Crash
  <2> QED BY <2>1, <2>2, <2>3
<1>3. CASE UNCHANGED <<pc, reserved>>
  BY <1>3
<1>4. CASE \E c \in Controller : PollStart(c)
  BY <1>4 DEF PollStart, Goto, TypeOK
<1>5. CASE \/ MakeRoot \/ Prepare \/ Enter \/ RecordPolled \/ Polled
           \/ CopyNotOwned \/ CopyFiles \/ CopyAgain \/ CopyPrepared
           \/ SaveStart \/ LaunchPrevented \/ WriteManifest \/ SaveResult
  BY <1>5
  DEF MakeRoot, Prepare, Enter, RecordPolled, Polled, CopyNotOwned, CopyFiles,
      CopyAgain, CopyPrepared, SaveStart, LaunchPrevented, WriteManifest,
      SaveResult, Leave, Goto, TypeOK
<1>6. CASE Decide
  BY <1>6
  DEF Decide, Snapshot, ReportLimit, Intend, Reload, InTime, ActReports,
      ActCancels, ActPrevents, ActCreates, ActStarts, ActWaits, CleanupOver,
      CleanupContinues, Report, Continue, Goto, TypeOK
<1>7. ASSUME NEW p \in Process,
             Refresh(p) \/ LaunchExceeds(p) \/ CancelIntends(p)
                \/ CancelJoins(p) \/ CancelDetaches(p) \/ ReconcileBegins(p)
                \/ ReconcileJudges(p) \/ ReconcileSaves(p)
      PROVE  LaunchIsExclusive'
  BY <1>7
  DEF Refresh, RefreshNothing, RefreshInstance, RecordStart, InspectRun,
      WriteObs, AfterRefresh, LaunchExceeds, CancelIntends, CancelJoins,
      CancelDetaches, ReconcileBegins, ReconcileJudges, ReconcileSaves, Leave,
      Goto, TypeOK
<1>8. ASSUME NEW c \in Controller, PollCreate(c) \/ PollJoin(c)
      PROVE  UNCHANGED <<pc, reserved>>
  BY <1>8 DEF PollCreate, PollJoin
<1>9. CoreStep \/ WaitExpires \/ CleanupExpires \/ UNCHANGED vars
         => UNCHANGED <<pc, reserved>>
  BY DEF CoreStep, RunMoves, CoreCreates, CoreStarts, ControllerExits,
         WaitExpires, CleanupExpires, vars
<1> QED
  BY <1>1, <1>2, <1>3, <1>4, <1>5, <1>6, <1>7, <1>8, <1>9
  DEF Next, CallStep, Launch, CancelStep, ReconcileStep, Process

\* Every variable has its type in every reachable state, and a launch under the
\* journal lock is alone.
THEOREM TypeCorrect == Spec => [](TypeOK /\ LaunchIsExclusive)
<1>1. Init => LaunchIsExclusive
  BY DEF Init, LaunchIsExclusive
<1> QED BY InitType, StepType, StepExclusive, <1>1, PTL DEF Spec

-----------------------------------------------------------------------------
(* The start of the child *)

\* Steps of call move no other process, and the others never move the observer.
LEMMA ObserverMovesItself ==
  ASSUME TypeOK, Enter \/ CallStep, NEW q \in Process \ {Observer}
  PROVE  pc'[q] = pc[q]
<1> USE DEF Goto, TypeOK, Process
<1>1. CASE \/ MakeRoot \/ Prepare \/ Enter \/ RecordPolled \/ Polled
           \/ CopyNotOwned \/ CopyFiles \/ CopyAgain \/ CopyPrepared
           \/ SaveStart \/ LaunchPrevented \/ WriteManifest \/ SaveResult
  BY <1>1
  DEF MakeRoot, Prepare, Enter, RecordPolled, Polled, CopyNotOwned, CopyFiles,
      CopyAgain, CopyPrepared, SaveStart, LaunchPrevented, WriteManifest,
      SaveResult, Leave
<1>2. CASE \E c \in Controller : PollCreate(c) \/ PollStart(c) \/ PollJoin(c)
  BY <1>2 DEF PollCreate, PollStart, PollJoin
<1>3. CASE Decide
  BY <1>3
  DEF Decide, Snapshot, ReportLimit, Intend, Reload, InTime, ActReports,
      ActCancels, ActPrevents, ActCreates, ActStarts, ActWaits, CleanupOver,
      CleanupContinues, Report, Continue
<1>4. CASE Refresh(Observer) \/ Launch(Observer)
  BY <1>4
  DEF Refresh, RefreshNothing, RefreshInstance, RecordStart, InspectRun,
      WriteObs, Launch, Reserve, LaunchExceeds, Spawn, LaunchFails, Leave
<1> QED BY <1>1, <1>2, <1>3, <1>4 DEF CallStep

LEMMA StepOnlyObserverStarts ==
  TypeOK /\ OnlyObserverStarts /\ [Next]_vars => OnlyObserverStarts'
<1> SUFFICES ASSUME TypeOK, OnlyObserverStarts, [Next]_vars
             PROVE  OnlyObserverStarts'
  OBVIOUS
<1> USE DEF OnlyObserverStarts, SharedLabels
<1>1. CASE Enter \/ CallStep
  BY <1>1, ObserverMovesItself
<1>2. ASSUME NEW p \in Canceller \union Reconciler,
             \/ CancelIntends(p) \/ CancelStep(p)
             \/ ReconcileBegins(p) \/ ReconcileStep(p)
      PROVE  OnlyObserverStarts'
  BY <1>2, ProcessAssumption
  DEF CancelIntends, CancelStep, ReconcileBegins, ReconcileStep, Launch,
      Reserve, LaunchExceeds, Spawn, AfterLaunch, LaunchFails, CancelJoins,
      CancelDetaches, Refresh, RefreshNothing, RefreshInstance, RecordStart,
      InspectRun, WriteObs, AfterRefresh, ReconcileJudges, ReconcileSaves,
      Leave, Goto, TypeOK, Process
<1>3. CASE \E p \in Process : Crash(p)
  BY <1>3 DEF Crash, Leave, Goto, TypeOK
<1>4. CASE CoreStep \/ WaitExpires \/ CleanupExpires \/ UNCHANGED vars
  BY <1>4
  DEF CoreStep, RunMoves, CoreCreates, CoreStarts, ControllerExits,
      WaitExpires, CleanupExpires, vars
<1> QED BY <1>1, <1>2, <1>3, <1>4 DEF Next

\* Two journals record the same operations and the same start envelope.
SameOps(j, k) ==
    /\ \A c \in Controller : k.rows[c].op = j.rows[c].op
    /\ k.startSaved = j.startSaved

LEMMA UpdatesKeepOps ==
  ASSUME NEW j \in Journals
  PROVE  /\ SameOps(j, j)
         /\ SameOps(j, [j EXCEPT !.copied = TRUE])
         /\ SameOps(j, [j EXCEPT !.phase = "created"])
         /\ \A x : SameOps(j, WithCreate(j, x)) /\ SameOps(j, WithStart(j, x))
         /\ \A x : SameOps(j, WithObservation(j, x))
         /\ SameOps(j, WithObservationLimit(j)) /\ SameOps(j, WithIntent(j))
         /\ \A d \in Controller : /\ SameOps(j, WithPid(j, d))
                                  /\ SameOps(j, WithJoin(j, d))
         /\ \A d \in Controller, x, y \in BOOLEAN :
               SameOps(j, WithLaunchFailure(j, d, x, y))
         /\ \A x : SameOps(j, WithResult(j, x)) /\ SameOps(j, WithPhase(j, x))
  BY DEF SameOps, WithCreate, WithStart, WithObservation, WithObservationLimit,
         WithPid, WithJoin, WithLaunchFailure, WithIntent, WithResult,
         WithPhase, Journals, Rows

\* Only a reservation adds a row, and only SaveStart saves a start envelope;
\* prepare begins without any.
LEMMA RowsStep ==
  ASSUME TypeOK, LaunchIsExclusive, [Next]_vars
  PROVE  \/ SameOps(journal, journal')
         \/ Prepare
         \/ SaveStart
         \/ \E p \in Process : Reserve(p)
<1> USE DEF TypeOK, Save, durable
<1>2. CASE \/ MakeRoot \/ Enter \/ Polled \/ CopyNotOwned \/ CopyFiles
           \/ CopyAgain \/ WriteManifest
  BY <1>2, UpdatesKeepOps
  DEF MakeRoot, Enter, Polled, CopyNotOwned, CopyFiles, CopyAgain,
      WriteManifest
<1>3. CASE \/ RecordPolled \/ CopyPrepared \/ LaunchPrevented
           \/ SaveResult
  BY <1>3, UpdatesKeepOps
  DEF RecordPolled, CopyPrepared, LaunchPrevented, SaveResult
<1>4. CASE \E c \in Controller : PollCreate(c) \/ PollStart(c) \/ PollJoin(c)
  BY <1>4, UpdatesKeepOps DEF PollCreate, PollStart, PollJoin
<1>5. CASE Decide
  BY <1>5, UpdatesKeepOps
  DEF Decide, Snapshot, ReportLimit, Intend, Reload, InTime, ActReports,
      ActCancels, ActPrevents, ActCreates, ActStarts, ActWaits, CleanupOver,
      CleanupContinues
<1>6. ASSUME NEW p \in Process,
             \/ Refresh(p) \/ LaunchExceeds(p) \/ CancelIntends(p)
             \/ CancelJoins(p) \/ CancelDetaches(p) \/ ReconcileBegins(p)
             \/ ReconcileJudges(p) \/ ReconcileSaves(p)
      PROVE  SameOps(journal, journal')
  <2>1. CASE Refresh(p)
    <3>1. CASE RefreshNothing(p) \/ RefreshInstance(p) \/ InspectRun(p)
      BY <3>1, UpdatesKeepOps DEF RefreshNothing, RefreshInstance, InspectRun
    <3>2. CASE RecordStart(p)
      BY <3>2, UpdatesKeepOps DEF RecordStart
    <3>3. CASE WriteObs(p)
      <4>1. \/ journal' = WithObservation(journal, view[p])
            \/ journal' = WithObservationLimit(journal)
        BY <3>3 DEF WriteObs
      <4> QED BY <4>1, UpdatesKeepOps
    <3> QED BY <2>1, <3>1, <3>2, <3>3 DEF Refresh
  <2>2. CASE CancelIntends(p) \/ CancelDetaches(p) \/ ReconcileSaves(p)
    BY <2>2, UpdatesKeepOps DEF CancelIntends, CancelDetaches, ReconcileSaves
  <2>3. CASE CancelJoins(p)
    <3>1. PICK c \in Unjoined(p) : Save(WithJoin(journal, c))
      BY <2>3 DEF CancelJoins
    <3>2. c \in Controller
      BY <3>1 DEF Unjoined, Dead
    <3> QED BY <3>1, <3>2, UpdatesKeepOps
  <2>4. CASE LaunchExceeds(p) \/ ReconcileBegins(p) \/ ReconcileJudges(p)
    BY <2>4, UpdatesKeepOps
    DEF LaunchExceeds, ReconcileBegins, ReconcileJudges
  <2> QED BY <1>6, <2>1, <2>2, <2>3, <2>4
<1>7. ASSUME NEW p \in Process, Spawn(p) \/ LaunchFails(p) \/ Crash(p)
      PROVE  SameOps(journal, journal')
  <2>1. pc[p] = "launching" => reserved \in Controller
    BY DEF LaunchIsExclusive
  <2>2. CASE Spawn(p)
    BY <2>1, <2>2, UpdatesKeepOps DEF Spawn
  <2>3. CASE LaunchFails(p)
    BY <2>1, <2>3, UpdatesKeepOps DEF LaunchFails
  <2>4. CASE Crash(p)
    BY <2>4, UpdatesKeepOps DEF Crash
  <2> QED BY <1>7, <2>2, <2>3, <2>4
<1>8. CASE CoreStep \/ WaitExpires \/ CleanupExpires \/ UNCHANGED vars
  BY <1>8, UpdatesKeepOps
  DEF CoreStep, RunMoves, CoreCreates, CoreStarts, ControllerExits,
      WaitExpires, CleanupExpires, vars
<1> QED
  BY <1>2, <1>3, <1>4, <1>5, <1>6, <1>7, <1>8
  DEF Next, CallStep, Launch, CancelStep, ReconcileStep, Process

\* A reservation adds a row of its own operation; only the observer, where it
\* launches the start and with no intent saved, adds a start.
LEMMA ReserveStep ==
  ASSUME TypeOK, OnlyObserverStarts, NEW p \in Process, Reserve(p)
  PROVE  /\ journal'.startSaved = journal.startSaved
         /\ \/ Sender("start")' = Sender("start")
            \/ /\ p = Observer /\ pc[Observer] = "launchStart"
               /\ ~journal.intent
               /\ Sender("start")' = Sender("start") \union {reserved'}
<1>1. PICK c \in Unused : /\ journal' = Reserved(journal, c, SendOf[pc[p]])
                          /\ reserved' = c
  BY DEF Reserve
<1>2. /\ c \in Controller /\ journal.rows[c].op = "none"
      /\ journal.rows \in [Controller -> Rows]
  BY DEF Unused, TypeOK, Journals
<1>3. \A d \in Controller :
         journal'.rows[d].op = IF d = c THEN SendOf[pc[p]] ELSE journal.rows[d].op
  BY <1>1, <1>2 DEF Reserved, TypeOK, Journals, Rows
<1>4. journal'.startSaved = journal.startSaved /\ pc[p] \in DOMAIN SendOf
  BY <1>1 DEF Reserved, Reserve, MaySend, TypeOK, Journals
<1>5. CASE pc[p] = "launchStart"
  <2>1. p = Observer
    BY <1>5 DEF OnlyObserverStarts, SharedLabels
  <2>2. ~journal.intent
    BY <1>5 DEF Reserve, MaySend
  <2>3. SendOf[pc[p]] = "start"
    BY <1>5 DEF SendOf
  <2>4. Sender("start")' = Sender("start") \union {c}
    BY <1>2, <1>3, <2>3 DEF Sender
  <2> QED BY <1>1, <1>4, <1>5, <2>1, <2>2, <2>4
<1>6. CASE pc[p] # "launchStart"
  <2>1. SendOf[pc[p]] # "start"
    BY <1>4, <1>6 DEF SendOf
  <2> QED BY <1>2, <1>3, <1>4, <2>1 DEF Sender
<1> QED BY <1>5, <1>6

\* A step of the others leaves the observer where it is, with its snapshot.
LEMMA OthersKeepObserver ==
  ASSUME TypeOK,
         \/ \E p \in Canceller : CancelIntends(p) \/ CancelStep(p)
         \/ \E p \in Reconciler : ReconcileBegins(p) \/ ReconcileStep(p)
         \/ \E p \in Process \ {Observer} : Crash(p)
         \/ CoreStep \/ WaitExpires \/ CleanupExpires \/ UNCHANGED vars
  PROVE  pc'[Observer] = pc[Observer] /\ snap' = snap
<1> USE DEF TypeOK, Goto, local, Process
<1>1. ASSUME NEW p \in Process \ {Observer},
             \/ CancelIntends(p) \/ CancelStep(p)
             \/ ReconcileBegins(p) \/ ReconcileStep(p) \/ Crash(p)
      PROVE  pc'[Observer] = pc[Observer] /\ snap' = snap
  BY <1>1
  DEF CancelIntends, CancelStep, ReconcileBegins, ReconcileStep, Launch,
      Reserve, LaunchExceeds, Spawn, LaunchFails, CancelJoins, CancelDetaches,
      Refresh, RefreshNothing, RefreshInstance, RecordStart, InspectRun,
      WriteObs, ReconcileJudges, ReconcileSaves, Leave, Crash
<1>2. CASE CoreStep \/ WaitExpires \/ CleanupExpires \/ UNCHANGED vars
  BY <1>2
  DEF CoreStep, RunMoves, CoreCreates, CoreStarts, ControllerExits,
      WaitExpires, CleanupExpires, vars
<1> QED BY <1>1, <1>2, ProcessAssumption DEF Process

\* How the observer comes to a place where StartIsMarked says something of it.
LEMMA ObserverArrives ==
  ASSUME TypeOK, [Next]_vars, OnlyObserverStarts
  PROVE  /\ pc'[Observer] \in {"check", "reload", "act"} =>
               \/ snap' = journal
               \/ pc[Observer] \in {"check", "reload", "act"} /\ snap' = snap
         /\ pc'[Observer] = "saveStart" =>
               \/ pc[Observer] = "act" /\ ~snap.startSaved
               \/ pc[Observer] = "saveStart" /\ ~SaveStart
         /\ pc'[Observer] = "launchStart" =>
               SaveStart \/ pc[Observer] = "launchStart"
<1> USE DEF TypeOK, Goto, local, Process
<1>1. CASE \/ MakeRoot \/ Prepare \/ Enter \/ RecordPolled \/ Polled
           \/ CopyNotOwned \/ CopyFiles \/ CopyAgain \/ CopyPrepared
           \/ SaveStart \/ LaunchPrevented \/ WriteManifest \/ SaveResult
  BY <1>1
  DEF MakeRoot, Prepare, Enter, RecordPolled, Polled, CopyNotOwned, CopyFiles,
      CopyAgain, CopyPrepared, SaveStart, LaunchPrevented, WriteManifest,
      SaveResult, Leave
<1>2. CASE \E c \in Controller : PollCreate(c) \/ PollStart(c) \/ PollJoin(c)
  BY <1>2 DEF PollCreate, PollStart, PollJoin, SaveStart
<1>3. CASE Decide
  BY <1>3
  DEF Decide, Snapshot, ReportLimit, Intend, Reload, InTime, ActReports,
      ActCancels, ActPrevents, ActCreates, ActStarts, ActWaits, CleanupOver,
      CleanupContinues, Report, Continue
<1>4. CASE Refresh(Observer) \/ Launch(Observer)
  BY <1>4
  DEF Refresh, RefreshNothing, RefreshInstance, RecordStart, InspectRun,
      WriteObs, AfterRefresh, Launch, Reserve, LaunchExceeds, Spawn,
      AfterLaunch, LaunchFails, Leave
<1>5. CASE Crash(Observer)
  BY <1>5 DEF Crash, Leave
<1>6. CASE \/ \E p \in Canceller : CancelIntends(p) \/ CancelStep(p)
           \/ \E p \in Reconciler : ReconcileBegins(p) \/ ReconcileStep(p)
           \/ \E p \in Process \ {Observer} : Crash(p)
           \/ CoreStep \/ WaitExpires \/ CleanupExpires \/ UNCHANGED vars
  <2>1. pc'[Observer] = pc[Observer] /\ snap' = snap
    BY <1>6, OthersKeepObserver
  <2>2. ~SaveStart \/ pc'[Observer] = "launchStart"
    BY DEF SaveStart
  <2> QED BY <2>1, <2>2
<1> QED BY <1>1, <1>2, <1>3, <1>4, <1>5, <1>6 DEF Next, CallStep

LEMMA StepStart ==
  ASSUME StartInv, [Next]_vars
  PROVE  StartIsMarked' /\ AtMostOneStart'
<1> USE DEF StartInv
<1>1. CASE SameOps(journal, journal') /\ ~SaveStart
  <2>1. /\ Sender("start")' = Sender("start")
        /\ journal'.startSaved = journal.startSaved
    BY <1>1 DEF SameOps, Sender
  <2> QED BY <2>1, <1>1, ObserverArrives DEF StartIsMarked, AtMostOneStart
<1>2. CASE Prepare
  <2>1. Sender("start")' = {} /\ ~journal'.startSaved
    BY <1>2 DEF Prepare, Save, Prepared, NoJournal, NoRow, Sender
  <2>2. pc'[Observer] = "poll"
    BY <1>2 DEF Prepare, Goto, TypeOK, Process
  <2> QED BY <2>1, <2>2 DEF StartIsMarked, AtMostOneStart
<1>3. CASE SaveStart
  <2>1. journal' = [journal EXCEPT !.startSaved = TRUE]
    BY <1>3 DEF SaveStart, Save
  <2>2. Sender("start")' = Sender("start") /\ journal'.startSaved
    BY <2>1 DEF Sender, TypeOK, Journals
  <2>3. Sender("start") = {}
    BY <1>3 DEF SaveStart, StartIsMarked
  <2>4. pc'[Observer] = "launchStart"
    BY <1>3 DEF SaveStart, Goto, TypeOK, Process
  <2> QED BY <2>2, <2>3, <2>4 DEF StartIsMarked, AtMostOneStart
<1>4. ASSUME NEW p \in Process, Reserve(p)
      PROVE  StartIsMarked' /\ AtMostOneStart'
  <2>1. journal'.startSaved = journal.startSaved
    BY <1>4, ReserveStep
  <2>2. CASE Sender("start")' = Sender("start")
    <3>1. ~SaveStart
      BY <1>4 DEF Reserve, SaveStart, Goto, TypeOK, MaySend, SendOf,
                  OnlyObserverStarts, SharedLabels, Process
    <3> QED BY <2>1, <2>2, <3>1, ObserverArrives
            DEF StartIsMarked, AtMostOneStart
  <2>3. CASE /\ p = Observer /\ pc[Observer] = "launchStart"
             /\ Sender("start")' = Sender("start") \union {reserved'}
    <3>1. pc'[Observer] = "launching"
      BY <1>4, <2>3 DEF Reserve, Goto, TypeOK
    <3>2. Sender("start") = {}
      BY <2>3 DEF StartIsMarked
    <3>3. journal.startSaved
      BY <2>3 DEF StartIsMarked
    <3> QED BY <2>1, <2>3, <3>1, <3>2, <3>3 DEF StartIsMarked, AtMostOneStart
  <2> QED BY <1>4, <2>2, <2>3, ReserveStep
<1> QED BY <1>1, <1>2, <1>3, <1>4, RowsStep

LEMMA StartInductive == Spec => []StartInv
<1>1. Init => StartInv
  BY InitType
  DEF Init, StartInv, LaunchIsExclusive, OnlyObserverStarts, SharedLabels,
      StartIsMarked, AtMostOneStart, Sender, NoJournal, NoRow, Process
<1>2. StartInv /\ [Next]_vars => StartInv'
  BY StepType, StepExclusive, StepOnlyObserverStarts, StepStart DEF StartInv
<1> QED BY <1>1, <1>2, PTL DEF Spec

\* Whatever crashes, restarts and refusals interleave with a call, _launch
\* never hands the start of the child to a second controller.
THEOREM StartedOnce == Spec => []AtMostOneStart
<1>1. StartInv => AtMostOneStart
  BY DEF StartInv
<1> QED BY <1>1, StartInductive, PTL

\* A cancellation that reaches the journal before the start is sent prevents
\* it, although the observer decided on the start before it saw the intent.
THEOREM IntentWins == Spec => IntentPreventsStart
<1> DEFINE Kept == journal.intent /\ Sender("start") = {} => Sender("start")' = {}
<1>1. StartInv /\ [Next]_vars => [Kept]_journal
  <2> SUFFICES ASSUME StartInv, [Next]_vars, journal.intent,
                      Sender("start") = {}
               PROVE  Sender("start")' = {}
    OBVIOUS
  <2> USE DEF StartInv
  <2>1. CASE SameOps(journal, journal')
    BY <2>1 DEF SameOps, Sender
  <2>2. CASE Prepare
    BY <2>2 DEF Prepare, Save, Prepared, NoJournal, NoRow, Sender
  <2>3. CASE SaveStart
    BY <2>3 DEF SaveStart, Save, Sender, TypeOK, Journals
  <2>4. CASE \E p \in Process : Reserve(p)
    BY <2>4, ReserveStep
  <2> QED BY <2>1, <2>2, <2>3, <2>4, RowsStep
<1> QED BY <1>1, StartInductive, PTL DEF Spec, IntentPreventsStart

-----------------------------------------------------------------------------
(* What a call is told, and its inductive invariant *)

\* Nothing a journal establishes is ever taken back: receipts, the start
\* envelope, the intent and the rows of the controllers only accumulate.
Grows(j, k) ==
    /\ j.phase # "absent" => k.phase # "absent"
    /\ j.create # "none" => k.create = j.create
    /\ j.startSaved => k.startSaved
    /\ j.start # "none" => k.start = j.start
    /\ j.intent => k.intent
    /\ \A c \in Controller :
          /\ j.rows[c].op # "none" => k.rows[c].op = j.rows[c].op
          /\ j.rows[c].pid => k.rows[c].pid
          /\ j.rows[c].joined => k.rows[c].joined

\* Before prepare has saved the journal there is none, and nobody uses it.
AbsentIsNew ==
    /\ journal.phase = "absent" =>
          /\ journal = NoJournal
          /\ pc[Observer] \in {"idle", "rooted"}
          /\ \A p \in Process \ {Observer} : pc[p] = "idle"
    /\ pc[Observer] = "rooted" => journal.phase = "absent"

\* Core has a start receipt only of a controller that was sent with it.
CoreIsAsked ==
    /\ started # "none" => Sender("start") # {}
    /\ run = NoView <=> started # "applied"

\* A row is empty, or is being launched, or names what became of its sender.
RowsAreOwned ==
    /\ \A c \in Controller :
          /\ journal.rows[c].op = "none" =>
                /\ proc[c] = "none"
                /\ ~journal.rows[c].pid /\ ~journal.rows[c].joined
          /\ journal.rows[c].joined => proc[c] # "live"
    /\ \A p \in Process : pc[p] = "launching" =>
          /\ journal.rows[reserved].op # "none" /\ proc[reserved] = "none"
          /\ ~journal.rows[reserved].pid /\ ~journal.rows[reserved].joined
          /\ p # Observer => journal.rows[reserved].op = "cancel"

\* The observer decides on a journal that has only grown since it read it,
\* and by nothing that creates or starts the child.
SnapshotHolds ==
    /\ Grows(snap, journal)
    /\ pc[Observer] \in {"check", "reload", "act"} => snap.phase # "absent"
    /\ snap.phase # "absent" =>
          /\ pc[Observer] \in {"check", "reload", "act", "cleanup",
                               "launchCancel", "launching"}
          /\ pc[Observer] = "launching" => journal.rows[reserved].op = "cancel"
          /\ snap.create = journal.create
          /\ snap.startSaved = journal.startSaved
          /\ \A c \in Controller, op \in {"create", "start"} :
                snap.rows[c].op = op <=> journal.rows[c].op = op
          /\ snap.obs # NoView => RunKnown(snap)
          /\ snap.phase \in {"prepared", "created"} => Sender("start") = {}

\* What led a process to its place still holds when it goes on from there.
PlacesHold ==
    /\ pc[Observer] = "saveStart" => InstanceKnown(journal)
    /\ pc[Observer] = "recordPolled" => journal.startSaved
    /\ pc[Observer] \in {"copy", "copied", "launchCreate", "recoverCreate"} =>
          ~InstanceKnown(journal)
    /\ \A p \in Process :
          /\ pc[p] = "recordStart" => journal.startSaved
          /\ pc[p] = "writeObs" => RunKnown(journal)
          /\ pc[p] = "setTerminal" => Closed(run)
          /\ pc[p] = "setCleanup" => InstanceKnown(journal)
    /\ \A p \in Process \ {Observer} :
          pc[p] \in {"launchCancel", "launching", "wait"} => RunKnown(journal)

\* A terminal status once read from Core is the status of the run for good.
TrueView(v) ==
    v.status \in TerminalStatus =>
        /\ run.status = v.status
        /\ v.stopped => run.stopped
ViewsAreTrue ==
    /\ TrueView(journal.obs) /\ TrueView(snap.obs)
    /\ \A p \in Process : TrueView(view[p])

\* No run was started by what was sent, if anything.
NeverStarted == Sender("start") = {} \/ started = "refused"

PhaseIsTrue ==
    /\ journal.phase \in {"prepared", "created"} => Sender("start") = {}
    /\ journal.phase = "terminal" => Closed(run) \/ NeverStarted

TrueOfRun(outcome) ==
    RunKnown(journal) /\ Closed(run) /\ outcome = OutcomeOf[run.status]
PreventedForGood == journal.intent /\ Sender("start") = {}

\* What an outcome says of the run in Core, whoever saved it and whenever.
TrueOutcome(outcome) ==
    /\ outcome \in {"CHILD_SUCCEEDED", "CHILD_FAILED"} => TrueOfRun(outcome)
    /\ outcome = "CHILD_CANCELLED" => TrueOfRun(outcome) \/ PreventedForGood
    /\ outcome = "CHILD_ATTENTION" => RunKnown(journal)

SettledOutcomes == {"CHILD_SUCCEEDED", "CHILD_FAILED", "CHILD_CANCELLED",
                    "CHILD_ATTENTION"}
SendersDone ==
    \A c \in Sender("create") \union Sender("start") :
        /\ proc[c] # "live"
        /\ journal.rows[c].joined \/ journal.rows[c].pid

OutcomesAreTrue ==
    /\ TrueOutcome(journal.result) /\ TrueOutcome(manifest.outcome)
    /\ journal.result \in SettledOutcomes => SendersDone
    /\ pc[Observer] \in {"report", "saveResult"} =>
          /\ verdict.outcome # "none"
          /\ TrueOutcome(verdict.outcome)
          /\ verdict.outcome = "CHILD_REFUSED" => NeverStarted
          /\ verdict.outcome \in SettledOutcomes => SendersDone
    /\ pc[Observer] = "saveResult" => manifest.outcome = verdict.outcome

\* A call that prevented even the creation of the child replays for good.
PreventionRests ==
    journal.result = "CHILD_CANCELLED" /\ ~InstanceKnown(journal) =>
        journal.phase = "terminal" /\ pc[Observer] = "idle"

\* With no reconcile beside the call, a terminal phase is that of its result.
ReplayRests ==
    Reconciler = {} /\ journal.phase = "terminal" =>
        /\ pc[Observer] = "idle"
        /\ manifest.outcome = journal.result
        /\ journal.result \in TerminalOutcomes
        /\ journal.result = "CHILD_REFUSED" => NeverStarted
        /\ journal.obs.status \in TerminalStatus =>
              journal.result = OutcomeOf[journal.obs.status]

CallInv ==
    /\ StartInv /\ AbsentIsNew /\ CoreIsAsked /\ JournalIsValid /\ RowsAreOwned
    /\ SnapshotHolds /\ PlacesHold /\ ViewsAreTrue /\ PhaseIsTrue
    /\ OutcomesAreTrue /\ PreventionRests /\ ReplayRests

-----------------------------------------------------------------------------
(* The journal grows *)

LEMMA NothingGrows == \A k : Grows(NoJournal, k)
  BY DEF Grows, NoJournal, NoRow

LEMMA GrowsOn ==
  ASSUME NEW j \in Journals, NEW k \in Journals, NEW l \in Journals,
         Grows(j, k), Grows(k, l)
  PROVE  Grows(j, l)
  BY DEF Grows

LEMMA UpdatesGrow ==
  ASSUME NEW j \in Journals
  PROVE  /\ Grows(j, j)
         /\ Grows(j, [j EXCEPT !.copied = TRUE])
         /\ Grows(j, [j EXCEPT !.startSaved = TRUE])
         /\ Grows(j, [j EXCEPT !.phase = "created"])
         /\ Grows(j, WithIntent(j)) /\ Grows(j, WithObservationLimit(j))
         /\ \A x : Grows(j, WithObservation(j, x))
         /\ \A x : j.create = "none" => Grows(j, WithCreate(j, x))
         /\ \A x \in Verdicts : Grows(j, WithResult(j, x))
         /\ \A x \in Phases \ {"absent"} : Grows(j, WithPhase(j, x))
  BY DEF Grows, WithIntent, WithObservationLimit, WithObservation, WithCreate,
         WithStart, WithResult, WithPhase, PhaseOfOutcome, Journals, Rows

LEMMA StartGrows ==
  ASSUME NEW j \in Journals, NEW x, j.start \in {"none", x}
  PROVE  Grows(j, WithStart(j, x))
  BY DEF Grows, WithStart, Journals, Rows

LEMMA RowsGrow ==
  ASSUME NEW j \in Journals, NEW c \in Controller
  PROVE  /\ Grows(j, WithPid(j, c)) /\ Grows(j, WithJoin(j, c))
         /\ ~j.rows[c].pid /\ ~j.rows[c].joined =>
               \A x, y \in BOOLEAN : Grows(j, WithLaunchFailure(j, c, x, y))
         /\ ~j.rows[c].pid /\ ~j.rows[c].joined /\ j.rows[c].op = "none" =>
               \A op \in {"create", "start", "cancel"} :
                  Grows(j, Reserved(j, c, op))
<1>1. Grows(j, WithPid(j, c)) /\ Grows(j, WithJoin(j, c))
  BY DEF Grows, WithPid, WithJoin, Journals, Rows
<1>2. ASSUME ~j.rows[c].pid, ~j.rows[c].joined, NEW x \in BOOLEAN, NEW y \in BOOLEAN
      PROVE  Grows(j, WithLaunchFailure(j, c, x, y))
  BY <1>2 DEF Grows, WithLaunchFailure, Journals, Rows
<1>3. ASSUME ~j.rows[c].pid, ~j.rows[c].joined, j.rows[c].op = "none",
             NEW op \in {"create", "start", "cancel"}
      PROVE  Grows(j, Reserved(j, c, op))
  BY <1>3 DEF Grows, Reserved, SendingPhase, Journals, Rows
<1> QED BY <1>1, <1>2, <1>3

\* Every step lets the journal grow.
LEMMA StepGrows ==
  ASSUME CallInv, [Next]_vars
  PROVE  Grows(journal, journal')
<1> USE DEF CallInv, StartInv, TypeOK, Save, durable
<1>0. journal \in Journals /\ Grows(journal, journal)
  BY UpdatesGrow
<1>1. CASE Prepare
  <2>1. journal = NoJournal
    BY <1>1 DEF Prepare, AbsentIsNew
  <2> QED BY <2>1, NothingGrows
<1>2. CASE \/ MakeRoot \/ Enter \/ Polled \/ CopyNotOwned \/ CopyFiles
           \/ CopyAgain \/ WriteManifest
  BY <1>0, <1>2
  DEF MakeRoot, Enter, Polled, CopyNotOwned, CopyFiles, CopyAgain,
      WriteManifest
<1>3. CASE \/ CopyPrepared \/ SaveStart \/ LaunchPrevented \/ SaveResult
  BY <1>0, <1>3, UpdatesGrow
  DEF CopyPrepared, SaveStart, LaunchPrevented, SaveResult
<1>4. CASE \E c \in Controller : PollCreate(c) \/ PollStart(c) \/ PollJoin(c)
  BY <1>0, <1>4, UpdatesGrow, RowsGrow DEF PollCreate, PollStart, PollJoin
<1>5. CASE Decide
  BY <1>0, <1>5, UpdatesGrow
  DEF Decide, Snapshot, ReportLimit, Intend, Reload, InTime, ActReports,
      ActCancels, ActPrevents, ActCreates, ActStarts, ActWaits, CleanupOver,
      CleanupContinues
<1>6. CASE RecordPolled \/ \E p \in Process : RecordStart(p)
  <2>1. journal' = WithStart(journal, started)
    BY <1>6 DEF RecordPolled, RecordStart
  <2>2. journal.start \in {"none", started}
    BY DEF JournalIsValid
  <2> QED BY <1>0, <2>1, <2>2, StartGrows
<1>7. ASSUME NEW p \in Process,
             \/ RefreshNothing(p) \/ RefreshInstance(p) \/ InspectRun(p)
             \/ WriteObs(p) \/ LaunchExceeds(p) \/ CancelIntends(p)
             \/ CancelDetaches(p) \/ ReconcileBegins(p)
             \/ ReconcileJudges(p) \/ ReconcileSaves(p)
      PROVE  Grows(journal, journal')
  BY <1>0, <1>7, UpdatesGrow
  DEF RefreshNothing, RefreshInstance, InspectRun, WriteObs, LaunchExceeds,
      CancelIntends, CancelDetaches, ReconcileBegins, ReconcileJudges,
      ReconcileSaves, Phases
<1>8. ASSUME NEW p \in Process,
             Spawn(p) \/ LaunchFails(p) \/ Crash(p) \/ CancelJoins(p)
      PROVE  Grows(journal, journal')
  <2>1. pc[p] = "launching" =>
           /\ reserved \in Controller
           /\ ~journal.rows[reserved].pid /\ ~journal.rows[reserved].joined
    BY DEF LaunchIsExclusive, RowsAreOwned
  <2>2. CASE Spawn(p)
    BY <1>0, <2>1, <2>2, RowsGrow DEF Spawn
  <2>5. CASE LaunchFails(p)
    <3>1. PICK x \in BOOLEAN, y \in BOOLEAN :
             journal' = WithLaunchFailure(journal, reserved, x, y)
      BY <2>5 DEF LaunchFails
    <3>2. pc[p] = "launching"
      BY <2>5 DEF LaunchFails
    <3> QED BY <1>0, <2>1, <3>1, <3>2, RowsGrow
  <2>3. CASE Crash(p)
    BY <1>0, <2>3 DEF Crash
  <2>4. CASE CancelJoins(p)
    BY <1>0, <2>4, RowsGrow DEF CancelJoins, Unjoined, Dead
  <2> QED BY <1>8, <2>2, <2>3, <2>4, <2>5
<1>9. ASSUME NEW p \in Process, Reserve(p)
      PROVE  Grows(journal, journal')
  <2>1. PICK c \in Unused : journal' = Reserved(journal, c, SendOf[pc[p]])
    BY <1>9 DEF Reserve
  <2>2. /\ c \in Controller /\ journal.rows[c].op = "none"
        /\ ~journal.rows[c].pid /\ ~journal.rows[c].joined
    BY DEF Unused, RowsAreOwned
  <2>3. SendOf[pc[p]] \in {"create", "start", "cancel"}
    BY <1>9 DEF Reserve, MaySend, SendOf
  <2> QED BY <1>0, <2>1, <2>2, <2>3, RowsGrow
<1>10. CASE CoreStep \/ WaitExpires \/ CleanupExpires \/ UNCHANGED vars
  BY <1>0, <1>10
  DEF CoreStep, RunMoves, CoreCreates, CoreStarts, ControllerExits,
      WaitExpires, CleanupExpires, vars
<1> QED
  BY <1>1, <1>2, <1>3, <1>4, <1>5, <1>6, <1>7, <1>8, <1>9, <1>10
  DEF Next, CallStep, Refresh, Launch, CancelStep, ReconcileStep, Process

LEMMA FactsStay ==
  ASSUME CallInv, [Next]_vars
  PROVE  /\ InstanceKnown(journal) => InstanceKnown(journal')
         /\ RunKnown(journal) => RunKnown(journal')
         /\ journal.startSaved => journal'.startSaved
         /\ journal.intent => journal'.intent
         /\ journal.phase # "absent" => journal'.phase # "absent"
         /\ \A op \in {"create", "start", "cancel"} :
               Sender(op) \subseteq Sender(op)'
  BY StepGrows DEF Grows, InstanceKnown, RunKnown, Sender

\* The steps that change the journal.
LEMMA JournalStep ==
  ASSUME [Next]_vars
  PROVE  \/ journal' = journal
         \/ Prepare \/ RecordPolled \/ SaveStart \/ LaunchPrevented
         \/ SaveResult
         \/ journal' \in {WithIntent(journal), [journal EXCEPT !.copied = TRUE]}
         \/ \E c \in Controller : PollCreate(c) \/ PollJoin(c)
         \/ \E p \in Process :
               \/ RecordStart(p) \/ WriteObs(p) \/ Reserve(p) \/ Spawn(p)
               \/ LaunchFails(p) \/ CancelJoins(p) \/ CancelDetaches(p)
         \/ \E p \in Reconciler : ReconcileSaves(p)
<1> USE DEF Save, durable
<1>1. CASE \/ MakeRoot \/ Enter \/ Polled \/ CopyNotOwned \/ CopyFiles
           \/ CopyAgain \/ WriteManifest \/ CopyPrepared
  BY <1>1
  DEF MakeRoot, Enter, Polled, CopyNotOwned, CopyFiles, CopyAgain,
      WriteManifest, CopyPrepared
<1>2. CASE Decide
  BY <1>2
  DEF Decide, Snapshot, ReportLimit, Intend, Reload, InTime, ActReports,
      ActCancels, ActPrevents, ActCreates, ActStarts, ActWaits, CleanupOver,
      CleanupContinues
<1>3. CASE \E p \in Process :
              \/ RefreshNothing(p) \/ RefreshInstance(p) \/ InspectRun(p)
              \/ LaunchExceeds(p) \/ CancelIntends(p) \/ ReconcileBegins(p)
              \/ ReconcileJudges(p) \/ Crash(p)
  BY <1>3
  DEF RefreshNothing, RefreshInstance, InspectRun, LaunchExceeds,
      CancelIntends, ReconcileBegins, ReconcileJudges, Crash
<1>4. CASE \/ \E c \in Controller : PollStart(c)
           \/ CoreStep \/ WaitExpires \/ CleanupExpires \/ UNCHANGED vars
  BY <1>4
  DEF PollStart, CoreStep, RunMoves, CoreCreates, CoreStarts,
      ControllerExits, WaitExpires, CleanupExpires, vars
<1> QED
  BY <1>1, <1>2, <1>3, <1>4
  DEF Next, CallStep, Refresh, Launch, CancelStep, ReconcileStep, Process

-----------------------------------------------------------------------------
(* Core *)

LEMMA ClosureIsFinal ==
  ASSUME NEW v \in Views, NEW w \in NextViews(v)
  PROVE  /\ v # NoView /\ w # NoView /\ ~Closed(v)
         /\ v.status \in TerminalStatus => w.status = v.status
<1> USE DEF TerminalStatus, NoView, Closed
<1>1. CASE v.status = "running"
  <2>1. w \in [status : {"paused"} \union Endings, stopped : BOOLEAN]
    BY <1>1 DEF NextViews
  <2> QED BY <1>1, <2>1, EndingsAssumption
<1>2. CASE v.status = "paused" /\ v.stopped
  <2>1. w \in [status : {"running"}, stopped : {FALSE}]
               \union [status : Endings \intersect {"cancelled"}, stopped : {TRUE}]
    BY <1>2 DEF NextViews
  <2>2. w.status \in {"running", "cancelled"}
    BY <2>1
  <2> QED BY <1>2, <2>2
<1>3. CASE v.status = "paused" /\ ~v.stopped
  <2>1. w \in [status : {"paused"}, stopped : {TRUE}]
               \union [status : Endings \intersect {"cancelled"}, stopped : BOOLEAN]
    BY <1>3 DEF NextViews
  <2>2. w.status \in {"paused", "cancelled"}
    BY <2>1
  <2> QED BY <1>3, <2>2
<1>4. CASE v.status \in TerminalStatus /\ ~v.stopped
  <2>1. w \in [status : {v.status}, stopped : {TRUE}]
    BY <1>4 DEF NextViews
  <2> QED BY <1>4, <2>1
<1>5. CASE /\ v.status \notin {"running", "paused"}
           /\ ~(v.status \in TerminalStatus /\ ~v.stopped)
  <2>1. NextViews(v) = {}
    BY <1>5 DEF NextViews
  <2> QED BY <2>1
<1> QED BY <1>1, <1>2, <1>3, <1>4, <1>5 DEF Views

\* The steps of Core, each of which changes nothing else.
LEMMA CoreMoves ==
  ASSUME TypeOK, [Next]_vars
  PROVE  \/ UNCHANGED core
         \/ /\ UNCHANGED <<durable, reserved, proc, pc, local>>
            /\ \/ instance = "none" /\ UNCHANGED <<started, run>>
               \/ /\ UNCHANGED instance
                  /\ started = "none" /\ Sender("start") # {}
                  /\ \/ /\ started' = "applied"
                        /\ run' = [status |-> "running", stopped |-> FALSE]
                     \/ started' = "refused" /\ run' = run
               \/ UNCHANGED <<instance, started>> /\ run' \in NextViews(run)
<1> USE DEF durable, core
<1>1. CASE \/ MakeRoot \/ Prepare \/ Enter \/ RecordPolled \/ Polled
           \/ CopyNotOwned \/ CopyFiles \/ CopyAgain \/ CopyPrepared
           \/ SaveStart \/ LaunchPrevented \/ WriteManifest \/ SaveResult
  BY <1>1
  DEF MakeRoot, Prepare, Enter, RecordPolled, Polled, CopyNotOwned, CopyFiles,
      CopyAgain, CopyPrepared, SaveStart, LaunchPrevented, WriteManifest,
      SaveResult
<1>2. CASE Decide
  BY <1>2
  DEF Decide, Snapshot, ReportLimit, Intend, Reload, InTime, ActReports,
      ActCancels, ActPrevents, ActCreates, ActStarts, ActWaits, CleanupOver,
      CleanupContinues
<1>3. CASE \E p \in Process :
              \/ Refresh(p) \/ Launch(p) \/ CancelIntends(p) \/ CancelJoins(p)
              \/ CancelDetaches(p) \/ ReconcileBegins(p) \/ ReconcileJudges(p)
              \/ ReconcileSaves(p) \/ Crash(p)
  BY <1>3
  DEF Refresh, RefreshNothing, RefreshInstance, RecordStart, InspectRun,
      WriteObs, Launch, Reserve, LaunchExceeds, Spawn, LaunchFails,
      CancelIntends, CancelJoins, CancelDetaches, ReconcileBegins,
      ReconcileJudges, ReconcileSaves, Crash
<1>4. CASE \/ \E c \in Controller :
                 \/ PollCreate(c) \/ PollStart(c) \/ PollJoin(c)
                 \/ ControllerExits(c)
           \/ WaitExpires \/ CleanupExpires \/ UNCHANGED vars
  BY <1>4
  DEF PollCreate, PollStart, PollJoin, ControllerExits, WaitExpires,
      CleanupExpires, vars
<1>5. CASE \E c \in Controller : CoreCreates(c)
  BY <1>5 DEF CoreCreates
<1>6. CASE \E c \in Controller : CoreStarts(c)
  BY <1>6 DEF CoreStarts, Executes, Sender
<1>7. CASE RunMoves
  BY <1>7 DEF RunMoves
<1> QED
  BY <1>1, <1>2, <1>3, <1>4, <1>5, <1>6, <1>7
  DEF Next, CallStep, CancelStep, ReconcileStep, CoreStep, Process

\* What Core has decided it keeps, and a run that has ended stays so.
LEMMA CoreStays ==
  ASSUME TypeOK, CoreIsAsked, [Next]_vars
  PROVE  /\ started # "none" => started' = started
         /\ instance # "none" => instance' = instance
         /\ run.status \in TerminalStatus =>
               run'.status = run.status /\ (run.stopped => run'.stopped)
         /\ Closed(run) => run' = run
<1>1. CASE UNCHANGED core
  BY <1>1 DEF core
<1>2. CASE started = "none"
  <2>1. run = NoView
    BY <1>2 DEF CoreIsAsked
  <2>2. run.status \notin TerminalStatus /\ ~Closed(run)
    BY <2>1 DEF NoView, TerminalStatus, Closed
  <2>3. instance = "none" \/ UNCHANGED instance
    BY CoreMoves DEF core
  <2> QED BY <1>2, <2>2, <2>3
<1>3. CASE instance = "none" /\ UNCHANGED <<started, run>>
  BY <1>3
<1>4. CASE UNCHANGED <<instance, started>> /\ run' \in NextViews(run)
  BY <1>4, ClosureIsFinal DEF TypeOK, Closed
<1> QED BY <1>1, <1>2, <1>3, <1>4, CoreMoves

LEMMA StepCoreIsAsked ==
  ASSUME CallInv, [Next]_vars
  PROVE  CoreIsAsked'
<1> USE DEF CallInv, StartInv
<1>1. started' # "none" => Sender("start")' # {}
  BY FactsStay, CoreMoves DEF CoreIsAsked, core
<1>2. run' = NoView <=> started' # "applied"
  BY CoreMoves, ClosureIsFinal DEF CoreIsAsked, core, TypeOK, NoView
<1> QED BY <1>1, <1>2 DEF CoreIsAsked

-----------------------------------------------------------------------------
(* The fields of the journal *)

\* Which step changes a field, and to what.
LEMMA FieldsStep ==
  ASSUME CallInv, [Next]_vars
  PROVE  /\ \/ journal'.create = journal.create
            \/ /\ pc[Observer] = "poll" /\ journal.create = "none"
               /\ journal'.create = instance /\ UNCHANGED <<pc, core, snap>>
         /\ \/ journal'.startSaved = journal.startSaved
            \/ pc[Observer] = "saveStart"
         /\ \/ journal'.start = journal.start
            \/ /\ journal'.start = started /\ UNCHANGED core
               /\ \/ pc[Observer] = "recordPolled"
                  \/ \E p \in Process : pc[p] = "recordStart"
         /\ \/ journal'.obs \in {journal.obs, NoView}
            \/ \E p \in Process : /\ pc[p] = "writeObs" /\ UNCHANGED core
                                  /\ journal'.obs = view[p]
         /\ \/ journal'.result = journal.result
            \/ SaveResult /\ journal'.result = verdict.outcome
<1> DEFINE Goal ==
         /\ \/ journal'.create = journal.create
            \/ /\ pc[Observer] = "poll" /\ journal.create = "none"
               /\ journal'.create = instance /\ UNCHANGED <<pc, core, snap>>
         /\ \/ journal'.startSaved = journal.startSaved
            \/ pc[Observer] = "saveStart"
         /\ \/ journal'.start = journal.start
            \/ /\ journal'.start = started /\ UNCHANGED core
               /\ \/ pc[Observer] = "recordPolled"
                  \/ \E p \in Process : pc[p] = "recordStart"
         /\ \/ journal'.obs \in {journal.obs, NoView}
            \/ \E p \in Process : /\ pc[p] = "writeObs" /\ UNCHANGED core
                                  /\ journal'.obs = view[p]
         /\ \/ journal'.result = journal.result
            \/ SaveResult /\ journal'.result = verdict.outcome
<1> SUFFICES Goal
  OBVIOUS
<1>0. journal \in Journals
  BY DEF CallInv, StartInv, TypeOK
<1> USE DEF Journals, Save
<1>1. CASE journal' = journal
  BY <1>1
<1>2. CASE Prepare
  <2>1. journal = NoJournal
    BY <1>2 DEF Prepare, CallInv, AbsentIsNew
  <2> QED BY <1>2, <2>1 DEF Prepare, Prepared, NoJournal
<1>3. CASE \/ RecordPolled \/ \E p \in Process : RecordStart(p)
  BY <1>0, <1>3 DEF RecordPolled, RecordStart, WithStart, core
<1>4. CASE SaveStart \/ LaunchPrevented
  BY <1>0, <1>4 DEF SaveStart, LaunchPrevented
<1>5. CASE SaveResult
  BY <1>0, <1>5 DEF SaveResult, WithResult
<1>6. CASE journal' \in {WithIntent(journal), [journal EXCEPT !.copied = TRUE]}
  BY <1>0, <1>6 DEF WithIntent
<1>7. CASE \E c \in Controller : PollCreate(c)
  BY <1>0, <1>7 DEF PollCreate, WithCreate, core, local
<1>8. CASE \/ \E c \in Controller : PollJoin(c)
           \/ \E p \in Process : CancelJoins(p)
  BY <1>0, <1>8 DEF PollJoin, CancelJoins, WithJoin
<1>9. CASE \E p \in Process : WriteObs(p)
  BY <1>0, <1>9 DEF WriteObs, WithObservation, WithObservationLimit, core
<1>10. CASE \E p \in Process : Reserve(p) \/ Spawn(p) \/ LaunchFails(p)
  BY <1>0, <1>10
  DEF Reserve, Spawn, LaunchFails, Reserved, WithPid, WithLaunchFailure
<1>11. CASE \/ \E p \in Process : CancelDetaches(p)
            \/ \E p \in Reconciler : ReconcileSaves(p)
  BY <1>0, <1>11 DEF CancelDetaches, ReconcileSaves, WithPhase
<1> QED
  BY <1>1, <1>2, <1>3, <1>4, <1>5, <1>6, <1>7, <1>8, <1>9, <1>10, <1>11,
     JournalStep

LEMMA StepJournalIsValid ==
  ASSUME CallInv, [Next]_vars
  PROVE  JournalIsValid'
<1> USE DEF CallInv, InstanceKnown, RunKnown
<1>1. InstanceKnown(journal)' => instance' = "applied"
  BY FieldsStep, CoreStays DEF JournalIsValid, core, StartInv
<1>2. journal'.startSaved => InstanceKnown(journal)'
  BY FieldsStep, FactsStay DEF JournalIsValid, PlacesHold
<1>3. journal'.start # "none" => journal'.startSaved /\ started' = journal'.start
  BY FieldsStep, FactsStay, CoreStays
  DEF JournalIsValid, PlacesHold, core, StartInv
<1>4. journal'.obs # NoView => RunKnown(journal)'
  BY FieldsStep, FactsStay DEF JournalIsValid, PlacesHold
<1> QED BY <1>1, <1>2, <1>3, <1>4 DEF JournalIsValid

\* The first steps of all are the observer's, and they find no journal.
LEMMA FirstStep ==
  ASSUME CallInv, [Next]_vars, journal.phase = "absent"
  PROVE  \/ MakeRoot \/ Prepare \/ Crash(Observer)
         \/ UNCHANGED <<journal, pc>>
<1> USE DEF CallInv, StartInv, TypeOK, Process
<1>1. /\ journal = NoJournal /\ pc[Observer] \in {"idle", "rooted"}
      /\ \A p \in Process \ {Observer} : pc[p] = "idle"
  BY DEF AbsentIsNew
<1>2. ~journal.intent
  BY <1>1 DEF NoJournal
<1>3. ~Enter /\ ~Decide
  BY <1>1, <1>2
  DEF Enter, Decide, Snapshot, ReportLimit, Intend, Reload, InTime,
      ActReports, ActCancels, ActPrevents, ActCreates, ActStarts,
      ActWaits, CleanupOver, CleanupContinues
<1>4. ~(\/ RecordPolled \/ Polled \/ CopyNotOwned \/ CopyFiles \/ CopyAgain
        \/ CopyPrepared \/ SaveStart \/ LaunchPrevented \/ WriteManifest
        \/ SaveResult
        \/ \E c \in Controller : PollCreate(c) \/ PollStart(c) \/ PollJoin(c))
  BY <1>1
  DEF RecordPolled, Polled, CopyNotOwned, CopyFiles, CopyAgain,
      CopyPrepared, SaveStart, LaunchPrevented, WriteManifest, SaveResult,
      PollCreate, PollStart, PollJoin
<1>5. ASSUME NEW p \in Process
      PROVE  ~(\/ Refresh(p) \/ Launch(p) \/ CancelIntends(p)
               \/ CancelJoins(p) \/ CancelDetaches(p)
               \/ ReconcileBegins(p) \/ ReconcileJudges(p)
               \/ ReconcileSaves(p) \/ (p # Observer /\ Crash(p)))
  <2>1. pc[p] \in {"idle", "rooted"}
    BY <1>1
  <2> QED
    BY <1>1, <2>1
    DEF Refresh, RefreshNothing, RefreshInstance, RecordStart,
        InspectRun, WriteObs, Launch, Reserve, MaySend, SendOf,
        LaunchExceeds, Spawn, LaunchFails, CancelIntends, CancelJoins,
        CancelDetaches, ReconcileBegins, ReconcileJudges, ReconcileSaves,
        Crash
<1>6. CoreStep \/ WaitExpires \/ CleanupExpires \/ UNCHANGED vars =>
         UNCHANGED <<journal, pc>>
  BY DEF CoreStep, RunMoves, CoreCreates, CoreStarts, ControllerExits,
         WaitExpires, CleanupExpires, vars, durable
<1> HIDE DEF TypeOK, CallInv, StartInv
<1>7. CASE CallStep
  BY <1>3, <1>4, <1>5, <1>7 DEF CallStep
<1>8. CASE \E p \in Canceller : CancelIntends(p) \/ CancelStep(p)
  BY <1>5, <1>8 DEF CancelStep
<1>9. CASE \E p \in Reconciler : ReconcileBegins(p) \/ ReconcileStep(p)
  BY <1>5, <1>9 DEF ReconcileStep
<1>10. CASE \E p \in Process : Crash(p)
  BY <1>5, <1>10
<1> QED BY <1>3, <1>6, <1>7, <1>8, <1>9, <1>10 DEF Next

LEMMA StepAbsentIsNew ==
  ASSUME CallInv, [Next]_vars
  PROVE  AbsentIsNew'
<1> USE DEF CallInv, StartInv, TypeOK, Process
<1>1. CASE journal.phase = "absent"
  <2>1. /\ journal = NoJournal /\ pc[Observer] \in {"idle", "rooted"}
        /\ \A p \in Process \ {Observer} : pc[p] = "idle"
    BY <1>1 DEF AbsentIsNew
  <2>3. \/ MakeRoot \/ Prepare \/ Crash(Observer)
        \/ UNCHANGED <<journal, pc>>
    BY <1>1, FirstStep
  <2>4. CASE MakeRoot
    BY <1>1, <2>1, <2>4 DEF MakeRoot, AbsentIsNew, Goto
  <2>5. CASE Prepare
    BY <2>1, <2>5 DEF Prepare, Save, Prepared, NoJournal, AbsentIsNew, Goto
  <2>6. CASE Crash(Observer)
    BY <1>1, <2>1, <2>6 DEF Crash, Leave, Goto, AbsentIsNew, durable
  <2>7. CASE UNCHANGED <<journal, pc>>
    BY <1>1, <2>1, <2>7 DEF AbsentIsNew
  <2> QED BY <2>3, <2>4, <2>5, <2>6, <2>7
<1>2. CASE journal.phase # "absent"
  <2>1. journal'.phase # "absent"
    BY <1>2, FactsStay
  <2>2. pc[Observer] # "rooted"
    BY <1>2 DEF AbsentIsNew
  <2>3. pc'[Observer] # "rooted"
    <3> USE DEF Goto
    <3>1. CASE \/ MakeRoot \/ Prepare \/ Enter \/ RecordPolled \/ Polled
               \/ CopyNotOwned \/ CopyFiles \/ CopyAgain \/ CopyPrepared
               \/ SaveStart \/ LaunchPrevented \/ WriteManifest \/ SaveResult
      BY <1>2, <3>1
      DEF MakeRoot, Prepare, Enter, RecordPolled, Polled, CopyNotOwned,
          CopyFiles, CopyAgain, CopyPrepared, SaveStart, LaunchPrevented,
          WriteManifest, SaveResult, Leave
    <3>2. CASE \E c \in Controller : PollCreate(c) \/ PollStart(c) \/ PollJoin(c)
      BY <2>2, <3>2 DEF PollCreate, PollStart, PollJoin
    <3>3. CASE Decide
      BY <3>3
      DEF Decide, Snapshot, ReportLimit, Intend, Reload, InTime, ActReports,
          ActCancels, ActPrevents, ActCreates, ActStarts, ActWaits,
          CleanupOver, CleanupContinues, Report, Continue
    <3>4. CASE Refresh(Observer) \/ Launch(Observer) \/ Crash(Observer)
      BY <3>4
      DEF Refresh, RefreshNothing, RefreshInstance, RecordStart, InspectRun,
          WriteObs, AfterRefresh, Launch, Reserve, LaunchExceeds, Spawn,
          AfterLaunch, LaunchFails, Leave, Crash
    <3>5. CASE \/ \E p \in Canceller : CancelIntends(p) \/ CancelStep(p)
               \/ \E p \in Reconciler : ReconcileBegins(p) \/ ReconcileStep(p)
               \/ \E p \in Process \ {Observer} : Crash(p)
               \/ CoreStep \/ WaitExpires \/ CleanupExpires \/ UNCHANGED vars
      BY <2>2, <3>5, OthersKeepObserver
    <3> QED BY <3>1, <3>2, <3>3, <3>4, <3>5 DEF Next, CallStep
  <2> QED BY <2>1, <2>3 DEF AbsentIsNew
<1> QED BY <1>1, <1>2

-----------------------------------------------------------------------------
(* Views of the run *)

LEMMA TrueViewStays ==
  ASSUME CallInv, [Next]_vars, NEW v, TrueView(v)
  PROVE  TrueView(v)'
  BY CoreStays DEF TrueView, CallInv, StartInv

\* What a process reads of the run is the run as it is, or nothing.
LEMMA ViewStep ==
  ASSUME TypeOK, [Next]_vars, NEW p \in Process
  PROVE  view'[p] \in {view[p], run, NoView}
<1> USE DEF TypeOK, local
<1>1. CASE \/ MakeRoot \/ Prepare \/ Enter \/ RecordPolled \/ Polled
           \/ CopyNotOwned \/ CopyFiles \/ CopyAgain \/ CopyPrepared
           \/ SaveStart \/ LaunchPrevented \/ WriteManifest \/ SaveResult
  BY <1>1
  DEF MakeRoot, Prepare, Enter, RecordPolled, Polled, CopyNotOwned, CopyFiles,
      CopyAgain, CopyPrepared, SaveStart, LaunchPrevented, WriteManifest,
      SaveResult, Leave
<1>2. CASE Decide
  BY <1>2
  DEF Decide, Snapshot, ReportLimit, Intend, Reload, InTime, ActReports,
      ActCancels, ActPrevents, ActCreates, ActStarts, ActWaits, CleanupOver,
      CleanupContinues
<1>3. CASE \E q \in Process :
              \/ Refresh(q) \/ Launch(q) \/ CancelIntends(q) \/ CancelJoins(q)
              \/ CancelDetaches(q) \/ ReconcileBegins(q) \/ ReconcileJudges(q)
              \/ ReconcileSaves(q) \/ Crash(q)
  BY <1>3
  DEF Refresh, RefreshNothing, RefreshInstance, RecordStart, InspectRun,
      WriteObs, Launch, Reserve, LaunchExceeds, Spawn, LaunchFails,
      CancelIntends, CancelJoins, CancelDetaches, ReconcileBegins,
      ReconcileJudges, ReconcileSaves, Crash, Leave
<1>4. CASE \/ \E c \in Controller : PollCreate(c) \/ PollStart(c) \/ PollJoin(c)
           \/ CoreStep \/ WaitExpires \/ CleanupExpires \/ UNCHANGED vars
  BY <1>4
  DEF PollCreate, PollStart, PollJoin, CoreStep, RunMoves, CoreCreates,
      CoreStarts, ControllerExits, WaitExpires, CleanupExpires, vars
<1> QED
  BY <1>1, <1>2, <1>3, <1>4
  DEF Next, CallStep, CancelStep, ReconcileStep, Process

\* The observer's copy of the journal is a copy of it as it is, or none.
LEMMA SnapStep ==
  ASSUME TypeOK, [Next]_vars
  PROVE  \/ snap' \in {snap, NoJournal}
         \/ /\ snap' = journal /\ UNCHANGED <<durable, reserved, core>>
            /\ pc[Observer] \in {"snapshot", "reload"}
            /\ pc'[Observer] \in {"check", "act"}
<1> USE DEF TypeOK, local, Goto, Process
<1>1. CASE \/ MakeRoot \/ Prepare \/ Enter \/ RecordPolled \/ Polled
           \/ CopyNotOwned \/ CopyFiles \/ CopyAgain \/ CopyPrepared
           \/ SaveStart \/ LaunchPrevented \/ WriteManifest \/ SaveResult
  BY <1>1
  DEF MakeRoot, Prepare, Enter, RecordPolled, Polled, CopyNotOwned, CopyFiles,
      CopyAgain, CopyPrepared, SaveStart, LaunchPrevented, WriteManifest,
      SaveResult, Leave
<1>2. CASE Decide
  BY <1>2
  DEF Decide, Snapshot, ReportLimit, Intend, Reload, InTime, ActReports,
      ActCancels, ActPrevents, ActCreates, ActStarts, ActWaits, CleanupOver,
      CleanupContinues, Report, Continue
<1>3. CASE \E q \in Process :
              \/ Refresh(q) \/ Launch(q) \/ CancelIntends(q) \/ CancelJoins(q)
              \/ CancelDetaches(q) \/ ReconcileBegins(q) \/ ReconcileJudges(q)
              \/ ReconcileSaves(q) \/ Crash(q)
  BY <1>3
  DEF Refresh, RefreshNothing, RefreshInstance, RecordStart, InspectRun,
      WriteObs, Launch, Reserve, LaunchExceeds, Spawn, LaunchFails,
      CancelIntends, CancelJoins, CancelDetaches, ReconcileBegins,
      ReconcileJudges, ReconcileSaves, Crash, Leave
<1>4. CASE \/ \E c \in Controller : PollCreate(c) \/ PollStart(c) \/ PollJoin(c)
           \/ CoreStep \/ WaitExpires \/ CleanupExpires \/ UNCHANGED vars
  BY <1>4
  DEF PollCreate, PollStart, PollJoin, CoreStep, RunMoves, CoreCreates,
      CoreStarts, ControllerExits, WaitExpires, CleanupExpires, vars
<1> QED
  BY <1>1, <1>2, <1>3, <1>4
  DEF Next, CallStep, CancelStep, ReconcileStep, Process

LEMMA StepViewsAreTrue ==
  ASSUME CallInv, [Next]_vars
  PROVE  ViewsAreTrue'
<1> USE DEF CallInv, StartInv
<1>1. TrueView(NoView)' /\ TrueView(NoJournal.obs)'
  BY DEF TrueView, NoView, NoJournal, TerminalStatus
<1>3. TrueView(journal.obs)'
  <2>1. TrueView(journal.obs) /\ \A p \in Process : TrueView(view[p])
    BY DEF ViewsAreTrue
  <2> QED BY <1>1, <2>1, FieldsStep, TrueViewStays
<1>4. TrueView(snap.obs)'
  <2>1. TrueView(journal.obs) /\ TrueView(snap.obs)
    BY DEF ViewsAreTrue
  <2> QED BY <1>1, <2>1, SnapStep, TrueViewStays
<1>5. ASSUME NEW p \in Process PROVE TrueView(view[p])'
  <2>1. TrueView(view[p])
    BY DEF ViewsAreTrue
  <2>2. CASE view'[p] = run
    BY <2>2, CoreStays DEF TrueView
  <2>3. CASE view'[p] = view[p]
    BY <2>1, <2>3, TrueViewStays DEF TrueView
  <2>4. CASE view'[p] = NoView
    BY <2>4 DEF TrueView, NoView, TerminalStatus
  <2> QED BY <2>2, <2>3, <2>4, ViewStep
<1> QED BY <1>3, <1>4, <1>5 DEF ViewsAreTrue

-----------------------------------------------------------------------------
(* Rows, and the launch that holds the lock *)

\* The steps that change the rows.
LEMMA RowsChange ==
  ASSUME CallInv, [Next]_vars
  PROVE  \/ journal'.rows = journal.rows
         \/ Prepare
         \/ \E c \in Dead : /\ journal' = WithJoin(journal, c)
                            /\ UNCHANGED proc
         \/ \E p \in Process : Reserve(p) \/ Spawn(p) \/ LaunchFails(p)
<1> DEFINE Goal ==
         \/ journal'.rows = journal.rows
         \/ Prepare
         \/ \E c \in Dead : /\ journal' = WithJoin(journal, c)
                            /\ UNCHANGED proc
         \/ \E p \in Process : Reserve(p) \/ Spawn(p) \/ LaunchFails(p)
<1> SUFFICES Goal
  OBVIOUS
<1>0. journal \in Journals
  BY DEF CallInv, StartInv, TypeOK
<1> USE DEF Journals, Save
<1>1. CASE \/ journal' = journal
           \/ journal' \in {WithIntent(journal), [journal EXCEPT !.copied = TRUE]}
  BY <1>0, <1>1 DEF WithIntent
<1>2. CASE \/ RecordPolled \/ \E p \in Process : RecordStart(p)
  BY <1>0, <1>2 DEF RecordPolled, RecordStart, WithStart
<1>3. CASE SaveStart \/ LaunchPrevented \/ SaveResult
  BY <1>0, <1>3 DEF SaveStart, LaunchPrevented, SaveResult, WithResult
<1>4. CASE \E c \in Controller : PollCreate(c)
  BY <1>0, <1>4 DEF PollCreate, WithCreate
<1>5. CASE \/ \E c \in Controller : PollJoin(c)
           \/ \E p \in Process : CancelJoins(p)
  <2>1. \A p : Unjoined(p) \subseteq Dead
    BY DEF Unjoined
  <2>2. PICK p \in Process, c \in Controller :
           c \in Unjoined(p) /\ journal' = WithJoin(journal, c) /\ UNCHANGED proc
    BY <1>5 DEF PollJoin, CancelJoins, Unjoined, Dead, Process
  <2> QED BY <2>1, <2>2
<1>6. CASE \E p \in Process : WriteObs(p)
  BY <1>0, <1>6 DEF WriteObs, WithObservation, WithObservationLimit
<1>7. CASE \/ \E p \in Process : CancelDetaches(p)
           \/ \E p \in Reconciler : ReconcileSaves(p)
  BY <1>0, <1>7 DEF CancelDetaches, ReconcileSaves, WithPhase
<1>8. CASE Prepare \/ \E p \in Process : Reserve(p) \/ Spawn(p) \/ LaunchFails(p)
  BY <1>8
<1> HIDE DEF Save, Journals, Goal
<1> QED BY <1>1, <1>2, <1>3, <1>4, <1>5, <1>6, <1>7, <1>8, JournalStep

\* The steps that change a controller or release a lock.
LEMMA LockStep ==
  ASSUME TypeOK, [Next]_vars
  PROVE  \/ /\ LockFree \/ UNCHANGED <<journal, reserved>>
            /\ \/ UNCHANGED proc
               \/ \E c \in Controller : ControllerExits(c)
         \/ \E p \in Process : Spawn(p) \/ LaunchFails(p) \/ Crash(p)
<1> USE DEF Save, durable
<1>1. CASE \/ MakeRoot \/ Prepare \/ Enter \/ RecordPolled \/ Polled
           \/ CopyNotOwned \/ CopyFiles \/ CopyAgain \/ CopyPrepared
           \/ SaveStart \/ LaunchPrevented \/ WriteManifest \/ SaveResult
  BY <1>1
  DEF MakeRoot, Prepare, Enter, RecordPolled, Polled, CopyNotOwned, CopyFiles,
      CopyAgain, CopyPrepared, SaveStart, LaunchPrevented, WriteManifest,
      SaveResult
<1>2. CASE Decide
  BY <1>2
  DEF Decide, Snapshot, ReportLimit, Intend, Reload, InTime, ActReports,
      ActCancels, ActPrevents, ActCreates, ActStarts, ActWaits, CleanupOver,
      CleanupContinues
<1>3. CASE \E p \in Process :
              \/ Refresh(p) \/ Reserve(p) \/ LaunchExceeds(p)
              \/ CancelIntends(p) \/ CancelJoins(p)
              \/ CancelDetaches(p) \/ ReconcileBegins(p) \/ ReconcileJudges(p)
              \/ ReconcileSaves(p)
  BY <1>3
  DEF Refresh, RefreshNothing, RefreshInstance, RecordStart, InspectRun,
      WriteObs, Reserve, MaySend, LaunchExceeds,
      CancelIntends, CancelJoins, CancelDetaches, ReconcileBegins,
      ReconcileJudges, ReconcileSaves
<1>4. CASE \/ \E c \in Controller :
                 \/ PollCreate(c) \/ PollStart(c) \/ PollJoin(c)
                 \/ ControllerExits(c) \/ CoreCreates(c) \/ CoreStarts(c)
           \/ RunMoves \/ WaitExpires \/ CleanupExpires \/ UNCHANGED vars
  BY <1>4
  DEF PollCreate, PollStart, PollJoin, ControllerExits, CoreCreates,
      CoreStarts, RunMoves, WaitExpires, CleanupExpires, vars
<1> QED
  BY <1>1, <1>2, <1>3, <1>4
  DEF Next, CallStep, Launch, CancelStep, ReconcileStep, CoreStep, Process

\* A launch begins by a reservation, and nothing touches its row until it ends.
LEMMA LaunchingStep ==
  ASSUME TypeOK, LaunchIsExclusive, [Next]_vars, NEW p \in Process,
         pc'[p] = "launching", ~Reserve(p)
  PROVE  pc[p] = "launching" /\ UNCHANGED <<journal, reserved>>
<1>1. pc[p] = "launching"
  <2> USE DEF TypeOK, Goto, Process
  <2>1. CASE \/ MakeRoot \/ Prepare \/ Enter \/ RecordPolled \/ Polled
             \/ CopyNotOwned \/ CopyFiles \/ CopyAgain \/ CopyPrepared
             \/ SaveStart \/ LaunchPrevented \/ WriteManifest \/ SaveResult
    BY <2>1
    DEF MakeRoot, Prepare, Enter, RecordPolled, Polled, CopyNotOwned,
        CopyFiles, CopyAgain, CopyPrepared, SaveStart, LaunchPrevented,
        WriteManifest, SaveResult, Leave
  <2>2. CASE Decide
    BY <2>2
    DEF Decide, Snapshot, ReportLimit, Intend, Reload, InTime, ActReports,
        ActCancels, ActPrevents, ActCreates, ActStarts, ActWaits, CleanupOver,
        CleanupContinues, Report, Continue
  <2>3. ASSUME NEW q \in Process,
               \/ Refresh(q) \/ Launch(q) \/ CancelIntends(q) \/ CancelJoins(q)
               \/ CancelDetaches(q) \/ ReconcileBegins(q) \/ ReconcileJudges(q)
               \/ ReconcileSaves(q) \/ Crash(q)
        PROVE  pc[p] = "launching"
    BY <2>3
    DEF Refresh, RefreshNothing, RefreshInstance, RecordStart, InspectRun,
        WriteObs, AfterRefresh, Launch, Reserve, LaunchExceeds, Spawn,
        AfterLaunch, LaunchFails, CancelIntends, CancelJoins, CancelDetaches,
        ReconcileBegins, ReconcileJudges, ReconcileSaves, Crash, Leave
  <2>4. CASE \/ \E c \in Controller :
                   \/ PollCreate(c) \/ PollStart(c) \/ PollJoin(c)
             \/ CoreStep \/ WaitExpires \/ CleanupExpires \/ UNCHANGED vars
    BY <2>4
    DEF PollCreate, PollStart, PollJoin, CoreStep, RunMoves, CoreCreates,
        CoreStarts, ControllerExits, WaitExpires, CleanupExpires, vars
  <2> QED
    BY <2>1, <2>2, <2>3, <2>4
    DEF Next, CallStep, CancelStep, ReconcileStep, Process
<1>2. ~LockFree
  BY <1>1, ControllerAssumption DEF LaunchIsExclusive, LockFree
<1>3. ASSUME NEW q \in Process, Spawn(q) \/ LaunchFails(q) \/ Crash(q)
      PROVE  UNCHANGED <<journal, reserved>>
  <2>1. q # p
    BY <1>3 DEF Spawn, AfterLaunch, LaunchFails, Crash, Leave, Goto, TypeOK
  <2>2. pc[q] # "launching"
    BY <1>1, <2>1 DEF LaunchIsExclusive
  <2> QED BY <1>3, <2>2 DEF Spawn, LaunchFails, Crash, durable
<1> QED BY <1>1, <1>2, <1>3, LockStep

\* What a change of one row leaves of the others, and makes of it.
LEMMA RowFields ==
  ASSUME NEW j \in Journals, NEW c \in Controller, NEW d \in Controller
  PROVE  /\ WithPid(j, c).rows[d].op = j.rows[d].op
         /\ WithPid(j, c).rows[d].joined = j.rows[d].joined
         /\ d # c => WithPid(j, c).rows[d].pid = j.rows[d].pid
         /\ WithPid(j, c).rows[c].pid
         /\ WithJoin(j, c).rows[d].op = j.rows[d].op
         /\ WithJoin(j, c).rows[d].pid = j.rows[d].pid
         /\ d # c => WithJoin(j, c).rows[d].joined = j.rows[d].joined
         /\ WithJoin(j, c).rows[c].joined
  BY DEF WithPid, WithJoin, Journals, Rows

LEMMA FailureFields ==
  ASSUME NEW j \in Journals, NEW c \in Controller, NEW d \in Controller,
         NEW x \in BOOLEAN, NEW y \in BOOLEAN
  PROVE  /\ WithLaunchFailure(j, c, x, y).rows[d].op = j.rows[d].op
         /\ d = c => /\ WithLaunchFailure(j, c, x, y).rows[d].pid = x
                     /\ WithLaunchFailure(j, c, x, y).rows[d].joined = y
         /\ d # c => WithLaunchFailure(j, c, x, y).rows[d] = j.rows[d]
  BY DEF WithLaunchFailure, Journals, Rows

LEMMA ReservedFields ==
  ASSUME NEW j \in Journals, NEW c \in Controller, NEW d \in Controller,
         NEW op \in {"create", "start", "cancel"}
  PROVE  Reserved(j, c, op).rows[d] =
            IF d = c THEN [op |-> op, pid |-> FALSE, joined |-> FALSE]
            ELSE j.rows[d]
  BY DEF Reserved, Journals, Rows

RowIsOwned(c) ==
    /\ journal.rows[c].op = "none" =>
          /\ proc[c] = "none"
          /\ ~journal.rows[c].pid /\ ~journal.rows[c].joined
    /\ journal.rows[c].joined => proc[c] # "live"

LEMMA StepRowIsOwned ==
  ASSUME CallInv, [Next]_vars, NEW c \in Controller
  PROVE  RowIsOwned(c)'
<1>0. /\ journal \in Journals
      /\ proc \in [Controller -> {"none", "live", "printed", "silent"}]
      /\ RowIsOwned(c)
  BY DEF CallInv, StartInv, TypeOK, RowsAreOwned, RowIsOwned
<1>1. ASSUME NEW p \in Process, Spawn(p) \/ LaunchFails(p) \/ Crash(p)
      PROVE  RowIsOwned(c)'
  <2>1. pc[p] = "launching" =>
           /\ reserved \in Controller
           /\ journal.rows[reserved].op # "none"
           /\ ~journal.rows[reserved].pid /\ ~journal.rows[reserved].joined
    BY DEF CallInv, StartInv, LaunchIsExclusive, RowsAreOwned
  <2>2. CASE Spawn(p)
    BY <1>0, <2>1, <2>2, RowFields DEF Spawn, RowIsOwned
  <2>3. CASE LaunchFails(p)
    <3>1. PICK x \in BOOLEAN, y \in BOOLEAN :
             /\ journal' = WithLaunchFailure(journal, reserved, x, y)
             /\ y => proc'[reserved] # "live"
             /\ proc' \in {proc, [proc EXCEPT ![reserved] = "live"],
                           [proc EXCEPT ![reserved] = "silent"]}
      <4>1. proc[reserved] = "none"
        BY <2>3 DEF LaunchFails, CallInv, RowsAreOwned
      <4> QED BY <1>0, <2>1, <2>3, <4>1 DEF LaunchFails
    <3>2. reserved \in Controller /\ journal.rows[reserved].op # "none"
      BY <2>1, <2>3 DEF LaunchFails
    <3>3. CASE c = reserved
      BY <1>0, <3>1, <3>2, <3>3, FailureFields DEF RowIsOwned
    <3>4. CASE c # reserved
      <4>1. journal'.rows[c] = journal.rows[c]
        BY <1>0, <3>1, <3>2, <3>4, FailureFields
      <4>2. proc'[c] = proc[c]
        BY <1>0, <3>1, <3>4
      <4> QED BY <1>0, <4>1, <4>2 DEF RowIsOwned
    <3> QED BY <3>3, <3>4
  <2>4. CASE Crash(p)
    BY <1>0, <2>1, <2>4 DEF Crash, RowIsOwned, durable
  <2> QED BY <1>1, <2>2, <2>3, <2>4
<1>2. CASE proc' = proc \/ \E d \in Controller : ControllerExits(d)
  <2>1. /\ proc[c] = "none" => proc'[c] = "none"
        /\ proc[c] # "live" => proc'[c] # "live"
    BY <1>0, <1>2 DEF ControllerExits
  <2>2. CASE journal'.rows = journal.rows
    BY <1>0, <2>1, <2>2 DEF RowIsOwned
  <2>3. CASE Prepare
    <3>1. journal = NoJournal
      BY <2>3 DEF Prepare, CallInv, AbsentIsNew
    <3>2. journal'.rows = journal.rows
      BY <2>3, <3>1 DEF Prepare, Save, Prepared, NoJournal
    <3> QED BY <2>2, <3>2
  <2>4. CASE \E d \in Dead : journal' = WithJoin(journal, d) /\ UNCHANGED proc
    <3>1. PICK d \in Controller : /\ journal' = WithJoin(journal, d)
                                  /\ UNCHANGED proc
                                  /\ proc[d] \in {"printed", "silent"}
      BY <2>4 DEF Dead
    <3> QED BY <1>0, <3>1, RowFields DEF RowIsOwned
  <2>5. CASE \E p \in Process : Reserve(p)
    <3>1. PICK p \in Process, d \in Controller :
             /\ journal' = Reserved(journal, d, SendOf[pc[p]])
             /\ SendOf[pc[p]] \in {"create", "start", "cancel"}
             /\ d \in Unused
      BY <2>5 DEF Reserve, MaySend, SendOf, Unused
    <3>2. journal.rows[d].op = "none"
      BY <3>1 DEF Unused
    <3>3. proc[d] = "none"
      BY <3>2 DEF CallInv, RowsAreOwned
    <3> QED BY <1>0, <2>1, <3>1, <3>2, <3>3, ReservedFields DEF RowIsOwned
  <2>6. CASE \E p \in Process : Spawn(p) \/ LaunchFails(p)
    BY <1>1, <2>6
  <2> QED BY <2>2, <2>3, <2>4, <2>5, <2>6, RowsChange
<1> QED BY <1>1, <1>2, LockStep DEF CallInv, StartInv

LEMMA StepRowsAreOwned ==
  ASSUME CallInv, [Next]_vars
  PROVE  RowsAreOwned'
<1>1. \A c \in Controller : RowIsOwned(c)'
  BY StepRowIsOwned
<1>2. ASSUME NEW p \in Process, pc'[p] = "launching"
      PROVE  /\ journal'.rows[reserved'].op # "none" /\ proc'[reserved'] = "none"
             /\ ~journal'.rows[reserved'].pid /\ ~journal'.rows[reserved'].joined
             /\ p # Observer => journal'.rows[reserved'].op = "cancel"
  <2> USE DEF CallInv, StartInv
  <2>0. journal \in Journals
    BY DEF TypeOK
  <2>1. CASE Reserve(p)
    <3>1. /\ journal' = Reserved(journal, reserved', SendOf[pc[p]])
          /\ reserved' \in Unused /\ UNCHANGED proc
          /\ SendOf[pc[p]] \in {"create", "start", "cancel"}
      BY <2>1 DEF Reserve, MaySend, SendOf
    <3>2. /\ reserved' \in Controller /\ journal.rows[reserved'].op = "none"
      BY <3>1 DEF Unused
    <3>3. proc[reserved'] = "none"
      BY <3>2 DEF RowsAreOwned
    <3>4. journal'.rows[reserved'] = [op |-> SendOf[pc[p]], pid |-> FALSE,
                                      joined |-> FALSE]
      BY <2>0, <3>1, <3>2, ReservedFields
    <3>5. p # Observer => SendOf[pc[p]] = "cancel"
      BY <2>1 DEF Reserve, MaySend, SendOf, OnlyObserverStarts, SharedLabels
    <3> QED BY <3>1, <3>3, <3>4, <3>5
  <2>2. CASE ~Reserve(p)
    <3>1. pc[p] = "launching" /\ UNCHANGED <<journal, reserved>>
      BY <1>2, <2>2, LaunchingStep
    <3>2. /\ reserved \in Controller
          /\ journal.rows[reserved].op # "none" /\ proc[reserved] = "none"
          /\ ~journal.rows[reserved].pid /\ ~journal.rows[reserved].joined
          /\ p # Observer => journal.rows[reserved].op = "cancel"
      BY <3>1 DEF RowsAreOwned, LaunchIsExclusive
    <3>3. proc'[reserved] = "none"
      <4>1. CASE UNCHANGED proc \/ \E c \in Controller : ControllerExits(c)
        BY <3>2, <4>1 DEF ControllerExits, TypeOK
      <4>2. ASSUME NEW q \in Process, Spawn(q) \/ LaunchFails(q) \/ Crash(q)
            PROVE  UNCHANGED proc
        <5>1. q # p
          BY <1>2, <4>2
          DEF Spawn, AfterLaunch, LaunchFails, Crash, Leave, Goto, TypeOK
        <5>2. pc[q] # "launching"
          BY <3>1, <5>1 DEF LaunchIsExclusive
        <5> QED BY <4>2, <5>2 DEF Spawn, LaunchFails, Crash
      <4> QED BY <3>2, <4>1, <4>2, LockStep
    <3> QED BY <3>1, <3>2, <3>3
  <2> QED BY <2>1, <2>2
<1> QED BY <1>1, <1>2 DEF RowsAreOwned, RowIsOwned

-----------------------------------------------------------------------------
(* The observer's copy of the journal *)

DecidingLabels == {"check", "reload", "act", "cleanup", "launchCancel",
                   "launching"}

\* While it holds a copy the observer is deciding, or cancels.
LEMMA SnapPlaces ==
  ASSUME CallInv, [Next]_vars, snap'.phase # "absent"
  PROVE  pc'[Observer] \in DecidingLabels
<1> USE DEF CallInv, StartInv, TypeOK, Goto, local, Process, DecidingLabels
<1>0. snap.phase # "absent" => pc[Observer] \in DecidingLabels
  BY DEF SnapshotHolds
<1>1. CASE \/ MakeRoot \/ Prepare \/ Enter \/ RecordPolled \/ Polled
           \/ CopyNotOwned \/ CopyFiles \/ CopyAgain \/ CopyPrepared
           \/ SaveStart \/ LaunchPrevented \/ WriteManifest \/ SaveResult
  BY <1>0, <1>1
  DEF MakeRoot, Prepare, Enter, RecordPolled, Polled, CopyNotOwned, CopyFiles,
      CopyAgain, CopyPrepared, SaveStart, LaunchPrevented, WriteManifest,
      SaveResult, Leave, NoJournal
<1>2. CASE \E c \in Controller : PollCreate(c) \/ PollStart(c) \/ PollJoin(c)
  BY <1>0, <1>2 DEF PollCreate, PollStart, PollJoin
<1>3. CASE Decide
  BY <1>0, <1>3
  DEF Decide, Snapshot, ReportLimit, Intend, Reload, InTime, ActReports,
      ActCancels, ActPrevents, ActCreates, ActStarts, ActWaits, CleanupOver,
      CleanupContinues, Report, Continue, NoJournal
<1>4. CASE Refresh(Observer) \/ Launch(Observer)
  <2>1. CASE Spawn(Observer)
    <3>1. /\ pc[Observer] = "launching" /\ snap' = snap
          /\ pc'[Observer] = AfterLaunch(Observer)
      BY <2>1 DEF Spawn
    <3>2. journal.rows[reserved].op = "cancel"
      BY <3>1 DEF SnapshotHolds
    <3> QED BY <3>1, <3>2 DEF AfterLaunch
  <2>2. CASE Refresh(Observer)
    BY <1>0, <2>2
    DEF Refresh, RefreshNothing, RefreshInstance, RecordStart, InspectRun,
        WriteObs
  <2>3. CASE Reserve(Observer)
    BY <2>3 DEF Reserve
  <2>4. CASE LaunchExceeds(Observer) \/ LaunchFails(Observer)
    <3>1. snap' = NoJournal
      BY <2>4 DEF LaunchExceeds, LaunchFails, Leave
    <3> QED BY <3>1 DEF NoJournal
  <2> QED BY <1>4, <2>1, <2>2, <2>3, <2>4 DEF Launch
<1>5. CASE Crash(Observer)
  BY <1>5 DEF Crash, Leave, NoJournal
<1>6. CASE \/ \E p \in Canceller : CancelIntends(p) \/ CancelStep(p)
           \/ \E p \in Reconciler : ReconcileBegins(p) \/ ReconcileStep(p)
           \/ \E p \in Process \ {Observer} : Crash(p)
           \/ CoreStep \/ WaitExpires \/ CleanupExpires \/ UNCHANGED vars
  BY <1>0, <1>6, OthersKeepObserver
<1> QED BY <1>1, <1>2, <1>3, <1>4, <1>5, <1>6 DEF Next, CallStep

SameSenders(j, k) ==
    \A c \in Controller, op \in {"create", "start"} :
        j.rows[c].op = op <=> k.rows[c].op = op

\* While the observer decides, only cancellations are launched.
LEMMA DecidingKeeps ==
  ASSUME CallInv, [Next]_vars, snap.phase # "absent"
  PROVE  /\ SameSenders(journal, journal')
         /\ journal'.startSaved = journal.startSaved
         /\ journal'.create = journal.create
<1> USE DEF CallInv, StartInv
<1>0. pc[Observer] \in DecidingLabels
  BY DEF SnapshotHolds, DecidingLabels
<1>1. /\ journal'.startSaved = journal.startSaved
      /\ journal'.create = journal.create
  BY <1>0, FieldsStep DEF DecidingLabels
<1>2. CASE SameOps(journal, journal')
  BY <1>1, <1>2 DEF SameOps, SameSenders
<1>3. ~Prepare /\ ~SaveStart
  BY <1>0 DEF DecidingLabels, Prepare, SaveStart
<1>4. ASSUME NEW p \in Process, Reserve(p)
      PROVE  SameSenders(journal, journal')
  <2>1. pc[p] = "launchCancel"
    BY <1>0, <1>4
    DEF DecidingLabels, Reserve, MaySend, SendOf, OnlyObserverStarts,
        SharedLabels
  <2>2. PICK c \in Controller : /\ journal.rows[c].op = "none"
                                /\ journal' = Reserved(journal, c, "cancel")
    BY <1>4, <2>1 DEF Reserve, Unused, SendOf
  <2>3. journal \in Journals
    BY DEF TypeOK
  <2> QED BY <2>2, <2>3, ReservedFields DEF SameSenders
<1> QED BY <1>1, <1>2, <1>3, <1>4, RowsStep

LEMMA StepSnapshotHolds ==
  ASSUME CallInv, [Next]_vars
  PROVE  SnapshotHolds'
<1>0. /\ journal \in Journals /\ journal' \in Journals /\ snap \in Journals
      /\ Grows(snap, journal) /\ TypeOK /\ OnlyObserverStarts
  BY StepType DEF CallInv, StartInv, TypeOK, SnapshotHolds
<1>1. Grows(snap, journal)'
  <2>1. Grows(snap, journal')
    BY <1>0, StepGrows, GrowsOn
  <2>2. Grows(NoJournal, journal') /\ Grows(journal', journal')
    BY <1>0, NothingGrows, UpdatesGrow
  <2> QED BY <1>0, <2>1, <2>2, SnapStep DEF durable
<1>2. pc'[Observer] \in {"check", "reload", "act"} => snap'.phase # "absent"
  <2>1. CASE journal.phase = "absent"
    <3>1. pc[Observer] \in {"idle", "rooted"}
      BY <2>1 DEF CallInv, AbsentIsNew
    <3> QED
      BY <1>0, <2>1, <3>1, FirstStep
      DEF MakeRoot, Prepare, Crash, Leave, Goto, TypeOK, Process
  <2>2. CASE journal.phase # "absent"
    BY <1>0, <2>2, ObserverArrives DEF CallInv, SnapshotHolds
  <2> QED BY <2>1, <2>2
<1>3. ASSUME snap'.phase # "absent"
      PROVE  /\ pc'[Observer] \in DecidingLabels
             /\ pc'[Observer] = "launching" =>
                   journal'.rows[reserved'].op = "cancel"
             /\ snap'.create = journal'.create
             /\ snap'.startSaved = journal'.startSaved
             /\ SameSenders(snap', journal')
             /\ snap'.obs # NoView => RunKnown(snap')
             /\ snap'.phase \in {"prepared", "created"} => Sender("start")' = {}
  <2>1. pc'[Observer] \in DecidingLabels
    BY <1>3, SnapPlaces
  <2>2. CASE snap' = journal /\ journal' = journal /\ pc'[Observer] # "launching"
    <3>1. /\ journal.obs # NoView => RunKnown(journal)
          /\ journal.phase \in {"prepared", "created"} => Sender("start") = {}
      BY DEF CallInv, JournalIsValid, PhaseIsTrue
    <3>2. Sender("start")' = Sender("start")
      BY <2>2 DEF Sender
    <3> QED BY <2>1, <2>2, <3>1, <3>2 DEF SameSenders
  <2>3. CASE snap' = snap
    <3>1. snap.phase # "absent"
      BY <1>3, <2>3
    <3>2. /\ pc[Observer] \in DecidingLabels
          /\ snap.create = journal.create
          /\ snap.startSaved = journal.startSaved
          /\ SameSenders(snap, journal)
          /\ snap.obs # NoView => RunKnown(snap)
          /\ snap.phase \in {"prepared", "created"} => Sender("start") = {}
          /\ pc[Observer] = "launching" => journal.rows[reserved].op = "cancel"
      BY <3>1 DEF CallInv, SnapshotHolds, DecidingLabels, SameSenders
    <3>3. /\ SameSenders(journal, journal')
          /\ journal'.startSaved = journal.startSaved
          /\ journal'.create = journal.create
      BY <3>1, DecidingKeeps
    <3>4. Sender("start")' = Sender("start") /\ SameSenders(snap, journal')
      BY <3>2, <3>3 DEF SameSenders, Sender
    <3>5. ASSUME pc'[Observer] = "launching"
          PROVE  journal'.rows[reserved'].op = "cancel"
      <4>1. CASE Reserve(Observer)
        <5>1. pc[Observer] = "launchCancel"
          BY <3>2, <4>1 DEF DecidingLabels, Reserve, MaySend, SendOf
        <5>2. /\ journal' = Reserved(journal, reserved', "cancel")
              /\ reserved' \in Controller
          BY <4>1, <5>1 DEF Reserve, SendOf, Unused
        <5> QED BY <1>0, <5>2, ReservedFields
      <4>2. CASE ~Reserve(Observer)
        <5>1. pc[Observer] = "launching" /\ UNCHANGED <<journal, reserved>>
          BY <1>0, <3>5, <4>2, LaunchingStep DEF CallInv, StartInv, Process
        <5> QED BY <3>2, <5>1
      <4> QED BY <4>1, <4>2
    <3> QED BY <2>1, <2>3, <3>2, <3>3, <3>4, <3>5
  <2> QED BY <1>0, <1>3, <2>2, <2>3, SnapStep DEF durable, NoJournal
<1> QED BY <1>1, <1>2, <1>3 DEF SnapshotHolds, DecidingLabels, SameSenders

-----------------------------------------------------------------------------
(* Places *)

\* What brings a process to the places it may share with others.
LEMMA Arrives ==
  ASSUME TypeOK, [Next]_vars, NEW p \in Process
  PROVE  /\ pc'[p] = "recordStart" => pc[p] = "recordStart" \/ journal.startSaved
         /\ pc'[p] = "writeObs" => pc[p] = "writeObs" \/ RunKnown(journal)
         /\ pc'[p] = "setTerminal" => pc[p] = "setTerminal" \/ Closed(journal.obs)
         /\ pc'[p] = "setCleanup" => pc[p] = "setCleanup" \/ InstanceKnown(journal)
         /\ p # Observer /\ pc'[p] \in {"launchCancel", "launching", "wait"} =>
               \/ pc[p] \in {"launchCancel", "launching", "wait"}
               \/ pc[p] \in {"launchCreate", "recoverCreate", "launchStart"}
               \/ RunKnown(journal)
<1> USE DEF TypeOK, Goto, Process
<1>1. CASE \/ MakeRoot \/ Prepare \/ Enter \/ RecordPolled \/ Polled
           \/ CopyNotOwned \/ CopyFiles \/ CopyAgain \/ CopyPrepared
           \/ SaveStart \/ LaunchPrevented \/ WriteManifest \/ SaveResult
  BY <1>1
  DEF MakeRoot, Prepare, Enter, RecordPolled, Polled, CopyNotOwned, CopyFiles,
      CopyAgain, CopyPrepared, SaveStart, LaunchPrevented, WriteManifest,
      SaveResult, Leave
<1>2. CASE Decide
  BY <1>2
  DEF Decide, Snapshot, ReportLimit, Intend, Reload, InTime, ActReports,
      ActCancels, ActPrevents, ActCreates, ActStarts, ActWaits, CleanupOver,
      CleanupContinues, Report, Continue
<1>3. CASE \E q \in Process : Refresh(q)
  BY <1>3
  DEF Refresh, RefreshNothing, RefreshInstance, RecordStart, InspectRun,
      WriteObs, AfterRefresh
<1>4. CASE \E q \in Process : Launch(q) \/ Crash(q)
  BY <1>4
  DEF Launch, Reserve, MaySend, SendOf, LaunchExceeds, Spawn, AfterLaunch,
      LaunchFails, Crash, Leave
<1>5. CASE \E q \in Process :
              \/ CancelIntends(q) \/ CancelJoins(q) \/ CancelDetaches(q)
              \/ ReconcileBegins(q) \/ ReconcileJudges(q) \/ ReconcileSaves(q)
  BY <1>5
  DEF CancelIntends, CancelJoins, CancelDetaches, ReconcileBegins,
      ReconcileJudges, ReconcileSaves
<1>6. CASE \/ \E c \in Controller : PollCreate(c) \/ PollStart(c) \/ PollJoin(c)
           \/ CoreStep \/ WaitExpires \/ CleanupExpires \/ UNCHANGED vars
  BY <1>6
  DEF PollCreate, PollStart, PollJoin, CoreStep, RunMoves, CoreCreates,
      CoreStarts, ControllerExits, WaitExpires, CleanupExpires, vars
<1> QED
  BY <1>1, <1>2, <1>3, <1>4, <1>5, <1>6
  DEF Next, CallStep, CancelStep, ReconcileStep, Process

CreateLabels == {"copy", "copied", "launchCreate", "recoverCreate"}

\* What brings the observer to the places of its own.
LEMMA ObserverGoes ==
  ASSUME TypeOK, [Next]_vars
  PROVE  /\ pc'[Observer] = "saveStart" =>
               pc[Observer] = "saveStart" \/ InstanceKnown(snap)
         /\ pc'[Observer] = "recordPolled" =>
               pc[Observer] = "recordPolled" \/ Sender("start") # {}
         /\ pc'[Observer] \in CreateLabels =>
               \/ pc[Observer] \in CreateLabels
               \/ /\ ~InstanceKnown(snap)
                  /\ pc[Observer] = "act" \/ snap.phase = "creating"
<1> USE DEF TypeOK, Goto, Process, CreateLabels
<1>1. CASE \/ MakeRoot \/ Prepare \/ Enter \/ RecordPolled \/ Polled
           \/ CopyNotOwned \/ CopyFiles \/ CopyAgain \/ CopyPrepared
           \/ SaveStart \/ LaunchPrevented \/ WriteManifest \/ SaveResult
  BY <1>1
  DEF MakeRoot, Prepare, Enter, RecordPolled, Polled, CopyNotOwned, CopyFiles,
      CopyAgain, CopyPrepared, SaveStart, LaunchPrevented, WriteManifest,
      SaveResult, Leave
<1>2. CASE Decide
  BY <1>2
  DEF Decide, Snapshot, ReportLimit, Intend, Reload, InTime, ActReports,
      ActCancels, ActPrevents, ActCreates, ActStarts, ActWaits, CleanupOver,
      CleanupContinues, Report, Continue, MayRecoverCreate
<1>3. CASE Refresh(Observer) \/ Launch(Observer) \/ Crash(Observer)
  BY <1>3
  DEF Refresh, RefreshNothing, RefreshInstance, RecordStart, InspectRun,
      WriteObs, AfterRefresh, Launch, Reserve, LaunchExceeds, Spawn,
      AfterLaunch, LaunchFails, Crash, Leave
<1>4. CASE \E c \in Controller : PollCreate(c) \/ PollStart(c) \/ PollJoin(c)
  BY <1>4 DEF PollCreate, PollStart, PollJoin, OwnOp, Sender
<1>5. CASE \/ \E p \in Canceller : CancelIntends(p) \/ CancelStep(p)
           \/ \E p \in Reconciler : ReconcileBegins(p) \/ ReconcileStep(p)
           \/ \E p \in Process \ {Observer} : Crash(p)
           \/ CoreStep \/ WaitExpires \/ CleanupExpires \/ UNCHANGED vars
  BY <1>5, OthersKeepObserver
<1> QED BY <1>1, <1>2, <1>3, <1>4, <1>5 DEF Next, CallStep

LEMMA StepPlacesHold ==
  ASSUME CallInv, [Next]_vars
  PROVE  PlacesHold'
<1> USE DEF CallInv, StartInv
<1>0. /\ InstanceKnown(snap) => InstanceKnown(journal)
      /\ Sender("start") # {} => journal.startSaved
      /\ pc[Observer] = "act" \/ snap.phase = "creating" =>
            snap.create = journal.create
  BY DEF SnapshotHolds, Grows, InstanceKnown, StartIsMarked
<1>1. pc'[Observer] = "saveStart" => InstanceKnown(journal)'
  BY <1>0, ObserverGoes, FactsStay DEF PlacesHold
<1>2. pc'[Observer] = "recordPolled" => journal'.startSaved
  BY <1>0, ObserverGoes, FactsStay DEF PlacesHold
<1>3. pc'[Observer] \in CreateLabels => ~InstanceKnown(journal)'
  <2>1. pc'[Observer] \in CreateLabels => ~InstanceKnown(journal)
    BY <1>0, ObserverGoes DEF PlacesHold, CreateLabels, InstanceKnown
  <2>2. journal'.create = journal.create \/ pc'[Observer] = "poll"
    BY FieldsStep
  <2> QED BY <2>1, <2>2 DEF InstanceKnown, CreateLabels
<1>4. ASSUME NEW p \in Process
      PROVE  /\ pc'[p] = "recordStart" => journal'.startSaved
             /\ pc'[p] = "writeObs" => RunKnown(journal)'
             /\ pc'[p] = "setTerminal" => Closed(run')
             /\ pc'[p] = "setCleanup" => InstanceKnown(journal)'
             /\ p # Observer /\ pc'[p] \in {"launchCancel", "launching", "wait"}
                   => RunKnown(journal)'
  <2>1. Closed(journal.obs) => Closed(run)
    BY DEF ViewsAreTrue, TrueView, Closed
  <2>2. Closed(run) => Closed(run')
    BY CoreStays
  <2>3. p # Observer =>
           pc[p] \notin {"launchCreate", "recoverCreate", "launchStart"}
    BY DEF OnlyObserverStarts, SharedLabels
  <2> QED BY <2>1, <2>2, <2>3, Arrives, FactsStay DEF PlacesHold
<1> QED BY <1>1, <1>2, <1>3, <1>4 DEF PlacesHold, CreateLabels

-----------------------------------------------------------------------------
(* Senders *)

SendingLabels == {"launchCreate", "recoverCreate", "launchStart"}

\* Only the observer, where it launches one, adds a sender that may create or
\* start the child.
LEMMA SendersStep ==
  ASSUME CallInv, [Next]_vars
  PROVE  \/ SameSenders(journal, journal')
         \/ Reserve(Observer) /\ pc[Observer] \in SendingLabels
<1> USE DEF CallInv, StartInv
<1>1. CASE SameOps(journal, journal')
  BY <1>1 DEF SameOps, SameSenders
<1>2. CASE Prepare
  <2>1. journal = NoJournal
    BY <1>2 DEF Prepare, AbsentIsNew
  <2>2. journal'.rows = journal.rows
    BY <1>2, <2>1 DEF Prepare, Save, Prepared, NoJournal
  <2> QED BY <2>2 DEF SameSenders
<1>3. CASE SaveStart
  <2>1. journal'.rows = journal.rows
    BY <1>3 DEF SaveStart, Save, TypeOK, Journals
  <2> QED BY <2>1 DEF SameSenders
<1>4. ASSUME NEW p \in Process, Reserve(p), pc[p] \notin SendingLabels
      PROVE  SameSenders(journal, journal')
  <2>1. pc[p] = "launchCancel"
    BY <1>4 DEF Reserve, MaySend, SendOf, SendingLabels
  <2>2. PICK c \in Controller : /\ journal.rows[c].op = "none"
                                /\ journal' = Reserved(journal, c, "cancel")
    BY <1>4, <2>1 DEF Reserve, Unused, SendOf
  <2>3. journal \in Journals
    BY DEF TypeOK
  <2> QED BY <2>2, <2>3, ReservedFields DEF SameSenders
<1>5. \A p \in Process : pc[p] \in SendingLabels => p = Observer
  BY DEF OnlyObserverStarts, SharedLabels, SendingLabels
<1> QED BY <1>1, <1>2, <1>3, <1>4, <1>5, RowsStep

LEMMA SameSender ==
  ASSUME SameSenders(journal, journal')
  PROVE  Sender("start")' = Sender("start") /\ Sender("create")' = Sender("create")
  BY DEF SameSenders, Sender

\* Senders that are done stay so: none of them is being launched.
LEMMA DoneStays ==
  ASSUME CallInv, [Next]_vars, SendersDone, SameSenders(journal, journal')
  PROVE  SendersDone'
<1> SUFFICES ASSUME NEW c \in Controller,
                    c \in Sender("create")' \union Sender("start")'
             PROVE  /\ proc'[c] # "live"
                    /\ journal'.rows[c].joined \/ journal'.rows[c].pid
  BY DEF SendersDone, Sender
<1>1. /\ c \in Sender("create") \union Sender("start")
      /\ proc[c] # "live"
      /\ journal.rows[c].joined \/ journal.rows[c].pid
  BY SameSender DEF SendersDone
<1>2. journal'.rows[c].joined \/ journal'.rows[c].pid
  BY <1>1, StepGrows DEF Grows
<1>3. CASE UNCHANGED proc \/ \E d \in Controller : ControllerExits(d)
  BY <1>1, <1>2, <1>3 DEF ControllerExits, CallInv, StartInv, TypeOK
<1>4. ASSUME NEW p \in Process, Spawn(p) \/ LaunchFails(p) \/ Crash(p)
      PROVE  proc'[c] = proc[c]
  <2>1. CASE pc[p] = "launching"
    <3>1. c # reserved
      BY <1>1, <2>1 DEF CallInv, RowsAreOwned
    <3> QED BY <1>4, <3>1 DEF Spawn, LaunchFails, Crash, CallInv, StartInv, TypeOK
  <2>2. CASE pc[p] # "launching"
    BY <1>4, <2>2 DEF Spawn, LaunchFails, Crash
  <2> QED BY <2>1, <2>2
<1> QED BY <1>1, <1>2, <1>3, <1>4, LockStep DEF CallInv, StartInv

\* After an outcome that says what became of the child, nothing is sent that
\* creates or starts it.
LEMMA SettledKeeps ==
  ASSUME CallInv, [Next]_vars, journal.result \in SettledOutcomes
  PROVE  SameSenders(journal, journal')
<1> USE DEF CallInv, StartInv
<1> SUFFICES ASSUME Reserve(Observer), pc[Observer] \in SendingLabels
             PROVE  FALSE
  BY SendersStep
<1>1. ~RunKnown(journal)
  <2>1. CASE pc[Observer] = "launchStart"
    <3>1. Sender("start") = {}
      BY <2>1 DEF StartIsMarked
    <3> QED BY <3>1 DEF JournalIsValid, CoreIsAsked, RunKnown
  <2>2. CASE pc[Observer] \in CreateLabels
    BY <2>2 DEF PlacesHold, CreateLabels, JournalIsValid, RunKnown
  <2> QED BY <2>1, <2>2 DEF SendingLabels, CreateLabels
<1>2. journal.result = "CHILD_CANCELLED" /\ journal.intent
  BY <1>1
  DEF OutcomesAreTrue, TrueOutcome, TrueOfRun, SettledOutcomes, PreventedForGood
<1>3. pc[Observer] = "recoverCreate"
  BY <1>2 DEF Reserve, MaySend, SendingLabels
<1>4. ~InstanceKnown(journal)
  BY <1>3 DEF PlacesHold
<1> QED BY <1>2, <1>3, <1>4 DEF PreventionRests

\* A cancellation that is known keeps the start from being sent.
LEMMA PreventedStays ==
  ASSUME CallInv, [Next]_vars, PreventedForGood
  PROVE  PreventedForGood'
<1> USE DEF CallInv, StartInv, PreventedForGood
<1>1. journal'.intent
  BY FactsStay
<1>2. CASE SameSenders(journal, journal')
  BY <1>1, <1>2, SameSender
<1>3. CASE Reserve(Observer)
  BY <1>1, <1>3, ReserveStep DEF Process
<1> QED BY <1>2, <1>3, SendersStep

LEMMA TrueOutcomeStays ==
  ASSUME CallInv, [Next]_vars, NEW o, TrueOutcome(o)
  PROVE  TrueOutcome(o)'
<1>1. TrueOfRun(o) => TrueOfRun(o)'
  BY FactsStay, CoreStays DEF TrueOfRun, CallInv, StartInv
<1> QED BY <1>1, PreventedStays, FactsStay DEF TrueOutcome

-----------------------------------------------------------------------------
(* The phase *)

\* The steps that bring the journal to a phase that says something of the
\* child.
LEMMA PhaseStep ==
  ASSUME CallInv, [Next]_vars,
         journal'.phase \in {"prepared", "created", "terminal"}
  PROVE  \/ /\ journal'.phase = journal.phase
            /\ SameSenders(journal, journal')
         \/ Prepare
         \/ /\ journal'.phase = "created" /\ SameSenders(journal, journal')
            /\ journal.create = "none" \/ pc[Observer] = "launchStart"
         \/ SaveResult
         \/ /\ journal'.phase = "terminal" /\ SameSenders(journal, journal')
            /\ \E p \in Reconciler : ReconcileSaves(p) /\ pc[p] = "setTerminal"
<1> DEFINE Goal ==
         \/ journal'.phase = journal.phase
         \/ Prepare
         \/ /\ journal'.phase = "created"
            /\ journal.create = "none" \/ pc[Observer] = "launchStart"
         \/ SaveResult
         \/ /\ journal'.phase = "terminal"
            /\ \E p \in Reconciler : ReconcileSaves(p) /\ pc[p] = "setTerminal"
<1>0. journal \in Journals
  BY DEF CallInv, StartInv, TypeOK
<1>1. ASSUME NEW p \in Process, Reserve(p) PROVE FALSE
  <2>1. PICK op \in {"create", "start", "cancel"}, c \in Controller :
           journal' = Reserved(journal, c, op)
    BY <1>1 DEF Reserve, MaySend, SendOf, Unused
  <2>2. journal'.phase = SendingPhase[op]
    BY <1>0, <2>1 DEF Reserved, Journals
  <2> QED BY <2>2 DEF SendingPhase
<1>2. SameSenders(journal, journal')
  BY <1>1, SendersStep DEF Process
<1>3. Goal
  <2> USE DEF Journals, Save
  <2>1. CASE \/ journal' = journal
             \/ journal' \in {WithIntent(journal), [journal EXCEPT !.copied = TRUE]}
    BY <1>0, <2>1 DEF WithIntent
  <2>2. CASE \/ RecordPolled \/ \E p \in Process : RecordStart(p)
    BY <1>0, <2>2 DEF RecordPolled, RecordStart, WithStart
  <2>3. CASE SaveStart \/ LaunchPrevented
    BY <1>0, <2>3 DEF SaveStart, LaunchPrevented
  <2>4. CASE \E c \in Controller : PollCreate(c)
    BY <1>0, <2>4 DEF PollCreate, WithCreate
  <2>5. CASE \/ \E c \in Controller : PollJoin(c)
             \/ \E p \in Process : CancelJoins(p)
    BY <1>0, <2>5 DEF PollJoin, CancelJoins, WithJoin
  <2>6. CASE \E p \in Process : WriteObs(p)
    BY <1>0, <2>6 DEF WriteObs, WithObservation, WithObservationLimit
  <2>7. CASE \E p \in Process : Spawn(p) \/ LaunchFails(p)
    BY <1>0, <2>7 DEF Spawn, LaunchFails, WithPid, WithLaunchFailure
  <2>8. CASE \/ \E p \in Process : CancelDetaches(p)
             \/ \E p \in Reconciler : ReconcileSaves(p)
    BY <1>0, <2>8 DEF CancelDetaches, ReconcileSaves, WithPhase
  <2>9. CASE Prepare \/ SaveResult
    BY <2>9
  <2> HIDE DEF Journals, Save, Goal
  <2> QED
    BY <1>1, <2>1, <2>2, <2>3, <2>4, <2>5, <2>6, <2>7, <2>8, <2>9, JournalStep
<1> QED BY <1>2, <1>3

LEMMA NeverStays ==
  ASSUME CallInv, [Next]_vars, NeverStarted, SameSenders(journal, journal')
  PROVE  NeverStarted'
  BY SameSender, CoreStays DEF NeverStarted, CallInv, StartInv

LEMMA StepPhaseIsTrue ==
  ASSUME CallInv, [Next]_vars
  PROVE  PhaseIsTrue'
<1> USE DEF CallInv, StartInv
<1>1. Closed(run) => Closed(run')
  BY CoreStays
<1>2. ASSUME journal'.phase = journal.phase, SameSenders(journal, journal')
      PROVE  PhaseIsTrue'
  <2>1. NeverStarted => NeverStarted'
    BY <1>2, NeverStays
  <2> QED BY <1>1, <1>2, <2>1, SameSender DEF PhaseIsTrue
<1>3. CASE Prepare
  BY <1>3 DEF Prepare, Save, Prepared, NoJournal, NoRow, PhaseIsTrue, Sender
<1>4. ASSUME journal'.phase = "created", SameSenders(journal, journal'),
             journal.create = "none" \/ pc[Observer] = "launchStart"
      PROVE  PhaseIsTrue'
  <2>1. Sender("start") = {}
    BY <1>4 DEF StartIsMarked, JournalIsValid, InstanceKnown
  <2> QED BY <1>4, <2>1, SameSender DEF PhaseIsTrue
<1>5. CASE SaveResult
  <2>1. /\ journal'.phase = PhaseOfOutcome(verdict.outcome)
        /\ journal'.rows = journal.rows
    BY <1>5 DEF SaveResult, Save, WithResult, TypeOK, Journals
  <2>2. pc[Observer] = "saveResult"
    BY <1>5 DEF SaveResult
  <2>3. verdict.outcome \in TerminalOutcomes => Closed(run) \/ NeverStarted
    BY <2>2
    DEF OutcomesAreTrue, TrueOutcome, TrueOfRun, PreventedForGood,
        NeverStarted, TerminalOutcomes
  <2>4. NeverStarted => NeverStarted'
    BY <2>1, NeverStays DEF SameSenders
  <2>5. /\ journal'.phase \notin {"prepared", "created"}
        /\ journal'.phase = "terminal" => verdict.outcome \in TerminalOutcomes
    BY <2>1 DEF PhaseOfOutcome
  <2> QED BY <1>1, <2>3, <2>4, <2>5 DEF PhaseIsTrue
<1>6. ASSUME journal'.phase = "terminal",
             \E p \in Reconciler : ReconcileSaves(p) /\ pc[p] = "setTerminal"
      PROVE  PhaseIsTrue'
  <2>1. Closed(run)
    BY <1>6 DEF PlacesHold, Process
  <2> QED BY <1>1, <1>6, <2>1 DEF PhaseIsTrue
<1>7. CASE journal'.phase \notin {"prepared", "created", "terminal"}
  BY <1>7 DEF PhaseIsTrue
<1> QED BY <1>2, <1>3, <1>4, <1>5, <1>6, <1>7, PhaseStep

-----------------------------------------------------------------------------
(* Outcomes *)

ReportLabels == {"report", "saveResult"}

\* A snapshot whose controllers are judged settled: all its senders are done.
LEMMA SettledIsDone ==
  ASSUME CallInv, pc[Observer] = "act", JudgesSettled(TRUE)
  PROVE  SendersDone
<1> SUFFICES ASSUME NEW c \in Controller,
                    c \in Sender("create") \union Sender("start")
             PROVE  /\ proc[c] # "live"
                    /\ journal.rows[c].joined \/ journal.rows[c].pid
  BY DEF SendersDone, Sender
<1>1. snap.rows[c].op # "none"
  BY DEF CallInv, SnapshotHolds, Sender
<1>2. ControllersClosed(snap, Dead)
  BY DEF JudgesSettled, JudgesClosed
<1>3. snap.rows[c].joined \/ (snap.rows[c].pid /\ c \in Dead)
  BY <1>1, <1>2 DEF ControllersClosed
<1>4. /\ snap.rows[c].joined => journal.rows[c].joined
      /\ snap.rows[c].pid => journal.rows[c].pid
  BY DEF CallInv, SnapshotHolds, Grows
<1>5. journal.rows[c].joined => proc[c] # "live"
  BY DEF CallInv, RowsAreOwned
<1> QED BY <1>3, <1>4, <1>5 DEF Dead

\* What the observer decides to report is true when it decides.
TrueReport(outcome) ==
    /\ outcome # "none"
    /\ TrueOutcome(outcome)
    /\ outcome = "CHILD_REFUSED" => NeverStarted
    /\ outcome \in SettledOutcomes => SendersDone

LEMMA UncertainIsTrue == TrueReport("CHILD_UNCERTAIN")
  BY DEF TrueReport, TrueOutcome, SettledOutcomes

LEMMA ObservedIsTrue ==
  ASSUME CallInv, pc[Observer] = "act", NEW settled \in BOOLEAN,
         JudgesSettled(settled), Observed(settled) # "none"
  PROVE  TrueReport(Observed(settled))
<1>1. /\ snap.obs # NoView => RunKnown(snap)
      /\ RunKnown(snap) => RunKnown(journal)
      /\ Closed(snap.obs) => Closed(run) /\ run.status = snap.obs.status
  BY DEF CallInv, SnapshotHolds, Grows, RunKnown, ViewsAreTrue, TrueView, Closed
<1>2. \/ Observed(settled) = "CHILD_UNCERTAIN"
      \/ SendersDone /\ Closed(snap.obs) /\ Observed(settled) = OutcomeOf[snap.obs.status]
      \/ /\ SendersDone /\ snap.obs.status = "paused"
         /\ Observed(settled) = "CHILD_ATTENTION"
  BY SettledIsDone DEF Observed
<1>3. CASE Observed(settled) = "CHILD_UNCERTAIN"
  BY <1>3, UncertainIsTrue
<1>4. ASSUME SendersDone, Closed(snap.obs),
             Observed(settled) = OutcomeOf[snap.obs.status]
      PROVE  TrueReport(Observed(settled))
  <2>1. snap.obs # NoView
    BY <1>4 DEF Closed, NoView, TerminalStatus
  <2>2. TrueOfRun(Observed(settled))
    BY <1>1, <1>4, <2>1 DEF TrueOfRun
  <2>3. OutcomeOf[snap.obs.status] \in
           {"CHILD_SUCCEEDED", "CHILD_FAILED", "CHILD_CANCELLED"}
    BY <1>4 DEF Closed, TerminalStatus, OutcomeOf
  <2> QED BY <1>4, <2>2, <2>3 DEF TrueReport, TrueOutcome
<1>5. ASSUME SendersDone, snap.obs.status = "paused",
             Observed(settled) = "CHILD_ATTENTION"
      PROVE  TrueReport(Observed(settled))
  <2>1. RunKnown(journal)
    BY <1>1, <1>5 DEF NoView
  <2>2. TrueReport("CHILD_ATTENTION")
    BY <1>5, <2>1 DEF TrueReport, TrueOutcome
  <2> QED BY <1>5, <2>2
<1> QED BY <1>2, <1>3, <1>4, <1>5

\* The steps of the observer between its decision and the saved result.
LEMMA ReportStep ==
  ASSUME CallInv, [Next]_vars, pc'[Observer] \in ReportLabels
  PROVE  \/ /\ pc'[Observer] = pc[Observer]
            /\ UNCHANGED <<verdict, manifest>>
         \/ WriteManifest
         \/ /\ pc'[Observer] = "report" /\ UNCHANGED <<durable, proc, core>>
            /\ TrueReport(verdict'.outcome)
<1> USE DEF CallInv, StartInv, TypeOK, Goto, Process, ReportLabels
<1>1. CASE \/ MakeRoot \/ Prepare \/ Enter \/ RecordPolled \/ Polled
           \/ CopyNotOwned \/ CopyFiles \/ CopyAgain \/ CopyPrepared
           \/ SaveStart \/ LaunchPrevented \/ WriteManifest \/ SaveResult
  BY <1>1
  DEF MakeRoot, Prepare, Enter, RecordPolled, Polled, CopyNotOwned, CopyFiles,
      CopyAgain, CopyPrepared, SaveStart, LaunchPrevented, SaveResult, Leave
<1>2. CASE \E c \in Controller : PollCreate(c) \/ PollStart(c) \/ PollJoin(c)
  BY <1>2 DEF PollCreate, PollStart, PollJoin, local
<1>3. CASE Refresh(Observer) \/ Launch(Observer) \/ Crash(Observer)
  BY <1>3
  DEF Refresh, RefreshNothing, RefreshInstance, RecordStart, InspectRun,
      WriteObs, AfterRefresh, Launch, Reserve, LaunchExceeds, Spawn,
      AfterLaunch, LaunchFails, Crash, Leave
<1>4. CASE Snapshot \/ Intend \/ Reload \/ InTime \/ ActCancels \/ ActWaits
           \/ CleanupContinues
  BY <1>4
  DEF Snapshot, Intend, Reload, InTime, ActCancels, ActWaits,
      CleanupContinues, Continue
<1>5. ASSUME NEW outcome, NEW limit, Report(outcome, limit),
             TrueReport(outcome), UNCHANGED <<durable, proc, core>>
      PROVE  /\ pc'[Observer] = "report" /\ UNCHANGED <<durable, proc, core>>
             /\ TrueReport(verdict'.outcome)
  <2>1. verdict'.outcome = outcome /\ pc'[Observer] = "report"
    BY <1>5 DEF Report, Continue
  <2> QED BY <1>5, <2>1
<1> HIDE DEF CallInv, StartInv, TypeOK, Goto
<1>6. CASE ReportLimit \/ CleanupOver
  <2>1. PICK limit \in BOOLEAN : Report("CHILD_UNCERTAIN", limit)
    BY <1>6 DEF ReportLimit, CleanupOver
  <2>2. UNCHANGED <<durable, proc, core>>
    BY <1>6 DEF ReportLimit, CleanupOver
  <2> QED BY <1>5, <2>1, <2>2, UncertainIsTrue
<1>7. CASE ActReports
  <2>1. PICK settled \in BOOLEAN : /\ JudgesSettled(settled)
                                   /\ Observed(settled) # "none"
                                   /\ Report(Observed(settled), FALSE)
    BY <1>7 DEF ActReports
  <2>2. pc[Observer] = "act" /\ UNCHANGED <<durable, proc, core>>
    BY <1>7 DEF ActReports
  <2>3. TrueReport(Observed(settled))
    BY <2>1, <2>2, ObservedIsTrue
  <2> QED BY <1>5, <2>1, <2>2, <2>3
<1>8. CASE ActPrevents
  <2>1. /\ pc[Observer] = "act" /\ UNCHANGED <<durable, proc, core>>
        /\ Report("CHILD_CANCELLED", FALSE) /\ Prevented
        /\ snap.intent /\ JudgesSettled(TRUE)
    BY <1>8 DEF ActPrevents, Goto, CallInv, StartInv, TypeOK
  <2>2. SendersDone
    BY <2>1, SettledIsDone
  <2>3. PreventedForGood
    BY <2>1
    DEF SnapshotHolds, Grows, Prevented, StartIsMarked, PreventedForGood,
        CallInv, StartInv
  <2>4. TrueReport("CHILD_CANCELLED")
    BY <2>2, <2>3 DEF TrueReport, TrueOutcome
  <2> QED BY <1>5, <2>1, <2>4
<1>9. CASE ActCreates
  <2>1. /\ pc[Observer] = "act" /\ UNCHANGED <<durable, proc, core>>
        /\ Report("CHILD_REFUSED", FALSE) /\ snap.create = "refused"
    BY <1>9 DEF ActCreates, Continue, Goto, CallInv, StartInv, TypeOK
  <2>2. NeverStarted
    BY <2>1
    DEF SnapshotHolds, JournalIsValid, InstanceKnown, StartIsMarked,
        NeverStarted, CallInv, StartInv
  <2>3. TrueReport("CHILD_REFUSED")
    BY <2>2 DEF TrueReport, TrueOutcome, SettledOutcomes
  <2> QED BY <1>5, <2>1, <2>3
<1>10. CASE ActStarts
  <2>1. /\ pc[Observer] = "act" /\ UNCHANGED <<durable, proc, core>>
        /\ \/ Report("CHILD_UNCERTAIN", FALSE)
           \/ /\ Report("CHILD_REFUSED", FALSE)
              /\ ~snap.startSaved \/ snap.start = "refused"
    BY <1>10 DEF ActStarts, Continue, Goto, CallInv, StartInv, TypeOK
  <2>2. ~snap.startSaved \/ snap.start = "refused" => NeverStarted
    BY <2>1
    DEF SnapshotHolds, Grows, JournalIsValid, StartIsMarked, NeverStarted,
        CallInv, StartInv
  <2>3. NeverStarted => TrueReport("CHILD_REFUSED")
    BY DEF TrueReport, TrueOutcome, SettledOutcomes
  <2> QED BY <1>5, <2>1, <2>2, <2>3, UncertainIsTrue
<1> USE DEF CallInv, StartInv, TypeOK, Goto
<1>11. ASSUME \/ \E p \in Canceller : CancelIntends(p) \/ CancelStep(p)
              \/ \E p \in Reconciler : ReconcileBegins(p) \/ ReconcileStep(p)
              \/ \E p \in Process \ {Observer} : Crash(p)
              \/ CoreStep \/ WaitExpires \/ CleanupExpires \/ UNCHANGED vars
       PROVE  pc'[Observer] = pc[Observer] /\ UNCHANGED <<verdict, manifest>>
  <2>1. pc'[Observer] = pc[Observer]
    BY <1>11, OthersKeepObserver
  <2>2. ASSUME NEW p \in Process \ {Observer},
               \/ CancelIntends(p) \/ CancelStep(p)
               \/ ReconcileBegins(p) \/ ReconcileStep(p) \/ Crash(p)
        PROVE  UNCHANGED <<verdict, manifest>>
    BY <2>2
    DEF CancelIntends, CancelStep, ReconcileBegins, ReconcileStep, Launch,
        Reserve, LaunchExceeds, Spawn, LaunchFails, CancelJoins,
        CancelDetaches, Refresh, RefreshNothing, RefreshInstance, RecordStart,
        InspectRun, WriteObs, ReconcileJudges, ReconcileSaves, Leave, Crash,
        local, durable
  <2>3. CASE CoreStep \/ WaitExpires \/ CleanupExpires \/ UNCHANGED vars
    BY <2>3
    DEF CoreStep, RunMoves, CoreCreates, CoreStarts, ControllerExits,
        WaitExpires, CleanupExpires, vars, local, durable
  <2> QED BY <1>11, <2>1, <2>2, <2>3, ProcessAssumption
<1> HIDE DEF CallInv, StartInv, TypeOK, Goto
<1> QED
  BY <1>1, <1>2, <1>3, <1>4, <1>6, <1>7, <1>8, <1>9, <1>10, <1>11
  DEF Next, CallStep, Decide

LEMMA TrueReportStays ==
  ASSUME CallInv, [Next]_vars, NEW o, TrueReport(o),
         SameSenders(journal, journal')
  PROVE  /\ o # "none" /\ TrueOutcome(o)'
         /\ o = "CHILD_REFUSED" => NeverStarted'
         /\ o \in SettledOutcomes => SendersDone'
  BY TrueOutcomeStays, NeverStays, DoneStays DEF TrueReport

LEMMA ManifestStep ==
  ASSUME [Next]_vars
  PROVE  UNCHANGED manifest \/ WriteManifest
<1> USE DEF durable
<1>1. CASE \/ MakeRoot \/ Prepare \/ Enter \/ RecordPolled \/ Polled
           \/ CopyNotOwned \/ CopyFiles \/ CopyAgain \/ CopyPrepared
           \/ SaveStart \/ LaunchPrevented \/ WriteManifest \/ SaveResult
  BY <1>1
  DEF MakeRoot, Prepare, Enter, RecordPolled, Polled, CopyNotOwned, CopyFiles,
      CopyAgain, CopyPrepared, SaveStart, LaunchPrevented, SaveResult
<1>2. CASE Decide
  BY <1>2
  DEF Decide, Snapshot, ReportLimit, Intend, Reload, InTime, ActReports,
      ActCancels, ActPrevents, ActCreates, ActStarts, ActWaits, CleanupOver,
      CleanupContinues
<1>3. CASE \E q \in Process :
              \/ Refresh(q) \/ Launch(q) \/ CancelIntends(q) \/ CancelJoins(q)
              \/ CancelDetaches(q) \/ ReconcileBegins(q) \/ ReconcileJudges(q)
              \/ ReconcileSaves(q) \/ Crash(q)
  BY <1>3
  DEF Refresh, RefreshNothing, RefreshInstance, RecordStart, InspectRun,
      WriteObs, Launch, Reserve, LaunchExceeds, Spawn, LaunchFails,
      CancelIntends, CancelJoins, CancelDetaches, ReconcileBegins,
      ReconcileJudges, ReconcileSaves, Crash
<1>4. CASE \/ \E c \in Controller : PollCreate(c) \/ PollStart(c) \/ PollJoin(c)
           \/ CoreStep \/ WaitExpires \/ CleanupExpires \/ UNCHANGED vars
  BY <1>4
  DEF PollCreate, PollStart, PollJoin, CoreStep, RunMoves, CoreCreates,
      CoreStarts, ControllerExits, WaitExpires, CleanupExpires, vars
<1> QED
  BY <1>1, <1>2, <1>3, <1>4
  DEF Next, CallStep, CancelStep, ReconcileStep, Process

LEMMA StepOutcomesAreTrue ==
  ASSUME CallInv, [Next]_vars
  PROVE  OutcomesAreTrue'
<1>0. /\ TrueOutcome(journal.result) /\ TrueOutcome(manifest.outcome)
      /\ journal.result \in SettledOutcomes => SendersDone
      /\ pc[Observer] \in ReportLabels => TrueReport(verdict.outcome)
      /\ pc[Observer] = "saveResult" => manifest.outcome = verdict.outcome
  BY DEF CallInv, OutcomesAreTrue, ReportLabels, TrueReport
<1>1. pc[Observer] \in ReportLabels => SameSenders(journal, journal')
  BY SendersStep DEF ReportLabels, SendingLabels
<1>3. TrueOutcome(journal.result)'
  <2>1. CASE journal'.result = journal.result
    <3>1. TrueOutcome(journal.result)
      BY <1>0
    <3>2. PICK r : r = journal.result
      OBVIOUS
    <3>3. TrueOutcome(r)'
      BY <3>1, <3>2, TrueOutcomeStays
    <3> QED BY <2>1, <3>2, <3>3 DEF TrueOutcome, TrueOfRun
  <2>2. CASE SaveResult /\ journal'.result = verdict.outcome
    <3>1. PICK r : r = verdict.outcome
      OBVIOUS
    <3>2. TrueOutcome(r)'
      BY <1>0, <1>1, <2>2, <3>1, TrueReportStays DEF SaveResult, ReportLabels
    <3> QED BY <2>2, <3>1, <3>2 DEF TrueOutcome, TrueOfRun
  <2> QED BY <2>1, <2>2, FieldsStep
<1>4. journal'.result \in SettledOutcomes => SendersDone'
  <2>1. CASE SaveResult /\ journal'.result = verdict.outcome
    <3>1. verdict.outcome \in SettledOutcomes => SendersDone'
      BY <1>0, <1>1, <2>1, TrueReportStays DEF SaveResult, ReportLabels
    <3> QED BY <2>1, <3>1
  <2>2. CASE journal'.result = journal.result
    BY <1>0, <2>2, SettledKeeps, DoneStays
  <2> QED BY <2>1, <2>2, FieldsStep
<1>5. /\ pc'[Observer] \in ReportLabels => (TrueReport(verdict.outcome))'
      /\ pc'[Observer] = "saveResult" => manifest'.outcome = verdict'.outcome
  <2> SUFFICES ASSUME pc'[Observer] \in ReportLabels
               PROVE  /\ (TrueReport(verdict.outcome))'
                      /\ pc'[Observer] = "saveResult" =>
                            manifest'.outcome = verdict'.outcome
    BY DEF ReportLabels
  <2>0. ASSUME NEW r, r = verdict'.outcome, TrueReport(r),
               SameSenders(journal, journal')
        PROVE  (TrueReport(verdict.outcome))'
    <3>1. /\ r # "none" /\ TrueOutcome(r)'
          /\ r = "CHILD_REFUSED" => NeverStarted'
          /\ r \in SettledOutcomes => SendersDone'
      BY <2>0, TrueReportStays
    <3>2. TrueOutcome(verdict.outcome)'
      BY <2>0, <3>1 DEF TrueOutcome, TrueOfRun
    <3> QED BY <2>0, <3>1, <3>2 DEF TrueReport
  <2>1. CASE pc'[Observer] = pc[Observer] /\ UNCHANGED <<verdict, manifest>>
    BY <1>0, <1>1, <2>0, <2>1
  <2>2. CASE WriteManifest
    <3>1. /\ manifest'.outcome = verdict'.outcome
          /\ verdict'.outcome \in {verdict.outcome, "CHILD_UNCERTAIN"}
          /\ pc[Observer] \in ReportLabels
      BY <2>2 DEF WriteManifest, ReportLabels
    <3> QED BY <1>0, <1>1, <2>0, <3>1, UncertainIsTrue
  <2>3. CASE /\ pc'[Observer] = "report" /\ UNCHANGED <<durable, proc, core>>
             /\ TrueReport(verdict'.outcome)
    <3>1. SameSenders(journal, journal')
      BY <2>3 DEF SameSenders, durable
    <3> QED BY <2>0, <2>3, <3>1
  <2> QED BY <2>1, <2>2, <2>3, ReportStep
<1>6. TrueOutcome(manifest.outcome)'
  <2>1. CASE UNCHANGED manifest
    <3>1. PICK r : r = manifest.outcome
      OBVIOUS
    <3>2. TrueOutcome(r)'
      BY <1>0, <3>1, TrueOutcomeStays
    <3> QED BY <2>1, <3>1, <3>2 DEF TrueOutcome, TrueOfRun
  <2>2. CASE WriteManifest
    <3>1. manifest'.outcome = verdict'.outcome /\ pc'[Observer] \in ReportLabels
      BY <2>2 DEF WriteManifest, Goto, ReportLabels, CallInv, StartInv, TypeOK,
                  Process
    <3>2. TrueOutcome(verdict.outcome)'
      BY <1>5, <3>1 DEF TrueReport
    <3> QED BY <3>1, <3>2 DEF TrueOutcome, TrueOfRun
  <2> QED BY <2>1, <2>2, ManifestStep
<1> QED BY <1>3, <1>4, <1>5, <1>6 DEF OutcomesAreTrue, ReportLabels, TrueReport

-----------------------------------------------------------------------------
(* Results that replay *)

\* A journal that replays its result keeps the observer out.
LEMMA RestingStep ==
  ASSUME CallInv, [Next]_vars, pc[Observer] = "idle", Replays(journal)
  PROVE  pc'[Observer] = "idle" /\ ~SaveResult /\ ~WriteManifest
<1> USE DEF CallInv, StartInv, TypeOK, Process
<1>1. ~Enter /\ ~Decide /\ ~MakeRoot
  BY DEF Replays, Enter, MakeRoot, Decide, Snapshot, ReportLimit, Intend,
         Reload, InTime, ActReports, ActCancels, ActPrevents, ActCreates,
         ActStarts, ActWaits, CleanupOver, CleanupContinues
<1>2. ~(\/ Prepare \/ RecordPolled \/ Polled \/ CopyNotOwned \/ CopyFiles
        \/ CopyAgain \/ CopyPrepared \/ SaveStart \/ LaunchPrevented
        \/ WriteManifest \/ SaveResult
        \/ \E c \in Controller : PollCreate(c) \/ PollStart(c) \/ PollJoin(c))
  BY DEF Prepare, RecordPolled, Polled, CopyNotOwned, CopyFiles, CopyAgain,
         CopyPrepared, SaveStart, LaunchPrevented, WriteManifest, SaveResult,
         PollCreate, PollStart, PollJoin
<1>3. ~(Refresh(Observer) \/ Launch(Observer) \/ Crash(Observer))
  BY DEF Refresh, RefreshNothing, RefreshInstance, RecordStart, InspectRun,
         WriteObs, Launch, Reserve, MaySend, SendOf, LaunchExceeds, Spawn,
         LaunchFails, Crash
<1>4. CASE \/ \E p \in Canceller : CancelIntends(p) \/ CancelStep(p)
           \/ \E p \in Reconciler : ReconcileBegins(p) \/ ReconcileStep(p)
           \/ \E p \in Process \ {Observer} : Crash(p)
           \/ CoreStep \/ WaitExpires \/ CleanupExpires \/ UNCHANGED vars
  BY <1>2, <1>4, OthersKeepObserver
<1> HIDE DEF CallInv, StartInv, TypeOK, Process
<1> QED BY <1>1, <1>2, <1>3, <1>4 DEF Next, CallStep

LEMMA SavedResult ==
  ASSUME CallInv, SaveResult
  PROVE  /\ journal'.result = verdict.outcome
         /\ journal'.phase = PhaseOfOutcome(verdict.outcome)
         /\ journal'.obs = journal.obs /\ journal'.start = journal.start
         /\ journal'.rows = journal.rows
         /\ pc'[Observer] = "idle" /\ pc[Observer] = "saveResult"
         /\ UNCHANGED <<manifest, core>>
  BY DEF SaveResult, Save, WithResult, Leave, Goto, CallInv, StartInv, TypeOK,
         Journals, Process

\* A call prevented before Core knew the child: nobody touches its phase.
LEMMA PreventedKeepsPhase ==
  ASSUME CallInv, [Next]_vars, journal.phase = "terminal",
         pc[Observer] = "idle", ~InstanceKnown(journal)
  PROVE  journal'.phase = "terminal"
<1> USE DEF CallInv, StartInv
<1>0. journal \in Journals /\ ~journal.startSaved /\ ~RunKnown(journal)
  BY DEF TypeOK, JournalIsValid, RunKnown
<1>1. ASSUME NEW p \in Process PROVE ~RecordStart(p) /\ ~WriteObs(p)
  BY <1>0 DEF PlacesHold, RecordStart, WriteObs
<1>2. ASSUME NEW p \in Process
      PROVE  ~(\/ Reserve(p) \/ Spawn(p) \/ LaunchFails(p) \/ CancelJoins(p)
               \/ CancelDetaches(p))
  <2>1. pc[p] \notin {"launchCancel", "launching", "wait"} \union SendingLabels
    BY <1>0 DEF PlacesHold, OnlyObserverStarts, SharedLabels, SendingLabels
  <2> QED
    BY <2>1
    DEF Reserve, MaySend, SendOf, Spawn, LaunchFails, CancelJoins,
        CancelDetaches, SendingLabels
<1>3. ~(\/ Prepare \/ RecordPolled \/ SaveStart \/ LaunchPrevented \/ SaveResult
        \/ \E c \in Controller : PollCreate(c) \/ PollJoin(c))
  BY DEF Prepare, RecordPolled, SaveStart, LaunchPrevented, SaveResult,
         PollCreate, PollJoin
<1>4. ASSUME NEW p \in Reconciler, ReconcileSaves(p)
      PROVE  journal'.phase = "terminal"
  <2>1. pc[p] # "setCleanup"
    BY DEF PlacesHold, Process
  <2> QED BY <1>0, <1>4, <2>1 DEF ReconcileSaves, Save, WithPhase, Journals
<1>5. CASE \/ journal' = journal
           \/ journal' \in {WithIntent(journal), [journal EXCEPT !.copied = TRUE]}
  BY <1>0, <1>5 DEF WithIntent, Journals
<1> HIDE DEF CallInv, StartInv
<1> QED BY <1>1, <1>2, <1>3, <1>4, <1>5, JournalStep

LEMMA StepPreventionRests ==
  ASSUME CallInv, [Next]_vars
  PROVE  PreventionRests'
<1> SUFFICES ASSUME journal'.result = "CHILD_CANCELLED",
                    ~InstanceKnown(journal')
             PROVE  journal'.phase = "terminal" /\ pc'[Observer] = "idle"
  BY DEF PreventionRests
<1>1. ~InstanceKnown(journal)
  BY FactsStay
<1>2. CASE journal.result = "CHILD_CANCELLED"
  <2>1. journal.phase = "terminal" /\ pc[Observer] = "idle"
    BY <1>1, <1>2 DEF CallInv, PreventionRests
  <2>2. journal.obs = NoView
    BY <1>1 DEF CallInv, JournalIsValid, RunKnown
  <2>3. Replays(journal)
    BY <1>2, <2>1, <2>2 DEF Replays, NoView, TerminalStatus
  <2> QED BY <1>1, <2>1, <2>3, RestingStep, PreventedKeepsPhase
<1>3. CASE SaveResult
  <2>1. verdict.outcome = "CHILD_CANCELLED"
    BY <1>3, SavedResult
  <2> QED BY <1>3, <2>1, SavedResult DEF PhaseOfOutcome, TerminalOutcomes
<1> QED BY <1>2, <1>3, FieldsStep

\* The result that a view of an ended run replays is that of the run.
LEMMA EndedAgrees ==
  ASSUME CallInv, NEW v, NEW o \in TerminalOutcomes, TrueOutcome(o),
         o = "CHILD_REFUSED" => NeverStarted,
         TrueView(v), v.status \in TerminalStatus, RunKnown(journal)
  PROVE  o = OutcomeOf[v.status]
<1>1. run.status = v.status
  BY DEF TrueView
<1>2. started = "applied" /\ Sender("start") # {}
  BY DEF CallInv, JournalIsValid, RunKnown, CoreIsAsked
<1>3. TrueOfRun(o)
  BY <1>2
  DEF TerminalOutcomes, TrueOutcome, NeverStarted, PreventedForGood
<1> QED BY <1>1, <1>3 DEF TrueOfRun

ReplayIsTrue ==
    /\ pc[Observer] = "idle"
    /\ manifest.outcome = journal.result
    /\ journal.result \in TerminalOutcomes
    /\ journal.result = "CHILD_REFUSED" => NeverStarted
    /\ journal.obs.status \in TerminalStatus =>
          journal.result = OutcomeOf[journal.obs.status]

LEMMA SavedReplays ==
  ASSUME CallInv, [Next]_vars, SaveResult, journal'.phase = "terminal"
  PROVE  ReplayIsTrue'
<1>1. /\ pc[Observer] = "saveResult" /\ journal'.result = verdict.outcome
      /\ pc'[Observer] = "idle" /\ UNCHANGED <<manifest, core>>
      /\ journal'.obs = journal.obs /\ SameSenders(journal, journal')
  BY SavedResult DEF SameSenders
<1>2. verdict.outcome \in TerminalOutcomes
  BY SavedResult DEF PhaseOfOutcome
<1>3. /\ manifest.outcome = verdict.outcome /\ TrueOutcome(verdict.outcome)
      /\ verdict.outcome = "CHILD_REFUSED" => NeverStarted
  BY <1>1 DEF CallInv, OutcomesAreTrue
<1>4. journal.obs.status \in TerminalStatus =>
         verdict.outcome = OutcomeOf[journal.obs.status]
  <2> SUFFICES ASSUME journal.obs.status \in TerminalStatus
               PROVE  verdict.outcome = OutcomeOf[journal.obs.status]
    OBVIOUS
  <2>1. RunKnown(journal)
    BY DEF CallInv, JournalIsValid, NoView, TerminalStatus
  <2>2. TrueView(journal.obs)
    BY DEF CallInv, ViewsAreTrue
  <2> QED BY <1>2, <1>3, <2>1, <2>2, EndedAgrees
<1>5. NeverStarted => NeverStarted'
  BY <1>1, NeverStays
<1> QED BY <1>1, <1>2, <1>3, <1>4, <1>5 DEF ReplayIsTrue

LEMMA StepReplayRests ==
  ASSUME CallInv, [Next]_vars
  PROVE  ReplayRests'
<1> SUFFICES ASSUME Reconciler = {}, journal'.phase = "terminal"
             PROVE  ReplayIsTrue'
  BY DEF ReplayRests, ReplayIsTrue
<1>1. CASE SaveResult
  BY <1>1, SavedReplays
<1>2. ASSUME journal.phase = "terminal", SameSenders(journal, journal')
      PROVE  ReplayIsTrue'
  <2>1. ReplayIsTrue
    BY <1>2 DEF CallInv, ReplayRests, ReplayIsTrue
  <2>2. Replays(journal)
    BY <1>2, <2>1 DEF ReplayIsTrue, Replays, TerminalOutcomes
  <2>3. pc'[Observer] = "idle" /\ ~SaveResult /\ ~WriteManifest
    BY <2>1, <2>2, RestingStep DEF ReplayIsTrue
  <2>4. journal'.result = journal.result /\ manifest' = manifest
    BY <2>3, FieldsStep, ManifestStep
  <2>5. NeverStarted => NeverStarted'
    BY <1>2, NeverStays
  <2>6. journal'.obs.status \in TerminalStatus =>
           journal.result = OutcomeOf[journal'.obs.status]
    <3>1. CASE journal'.obs = journal.obs
      BY <2>1, <3>1 DEF ReplayIsTrue
    <3>2. CASE journal'.obs = NoView
      BY <3>2 DEF NoView, TerminalStatus
    <3>3. ASSUME NEW p \in Process, pc[p] = "writeObs", journal'.obs = view[p],
                 view[p].status \in TerminalStatus
          PROVE  journal.result = OutcomeOf[journal'.obs.status]
      <4>1. RunKnown(journal) /\ TrueView(view[p])
        BY <3>3 DEF CallInv, PlacesHold, ViewsAreTrue
      <4>2. TrueOutcome(journal.result)
        BY DEF CallInv, OutcomesAreTrue
      <4> QED BY <2>1, <3>3, <4>1, <4>2, EndedAgrees DEF ReplayIsTrue
    <3> QED BY <3>1, <3>2, <3>3, FieldsStep
  <2> QED BY <2>1, <2>3, <2>4, <2>5, <2>6 DEF ReplayIsTrue
<1>3. ~Prepare
  <2>1. ASSUME Prepare PROVE FALSE
    BY <2>1 DEF Prepare, Save, Prepared, NoJournal
  <2> QED BY <2>1
<1> QED BY <1>1, <1>2, <1>3, PhaseStep

-----------------------------------------------------------------------------
(* The invariant, and what follows from it *)

LEMMA InitCall == Init => CallInv
<1> SUFFICES ASSUME Init PROVE CallInv
  OBVIOUS
<1> USE DEF Init
<1>1. StartInv
  BY InitType
  DEF StartInv, LaunchIsExclusive, OnlyObserverStarts, SharedLabels,
      StartIsMarked, AtMostOneStart, Sender, NoJournal, NoRow, Process
<1>2. AbsentIsNew /\ CoreIsAsked /\ JournalIsValid /\ RowsAreOwned
  BY DEF AbsentIsNew, CoreIsAsked, JournalIsValid, RowsAreOwned, NoJournal,
         NoRow, Process, InstanceKnown, RunKnown
<1>3. SnapshotHolds /\ PlacesHold
  BY NothingGrows DEF SnapshotHolds, PlacesHold, NoJournal, Process
<1>4. ViewsAreTrue /\ PhaseIsTrue
  BY DEF ViewsAreTrue, TrueView, PhaseIsTrue, NoJournal, NoView, TerminalStatus
<1>5. OutcomesAreTrue /\ PreventionRests /\ ReplayRests
  BY DEF OutcomesAreTrue, TrueOutcome, PreventionRests, ReplayRests, NoJournal,
         NoManifest, SettledOutcomes, Process
<1> QED BY <1>1, <1>2, <1>3, <1>4, <1>5 DEF CallInv

LEMMA CallInductive == Spec => []CallInv
<1>1. CallInv /\ [Next]_vars => CallInv'
  <2> SUFFICES ASSUME CallInv, [Next]_vars PROVE CallInv'
    OBVIOUS
  <2>1. StartInv'
    BY StepType, StepExclusive, StepOnlyObserverStarts, StepStart
    DEF CallInv, StartInv
  <2>2. AbsentIsNew' /\ CoreIsAsked' /\ JournalIsValid' /\ RowsAreOwned'
    BY StepAbsentIsNew, StepCoreIsAsked, StepJournalIsValid, StepRowsAreOwned
  <2>3. SnapshotHolds' /\ PlacesHold' /\ ViewsAreTrue' /\ PhaseIsTrue'
    BY StepSnapshotHolds, StepPlacesHold, StepViewsAreTrue, StepPhaseIsTrue
  <2>4. OutcomesAreTrue' /\ PreventionRests' /\ ReplayRests'
    BY StepOutcomesAreTrue, StepPreventionRests, StepReplayRests
  <2> QED BY <2>1, <2>2, <2>3, <2>4 DEF CallInv
<1> QED BY <1>1, InitCall, PTL DEF Spec

\* Core has a run exactly when a sender of the start reached it.
LEMMA KnownIsSent ==
  ASSUME CallInv
  PROVE  /\ RunKnown(journal) => Sender("start") # {} /\ started = "applied"
         /\ NeverStarted => run = NoView
  BY DEF CallInv, JournalIsValid, CoreIsAsked, RunKnown, NeverStarted

\* Every save, by whichever process, keeps the journal one that a later load
\* accepts, and what it identifies is what Core admitted.
THEOREM JournalStaysValid == Spec => []JournalIsValid
<1>1. CallInv => JournalIsValid
  BY DEF CallInv
<1> QED BY <1>1, CallInductive, PTL

\* Success, failure or cancellation of a started child, wherever it is
\* reported, and a terminal phase, are true of the run in Core, although the
\* observer decides on a copy of the journal and on views read earlier.
THEOREM ReportedIsTrue == Spec => []TerminalIsTrue
<1>1. CallInv => TerminalIsTrue
  <2> SUFFICES ASSUME CallInv, RunKnown(journal) PROVE TerminalIsTrue
    BY DEF TerminalIsTrue
  <2>1. ~NeverStarted /\ ~PreventedForGood
    BY KnownIsSent DEF NeverStarted, PreventedForGood
  <2>2. /\ TrueOutcome(journal.result) /\ TrueOutcome(manifest.outcome)
        /\ journal.phase = "terminal" => Closed(run)
    BY <2>1 DEF CallInv, OutcomesAreTrue, PhaseIsTrue
  <2> QED
    BY <2>1, <2>2 DEF TerminalIsTrue, Reported, TrueOutcome, TrueOfRun, Closed
<1> QED BY <1>1, CallInductive, PTL

\* A cancellation reported of a child that was not started is final.
THEOREM PreventionIsFinal == Spec => []PreventedIsFinal
<1>1. CallInv => PreventedIsFinal
  BY DEF CallInv, OutcomesAreTrue, TrueOutcome, TrueOfRun, PreventedForGood,
         PreventedIsFinal, Reported, CoreIsAsked
<1> QED BY <1>1, CallInductive, PTL

\* A result that says what became of the child is saved only when every
\* controller that could create or start it is gone and accounted for.
THEOREM SendersAreDone == Spec => []NoSenderSurvives
<1>1. CallInv => NoSenderSurvives
  BY DEF CallInv, OutcomesAreTrue, SendersDone, SettledOutcomes,
         NoSenderSurvives
<1> QED BY <1>1, CallInductive, PTL

\* Where no reconcile judges beside the call, a journal that replays its
\* result agrees with the manifest, wherever the call crashed before.
THEOREM ReplayedIsReported ==
  ASSUME Reconciler = {}
  PROVE  Spec => []ReplayAgrees
<1>1. CallInv => ReplayAgrees
  BY DEF CallInv, ReplayRests, ReplayAgrees, Replays
<1> QED BY <1>1, CallInductive, PTL

-----------------------------------------------------------------------------
(* The call keeps its contract *)

LEMMA IntentStep ==
  ASSUME CallInv, [Next]_vars
  PROVE  journal'.intent = journal.intent \/ journal' = WithIntent(journal)
<1>0. journal \in Journals
  BY DEF CallInv, StartInv, TypeOK
<1> USE DEF Journals, Save
<1>1. CASE \/ journal' = journal
           \/ journal' \in {WithIntent(journal), [journal EXCEPT !.copied = TRUE]}
  BY <1>0, <1>1
<1>2. CASE Prepare
  <2>1. journal = NoJournal
    BY <1>2 DEF Prepare, CallInv, AbsentIsNew
  <2> QED BY <1>2, <2>1 DEF Prepare, Prepared, NoJournal
<1>3. CASE \/ RecordPolled \/ \E p \in Process : RecordStart(p)
  BY <1>0, <1>3 DEF RecordPolled, RecordStart, WithStart
<1>4. CASE SaveStart \/ LaunchPrevented \/ SaveResult
  BY <1>0, <1>4 DEF SaveStart, LaunchPrevented, SaveResult, WithResult
<1>5. CASE \E c \in Controller : PollCreate(c)
  BY <1>0, <1>5 DEF PollCreate, WithCreate
<1>6. CASE \/ \E c \in Controller : PollJoin(c)
           \/ \E p \in Process : CancelJoins(p)
  BY <1>0, <1>6 DEF PollJoin, CancelJoins, WithJoin
<1>7. CASE \E p \in Process : WriteObs(p)
  BY <1>0, <1>7 DEF WriteObs, WithObservation, WithObservationLimit
<1>8. CASE \E p \in Process : Reserve(p) \/ Spawn(p) \/ LaunchFails(p)
  BY <1>0, <1>8
  DEF Reserve, Spawn, LaunchFails, Reserved, WithPid, WithLaunchFailure
<1>9. CASE \/ \E p \in Process : CancelDetaches(p)
           \/ \E p \in Reconciler : ReconcileSaves(p)
  BY <1>0, <1>9 DEF CancelDetaches, ReconcileSaves, WithPhase
<1> HIDE DEF Journals, Save
<1> QED
  BY <1>1, <1>2, <1>3, <1>4, <1>5, <1>6, <1>7, <1>8, <1>9, JournalStep

\* A step of Core is one of the run in the contract, or none.
LEMMA CoreKeepsContract ==
  ASSUME CallInv, CallInv', [Next]_vars, ~UNCHANGED run
  PROVE  Contract!RunMoves
<1> USE DEF CallInv, StartInv
<1>1. /\ UNCHANGED durable
      /\ \/ /\ started = "none" /\ Sender("start") # {}
            /\ run' = [status |-> "running", stopped |-> FALSE]
         \/ run' \in NextViews(run)
  BY CoreMoves DEF core
<1>2. run \in Views /\ run' \in Views
  BY DEF TypeOK
<1>3. UNCHANGED <<journal.intent, Sender("start") # {}, journal.result>>
  BY <1>1 DEF durable, Sender
<1>4. Sender("start") # {} /\ ~Closed(run) /\ run' # NoView
  <2>1. CASE run' \in NextViews(run)
    BY <1>2, <2>1, ClosureIsFinal DEF CoreIsAsked
  <2>2. CASE /\ started = "none" /\ Sender("start") # {}
             /\ run' = [status |-> "running", stopped |-> FALSE]
    BY <2>2 DEF CoreIsAsked, NoView, Closed, TerminalStatus
  <2> QED BY <1>1, <2>1, <2>2
<1> QED BY <1>2, <1>3, <1>4 DEF Contract!RunMoves

LEMMA StepKeepsContract ==
  ASSUME CallInv, CallInv', [Next]_vars
  PROVE  [Contract!Next]_(Contract!contractVars)
<1> USE DEF Contract!contractVars, Contract!Next
<1>1. CASE ~UNCHANGED run
  BY <1>1, CoreKeepsContract
<1>2. CASE UNCHANGED run /\ SaveResult
  <2>1. /\ journal'.result = verdict.outcome /\ journal'.intent = journal.intent
        /\ Sender("start")' = Sender("start") /\ pc[Observer] = "saveResult"
    <3>1. journal'.intent = journal.intent
      BY <1>2 DEF SaveResult, Save, WithResult, CallInv, StartInv, TypeOK, Journals
    <3> QED BY <1>2, <3>1, SavedResult DEF Sender
  <2>2. /\ TrueOutcome(verdict.outcome)
        /\ verdict.outcome = "CHILD_REFUSED" => NeverStarted
        /\ verdict.outcome \in Outcomes \ {"none"}
    BY <2>1 DEF CallInv, OutcomesAreTrue, StartInv, TypeOK, Verdicts
  <2>3. CASE TrueOfRun(verdict.outcome)
    BY <1>2, <2>1, <2>3 DEF TrueOfRun, Contract!ReportClosed
  <2>4. CASE verdict.outcome = "CHILD_CANCELLED" /\ PreventedForGood
    BY <1>2, <2>1, <2>4 DEF PreventedForGood, Contract!ReportPrevented
  <2>5. CASE verdict.outcome = "CHILD_REFUSED"
    BY <1>2, <2>1, <2>2, <2>5, KnownIsSent DEF Contract!ReportRefused
  <2>6. CASE verdict.outcome = "CHILD_ATTENTION"
    <3>1. run # NoView
      BY <2>2, <2>6, KnownIsSent DEF TrueOutcome, CallInv, CoreIsAsked
    <3> QED BY <1>2, <2>1, <2>6, <3>1 DEF Contract!ReportAttention
  <2>7. CASE verdict.outcome = "CHILD_UNCERTAIN"
    BY <1>2, <2>1, <2>7 DEF Contract!ReportUncertain
  <2> QED
    BY <2>2, <2>3, <2>4, <2>5, <2>6, <2>7 DEF TrueOutcome, Outcomes
<1>3. CASE UNCHANGED run /\ journal'.result = journal.result
  <2>1. CASE journal' = WithIntent(journal)
    <3>1. journal'.intent = TRUE /\ Sender("start")' = Sender("start")
      BY <2>1 DEF WithIntent, Sender, CallInv, StartInv, TypeOK, Journals
    <3> QED BY <1>3, <3>1 DEF Contract!Intend
  <2>2. CASE journal'.intent = journal.intent /\ SameSenders(journal, journal')
    BY <1>3, <2>2, SameSender
  <2>3. CASE /\ journal'.intent = journal.intent
             /\ Reserve(Observer) /\ ~SameSenders(journal, journal')
    <3>1. \/ Sender("start")' = Sender("start")
          \/ /\ pc[Observer] = "launchStart" /\ ~journal.intent
             /\ Sender("start")' # {}
      BY <2>3, ReserveStep DEF CallInv, StartInv, Process
    <3>2. pc[Observer] = "launchStart" => Sender("start") = {}
      BY DEF CallInv, StartInv, StartIsMarked
    <3>3. journal.result # "CHILD_CANCELLED"
      BY <2>3, SettledKeeps DEF SettledOutcomes
    <3> QED BY <1>3, <2>3, <3>1, <3>2, <3>3 DEF Contract!Send
  <2> QED BY <2>1, <2>2, <2>3, IntentStep, SendersStep
<1> QED BY <1>1, <1>2, <1>3, FieldsStep

\* Whatever its processes do, and whichever of them die, the call implements
\* the contract with its parent.
THEOREM CallKeepsContract == Spec => ContractSpec
<1>1. Init => Contract!Init
  BY DEF Init, Contract!Init, NoJournal, NoRow, Sender
<1>2. CallInv /\ CallInv' /\ [Next]_vars => [Contract!Next]_(Contract!contractVars)
  BY StepKeepsContract
<1> QED
  BY <1>1, <1>2, CallInductive, PTL DEF Spec, ContractSpec, Contract!Spec
=============================================================================
