--------------------------- MODULE SubworkflowCall ---------------------------
(***************************************************************************)
(* One call of a child workflow (src/millrace_plus/subworkflows.py): the   *)
(* observer that `call` runs under the observer lock, the `cancel` and     *)
(* `reconcile` commands that other processes run beside it, the detached   *)
(* controller processes they launch, and the Core they all talk to.        *)
(*                                                                         *)
(* They share the journal.  An update is a load, a change and a save under *)
(* the journal lock and is one action here; only _launch holds the lock    *)
(* over several steps (reserve a row, spawn, save the PID), so the lock is *)
(* taken exactly while a launch is under way: reserved names its row.      *)
(* Loads outside the lock, and reads of Core, are actions of their own: a  *)
(* process may act on a value that has changed since.                      *)
(***************************************************************************)
EXTENDS SubworkflowJournal, Naturals

CONSTANTS Observer,       \* the process that runs call; one at a time
          Canceller,      \* processes that run cancel
          Reconciler,     \* processes that run reconcile
          NoController,   \* no launch is under way
          Faults,         \* what else may go wrong, of AllFaults
          MaxCrashes      \* bound: how many processes may die

ASSUME ProcessAssumption ==
    /\ Observer \notin Canceller \union Reconciler
    /\ Canceller \intersect Reconciler = {}

ASSUME ControllerAssumption == NoController \notin Controller

\* Core refuses a request or a validation; spawning, or saving after it, fails;
\* a record exceeds its limit; the PID of a dead controller is taken again.
AllFaults == {"refusal", "launch", "limit", "pid_reuse"}

ASSUME BoundAssumption ==
    /\ Faults \subseteq AllFaults
    /\ MaxCrashes \in Nat

Process == {Observer} \union Canceller \union Reconciler

VARIABLES
    journal,        \* call.json
    root,           \* the call folder exists
    files,          \* the child's workflow or project folder exists
    manifest,       \* the result manifest: outcome and dispatch
    reserved,       \* the row whose launch holds the journal lock
    proc,           \* each controller: none, live, exited with or without output
    instance,       \* Core: what became of the create request
    started,        \* Core: what became of the start request
    run,            \* Core: the run
    pc, view, own,  \* each process: its place, the run it read, its controllers
    snap,           \* the observer's copy of the journal
    unresolved,     \* the observer saw a row without PID
    verdict,        \* what the observer is about to report
    waitExpired,    \* the deadline of the call has passed
    cleanupExpired, \* the cleanup deadline has passed
    crashes

durable == <<journal, root, files, manifest>>
core == <<instance, started, run>>
local == <<view, own, snap, unresolved, verdict>>
clock == <<waitExpired, cleanupExpired>>
vars == <<journal, root, files, manifest, reserved, proc, instance, started,
          run, pc, view, own, snap, unresolved, verdict, waitExpired,
          cleanupExpired, crashes>>

Labels == {"idle", "rooted", "poll", "recordPolled", "refresh",
           "recordStart", "inspect", "writeObs", "snapshot", "check",
           "reload", "act", "cleanup", "copy", "copied", "launchCreate",
           "recoverCreate", "saveStart", "launchStart", "launchCancel",
           "launching", "wait",
           "settle", "setTerminal", "setCleanup", "report", "saveResult"}

Verdicts == [outcome : Outcomes, limit : BOOLEAN]
NoVerdict == [outcome |-> "none", limit |-> FALSE]

\* A manifest says whether the child was started.
Manifests == [outcome : Outcomes, started : BOOLEAN]
NoManifest == [outcome |-> "none", started |-> FALSE]

-----------------------------------------------------------------------------
(* Helpers *)

Goto(p, label) == pc' = [pc EXCEPT ![p] = label]

LockFree == reserved = NoController

\* The locked read-modify-write of one journal update.
Save(j) == LockFree /\ journal' = j

Unused == {c \in Controller : journal.rows[c].op = "none"}
Dead == {c \in Controller : proc[c] \in {"printed", "silent"}}
OwnOp(p, op) == {c \in own[p] : journal.rows[c].op = op}

\* _controllers_closed of a loaded journal, asked of the machine's PIDs: a PID
\* taken again makes closed controllers look open, never the reverse.
JudgesClosed(j, closed) ==
    IF closed THEN ControllersClosed(j, Dead)
    ELSE \/ ~ControllersClosed(j, Dead)
         \/ "pid_reuse" \in Faults /\ RestsOnPid(j)

\* controllers_settled: and every owned one is joined.
JudgesSettled(settled) ==
    \E closed \in BOOLEAN :
       /\ JudgesClosed(snap, closed)
       /\ settled = (closed /\ \A c \in own[Observer] : snap.rows[c].joined)

\* The observer goes on, done with the snapshot it decided on.
Continue(label) ==
    /\ Goto(Observer, label)
    /\ snap' = NoJournal /\ unresolved' = FALSE

\* The observer decides on an outcome; _result writes it in two more steps.
Report(outcome, limit) ==
    /\ verdict' = [outcome |-> outcome, limit |-> limit]
    /\ Continue("report")

\* A process that returns, raises or dies keeps nothing.
Leave(p) ==
    /\ Goto(p, "idle")
    /\ own' = [own EXCEPT ![p] = {}]
    /\ view' = [view EXCEPT ![p] = NoView]
    /\ IF p = Observer
       THEN snap' = NoJournal /\ unresolved' = FALSE /\ verdict' = NoVerdict
       ELSE UNCHANGED <<snap, unresolved, verdict>>

-----------------------------------------------------------------------------
(* prepare, and the entry of call *)

\* The call folder appears, then the journal in it.
MakeRoot ==
    /\ pc[Observer] = "idle" /\ journal.phase = "absent" /\ ~root
    /\ LockFree
    /\ root' = TRUE
    /\ Goto(Observer, "rooted")
    /\ UNCHANGED <<journal, files, manifest, reserved, proc, core, local,
                   clock, crashes>>

Prepare ==
    /\ pc[Observer] = "rooted"
    /\ Save(Prepared)
    /\ Goto(Observer, "poll")
    /\ UNCHANGED <<root, files, manifest, reserved, proc, core, local, clock,
                   crashes>>

\* A call that finds the journal: it observes unless the journal replays.
Enter ==
    /\ pc[Observer] = "idle" /\ journal.phase # "absent"
    /\ LockFree
    /\ ~Replays(journal)
    /\ Goto(Observer, "poll")
    /\ UNCHANGED <<durable, reserved, proc, core, local, clock, crashes>>

-----------------------------------------------------------------------------
(* _poll: receipts from the output of owned controllers, then their join *)

PollCreate(c) ==
    /\ pc[Observer] = "poll" /\ c \in OwnOp(Observer, "create")
    /\ proc[c] = "printed" /\ journal.create = "none"
    /\ Save(WithCreate(journal, instance))
    /\ UNCHANGED <<root, files, manifest, reserved, proc, core, pc, local,
                   clock, crashes>>

\* _receipt compares outside the lock first and saves later.
PollStart(c) ==
    /\ pc[Observer] = "poll" /\ c \in OwnOp(Observer, "start")
    /\ proc[c] = "printed" /\ journal.start = "none"
    /\ Goto(Observer, "recordPolled")
    /\ UNCHANGED <<durable, reserved, proc, core, local, clock, crashes>>

RecordPolled ==
    /\ pc[Observer] = "recordPolled"
    /\ Save(WithStart(journal, started))
    /\ Goto(Observer, "poll")
    /\ UNCHANGED <<root, files, manifest, reserved, proc, core, local, clock,
                   crashes>>

Unjoined(p) == {c \in own[p] \intersect Dead : ~journal.rows[c].joined}

PollJoin(c) ==
    /\ pc[Observer] = "poll" /\ c \in Unjoined(Observer)
    /\ proc[c] = "printed" =>
          /\ journal.rows[c].op = "create" => journal.create # "none"
          /\ journal.rows[c].op = "start" => journal.start # "none"
    /\ Save(WithJoin(journal, c))
    /\ UNCHANGED <<root, files, manifest, reserved, proc, core, pc, local,
                   clock, crashes>>

Polled ==
    /\ pc[Observer] = "poll" /\ Unjoined(Observer) = {}
    /\ Goto(Observer, "refresh")
    /\ UNCHANGED <<durable, reserved, proc, core, local, clock, crashes>>

-----------------------------------------------------------------------------
(* _refresh, by any process *)

AfterRefresh(p) ==
    IF p = Observer THEN "snapshot"
    ELSE IF p \in Reconciler THEN "settle" ELSE "idle"

\* Nothing is known of the child yet.
RefreshNothing(p) ==
    /\ pc[p] = "refresh" /\ ~InstanceKnown(journal)
    /\ Goto(p, AfterRefresh(p))
    /\ UNCHANGED <<durable, reserved, proc, core, local, clock, crashes>>

\* inspect_instance shows a start receipt the journal has not, or nothing new.
RefreshInstance(p) ==
    /\ pc[p] = "refresh" /\ InstanceKnown(journal)
    /\ IF /\ journal.startSaved /\ journal.start = "none"
          /\ started # "none"
       THEN Goto(p, "recordStart")
       ELSE Goto(p, "inspect")
    /\ UNCHANGED <<durable, reserved, proc, core, local, clock, crashes>>

RecordStart(p) ==
    /\ pc[p] = "recordStart"
    /\ Save(WithStart(journal, started))
    /\ Goto(p, "inspect")
    /\ UNCHANGED <<root, files, manifest, reserved, proc, core, local, clock,
                   crashes>>

InspectNewestRun(p) ==
    /\ pc[p] = "inspect"
    /\ IF journal.obs # run
       THEN view' = [view EXCEPT ![p] = run] /\ Goto(p, "writeObs")
       ELSE view' = view /\ Goto(p, AfterRefresh(p))
    /\ UNCHANGED <<durable, reserved, proc, core, own, snap, unresolved,
                   verdict, clock, crashes>>

\* inspect_run, and the comparison with the saved observation.
InspectRun(p) ==
    /\ pc[p] = "inspect"
    /\ IF RunKnown(journal) /\ journal.obs # run
       THEN /\ view' = [view EXCEPT ![p] = run]
            /\ Goto(p, "writeObs")
       ELSE /\ view' = view
            /\ Goto(p, AfterRefresh(p))
    /\ UNCHANGED <<durable, reserved, proc, core, own, snap, unresolved,
                   verdict, clock, crashes>>

\* A record over its limit is saved without its rows of invocations, and so names no
\* writer that has not stopped.
WriteObsWithoutRows(p) ==
    /\ pc[p] = "writeObs"
    /\ Save(WithObservation(journal, [view[p] EXCEPT !.stopped = TRUE]))
    /\ view' = [view EXCEPT ![p] = NoView]
    /\ Goto(p, AfterRefresh(p))
    /\ UNCHANGED <<root, files, manifest, reserved, proc, core, own, snap,
                   unresolved, verdict, clock, crashes>>

\* The view read a moment ago becomes the observation, whatever it is by now.
WriteObs(p) ==
    /\ pc[p] = "writeObs"
    /\ \/ Save(WithObservation(journal, view[p]))
       \/ "limit" \in Faults /\ Save(WithObservationLimit(journal))
    /\ view' = [view EXCEPT ![p] = NoView]
    /\ Goto(p, AfterRefresh(p))
    /\ UNCHANGED <<root, files, manifest, reserved, proc, core, own, snap,
                   unresolved, verdict, clock, crashes>>

-----------------------------------------------------------------------------
(* The decisions of the observer's loop *)

\* The journal is loaded under the lock: no launch is half way.
Snapshot ==
    /\ pc[Observer] = "snapshot"
    /\ LockFree
    /\ snap' = journal
    /\ unresolved' = Unresolved(journal)
    /\ Goto(Observer, "check")
    /\ UNCHANGED <<durable, reserved, proc, core, view, own, verdict, clock,
                   crashes>>

ReportLimit ==
    /\ pc[Observer] = "check"
    /\ \/ snap.limit /\ Report("CHILD_UNCERTAIN", TRUE)
       \/ /\ ~snap.limit /\ own[Observer] # {} /\ "limit" \in Faults
          /\ Report("CHILD_UNCERTAIN", FALSE)
    /\ UNCHANGED <<durable, reserved, proc, core, view, own, clock, crashes>>

\* The deadline has passed, or a signal has arrived: record the intent.
Intend ==
    /\ pc[Observer] = "check" /\ ~snap.limit
    /\ Save(WithIntent(journal))
    /\ Goto(Observer, "reload")
    /\ UNCHANGED <<root, files, manifest, reserved, proc, core, local, clock,
                   crashes>>

Reload ==
    /\ pc[Observer] = "reload"
    /\ snap' = journal
    /\ Goto(Observer, "act")
    /\ UNCHANGED <<durable, reserved, proc, core, view, own, unresolved,
                   verdict, clock, crashes>>

InTime ==
    /\ pc[Observer] = "check" /\ ~snap.limit /\ ~waitExpired
    /\ Goto(Observer, "act")
    /\ UNCHANGED <<durable, reserved, proc, core, local, clock, crashes>>

\* What the snapshot alone decides; "none" if the child is still open.
Observed(settled) ==
    IF unresolved THEN "CHILD_UNCERTAIN"
    ELSE IF ~settled THEN "none"
    ELSE IF Closed(snap.obs) THEN OutcomeOf[snap.obs.status]
    ELSE IF snap.obs.status # "paused" THEN "none"
    ELSE IF ~snap.obs.stopped THEN "CHILD_UNCERTAIN"
    ELSE IF ~snap.intent THEN "CHILD_ATTENTION" ELSE "none"

PreventedAlthoughSaved ==
    snap.phase \in {"prepared", "created"} \/ InstanceKnown(snap)

PreventedWhileStarting ==
    \/ snap.phase \in {"prepared", "created", "starting"}
    \/ snap.create = "refused" /\ ~snap.startSaved

\* A cancellation is known and nothing was, or will be, dispatched.
Prevented ==
    \/ snap.phase \in {"prepared", "created"}
    \/ InstanceKnown(snap) /\ ~snap.startSaved
    \/ snap.create = "refused" /\ ~snap.startSaved

ActReports ==
    /\ pc[Observer] = "act"
    /\ \E settled \in BOOLEAN :
          /\ JudgesSettled(settled)
          /\ Observed(settled) # "none"
          /\ Report(Observed(settled), FALSE)
    /\ UNCHANGED <<durable, reserved, proc, core, view, own, clock, crashes>>

ActCancelsAndPolls ==
    /\ pc[Observer] = "act"
    /\ \E settled \in BOOLEAN :
          JudgesSettled(settled) /\ Observed(settled) = "none"
    /\ snap.intent /\ RunKnown(snap)
    /\ Goto(Observer, IF OwnOp(Observer, "cancel") = {}
                      THEN "launchCancel" ELSE "poll")
    /\ UNCHANGED <<durable, reserved, proc, core, local, clock, crashes>>

\* With a known run the exact cancellation is sent, once for each call.
ActCancels ==
    /\ pc[Observer] = "act"
    /\ \E settled \in BOOLEAN :
          JudgesSettled(settled) /\ Observed(settled) = "none"
    /\ snap.intent /\ RunKnown(snap)
    /\ Goto(Observer, IF OwnOp(Observer, "cancel") = {}
                      THEN "launchCancel" ELSE "cleanup")
    /\ UNCHANGED <<durable, reserved, proc, core, local, clock, crashes>>

ActPrevents ==
    /\ pc[Observer] = "act"
    /\ snap.intent /\ ~RunKnown(snap)
    /\ \E settled \in BOOLEAN :
          /\ JudgesSettled(settled)
          /\ Observed(settled) = "none"
          /\ IF Prevented /\ settled
             THEN Report("CHILD_CANCELLED", FALSE)
             ELSE /\ Goto(Observer, "cleanup")
                  /\ UNCHANGED <<snap, unresolved, verdict>>
    /\ UNCHANGED <<durable, reserved, proc, core, view, own, clock, crashes>>

CleanupOver ==
    /\ pc[Observer] = "cleanup" /\ cleanupExpired
    /\ Report("CHILD_UNCERTAIN", FALSE)
    /\ UNCHANGED <<durable, reserved, proc, core, view, own, clock, crashes>>

\* An unknown create is replayed to learn the instance, never to start it.
MayRecoverCreate ==
    /\ ~InstanceKnown(snap) /\ snap.phase = "creating"
    /\ OwnOp(Observer, "create") = {}

CleanupContinues ==
    /\ pc[Observer] = "cleanup" /\ ~cleanupExpired
    /\ \E closed \in BOOLEAN :
          /\ JudgesClosed(snap, closed)
          /\ Continue(IF MayRecoverCreate /\ closed
                      THEN "recoverCreate" ELSE "poll")
    /\ UNCHANGED <<durable, reserved, proc, core, view, own, verdict, clock,
                   crashes>>

\* No intent, no instance: copy the definition and create, unless refused.
ActCreates ==
    /\ pc[Observer] = "act"
    /\ ~snap.intent /\ ~InstanceKnown(snap)
    /\ \E settled \in BOOLEAN :
          /\ JudgesSettled(settled)
          /\ Observed(settled) = "none"
          /\ IF settled /\ snap.create = "refused"
             THEN Report("CHILD_REFUSED", FALSE)
             ELSE /\ verdict' = verdict
                  /\ Continue(IF settled /\ OwnOp(Observer, "create") = {}
                              THEN "copy" ELSE "poll")
    /\ UNCHANGED <<durable, reserved, proc, core, view, own, clock, crashes>>

ActStartsAgain ==
    /\ pc[Observer] = "act"
    /\ ~snap.intent /\ InstanceKnown(snap) /\ ~RunKnown(snap)
    /\ \E settled \in BOOLEAN :
          /\ JudgesSettled(settled)
          /\ Observed(settled) = "none"
          /\ verdict' = verdict
          /\ Continue(IF ~settled THEN "poll"
                      ELSE IF snap.startSaved THEN "launchStart"
                      ELSE "saveStart")
    /\ UNCHANGED <<durable, reserved, proc, core, view, own, clock, crashes>>

\* No intent, no run: validate and start, or resolve a start already saved.
ActStarts ==
    /\ pc[Observer] = "act"
    /\ ~snap.intent /\ InstanceKnown(snap) /\ ~RunKnown(snap)
    /\ \E settled \in BOOLEAN :
          /\ JudgesSettled(settled)
          /\ Observed(settled) = "none"
          /\ \/ ~settled /\ verdict' = verdict /\ Continue("poll")
             \/ /\ settled /\ ~snap.startSaved
                /\ \/ "refusal" \in Faults /\ Report("CHILD_REFUSED", FALSE)
                   \/ verdict' = verdict /\ Continue("saveStart")
             \/ /\ settled /\ snap.startSaved
                /\ Report(IF snap.start = "refused" THEN "CHILD_REFUSED"
                          ELSE "CHILD_UNCERTAIN", FALSE)
    /\ UNCHANGED <<durable, reserved, proc, core, view, own, clock, crashes>>

\* No intent, a known run: keep observing.
ActWaits ==
    /\ pc[Observer] = "act"
    /\ ~snap.intent /\ RunKnown(snap)
    /\ \E settled \in BOOLEAN :
          JudgesSettled(settled) /\ Observed(settled) = "none"
    /\ Continue("poll")
    /\ UNCHANGED <<durable, reserved, proc, core, view, own, verdict, clock,
                   crashes>>

-----------------------------------------------------------------------------
(* _copy *)

\* Files of an unfinished copy are not ours: the call raises.
CopyNotOwned ==
    /\ pc[Observer] = "copy" /\ files /\ ~journal.copied
    /\ Leave(Observer)
    /\ UNCHANGED <<durable, reserved, proc, core, clock, crashes>>

CopyFiles ==
    /\ pc[Observer] = "copy" /\ ~files
    /\ files' = TRUE
    /\ Goto(Observer, "copied")
    /\ UNCHANGED <<journal, root, manifest, reserved, proc, core, local,
                   clock, crashes>>

CopyAgain ==
    /\ pc[Observer] = "copy" /\ journal.copied
    /\ Goto(Observer, "copied")
    /\ UNCHANGED <<durable, reserved, proc, core, local, clock, crashes>>

CopyPrepared ==
    /\ pc[Observer] = "copied"
    /\ Save([journal EXCEPT !.copied = TRUE])
    /\ Goto(Observer, "launchCreate")
    /\ UNCHANGED <<root, files, manifest, reserved, proc, core, local, clock,
                   crashes>>

-----------------------------------------------------------------------------
(* _launch *)

SendOf == [launchCreate |-> "create", recoverCreate |-> "create",
           launchStart |-> "start", launchCancel |-> "cancel"]

SaveStart ==
    /\ pc[Observer] = "saveStart"
    /\ Save([journal EXCEPT !.startSaved = TRUE])
    /\ Goto(Observer, "launchStart")
    /\ UNCHANGED <<root, files, manifest, reserved, proc, core, local, clock,
                   crashes>>

\* The intent is checked again under the lock that the send would hold: a
\* create to be started later, and a start, are not sent.
LaunchPrevented ==
    /\ pc[Observer] \in {"launchCreate", "launchStart"} /\ journal.intent
    /\ Save(IF pc[Observer] = "launchStart"
            THEN [journal EXCEPT !.phase = "created"] ELSE journal)
    /\ Goto(Observer, "poll")
    /\ UNCHANGED <<root, files, manifest, reserved, proc, core, local, clock,
                   crashes>>

MaySendAnyway(p) == pc[p] \in DOMAIN SendOf /\ LockFree

MaySend(p) ==
    /\ pc[p] \in DOMAIN SendOf
    /\ pc[p] \in {"launchCreate", "launchStart"} => ~journal.intent
    /\ LockFree

\* Take the lock and reserve a durable row.
Reserve(p) ==
    /\ MaySend(p)
    /\ \E c \in Unused :
          /\ journal' = Reserved(journal, c, SendOf[pc[p]])
          /\ reserved' = c
    /\ Goto(p, "launching")
    /\ UNCHANGED <<root, files, manifest, proc, core, local, clock, crashes>>

\* The journal has no room for another row: nothing is saved or sent.
LaunchExceeds(p) ==
    /\ MaySend(p) /\ Unused = {}
    /\ Leave(p)
    /\ UNCHANGED <<durable, reserved, proc, core, clock, crashes>>

\* Where a process goes on once its sender is spawned.
AfterLaunch(p) ==
    IF p # Observer THEN "wait"
    ELSE IF journal.rows[reserved].op = "cancel" THEN "cleanup" ELSE "poll"

\* Popen, and the PID saved under the same lock.
Spawn(p) ==
    /\ pc[p] = "launching"
    /\ proc' = [proc EXCEPT ![reserved] = "live"]
    /\ journal' = WithPid(journal, reserved)
    /\ own' = [own EXCEPT ![p] = @ \union {reserved}]
    /\ reserved' = NoController
    /\ Goto(p, AfterLaunch(p))
    /\ UNCHANGED <<root, files, manifest, core, view, snap, unresolved,
                   verdict, clock, crashes>>

\* Spawning or saving fails: the failure is recorded and the command raises.
LaunchFails(p) ==
    /\ pc[p] = "launching" /\ "launch" \in Faults
    /\ \/ /\ journal' = WithLaunchFailure(journal, reserved, FALSE, TRUE)
          /\ proc' = proc
       \/ /\ journal' = WithLaunchFailure(journal, reserved, TRUE, FALSE)
          /\ proc' = [proc EXCEPT ![reserved] = "live"]
       \/ /\ journal' = WithLaunchFailure(journal, reserved, TRUE, TRUE)
          /\ proc' = [proc EXCEPT ![reserved] = "silent"]
    /\ reserved' = NoController
    /\ Leave(p)
    /\ UNCHANGED <<root, files, manifest, core, clock, crashes>>

-----------------------------------------------------------------------------
(* _result *)

\* Swapped order: the journal tells the result before the manifest does.
WriteManifestLate ==
    /\ pc[Observer] = "report"
    /\ \/ /\ journal.result # verdict.outcome
          /\ Save(WithResult(journal, verdict))
          /\ UNCHANGED <<manifest, pc>>
       \/ /\ journal.result = verdict.outcome
          /\ manifest' = [outcome |-> verdict.outcome,
                           started |-> RunKnown(journal)]
          /\ Goto(Observer, "saveResult")
          /\ UNCHANGED journal
    /\ UNCHANGED <<root, files, reserved, proc, core, local, clock, crashes>>

\* The manifest is written from the journal as it is now; too large a one is
\* replaced by an uncertain one.
WriteManifest ==
    /\ pc[Observer] = "report"
    /\ \/ verdict' = verdict
       \/ /\ "limit" \in Faults
          /\ verdict' = [outcome |-> "CHILD_UNCERTAIN", limit |-> FALSE]
    /\ manifest' = [outcome |-> verdict'.outcome, started |-> RunKnown(journal)]
    /\ Goto(Observer, "saveResult")
    /\ UNCHANGED <<journal, root, files, reserved, proc, core, view, own,
                   snap, unresolved, clock, crashes>>

SaveResult ==
    /\ pc[Observer] = "saveResult"
    /\ Save(WithResult(journal, verdict))
    /\ Leave(Observer)
    /\ UNCHANGED <<root, files, manifest, reserved, proc, core, clock,
                   crashes>>

-----------------------------------------------------------------------------
(* cancel *)

CancelIntends(p) ==
    /\ pc[p] = "idle" /\ journal.phase # "absent"
    /\ Save(WithIntent(journal))
    /\ Goto(p, IF RunKnown(journal) THEN "launchCancel" ELSE "idle")
    /\ UNCHANGED <<root, files, manifest, reserved, proc, core, local, clock,
                   crashes>>

CancelJoins(p) ==
    /\ pc[p] = "wait"
    /\ \E c \in Unjoined(p) : Save(WithJoin(journal, c))
    /\ Goto(p, "refresh")
    /\ own' = [own EXCEPT ![p] = {}]
    /\ UNCHANGED <<root, files, manifest, reserved, proc, core, view, snap,
                   unresolved, verdict, clock, crashes>>

CancelDetaches(p) ==
    /\ pc[p] = "wait" /\ cleanupExpired
    /\ Save(WithPhase(journal, "cleanup_required"))
    /\ Goto(p, "refresh")
    /\ own' = [own EXCEPT ![p] = {}]
    /\ UNCHANGED <<root, files, manifest, reserved, proc, core, view, snap,
                   unresolved, verdict, clock, crashes>>

-----------------------------------------------------------------------------
(* reconcile *)

ReconcileBegins(p) ==
    /\ pc[p] = "idle" /\ journal.phase # "absent"
    /\ Goto(p, "refresh")
    /\ UNCHANGED <<durable, reserved, proc, core, local, clock, crashes>>

\* What it makes of the journal it has loaded; the save comes later.
ReconcileJudges(p) ==
    /\ pc[p] = "settle"
    /\ \E closed \in BOOLEAN :
          /\ JudgesClosed(journal, closed)
          /\ Goto(p,
                IF closed /\ Closed(journal.obs) THEN "setTerminal"
                ELSE IF /\ InstanceKnown(journal)
                        /\ journal.phase \notin {"attention_required", "terminal"}
                THEN "setCleanup" ELSE "idle")
    /\ UNCHANGED <<durable, reserved, proc, core, local, clock, crashes>>

ReconcileSaves(p) ==
    /\ \/ pc[p] = "setTerminal" /\ Save(WithPhase(journal, "terminal"))
       \/ pc[p] = "setCleanup" /\ Save(WithPhase(journal, "cleanup_required"))
    /\ Goto(p, "idle")
    /\ UNCHANGED <<root, files, manifest, reserved, proc, core, local, clock,
                   crashes>>

-----------------------------------------------------------------------------
(* The environment: death of a process, controllers, Core, time *)

\* SIGKILL.  The lock goes with the process; a launch may have spawned.
Crash(p) ==
    /\ pc[p] # "idle" /\ crashes < MaxCrashes
    /\ crashes' = crashes + 1
    /\ IF pc[p] = "launching"
       THEN /\ reserved' = NoController
            /\ \E state \in {"none", "live"} :
                  proc' = [proc EXCEPT ![reserved] = state]
       ELSE UNCHANGED <<reserved, proc>>
    /\ Leave(p)
    /\ UNCHANGED <<durable, core, clock>>

Executes(c, op) == proc[c] = "live" /\ journal.rows[c].op = op

\* Core admits a create request once; a replay finds the same receipt.
CoreCreates(c) ==
    /\ Executes(c, "create") /\ instance = "none"
    /\ \/ instance' = "applied"
       \/ "refusal" \in Faults /\ instance' = "refused"
    /\ UNCHANGED <<durable, reserved, proc, started, run, pc, local, clock,
                   crashes>>

CoreStarts(c) ==
    /\ Executes(c, "start") /\ instance = "applied" /\ started = "none"
    /\ \/ /\ started' = "applied"
          /\ run' = [status |-> "running", stopped |-> FALSE]
       \/ "refusal" \in Faults /\ started' = "refused" /\ run' = run
    /\ UNCHANGED <<durable, reserved, proc, instance, pc, local, clock,
                   crashes>>

RunMoves ==
    /\ run' \in NextViews(run)
    /\ UNCHANGED <<durable, reserved, proc, instance, started, pc, local,
                   clock, crashes>>

\* A controller that executed its request may print the receipt first.
ControllerExits(c) ==
    /\ proc[c] = "live"
    /\ \/ proc' = [proc EXCEPT ![c] = "silent"]
       \/ /\ \/ journal.rows[c].op = "create" /\ instance # "none"
             \/ journal.rows[c].op = "start" /\ started # "none"
          /\ proc' = [proc EXCEPT ![c] = "printed"]
    /\ UNCHANGED <<durable, reserved, core, pc, local, clock, crashes>>

WaitExpires ==
    /\ journal.phase # "absent" /\ ~waitExpired
    /\ waitExpired' = TRUE
    /\ UNCHANGED <<durable, reserved, proc, core, pc, local, cleanupExpired,
                   crashes>>

CleanupExpires ==
    /\ journal.intent /\ ~cleanupExpired
    /\ cleanupExpired' = TRUE
    /\ UNCHANGED <<durable, reserved, proc, core, pc, local, waitExpired,
                   crashes>>

-----------------------------------------------------------------------------
Init ==
    /\ journal = NoJournal /\ root = FALSE /\ files = FALSE
    /\ manifest = NoManifest
    /\ reserved = NoController
    /\ proc = [c \in Controller |-> "none"]
    /\ instance = "none" /\ started = "none" /\ run = NoView
    /\ pc = [p \in Process |-> "idle"]
    /\ view = [p \in Process |-> NoView]
    /\ own = [p \in Process |-> {}]
    /\ snap = NoJournal /\ unresolved = FALSE /\ verdict = NoVerdict
    /\ waitExpired = FALSE /\ cleanupExpired = FALSE
    /\ crashes = 0

Refresh(p) ==
    \/ RefreshNothing(p) \/ RefreshInstance(p) \/ RecordStart(p)
    \/ InspectRun(p) \/ WriteObs(p)

Launch(p) == Reserve(p) \/ LaunchExceeds(p) \/ Spawn(p) \/ LaunchFails(p)

Decide ==
    \/ Snapshot \/ ReportLimit \/ Intend \/ Reload \/ InTime
    \/ ActReports \/ ActCancels \/ ActPrevents \/ ActCreates \/ ActStarts
    \/ ActWaits \/ CleanupOver \/ CleanupContinues

CallStep ==
    \/ MakeRoot \/ Prepare
    \/ \E c \in Controller : PollCreate(c) \/ PollStart(c) \/ PollJoin(c)
    \/ RecordPolled \/ Polled
    \/ Refresh(Observer) \/ Launch(Observer) \/ Decide
    \/ CopyNotOwned \/ CopyFiles \/ CopyAgain \/ CopyPrepared
    \/ SaveStart \/ LaunchPrevented
    \/ WriteManifest \/ SaveResult

CancelStep(p) ==
    \/ Launch(p) \/ CancelJoins(p) \/ CancelDetaches(p) \/ Refresh(p)

ReconcileStep(p) == Refresh(p) \/ ReconcileJudges(p) \/ ReconcileSaves(p)

CoreStep ==
    \/ RunMoves
    \/ \E c \in Controller :
          CoreCreates(c) \/ CoreStarts(c) \/ ControllerExits(c)

Next ==
    \/ Enter \/ CallStep
    \/ \E p \in Canceller : CancelIntends(p) \/ CancelStep(p)
    \/ \E p \in Reconciler : ReconcileBegins(p) \/ ReconcileStep(p)
    \/ \E p \in Process : Crash(p)
    \/ CoreStep \/ WaitExpires \/ CleanupExpires

Spec == Init /\ [][Next]_vars

\* The command that runs keeps running, a launch under the lock is short, and
\* time passes.
Fairness ==
    /\ WF_vars(CallStep)
    /\ \A p \in Canceller : WF_vars(Launch(p))
    /\ WF_vars(WaitExpires) /\ WF_vars(CleanupExpires)

FairSpec == Spec /\ Fairness

-----------------------------------------------------------------------------
(* Properties *)

\* The types of the variables: the journal, the observer's copy of it and
\* every row stay within the phases and fields validate_journal admits.
TypeOK ==
    /\ journal \in Journals
    /\ root \in BOOLEAN /\ files \in BOOLEAN
    /\ manifest \in Manifests
    /\ reserved \in Controller \union {NoController}
    /\ proc \in [Controller -> {"none", "live", "printed", "silent"}]
    /\ instance \in Receipts /\ started \in Receipts /\ run \in Views
    /\ pc \in [Process -> Labels]
    /\ view \in [Process -> Views]
    /\ own \in [Process -> SUBSET Controller]
    /\ snap \in Journals /\ unresolved \in BOOLEAN /\ verdict \in Verdicts
    /\ waitExpired \in BOOLEAN /\ cleanupExpired \in BOOLEAN
    /\ crashes \in 0..MaxCrashes

Sender(op) == {c \in Controller : journal.rows[c].op = op}

\* An unknown start is never replayed: across every crash and re-entry at most
\* one controller is ever launched to start the child.
AtMostOneStart == \A c, d \in Sender("start") : c = d

\* The journal lock admits one launch at a time (what makes AtMostOneStart
\* inductive, with the two facts that follow).
LaunchIsExclusive ==
    \A p \in Process : pc[p] = "launching" =>
        /\ reserved \in Controller
        /\ \A q \in Process : pc[q] = "launching" => q = p

SharedLabels == {"idle", "refresh", "recordStart", "inspect", "writeObs",
                 "launchCancel", "launching", "wait", "settle",
                 "setTerminal", "setCleanup"}

\* Only the process that holds the observer lock creates or starts the child.
OnlyObserverStarts == \A p \in Process \ {Observer} : pc[p] \in SharedLabels

\* Until the observer has reserved the row of the start, what it decided on
\* still holds: the saved start envelope is the mark that no later call may
\* launch again.
StartIsMarked ==
    /\ Sender("start") # {} => journal.startSaved
    /\ pc[Observer] \in {"check", "reload", "act"} =>
          (journal.startSaved => snap.startSaved)
    /\ pc[Observer] = "saveStart" => ~journal.startSaved
    /\ pc[Observer] = "launchStart" =>
          journal.startSaved /\ Sender("start") = {}

\* The inductive invariant of the start.
StartInv == /\ TypeOK /\ LaunchIsExclusive /\ OnlyObserverStarts
            /\ StartIsMarked /\ AtMostOneStart

\* Once a cancellation is known and no start was sent, none ever will be, by
\* whichever interleaving of the canceller and the observer's launch.
IntentPreventsStart ==
    [][journal.intent /\ Sender("start") = {} => Sender("start")' = {}]_journal

\* The outcomes a parent can have seen: in the manifest or in the journal.
Reported == {journal.result, manifest.outcome}

\* Success, failure or cancellation of a started child, in the journal or in
\* the manifest, and a terminal phase, are true of the run in Core: it ended
\* so, and its writers are stopped.
TerminalIsTrue ==
    RunKnown(journal) =>
        /\ \A o \in Reported :
              o \in {"CHILD_SUCCEEDED", "CHILD_FAILED", "CHILD_CANCELLED"} =>
                 /\ run.status \in TerminalStatus /\ run.stopped
                 /\ o = OutcomeOf[run.status]
        /\ journal.phase = "terminal" =>
              run.status \in TerminalStatus /\ run.stopped

\* A cancellation reported of a child that was not started is final: Core has
\* no run, and no process is left, or will be, that could start one.
PreventedIsFinal ==
    "CHILD_CANCELLED" \in Reported /\ ~RunKnown(journal) =>
        started # "applied" /\ Sender("start") = {}

\* Every outcome but refusal and uncertainty is reported only when no
\* controller that could create or start the child is left alive or unknown.
NoSenderSurvives ==
    journal.result \in {"CHILD_SUCCEEDED", "CHILD_FAILED", "CHILD_CANCELLED",
                       "CHILD_ATTENTION"} =>
        \A c \in Sender("create") \union Sender("start") :
            /\ proc[c] # "live"
            /\ journal.rows[c].joined \/ journal.rows[c].pid

\* The links validate_journal demands of every loaded journal, and that what
\* it identifies is what Core admitted: a save that breaks them makes the call
\* unreadable for ever.
JournalIsValid ==
    /\ InstanceKnown(journal) => instance = "applied"
    /\ journal.startSaved => InstanceKnown(journal)
    /\ journal.start # "none" => journal.startSaved /\ started = journal.start
    /\ journal.obs # NoView => RunKnown(journal)

\* A journal that replays its result agrees with the manifest, or the call
\* raises output_not_owned from then on.  So it is while no reconcile runs
\* beside the call: one that has judged the run closed may file an older
\* result as terminal when the manifest of a dead call already tells another.
ReplayAgrees ==
    pc[Observer] = "idle" /\ Replays(journal) =>
        manifest.outcome = journal.result

\* A terminal result, once saved, is the result of the call for good.
TerminalResultIsFinal ==
    [][journal.result \in TerminalOutcomes =>
          journal'.result = journal.result]_journal

\* A call returns: its deadline, then the cleanup deadline, bound every wait.
CallReturns == pc[Observer] # "idle" ~> pc[Observer] = "idle"

\* The call keeps the promises of SubworkflowContract.
Contract == INSTANCE SubworkflowContract
    WITH intent <- journal.intent, sent <- Sender("start") # {},
         outcome <- journal.result
ContractSpec == Contract!Spec
=============================================================================
