# Verification of millrace-plus

millrace-plus wraps a workflow engine, the *Core* (`millrace.router`, an external
package), with helpers that outlive their own processes: a call of a child
workflow, a bridge to an issue tracker, adapters that own native agent processes,
a template catalog and the ledger of a long-running workflow. What these helpers
have in common is that each keeps a small durable record, acts on the Core or on a
process through a channel that can fail, and must say something true afterwards
although any of its processes may have died in between. This directory models that
logic in TLA+, checks it with TLC on small instances and proves part of it with
TLAPS for all instances.

Paths below are relative to `src/millrace_plus/`.

## 1. Inventory

| component | state it keeps | operations | what is hard |
|---|---|---|---|
| **Subworkflow call helper** `subworkflows.py`, `subworkflow_records.py`, `subworkflow_process.py` | the call journal (`call.json`), the call folder and the copied child, the result manifest; in memory: the observer's copy of the journal and the controller processes it owns | `call` (under the observer lock), `cancel`, `reconcile`, `inspect`; detached controllers that replay a saved request to the Core | three commands share one journal and act on copies of it; death between any two saves; a launch that dies between reservation and PID; PIDs taken again; stale observations; two deadlines; size limits |
| **Paperclip bridge** `integrations/paperclip_*.py`, `integrations/paperclip/index.js` | one binding for each revision of an issue, with request envelopes, receipts and an observation | `run` (reserve, copy, observe), `inspect`; HTTP submit, observe and read | lost answers after an admitted request; a revision reserved while another is; a second observer; cancellation racing create and start; refusal after a possible admission |
| **Paperclip adapter** `integrations/paperclip/index.js` | one call: its child, two timers, the abort signal, the output kept | `execute` | an abort between two awaits; a report that is out when the deadline, the output limit or a signal strikes |
| **Native adapters** `router/claude.py`, `codex.py`, `pi.py`, `opencode.py` | one owned process group: root, descendants, pipes; the reason it was told to stop | probe, run, cancel, timeout, TERM, KILL, forced finish | which reason wins; a result that arrives with the cancellation; a clock read before a slow callback; a writer that may still live |
| **Adapter configuration, preflight** `router/*configuration.py`, `resolver.py`, `preflight.py` | configuration files | read, validate, replace; validate evidence | atomic replacement only |
| **Control facade and CLI** `router/control.py`, `router/cli.py` | none | guard and forward to the Core | the guard reads before the Core acts |
| **Catalog** `catalog.py` | the saved home, the templates and copies | set, reset, list, initialise | two copies to one place; a copy that fails half way; a folder that changes while it is copied |
| **LAD ledger** `lad_state.py`, `prepare_role.py`, `accept_role.py`, `boundaries.py`, `learning_seam.py` in `workflows/lad/scripts` | `session.json` (occurrences, acceptances, budgets, plan, pending route, request), its projections, the seams of two planes | prepare, replace, accept, choose, emit and accept the request, record a replacement | scripts that die between the ledger and its projections; two planes on one unlocked file; an operator who redirects; long sequences of budgets |
| **LAD bootstrap** `init_session.py`, `setup_intake.py` | the staging directory, the session, the marker, the copied request | publish a session, take the request in | death at any write; edited inputs; a lost session |
| **Template input checks** `workflows/*/scripts/check_inputs.py` | one request file | validate and copy | — |

**Interaction.** The call helper reads and validates the parent through the control
facade, copies its definition with the catalog and reaches the Core in two ways: it
reads instances and runs directly, and it sends create, start and cancel requests
through controllers (`millrace-plus router replay`) that it spawns in sessions of
their own and can only join while it lives. The Core admits a request once per
request identifier, so a replayed create finds its first receipt. The bridge reaches
the Core through an HTTP service in the same pattern (save the envelope, send,
learn the receipt) and uses `subworkflows.closed` as its test of completion. The
Core invokes the native adapters; what they say of their writers becomes the
"stopped" that `closed` asks for. Paperclip calls the bridge through a Node adapter
that starts it as a child, asks it to cancel with TERM and passes its report on. The
scripts of the LAD template run as nodes of a graph of the Core: the Core runs one
script or native role at a time in each of two planes and carries envelopes between
them.

**What makes each correct.**

* *Call helper*: at most one start, ever; no start once a cancellation is known
  before it; success, failure and cancellation are reported only of a run that is
  terminal with stopped writers; a child reported "not started" never runs; a
  settled result stays; every call returns.
* *Bridge*: one live run for each issue, over all its revisions; a start is never
  posted again; a terminal result only with closed evidence; the first deadline
  stands.
* *Paperclip adapter*: only the report of a helper that ended by itself and in time is
  passed on; an abort reaches the helper; no helper runs on.
* *Native adapters*: "completed" only for an invocation that took its prompt, exited
  with 0, was read to its end and was not cancelled; a writer said to be stopped is
  gone; an exception leaves nothing running; the evidence passes its own validator; the
  adapter returns.
* *Catalog*: a copy that succeeds is what was fingerprinted; a copy that fails leaves
  nothing and removes nothing of others.
* *LAD ledger*: every occurrence is paid for, answers one decision and is dispatched at
  most once; no script is locked out of the ledger; a route survives the exchange with
  Learning; the session stops legally.
* *LAD bootstrap*: a published session is whole; its roles work on one request; a used
  copy is not reset.

## 2. Plan

1. `CoreRun`, `SubworkflowJournal`, `SubworkflowCall`, `SubworkflowContract`: the call
   helper, its abstract promise, its runs; `SubworkflowProofs`: type correctness,
   exclusive launches, at most one start, intent before start, true reports, and that
   the call implements its promise. *Done.*
2. `PaperclipBinding`, `PaperclipBridge`, `PaperclipIssue`: bindings of several
   revisions of one issue, helpers that die and are duplicated, an HTTP channel that
   loses answers; `PaperclipIssue` says "at most one revision of an issue in hand".
   `PaperclipProofs`: types, the claim to a cleanup, true results, intent before
   start, and that the bridge implements `PaperclipIssue`. *Done.*
3. `NativeGroup`, the four adapters on it and `NativeContract`, what the Core may rely
   on; `OpenCodeProofs`, `ClaudeProofs`, and `AdapterProofs` for Codex, Pi, the Paperclip
   adapter and all of them together. *Done.*
4. `LadLedger` (the functions of the ledger) and `LadSession` (the scripts, the two
   planes, the operator) with `MCLad`; `LadProofs`: the turns at the ledger, no save lost,
   one dispatch, one reservation for a decision, no way past Learning's gate, no script
   locked out. `LadBootstrap`. *Done.*
5. `Catalog`, `PaperclipAdapter`, and `CopyProofs` for the catalog and the bootstrap.
   *Done; the catalog's listing and its saved home are left.*

Every invariant, every action property and every refinement that the runs check is a
theorem too; the liveness properties stay with TLC (section 9).

Which module uses which:

| module | uses | checked by |
|---|---|---|
| `SubworkflowCall` | `SubworkflowJournal`, `CoreRun`, `SubworkflowContract` | `call_*`, `terminal_late_cancel` |
| `PaperclipBridge` | `PaperclipBinding`, `CoreRun`, `PaperclipIssue` | `bridge_*` |
| `NativeClaude`, `NativeCodex`, `NativeOpenCode`, `NativePi` | `NativeGroup`, `NativeContract` | `adapters` |
| `PaperclipAdapter` | — | `adapters` |
| `LadSession` | `LadLedger` | `lad_*` |
| `Catalog`, `LadBootstrap` | — | `template_copies` |

Three runs check several specifications at once. `MCAdapters` has a variable
`adapter`, `MCLad` a variable `kind` and `MCCopies` a variable `stage`, chosen at the
start and never changed: a behaviour is that of one adapter, one session or one stage,
and the variables of the others rest. Nothing is composed by that but the search.

## 3. The call of a subworkflow

### Modules

* `CoreRun` is a run of the Core as the helpers see it: a status, and whether its
  writers have stopped. `Closed` is `subworkflows.closed`; `NextViews`, what a run may
  become, is the Core's and external. The call and the bridge share this module.
* `SubworkflowJournal` has the journal as a record, the facts the code reads from it
  (`Closed`, `Unresolved`, `ControllersClosed`, `Replays`) and the updates it makes
  (`WithStart`, `Reserved`, `WithResult`, ...), each a function of one journal.
* `SubworkflowCall` is the state machine. Its durable variables are the journal, the
  call folder (`root`), the copied child (`files`) and the manifest; `proc` is the
  state of each controller, one for each row the journal has room for; `instance`,
  `started` and `run` are the Core; `pc`, `view`, `own`, `snap`, `unresolved` and
  `verdict` are the local variables of the commands; two flags say which deadline has
  passed.
* `SubworkflowContract` is what the parent is promised: five facts over an intent, a
  start, a run and an outcome.
* `MCSubworkflow` gives the constants small values.
* `SubworkflowProofs` holds the theorems: on types and starts first, then on what is
  reported.

### Correspondence

An update under the journal lock (`_update`, `_receipt`, `_intent`) is a load, a
change and a save, and is one action. `_launch` holds the lock from the reservation
to the saved PID while it spawns, so it is two actions, `Reserve` and `Spawn` (or
`LaunchFails`, or a crash between them), and `reserved` names its row while the lock
is held. Loads without the lock and reads of the Core are actions of their own:
`InspectRun` reads the run, `WriteObs` saves what was read, and anything may happen
between them; `Snapshot` loads the journal on which `Decide` acts later;
`ReconcileJudges` decides and `ReconcileSaves` saves. `_result` writes the manifest
(`WriteManifest`) and then the journal (`SaveResult`).

The loop of `call` is: `_poll` (`PollCreate`, `PollStart`, `PollJoin`, `Polled`),
`_refresh` (`Refresh`), `Snapshot`, the limit and deadline checks (`ReportLimit`,
`Intend`, `Reload`, `InTime`), the decision (`Act...`), the cleanup deadline
(`CleanupOver`, `CleanupContinues`), then a launch or the next round.

`Crash(p)` is the death of any command at any point: what it holds in memory is lost,
its lock is free and its controllers live on. An exception that ends a command leaves
the durable state as a crash does and is covered by it.

Abstractions. A receipt is its status; the identifiers it carries are known exactly
when it is applied, which `validate_journal` enforces. A projected run is its status
and whether it is quiescent with all writers stopped. "ready", "running" and
"waiting" are one status. The Core accepts each request identifier once. PIDs are not
numbers: a process is dead or not, and "pid_reuse" lets a dead one look alive.

### Fairness

`CallReturns` is checked under weak fairness of the steps of `call`, of the launch of
a canceller (a launch under the lock never waits for anything), and of time. The
steps of the Core, of the controllers and of the run are *not* fair: the call must
return although none of them ever moves. The loop polls and sleeps and blocks only on
the journal lock, so a call that runs does take its next step.

### Runs

| run | instance | shows |
|---|---|---|
| `call_crash` | the observer, 3 rows, every fault, 1 crash | `TypeOK`, `AtMostOneStart`, `JournalIsValid`, `ReplayAgrees`, `NoSenderSurvives` and the refinement of the contract, with a death and a re-entry anywhere |
| `call_commands` | observer, canceller and reconciler, 3 rows | `TerminalIsTrue`, `PreventedIsFinal`, `IntentPreventsStart` in the interleavings of the three commands |
| `call_returns` | the observer, 3 rows, fair | `CallReturns` |
| `terminal_late_cancel` | observer and canceller, 3 rows, 1 crash | `TerminalResultIsFinal` is violated |

Bounds. Three rows of the journal hold a create, a start and a cancellation; a second
start would take the third. One crash gives every "died here, entered again" pair; what
a second death adds is covered by the theorems, which bound neither crashes nor rows nor
processes. `Faults` names what else may go wrong: Core refuses ("refusal"), the journal
is full ("limit"; its real limit is 1 MiB, the model's the number of rows), a launch
fails, a PID is taken again. In `call_commands` the constraint `ReconcilesTwoRows` keeps
`reconcile` to journals of at most two rows, so that the third, the sender of a
cancellation, is met by the observer and the canceller only; the run ends cancelled or
stays paused there, and may succeed in `call_crash`. In both runs `WaitIsOpen` leaves out
the states after the wait deadline: that it has passed only forbids `InTime`, and `Intend`,
which it forces on the observer, is possible before it too, as after a signal, so no
behaviour of the rest of the state is lost. Rows are interchangeable and the
runs without liveness use that symmetry. Deadlock is not checked: a finished call, and a
call folder left without a journal by a death in `prepare`, really stop.

### Disagreements with the documentation

`docs/subworkflows.md` says that once a terminal result is saved its exact replay does
not recheck old controller PIDs. Two sequences break this. A `cancel` after the
terminal result always launches, because the run is known, and `_launch` takes the
journal out of phase `terminal`; if that cancel dies before its PID is saved, the next
`call` saves `CHILD_UNCERTAIN` over the settled result (`terminal_late_cancel`). And
`reconcile` looks at the phase without the lock and saves `cleanup_required` later,
over a terminal phase the call saved in between (`subworkflows.py:588`); that breaks the
same property in the same way and has no run of its own.

### Proofs

`SubworkflowProofs` proves, from the assumptions that the observer is neither a
canceller nor a reconciler, that these are distinct, that "no controller" is not a
controller, and that the bounds have their types:

* `TypeCorrect`: `Spec => [](TypeOK /\ LaunchIsExclusive)`. The journal updates keep
  `Journals` (lemmas `ReceiptType` ... `OutcomeType`); `LaunchIsExclusive` is needed
  for the types because the row a launch completes is `reserved`, which is a
  controller only while the lock is held.
* `StartedOnce`: `Spec => []AtMostOneStart`. `AtMostOneStart` is not inductive: a
  process about to reserve the row of a start must know there is none. `StartInv`
  adds that only the observer gets there (`OnlyObserverStarts`) and `StartIsMarked`:
  a start row implies a saved start envelope, what the observer saw of the envelope in
  its snapshot still holds until it decides, and between the envelope and the
  reservation there is no start row. `RowsStep` reduces all actions to four: those
  that keep the operations of the rows, `Prepare`, `SaveStart` and `Reserve`.
* `IntentWins`: `Spec => IntentPreventsStart`, from the same invariant and
  `ReserveStep`: a start is reserved only where the intent was checked under the lock.

`SubworkflowProofs` goes on from there, for any number of cancellers, reconcilers,
controllers and crashes. A verdict rests on a copy of the journal and on a view of the
run, both read earlier, and is written in two steps; it is true only if nothing it rests
on is ever taken back. Two lemmas say so first. `StepGrows`: no step takes back a receipt,
the start envelope, the intent or the row of a controller. `CoreStays`: what Core has
ended stays ended. The inductive invariant `CallInv` (lemma `CallInductive`) then has,
besides `StartInv` and `JournalIsValid`:

* `SnapshotHolds`: the observer's copy differs from the journal only where that has grown,
  and, while the observer decides, not in what creates or starts the child. Without it
  `Decide` could report on receipts that are no longer those of the journal.
* `PlacesHold`, `RowsAreOwned`, `AbsentIsNew`: what led a process to its place still
  holds there, a launch in flight owns its row, and nobody uses a journal not yet saved.
* `ViewsAreTrue`, `CoreIsAsked`: a terminal status somebody holds is the status of the
  run for good, and Core has a start only from a controller that was sent with it.
* `PhaseIsTrue`, `OutcomesAreTrue`: a verdict not yet saved, the manifest and the saved
  result are all true in the same sense, and rest on senders that are done.
* `PreventionRests`, `ReplayRests`: a prevented call, and a terminal phase when no
  reconcile runs beside the call, leave the observer at rest.

From it follow `JournalStaysValid` (`JournalIsValid`), `ReportedIsTrue`
(`TerminalIsTrue`), `PreventionIsFinal` (`PreventedIsFinal`: once prevented, no run is
ever started) and `SendersAreDone` (`NoSenderSurvives`). `ReplayedIsReported` proves
`ReplayAgrees` under the hypothesis `Reconciler = {}`, which the runs `call_crash`,
`call_returns` and `terminal_late_cancel` meet. The hypothesis is needed: with a
reconcile beside the call and one death TLC shows the observer writing a stale view of
the run over a closed one and then the manifest of an attention, dying before the
journal, and the reconcile filing the older uncertain result as terminal. The next call
then answers that its output is not its own. No document claims otherwise, so there
is no run for it. `CallKeepsContract` is the refinement, `Spec => ContractSpec`: each
action maps to a step of the contract or a stutter, on `CallInv`.

Model-checked only: the liveness property `CallReturns`, which is out of the prover's
reach, and `TerminalResultIsFinal`, which is violated.

## 4. The Paperclip bridge

### Modules

* `PaperclipBinding` has the binding of one assignment revision as a record, the facts
  the code reads from it and the updates it saves.
* `PaperclipBridge` is the state machine, its properties, and the inductive invariant
  the proofs use. Durable: `binding` (each revision's `call.json`), `root` (its binding
  folder), `files` (its assignment folder). Behind the service: `posted`, `created`,
  `started`, `cancelled`, `run`. In a helper: `pc`, `todo` and `proof` (the older
  revisions it has yet to prove settled, and the records it proved), `view` (the run it
  read last). `reported` remembers the final results it printed.
* `PaperclipIssue` is what the bridge promises of an issue: at most one revision in
  hand, a new one only when every older one is over, over for good, and work only for
  a revision in hand.
* `MCPaperclip` has the small instances, `PaperclipProofs` the theorems.

### Correspondence

`_settled_prior` runs without a lock and takes a step for each folder: `LoadPrior`
loads a related record, `ReadPrior` asks Core about it, `PriorUnreadable` and
`PriorIrrelevant` are its other branches. `_reserve` then takes the issue lock:
`Recheck` compares the proofs with the records as they are now, `MakeRoot` creates the
folder and `SaveBinding` writes the record in it; the lock is held between them and a
helper may die there. `run` takes the observer lock (`TakeLock`, `Busy`). A lock is a
place of a helper (`IssueLockFree`, `ObserverLockFree`), so a death frees it.

The loop of `_observe` is: the intent by signal or deadline (`Intend`, `InTime`),
`_refresh` (`RefreshNothing`, `ReadInstance`, `ReadRun`), one decision in the order of
the code (`Settle` ... `Wait`), the exchange it asks for (`Post`, `Answer`, `NoAnswer`,
`UnreadableAnswer`), the cleanup deadline (`CleanupOver`, `Again`). `_dispatch` saves
the binding before the request leaves, and the request may be lost, so `Create`,
`Start` and `Cancel` save and `Post` sends.

The phase alone decides little: `ReadInstance` saves the start receipt again in every
round and moves the phase back to `observing`, and a refusal makes it `terminal`. What
is owed is the flag `cleanup_required`, and the properties are about that flag.

Where the model allows more than the code: an arrived request is carried out at any
later time; a create that got a retryable refusal may still be applied later; a
record whose diagnostic alone changed counts as unchanged in `Recheck`, where the code
may refuse; "no answer" is possible in every exchange. Where it abstracts: digests and
the frozen assignment, which never change; a receipt still "queued", which counts as
none; the text of results; refusals before anything is reserved, which leave no state.

### Fairness

`HelperReturns` is checked under weak fairness of the steps of a running helper and of
the two deadlines, and of nothing else: Core, the run and the service need never move.
Each HTTP exchange has a time-out (`OSClient`), so an exchange that gets no answer ends,
which is `NoAnswer`.

### Runs

| run | instance | shows |
|---|---|---|
| `bridge_issues` | two revisions of one issue, signals, refusals, a death | `IssueSpec` in every interleaving of two reservations and two observers, and that what a dead helper leaves keeps the issue closed |
| `bridge_attempts` | two helpers for one revision, all faults, fair | `TypeOK`, `ObligationKept`, `ResultIsTrue`, `IntentPreventsStart`, and `HelperReturns` |
| `bridge_duplicate_race` | two helpers for one revision, no fault | `DuplicateIsNotRefused` is violated |

Bounds. A helper can be run any number of times, so two helpers for two revisions give
every sequence of attempts and every overlap of two. A third revision of the issue
meets the same pairwise comparison in `Recheck`. One death in `bridge_issues`, none in
`bridge_attempts`; the theorems bound neither. `Faults` names what else may go wrong:
"signal", "deadline", "copy", "artifact", "unreadable" and "refusal" all happen in
`bridge_attempts`. `Endings` bounds what a run may end in to "succeeded", besides
staying paused; the theorems allow every ending. The two pairs of a revision and
its helper are interchangeable, which `bridge_issues` uses (`PairSymmetry`). Deadlock is
not checked: with a binding folder that has no record every helper returns at once and
no revision is left that can move, which is the documented state for an operator.

### Disagreement with the documentation

`docs/paperclip.md` says that a duplicate concurrent attempt gets
`attention_required` / `attention_busy`. `_reserve` creates the binding folder and then
saves the record in it, and the unlocked listing of a duplicate loads every folder it
finds: in between, the duplicate is refused over an invalid binding
(`bridge_duplicate_race`).

### Proofs

`PaperclipProofs` proves `Spec => []BridgeInv` from `BridgeAssumption` and
`EndingsAssumption`, for any sets of revisions, issues and helpers, any faults and any
number of deaths. The properties are not inductive; `BridgeInv` adds

* `CoreSane`: what Core did it was asked to do, and a run is that of an applied start;
* `Linked`: a binding repeats what Core answered, names every start that may have
  left, has an instance if it names a start, and keeps its claim while anything is in
  flight;
* `Backed`: a reported result is that of the closed run, or of a saved intent without
  a start;
* `Placed` and `Seen`: what a helper at a place may rely on; the request that is about
  to leave has been announced, and a closed run it has read is still closed;
* `LocksHold`: the locks are exclusive.

`LocalStepKeeps` and `ObserverStepKeeps` show what a step must respect that leaves the
bindings alone or saves one under the observer lock. `Replaces` says when a record may
take another's place, and `UpdatesReplace`, `SettledReplaces` and `RefusalReplaces` show
it of each update. The three places that need an argument of their own are the
reservation (`SaveBindingKeeps`: nothing can be in flight of a record that is absent),
the arrival of a request (`PostKeeps`) and the steps of Core (`OutsideKeeps`). From
`BridgeInvariant` follow `TypeCorrect`, `ObligationMet`, `ResultsTrue` and, with
`StartArrives`, the action property `IntentWins`.

`BridgeKeepsIssues` is the refinement `Spec => IssueSpec`. A revision counts as over when
its run has closed or its record is `Dropped`, and the reservation of a new one rests on
proofs of the older ones that were made without a lock and may be out of date. `IssueInv`
adds to `BridgeInv` what makes them good enough:

* `EndsTruly`: a record that says "terminal" and claims no cleanup belongs to a revision
  that is over; a retryable refusal keeps its claim; a cancel is saved only for a known
  run. So a record found equal to the one that was proved still proves it, even if it
  changed and changed back in between.
* `Asked`: what an observer at a place knows of its requests; without it a passed cleanup
  deadline could move a prevented record out of the phase that makes it over.
* `PriorsOver`: what a helper has proved so far is a closed run or such a record, and
  from the recheck to the saved binding every related revision is over.

`OverKept` is the step form: no helper's step brings back what was over (`GoesOn` says it
of a saved record, `UpdatesGoOn` and `LastGoOn` of each update), and no binding comes or
goes except by the reservation. `KeptRefines`, `SaveBindingRefines` and `CoreRefines` map
the steps.

Model-checked only: the liveness property, and `DuplicateIsNotRefused`, which is violated.


## 5. The Paperclip adapter

`PaperclipAdapter` is `execute` of `integrations/paperclip/index.js`. JavaScript runs one
turn at a time, so one action is one turn of the event loop: a stretch of `execute`
between two awaits (`Project`, `Configure`, `Spawn`), or a callback while it waits
(`Abort`, `Data`, `Timer`, `Error`, `Close`). `timers` counts how many of the two timers
have fired; `Kill` is `child.kill`, which reaches a child only while it runs. The helper
is external: between the start and the end of its `run()` TERM is a request to cancel,
before and after it ends the process; it may print too much, or die of a signal when its
report is half out or wholly out. `Reported` is the code's judgement of that report.

Fairness: the event loop goes on (`Execute`, `Callback`), timers fire, and a helper that
was sent KILL ends. Nothing else of the helper is certain, which is why `Returns` needs
the second timer.

The run `adapters` checks, of this module, `NothingRunsOn` (a refusal or a cancellation
of the adapter's own means that the bridge was never entered, and no helper outlives the
call), `PassedOnWhole` (the helper's status is passed on only from a whole report of a
helper that ended by itself and in time), `AbortIsHeard` and `Returns`. The module has no
bounds and no constants: the run explores its whole state space. `AdapterProofs` states
the three invariants as theorems all the same: with `PaperclipStages` (a helper exists
only after the spawn; an answer that came before it came before `run()`), they are
inductive, and the proof shows on which turn each of them rests. What is left out: the configuration, the text of the assignment and the
prompt, and a process that inherits the helper's pipes and so delays `close`
(`index.js:144`); the helper opens pipes of its own for all it starts.

## 6. The native adapters

### Modules

* `NativeGroup` is what the four adapters share: a child in a session of its own, the
  group it leads, its pipes, Core's wish to cancel, the deadline and the clock. The group
  lives its own life (`GroupMoves`): the root may exit, a descendant be born or end, the
  pipes may be held by a process that has left the group, TERM may be ignored and a
  killed process may take its time.
* `NativeClaude`, `NativeCodex`, `NativeOpenCode` and `NativePi` are the adapters.
* `NativeContract` is what the Core relies on: one group at a time, one answer, and no
  writer called stopped while a process of the group lives. `ContractSpec` in
  `NativeGroup` is the refinement.
* `MCAdapters` is one invocation of any of them, or of the Paperclip adapter.
* `AdapterProofs` holds the theorems about it. It rests on `ClaudeProofs` and
  `OpenCodeProofs`, and on the facts about the group at the end of `NativeGroup`.

### Correspondence

`invoke` runs the loop of `_process` twice, as a version probe and as the invocation
(`stage`). Between `Popen` and the `try` whose `finally` clause ends the child, Claude and
OpenCode make a selector, and an error there leaves the child running (`SelectorFails`,
`claude.py:301`, `opencode.py:267`); the invocation then ends with `Orphaned` instead of
`Raised`. `RaisedIsKilled` is about the exceptions under the `finally` clause, which are
`Raised`; to `NativeContract`, which promises nothing of an invocation that raises, the
two are one (`Exceptions`). One round of that loop is a few actions, between any two of which the group,
Core and the clock may move: for Claude and OpenCode the clock is read (`ReadClock`),
`poll()` is called and signals are sent by the reading (`Control`), the pipes are read
(`Drain`), the child is polled (`Look`) and the invocation ends or goes on (`Close`);
`CleanUp`, `WaitChild` and `PollRaises` are the way out of the loop, and a callback that
raises leaves it with its locals gone. Codex decides from a snapshot of the final file
once the child has exited and its pipes are closed, and only then waits for the group; Pi
reads its clock after `poll()` and never calls the writer of an unsettled run stopped.

The order of the checks in a round is the code's, since the first reason wins
(`Fails`). `report` is the `AdapterResult` with the fields of its evidence that depend on
the run, and `Accepted` is `validate_completion` applied to them, so the property relates
two pieces of code that have to agree. What a settled stream turns out to be when it is
finished is part of it: OpenCode's last event, without a newline, may be malformed and
makes the stream invalid, so that the evidence says invalid and not incomplete
(`Finish`, `opencode.py:191`), and `Unusable` lists why Pi's `stream.final` refuses an
answer (`pi.py:386-415`).

Abstractions. Chunks of output are reduced to what the stream amounts to so far (`output`);
the prompt is open, sent, closed or broken. Time is a count of ticks from the events the
code measures from (`age`): `Grace` is the two seconds from TERM to KILL, `Limit` the
five of the cleanup, and `SlowAt` the steps at which time may pass. A process number that
the kernel gives away again is not modelled.

### Runs, bounds, fairness

One run, `adapters`, for the four of them and the Paperclip adapter: `TypeOK`,
`CompletedIsWhole`, `Accepted`, `RaisedIsKilled`, `KilledBeforeGivenUp` (Pi's clock, read
after `poll()`, cannot skip KILL), `ContractSpec` and `Returns`.

`Grace = 1` and `Limit = 2` keep the order of the three moments the code compares, and a
tick may pass at every step of the loop (`AnyTime`), so every reading may be stale; for
Pi only `poll()` is slow (`PollTime`), the case its property is about. The theorems
bound neither `Grace` nor `Limit`; of Pi they too say that only `poll()` is slow.
Fairness: the adapter's own steps go on; time passes whenever the loop offers it again
and again (strong fairness of `Tick`, because a step of the loop ends the opportunity);
the deadline passes. The group, its pipes and its signals are not fair: the adapter
returns although no process ever ends.

### Disagreements with the documentation

Two, met while modelling, which no run shows. `docs/router-adapters.md:412` promises TERM,
KILL after two seconds and a cleanup bound of five; `opencode.py` and `claude.py` read the
clock before `poll()` and measure the bound after it, so when one `poll()` takes longer
than the bound they give the group up in the round in which they should have sent KILL.
And `docs/router-adapters.md:285` has Codex drain and snapshot a valid final file before
the forced cleanup, while `codex.py:602` sends TERM in the round that first sees the
child's exit, before its pipes are closed, and then never takes the snapshot.

### Proofs

All of it but `Returns` is proved of the specification the run checks, `MCAdapters`, for
every `Grace`, `Limit` and `SlowAt` (`NativeGroupAssumption`): `TypeCorrect`,
`CompletionIsWhole`, `EvidenceIsAccepted`, `ExceptionKills`, `GivenUpIsKilled`, the three
of the Paperclip adapter, and `ImplementsContract`, `Spec => ContractSpec`. Where the run
has two ticks to a cleanup, the theorems allow any number.

One adapter is invoked and never changes, so the invariant of the whole (`IInv` in
`AdapterProofs`) is that of the adapter invoked, and `StepOfAdapter` reduces a step of
`Next` to a step of it. Each native adapter has an inductive invariant of the same plan;
with the properties themselves and the types it consists of

* `Flow`: nothing is started beside a group; an answer comes last; Core has the pid of the
  invocation and not of the probe. Without it the contract's `Start` could not be shown
  to find no group.
* `Why`: a cleanup that has begun, a cancellation that was seen and a prompt that was
  refused have each become the reason or came after it; without it, a step that
  completes could not exclude that a poll had answered yes before.
* `Sound` (Codex and Pi): what a decision to call the child completed was based on, its
  code, its end of file and its settled output, stays as it was. These two decide in one
  round and answer in a later one, once the group is gone or given up.
* `Old` (Pi): once `poll()` is behind a round, a cleanup that is old enough has tried
  KILL, unless no member lives. This is what `KilledBeforeGivenUp` needs, and it is
  inductive because only `poll()` is slow: with time passing after the clock is read it
  would be false, and so would the property. `MCAdapters` gives Pi `PollTime` for
  `SlowAt`, which is therefore part of what the theorems about Pi say.
* `RaisedIsSeen` (Pi): after an exception the child was killed, or is gone, or had exited,
  which is as much as Pi's `finally` promises.

`CodexCloseGives`, `PiCloseGives` and `AnswerAtClose` (Claude, OpenCode) say what the
answer of `Close` may be; the refinement takes from them that a writer called stopped has
no member beside it. `NativeGroup` has the facts about the group that all four use: what a
step around an adapter changes, that a group once gone stays gone, and that polling the
child or killing the group adds no member. `Returns` is a liveness property and stays
with TLC.

## 7. The LAD ledger and its session

### Modules

* `LadLedger` is the record `session.json` and the functions the scripts compute on it:
  `Debit`, `Scope`, `Choose` with the functions of `boundaries.py` it calls, `Intended`
  and `Reserved`. A function that may refuse returns a set, empty when it does.
* `LadSession` has the scripts, the two planes, the operator and the properties.
* `MCLad` has the instances.

### Correspondence

An occurrence is one attempt of a role; a route is the node of the graph it leads to
(`Prepare`, `Native`, `Accept`, ... as in `workflow.json`). A script loads the ledger
(`Load`, with what `lad_state.load` checks of it and of the files beside it, `CanLoad`),
saves it, writes its projections and ends with the outcome Core routes by (`Emit`). Each
of these is an action of its own, on the copy it holds (`held`): `PrepareRole` saves the
intent of a replacement and `ReserveReplacement` then pays for it; `WriteInput`,
`WriteActive` and `WriteReady` are `materialize`; `Receive` saves the ledger and
`WriteCurrent` then writes Learning's own projection. `Crash` ends a script between any
two of them and pauses its plane, as a refusal does, until the operator redirects it
(`Redirect`) or records a replacement (`RecordReplacement`). `RunNative` is the run of a
role: one of the outcomes it is given, a usable result or not, a failure, and for
`Writers` a change of the source.

Core is external: one node at a time in each plane; a consumer of a seam runs once its
envelope is there; an envelope is spent by the run that ends and not by one that dies; a
redirect names the node that was paused, the node the ledger continues at, a preparation
or replacement of the active role, or `terminal_failure`.

Abstractions. Results, criteria, findings and evidence are one flag, whether the script
accepts them; the source is a version; guidance is constant; identifiers are numbers.

### Runs

| run | instance | shows |
|---|---|---|
| `lad_sessions` | four sessions, below | `TypeOK`, `Loadable`, `DispatchedOnce`, `EachDecisionOnce`, `RouteKept`, `LearningGate`, `NoLostSave`, `ReopenedByRemediation`, `EachStopsLegally` |
| `lad_closed_early` | a packet repaired in two episodes, 1 death, 1 redirect | `SucceededIsDrained` is violated |
| `lad_older_replacement` | planning, 2 deaths, 2 redirects, replacements of any occurrence | `InterruptedLoads` is violated |

The sessions. *planning*: recon to manager with all that diagnoses and repairs them, 4
occurrences, 1 death, 2 redirects, a planner that fails. *handed over*: a packet from its plan
to its second repair, Learning and completion, 11 occurrences, 1 death, 1 redirect.
*edited*: the same without redirects, where every role may fail and `fixer` and `updater`
change the source. *repairing*: two packets through review, contract findings, replanning
and remediation, 13 occurrences, no death.

Bounds. `Cut` takes the caps of `lad_state.CAPS` and lowers only the total: a session of
the real total of 60 repeats the same stretches. `Loadable` compares with the total of the
longest session, 13. The outcomes of each session are those
its stretch of the graph is about; between them every branch of `Choose` is taken.
`MaxSource = 1`: one change tells a stale result from a fresh one. In the passing run
`record_replacement` names the active occurrence only (`AnyOccurrence = FALSE`), because
an older one locks the session out, as `lad_older_replacement` shows. Deadlock is not
checked: a paused, held or finished session stops.

Fairness. Scripts have deadlines and Core runs the node a plane is at, so each plane's
scripts, the seam and the decisions are weakly fair; the operator and death are not.
`StopsLegally` is claimed of a session without redirects: `terminal_failure`, commanded
again once its CLOSE was acknowledged, sends a second CLOSE to a Learning plane that has
finished, and the foreground waits for good.

### Disagreements with the documentation

The two violations are quoted in `PROJECT.json`. Two more have no run.

The first: the Troubleshooter's `resume_role` "equals exact saved role" and the Consultant's REPAIR_EXECUTION "requires
exact interrupted role" (`context/role-contracts.md:32-33`), but a pending route is kept
when another role is interrupted (`boundaries.py:170`), and a replacement's is saved by
`prepare_role.py:198` and cleared only by manager, checker, arbiter or an
acknowledgement: a recon that was replaced and accepted long ago may be the role to
resume after FINDINGS of the planner.

The second: the gate before Learning is called mandatory (`workflows/lad/README.md:11`,
`context/contracts.md:21`), and it is lost when the operator replaces the very review that
owes it. The second pair is saved with its acceptance, as the pending `learning_gate`; if
the next script dies before `emit_request` saves, `record_replacement`
(`boundaries.py:452`) of that doublechecker overwrites what is pending. When the
replacement reports a contract finding, the consultant, manager, builder and checker that
follow lead to a fixer or an updater, after two evaluated repairs that Learning has not
seen. `LearningGate` without `Overruled` is violated so in a session of 16 occurrences, one
death and one redirect; with it, it says what the code does keep.

### Proofs

`LadProofs` is about `LadSession` for any packets, caps, outcomes, writers, failing roles,
deaths and redirects (`LadSessionAssumption`), and in its order:

* `TurnsKept`, the inductive invariant `Inv`: who has the turn at the one ledger file. A
  request is open from its save until its acknowledgement is accepted; meanwhile the
  foreground reserves and runs nothing and saves at most the same emission again, Learning
  saves only when it has the request, and an acknowledgement on its way is of a past
  request or exactly of the open one. None of these parts holds without the others: that
  Learning's copy is the ledger as it is rests on the foreground's being at rest, and that
  on the seams.
* `NoSaveLost` follows, and `StepEffects`: what each step does to `ledger` itself, no
  longer to a copy of it. The theorems below use the effects and not the scripts. What
  the functions of `LadLedger` change is stated once, in lemmas (`Kept`, `Leads`,
  `IsReservation`, `Results`).
* `RouteIsKept` needs `"learning" \notin Writers`: "Learning source access is read-only"
  (`context/role-contracts.md:5`).
* `ReservationsKept` is `DispatchInv`: an intended replacement has what it replaces, a
  plane that materializes does so for its active occurrence, of the role of its node and
  not READY, and a plane at or on the way to a native role has all that `DispatchedOnce`
  asks, already when the script has saved but not ended. `DispatchedOnlyOnce` and, with
  bounds on the counters and one acknowledgement for one request, `Typing` follow.
* `DecisionsOnce` has `DecisionInv`: a continuation that asks for a preparation has not
  been answered (`AskedInv`), and it cannot come back, because what is accepted is never
  chosen for again (`RouteInv`) and what an acknowledgement resumes is told from an
  earlier one by the request received in between (`SeenInv`).
* `ReopenedOnlyByRemediation` has `PlanInv`: the remediation was paid for at most once,
  and was if it is pending. It is proved for the cap of `lad_state.CAPS`, which is 1.

* `GateHolds` has `Gates`: from the acceptance that completes the second pair until the
  acknowledgement of Learning's disposal, the foreground's occurrence is that review,
  accepted, and either the gate is pending for its packet (`GateInv`, `UnseenInv`), with a
  continuation that asks for nothing, or nothing is pending and nothing is asked (a session
  that closes). So no reservation is asked for in between (`NothingAsked`), the
  acknowledgement that ends it is of a disposal of the same packet (`AckInv`), and an
  operator who replaces the active occurrence overrules that review and no other.
* `NeverLockedOut` has `LoadInv`: what a plane is shown is its active occurrence, an
  accepted one, or the one the active one replaces (`ShownInv`). Each reservation has to
  restore that, and does because the plane has settled before it or it replaces what the
  plane works on (`ReplacesOwn`): as long as the foreground's occurrence is not accepted,
  only its own replacement is asked for (`LapsedInv`), what is pending is accepted, active
  or already replaced (`PendInv`), and a second replacement of the same occurrence cannot
  be paid (`RepInv` and the cap of 1 in `lad_state.CAPS`).

The last two assume `AnyOccurrence = FALSE`. The second needs it: `lad_older_replacement`
is the counterexample.

Model-checked only: `StopsLegally`, a liveness property.

## 8. The catalog and the bootstrap of a copy

### Modules and correspondence

`Catalog` is `copy_workflow` and what it shares with `init_template`: any number of
processes copy one folder to one destination while its files are edited. A copy lists
(`Check`) and digests (`Digest`) the source, makes the destination exclusively (`Mkdir`),
copies file by file (`CopyFile`) and succeeds only if source and destination, listed and
read again, have that digest (`VerifySource`, `VerifyDest`). An error at any step leads to
`AfterError`: whoever made the destination removes it (`Remove`), and that may fail too. A
digest is the function from files to contents.

A clean-up that fails (`catalog.py:410`: `rmtree` raises in the middle of an `except`)
leaves the destination, or part of it, for good, and the code has nothing to undo that.
The state `left` stands for it and `FailedLeavesNothing` exempts it: the property is about
the copies that fail, not about the clean-ups that do.

`LadBootstrap` is the first two nodes of the LAD graph in such a copy: `init_session.py`
write by write (`Begin`, the cleaning of an old staging directory, `Mkdir`, `WriteOwner`,
`WriteLedger`, `Rename`, `WriteMarker`) and `setup_intake.py` (`Setup`, `CopyRequest`,
`SaveIntake`), then the first reservation. A script may die at every write, the manifest
and the project's request may be edited at any time, and lad-state may be lost between
runs. Identities and requests are version numbers; links and foreign files in the
staging directory are left out.

### Run, bounds, fairness

`template_copies` (`MCCopies`): two copiers, two files, two contents, two edits, two
errors, one kill; three versions, three deaths, three edits, two losses. It checks
`CopiedIsWhole` and `FailedLeavesNothing`, then `PublishedWhole`, `OneRequest` and
`MarkedIsNotReset`. Two copiers race for one destination in every way; the theorems allow
any number. Three versions are the old one, the new one and none. No liveness: a copy
ends by itself, and a bootstrap that died waits for its operator. Deadlock is not checked
for the same reason.

### Disagreement with the documentation

"bootstrap never resets a used copy" (`context/contracts.md:11`). The marker is written
once, after the rename: a bootstrap that dies in between is repeated as an existing
session, which does not write it, and if lad-state is lost after a role was reserved, the
next bootstrap publishes a new session. `MarkedIsNotReset` says what does hold.

### Proofs

`CopyProofs` proves all five, `CopiedIsWhole` and `FailedLeavesNothing` for any copiers,
files, contents, edits, errors and kills. Neither is inductive. `OneMaker` adds that
whoever is past `mkdir` made the destination that exists, so no other process writes to
it, and `ReadBack` that what a copier has read back of the destination is still there, so
that a digest that agrees at the end speaks of the folder at the end.

`PublishedWhole`, `OneRequest` and `MarkedIsNotReset` are proved for any versions, deaths,
edits and losses. `BootInv` adds to the first two: `MakesNew`, a script that is making a
session found neither a session nor traces of work, and what it has staged is what it
wrote; `HasSession`, a script that found a session still has it; and `TakesIn`, the
request being taken in is that of the session's identity, and no role has used another.
`TakesIn` is what the check in `Takes` maintains over a manifest that is edited while a
repeated intake runs. That a
stage leaves the variables of the other alone, by the shape of `MCCopies`, is the lemma
`StagesAreSeparate`; it carries the theorems about the bootstrap over to the run's
specification.

## 9. What is not modelled, and why

* *Adapter configuration and preflight* (`router/*configuration.py`, `resolver.py`,
  `preflight.py`): validation of one document at a time, without state. The validators of
  completion evidence are the exception and are modelled as `Accepted`.
* *Control facade and CLI* (`router/control.py`, `cli.py`): each command reads, checks and
  forwards to the Core. `_guard` checks before the Core acts, and what may change in
  between is decided by the Core, which is not in this repository.
* *Template input checks*: they read one file and copy it.
* *The catalog's listing and saved home*: an atomic replacement of one file, and reads.
* *The Core*: external, modelled by what the helpers rely on (`CoreRun`, the seams of
  `LadSession`, the service of `PaperclipBridge`).

Out of the prover's reach, and left to TLC: the liveness properties under fairness
(`CallReturns`, `HelperReturns`, `Returns` and `StopsLegally`), and facts about recursive
definitions for all inputs, of which there are none here.
