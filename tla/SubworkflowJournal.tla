------------------------- MODULE SubworkflowJournal -------------------------
(***************************************************************************)
(* The call journal of a subworkflow (`call.json`): its fields, the facts  *)
(* the helper reads from it and the updates it makes to it under the       *)
(* journal lock.  Every operator here is a function of one journal value;  *)
(* the processes that load and save journals are in SubworkflowCall.       *)
(*                                                                         *)
(* The frozen authority (request, paths, settings, deadline) never changes *)
(* and is left out.  A receipt is kept as its status, and the identifiers  *)
(* it carries are the facts that it is "applied": the instance is known    *)
(* exactly when the create receipt is applied, the run exactly when the    *)
(* start receipt is.  A receipt still "queued" decides nothing and counts  *)
(* as none.  Of the diagnostics only "observation_limit" is ever read      *)
(* back; it is the flag limit.                                             *)
(***************************************************************************)

EXTENDS CoreRun

CONSTANT Controller     \* controller processes a call may ever launch

Phases == {"absent", "prepared", "creating", "created", "starting",
           "observing", "cancel_requested", "cleanup_required",
           "attention_required", "terminal"}

Receipts == {"none", "applied", "refused"}

Outcomes == {"none", "CHILD_SUCCEEDED", "CHILD_FAILED", "CHILD_CANCELLED",
             "CHILD_ATTENTION", "CHILD_REFUSED", "CHILD_UNCERTAIN"}

\* The outcomes _result files under phase "terminal".
TerminalOutcomes == {"CHILD_SUCCEEDED", "CHILD_FAILED", "CHILD_CANCELLED",
                     "CHILD_REFUSED"}

Rows == [op : {"none", "create", "start", "cancel"},
         pid : BOOLEAN, joined : BOOLEAN]
NoRow == [op |-> "none", pid |-> FALSE, joined |-> FALSE]

Journals == [phase : Phases, copied : BOOLEAN,
             create : Receipts, startSaved : BOOLEAN, start : Receipts,
             intent : BOOLEAN, obs : Views, limit : BOOLEAN,
             result : Outcomes, rows : [Controller -> Rows]]

\* What prepare saves first, but for the phase: no journal at all is phase
\* "absent".
NoJournal == [phase |-> "absent", copied |-> FALSE,
              create |-> "none", startSaved |-> FALSE, start |-> "none",
              intent |-> FALSE, obs |-> NoView, limit |-> FALSE,
              result |-> "none", rows |-> [c \in Controller |-> NoRow]]

-----------------------------------------------------------------------------
(* Facts *)

InstanceKnown(j) == j.create = "applied"
RunKnown(j) == j.start = "applied"

\* OUTCOMES of subworkflows.py: the outcome a terminal status stands for.
OutcomeOf == [succeeded |-> "CHILD_SUCCEEDED", failed |-> "CHILD_FAILED",
              cancelled |-> "CHILD_CANCELLED"]

\* A reservation whose sender died, or has not yet returned, before the PID
\* was saved.
Unresolved(j) ==
    \E c \in Controller : /\ j.rows[c].op # "none"
                          /\ ~j.rows[c].pid
                          /\ ~j.rows[c].joined

ControllersRecorded(j, dead) ==
    \A c \in Controller : \/ j.rows[c].op = "none"
                          \/ j.rows[c].joined
                          \/ j.rows[c].pid
\* Every recorded controller is joined, or its PID is known and absent.
ControllersClosed(j, dead) ==
    \A c \in Controller : \/ j.rows[c].op = "none"
                          \/ j.rows[c].joined
                          \/ j.rows[c].pid /\ c \in dead

\* Some controller of the journal stands only on the absence of its PID, which
\* another process of the machine may have taken since.
RestsOnPid(j) ==
    \E c \in Controller : j.rows[c].pid /\ ~j.rows[c].joined

\* The phase under which _result files an outcome.
PhaseOfOutcome(outcome) ==
    IF outcome \in TerminalOutcomes THEN "terminal"
    ELSE IF outcome = "CHILD_ATTENTION" THEN "attention_required"
    ELSE "cleanup_required"

\* call returns the saved result without observing again: the phase is
\* terminal, and the observation does not name another outcome.
Replays(j) ==
    /\ j.phase = "terminal"
    /\ j.result # "none"
    /\ j.obs.status \in TerminalStatus => j.result = OutcomeOf[j.obs.status]

-----------------------------------------------------------------------------
(* Updates *)

Prepared == [NoJournal EXCEPT !.phase = "prepared"]

\* _receipt, under the lock, of a create or start receipt not yet saved.
WithCreate(j, receipt) ==
    [j EXCEPT !.create = receipt,
              !.phase = IF receipt = "applied" THEN "created" ELSE @]
WithStart(j, receipt) ==
    [j EXCEPT !.start = receipt,
              !.phase = IF receipt = "applied" THEN "observing" ELSE @]

WithObservation(j, view) == [j EXCEPT !.obs = view]

\* The journal would exceed its size: the observation is dropped instead.
WithObservationLimit(j) ==
    [j EXCEPT !.phase = "cleanup_required", !.limit = TRUE, !.obs = NoView]

MisspeltPhase == [create |-> "creating", start |-> "starting",
                  cancel |-> "cancelling"]
SendingPhase == [create |-> "creating", start |-> "starting",
                 cancel |-> "cancel_requested"]

\* _launch before the send: the phase, and a row with neither PID nor join.
Reserved(j, c, op) ==
    [j EXCEPT !.phase = SendingPhase[op], !.limit = FALSE,
              !.rows = [j.rows EXCEPT ![c] = [op |-> op, pid |-> FALSE,
                                              joined |-> FALSE]]]

WithPid(j, c) ==
    [j EXCEPT !.limit = FALSE, !.rows = [j.rows EXCEPT ![c].pid = TRUE]]

WithJoin(j, c) == [j EXCEPT !.rows = [j.rows EXCEPT ![c].joined = TRUE]]

\* The handler of an exception in _launch: a sender never spawned counts as
\* joined, a spawned one keeps its PID, and either way cleanup is required.
WithLaunchFailure(j, c, spawned, joined) ==
    [j EXCEPT !.phase = "cleanup_required", !.limit = FALSE,
              !.rows = [j.rows EXCEPT ![c] = [op |-> j.rows[c].op,
                                              pid |-> spawned,
                                              joined |-> joined]]]

WithIntent(j) == [j EXCEPT !.intent = TRUE]

WithResult(j, verdict) ==
    [j EXCEPT !.result = verdict.outcome, !.limit = verdict.limit,
              !.phase = PhaseOfOutcome(verdict.outcome)]

WithPhase(j, phase) == [j EXCEPT !.phase = phase, !.limit = FALSE]
=============================================================================
