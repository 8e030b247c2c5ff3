-------------------------- MODULE PaperclipBinding --------------------------
(***************************************************************************)
(* The durable binding of one assignment revision (`call.json` under the   *)
(* binding digest): its fields, the facts the bridge reads from it and the *)
(* updates it saves.  Every operator is a function of one binding.         *)
(*                                                                         *)
(* The frozen assignment and its deadlines never change and are left out.  *)
(* A receipt is kept as its status, and the identifiers it carries are the *)
(* facts that it is "applied"; a receipt still "queued" counts as none.    *)
(* "retryable" is a refusal of the create that does not say that nothing   *)
(* was created.  The diagnostic is left out: a record whose diagnostic     *)
(* alone changed counts as unchanged, so the model goes on where the code  *)
(* may refuse.                                                             *)
(***************************************************************************)
EXTENDS CoreRun

Phases == {"absent", "prepared", "creating", "created", "starting",
           "observing", "cancel_requested", "attention_required",
           "cleanup_required", "terminal"}

CreateReceipts == {"none", "applied", "refused", "retryable"}
Receipts == {"none", "applied", "refused"}

Bindings == [phase : Phases, copied : BOOLEAN, cleanupRequired : BOOLEAN,
             create : CreateReceipts,
             startSaved : BOOLEAN, start : Receipts,
             cancelSaved : BOOLEAN, cancel : Receipts,
             intent : BOOLEAN, obs : Views]

NoBinding == [phase |-> "absent", copied |-> FALSE, cleanupRequired |-> FALSE,
              create |-> "none",
              startSaved |-> FALSE, start |-> "none",
              cancelSaved |-> FALSE, cancel |-> "none",
              intent |-> FALSE, obs |-> NoView]

Reserved == [NoBinding EXCEPT !.phase = "prepared"]

-----------------------------------------------------------------------------
(* Facts *)

InstanceKnown(b) == b.create = "applied"
RunKnown(b) == b.start = "applied"

\* A receipt of the binding is a refusal.
Refused(b) == \/ b.create \in {"refused", "retryable"}
              \/ "refused" \in {b.start, b.cancel}

NoTargetIgnoringRetry(b) ==
    /\ b.create \in {"refused", "retryable"}
    /\ ~b.startSaved /\ ~b.cancelSaved
\* A refusal that proves that Core made nothing for this binding.
NoTargetRefusal(b) ==
    /\ b.create = "refused"
    /\ ~b.startSaved /\ ~b.cancelSaved

UnsettledByPhase(b) == b.phase = "cleanup_required"
\* The record itself forbids a new revision of its issue.
Unsettled(b) == b.phase = "cleanup_required" \/ b.cleanupRequired

\* The summary of a running run may stand for its full history.
MayDefer(b) ==
    /\ ~b.intent /\ b.phase # "cleanup_required"
    /\ b.obs.status \in {"none", "running"}

-----------------------------------------------------------------------------
(* Updates *)

WithCopy(b) == [b EXCEPT !.copied = TRUE]
WithIntent(b) == [b EXCEPT !.intent = TRUE]
WithPhase(b, phase) == [b EXCEPT !.phase = phase]

\* _receipt, of a receipt Core has.
WithCreate(b, receipt) ==
    [b EXCEPT !.create = receipt,
              !.phase = IF receipt = "applied" THEN "created" ELSE @]
WithStart(b, receipt) ==
    [b EXCEPT !.start = receipt,
              !.phase = IF receipt = "applied" THEN "observing" ELSE @]
WithCancel(b, receipt) == [b EXCEPT !.cancel = receipt]

WithObservation(b, view) == [b EXCEPT !.obs = view]

MisspeltPhase == [create |-> "creating", start |-> "starting",
                  cancel |-> "cancelling"]
DispatchPhase == [create |-> "creating", start |-> "starting",
                  cancel |-> "cancel_requested"]

\* _dispatch before the request leaves: what it may cause is now owed.
Dispatching(b, op) ==
    [b EXCEPT !.cleanupRequired = TRUE,
              !.startSaved = IF op = "start" THEN TRUE ELSE @,
              !.cancelSaved = IF op = "cancel" THEN TRUE ELSE @,
              !.phase = DispatchPhase[op]]

\* Nothing is owed any more.
Settled(b) == [b EXCEPT !.phase = "terminal", !.cleanupRequired = FALSE]

\* A refusal ends the binding unless a run is known.
WithRefusal(b) ==
    [b EXCEPT !.phase = IF RunKnown(b) THEN "cleanup_required" ELSE "terminal",
              !.cleanupRequired = IF NoTargetRefusal(b) THEN FALSE ELSE @]

\* An answer nobody can read, a passed deadline, a missing result file.
Uncertain(b) == WithPhase(b, "cleanup_required")
=============================================================================
