--------------------------- MODULE PaperclipBridge ---------------------------
(***************************************************************************)
(* The Paperclip assignment bridge                                         *)
(* (src/millrace_plus/integrations/paperclip_bridge.py): helper processes  *)
(* that each run one assignment revision, the bindings they keep in one    *)
(* state folder, and the Core they reach through an HTTP service.          *)
(*                                                                         *)
(* A helper proves every older revision of its issue settled, reserves its *)
(* binding under the short issue lock, takes the observer lock of the      *)
(* binding and observes: copy, create, start, wait, cancel.  Locks are     *)
(* derived from the places of the helpers.  Each save of a binding, each   *)
(* read of a foreign binding and each HTTP exchange is a step of its own.  *)
(* A request may be lost, an answer may be lost or unreadable, and a       *)
(* request that arrived may be carried out at any later time, once.        *)
(***************************************************************************)
EXTENDS PaperclipBinding, Naturals

CONSTANTS Revision,       \* assignment revisions: one binding each
          Issue,
          IssueOf,        \* the issue of a revision
          Helper,         \* helper processes; each can be run again
          RevisionOf,     \* the revision a helper is run for
          Faults,         \* what else may happen, of AllFaults
          MaxCrashes      \* bound: how many helpers may die

\* Core refuses a request; an answer is unreadable or unauthorised; a signal
\* asks a helper to cancel; the deadlines pass; the copy of the definition
\* fails; a result file is not an ordinary file.
AllFaults == {"refusal", "unreadable", "signal", "deadline", "copy",
              "artifact"}

ASSUME BridgeAssumption ==
    /\ IssueOf \in [Revision -> Issue]
    /\ RevisionOf \in [Helper -> Revision]
    /\ Faults \subseteq AllFaults
    /\ MaxCrashes \in Nat

VARIABLES
    binding,        \* each revision's call.json
    root, files,    \* its binding folder, its assignment folder exist
    posted,         \* its requests that reached the service
    created,        \* Core: what became of its create request
    started,        \* Core: of its start request
    cancelled,      \* Core: of its cancel request
    run,            \* Core: its run
    waitExpired,    \* its wait deadline has passed
    cleanupExpired, \* its cleanup deadline has passed
    pc,             \* each helper: its place
    todo, proof,    \* the folders it still has to prove, the records it proved
    view,           \* the run it read last
    reported,       \* the final results reported of each revision
    crashes

durable == <<binding, root, files>>
core == <<posted, created, started, cancelled, run>>
clock == <<waitExpired, cleanupExpired>>
local == <<todo, proof, view>>
vars == <<binding, root, files, posted, created, started, cancelled, run,
          waitExpired, cleanupExpired, pc, todo, proof, view, reported,
          crashes>>

Requests == {"create", "start", "cancel"}

ReserveLabels == {"list", "check", "recheck", "mkdir", "saveBinding", "lock"}
ObserverLabels == {"copy", "copying", "loop", "instance", "run", "decide",
                   "refs", "postCreate", "postStart", "postCancel",
                   "answerCreate", "answerStart", "answerCancel", "late"}
Labels == {"idle"} \union ReserveLabels \union ObserverLabels

\* The results the properties tell apart; other ones are not recorded.
Tracked == {"succeeded", "failed", "cancelled", "invalid_binding"}

NoProof == [r \in Revision |-> NoBinding]

-----------------------------------------------------------------------------
(* Helpers *)

Goto(h, label) == pc' = [pc EXCEPT ![h] = label]

Mine(h) == binding[RevisionOf[h]]
Bound(r) == binding[r].phase # "absent"

Save(h, b) == binding' = [binding EXCEPT ![RevisionOf[h]] = b]

\* A helper that returns or dies keeps nothing.
Forget(h) ==
    /\ Goto(h, "idle")
    /\ todo' = [todo EXCEPT ![h] = {}]
    /\ proof' = [proof EXCEPT ![h] = NoProof]
    /\ view' = [view EXCEPT ![h] = NoView]

Return(h, result) ==
    /\ Forget(h)
    /\ reported' = [reported EXCEPT
                      ![RevisionOf[h]] = @ \union ({result} \intersect Tracked)]

\* The short lock of the issue, held from the recheck to the saved binding.
IssueLockFree(h) ==
    \A g \in Helper \ {h} :
        IssueOf[RevisionOf[g]] = IssueOf[RevisionOf[h]] =>
            pc[g] \notin {"mkdir", "saveBinding"}

\* The lock of the binding, held from the copy to the result.
ObserverLockFree(h) ==
    \A g \in Helper \ {h} :
        RevisionOf[g] = RevisionOf[h] => pc[g] \notin ObserverLabels

\* The other bound revisions of the issue.
Related(r) == {q \in Revision \ {r} : Bound(q) /\ IssueOf[q] = IssueOf[r]}

Proved(h) == {r \in Revision : proof[h][r] # NoBinding}

-----------------------------------------------------------------------------
(* _reserve: prove older revisions settled, then reserve under the lock *)

Begin(h) ==
    /\ pc[h] = "idle"
    /\ Goto(h, IF Bound(RevisionOf[h]) THEN "lock" ELSE "list")
    /\ UNCHANGED <<durable, core, clock, local, reported, crashes>>

List(h) ==
    /\ pc[h] = "list"
    /\ todo' = [todo EXCEPT ![h] = {r \in Revision : root[r]}]
    /\ Goto(h, "check")
    /\ UNCHANGED <<durable, core, clock, proof, view, reported, crashes>>

\* A folder without a record is an invalid binding, whosever it is.
PriorUnreadable(h, r) ==
    /\ pc[h] = "check" /\ r \in todo[h] /\ ~Bound(r)
    /\ Return(h, "invalid_binding")
    /\ UNCHANGED <<durable, core, clock, crashes>>

PriorIrrelevant(h, r) ==
    /\ pc[h] = "check" /\ r \in todo[h] /\ Bound(r)
    /\ r \notin Related(RevisionOf[h])
    /\ todo' = [todo EXCEPT ![h] = @ \ {r}]
    /\ UNCHANGED <<durable, core, clock, pc, proof, view, reported, crashes>>

LoadPrior(h, r) ==
    /\ pc[h] = "check" /\ r \in todo[h] \intersect Related(RevisionOf[h])
    /\ todo[h] \intersect Proved(h) = {}
    /\ IF Unsettled(binding[r])
       THEN Return(h, "refused")
       ELSE /\ proof' = [proof EXCEPT ![h][r] = binding[r]]
            /\ UNCHANGED <<pc, todo, view, reported>>
    /\ UNCHANGED <<durable, core, clock, crashes>>

\* What Core shows of the loaded binding b of revision r lets a new one start.
SettledInCore(r, b) ==
    IF RunKnown(b) THEN Closed(run[r])
    ELSE /\ b.phase = "terminal"
         /\ InstanceKnown(b) => run[r] = NoView /\ ~b.startSaved

ReadPrior(h, r) ==
    /\ pc[h] = "check" /\ r \in todo[h] \intersect Proved(h)
    /\ \/ /\ SettledInCore(r, proof[h][r])
          /\ todo' = [todo EXCEPT ![h] = @ \ {r}]
          /\ UNCHANGED <<pc, proof, view, reported>>
       \/ Return(h, "refused")   \* not settled, or no answer
    /\ UNCHANGED <<durable, core, clock, crashes>>

PriorsProved(h) ==
    /\ pc[h] = "check" /\ todo[h] = {}
    /\ Goto(h, "recheck")
    /\ UNCHANGED <<durable, core, clock, local, reported, crashes>>

\* A duplicate that lost the race for the reservation attaches to it.
Attach(h) ==
    /\ pc[h] = "recheck" /\ IssueLockFree(h) /\ Bound(RevisionOf[h])
    /\ Goto(h, "lock")
    /\ UNCHANGED <<durable, core, clock, local, reported, crashes>>

ProvedStillStand(h) == \A r \in Proved(h) : binding[r] = proof[h][r]
\* The proofs cover exactly the related bindings, none of them changed.
ProofStands(h) ==
    /\ Related(RevisionOf[h]) = Proved(h)
    /\ \A r \in Proved(h) : binding[r] = proof[h][r]

Recheck(h) ==
    /\ pc[h] = "recheck" /\ IssueLockFree(h) /\ ~Bound(RevisionOf[h])
    /\ IF \E r \in Revision : root[r] /\ ~Bound(r)
       THEN Return(h, "invalid_binding")
       ELSE IF ProofStands(h)
       THEN Goto(h, "mkdir") /\ UNCHANGED <<local, reported>>
       ELSE Return(h, "refused")
    /\ UNCHANGED <<durable, core, clock, crashes>>

MakeRoot(h) ==
    /\ pc[h] = "mkdir"
    /\ root' = [root EXCEPT ![RevisionOf[h]] = TRUE]
    /\ Goto(h, "saveBinding")
    /\ UNCHANGED <<binding, files, core, clock, local, reported, crashes>>

SaveBinding(h) ==
    /\ pc[h] = "saveBinding"
    /\ Save(h, Reserved)
    /\ Goto(h, "lock")
    /\ todo' = [todo EXCEPT ![h] = {}]
    /\ proof' = [proof EXCEPT ![h] = NoProof]
    /\ UNCHANGED <<root, files, core, clock, view, reported, crashes>>

-----------------------------------------------------------------------------
(* run: the observer lock, and the copy of the definition *)

Busy(h) ==
    /\ pc[h] = "lock" /\ ~ObserverLockFree(h)
    /\ Return(h, "attention_required")
    /\ UNCHANGED <<durable, core, clock, crashes>>

TakeLock(h) ==
    /\ pc[h] = "lock" /\ ObserverLockFree(h)
    /\ Goto(h, IF Mine(h).intent THEN "loop" ELSE "copy")
    /\ todo' = [todo EXCEPT ![h] = {}]
    /\ proof' = [proof EXCEPT ![h] = NoProof]
    /\ UNCHANGED <<durable, core, clock, view, reported, crashes>>

\* Leftovers of a copy that was not finished belong to nobody.
CopyNotOwned(h) ==
    /\ pc[h] = "copy" /\ ~Mine(h).copied /\ files[RevisionOf[h]]
    /\ Return(h, "refused")
    /\ UNCHANGED <<durable, core, clock, crashes>>

CopyFiles(h) ==
    /\ pc[h] = "copy" /\ ~Mine(h).copied /\ ~files[RevisionOf[h]]
    /\ files' = [files EXCEPT ![RevisionOf[h]] = TRUE]
    /\ Goto(h, "copying")
    /\ UNCHANGED <<binding, root, core, clock, local, reported, crashes>>

CopyFails(h) ==
    /\ pc[h] \in {"copy", "copying"} /\ "copy" \in Faults
    /\ Return(h, "refused")
    /\ UNCHANGED <<durable, core, clock, crashes>>

CopyPrepared(h) ==
    /\ pc[h] = "copying"
    /\ Save(h, WithCopy(Mine(h)))
    /\ Goto(h, "loop")
    /\ UNCHANGED <<root, files, core, clock, local, reported, crashes>>

CopyKept(h) ==
    /\ pc[h] = "copy" /\ Mine(h).copied
    /\ Goto(h, "loop")
    /\ UNCHANGED <<durable, core, clock, local, reported, crashes>>

-----------------------------------------------------------------------------
(* _observe: the intent, and what the service shows *)

Intend(h) ==
    /\ pc[h] = "loop"
    /\ waitExpired[RevisionOf[h]] \/ "signal" \in Faults
    /\ Save(h, WithIntent(Mine(h)))
    /\ Goto(h, "instance")
    /\ view' = [view EXCEPT ![h] = NoView]
    /\ UNCHANGED <<root, files, core, clock, todo, proof, reported, crashes>>

InTime(h) ==
    /\ pc[h] = "loop" /\ ~waitExpired[RevisionOf[h]]
    /\ Goto(h, "instance")
    /\ view' = [view EXCEPT ![h] = NoView]
    /\ UNCHANGED <<durable, core, clock, todo, proof, reported, crashes>>

RefreshNothing(h) ==
    /\ pc[h] = "instance" /\ ~InstanceKnown(Mine(h))
    /\ Goto(h, "decide")
    /\ UNCHANGED <<durable, core, clock, local, reported, crashes>>

\* The receipts of start and cancel that Core shows, for the saved requests.
WithStartShown(b, r) ==
    IF b.startSaved /\ started[r] # "none" THEN WithStart(b, started[r]) ELSE b
WithCancelShown(b, r) ==
    IF b.cancelSaved /\ cancelled[r] # "none"
    THEN WithCancel(b, cancelled[r]) ELSE b

\* The instance; the summary of a running run may stand for the run.
ReadInstance(h) ==
    /\ pc[h] = "instance" /\ InstanceKnown(Mine(h))
    /\ LET r == RevisionOf[h]
           b == WithCancelShown(WithStartShown(Mine(h), r), r)
       IN /\ Save(h, b)
          /\ \/ RunKnown(b) /\ Goto(h, "run")
             \/ /\ \/ ~RunKnown(b)
                   \/ MayDefer(Mine(h)) /\ run[r].status = "running"
                /\ Goto(h, "decide")
    /\ UNCHANGED <<root, files, core, clock, local, reported, crashes>>

\* The exact run, and its full history.
ReadRun(h) ==
    /\ pc[h] = "run"
    /\ LET r == RevisionOf[h]
       IN /\ Save(h, WithObservation(WithCancelShown(Mine(h), r), run[r]))
          /\ view' = [view EXCEPT ![h] = run[r]]
    /\ Goto(h, "decide")
    /\ UNCHANGED <<root, files, core, clock, todo, proof, reported, crashes>>

-----------------------------------------------------------------------------
(* _observe: decisions, in the order of the code *)

Settle(h) ==
    /\ pc[h] = "decide" /\ Closed(view[h])
    /\ Save(h, Settled(Mine(h)))
    /\ IF view[h].status = "succeeded"
       THEN Goto(h, "refs") /\ UNCHANGED <<local, reported>>
       ELSE Return(h, view[h].status)
    /\ UNCHANGED <<root, files, core, clock, crashes>>

RefsValid(h) ==
    /\ pc[h] = "refs"
    /\ Return(h, "succeeded")
    /\ UNCHANGED <<durable, core, clock, crashes>>

RefsInvalid(h) ==
    /\ pc[h] = "refs" /\ "artifact" \in Faults
    /\ Save(h, Uncertain(Mine(h)))
    /\ Return(h, "refused")
    /\ UNCHANGED <<root, files, core, clock, crashes>>

\* A paused run is an operator's, unless this helper is to cancel it.
Paused(h) == view[h].status = "paused" /\ ~Mine(h).intent

Attend(h) ==
    /\ pc[h] = "decide" /\ Paused(h)
    /\ IF ClosedForAttention(view[h])
       THEN /\ Save(h, WithPhase(Mine(h), "attention_required"))
            /\ Return(h, "attention_required")
       ELSE /\ Save(h, Uncertain(Mine(h)))
            /\ Return(h, "uncertain")
    /\ UNCHANGED <<root, files, core, clock, crashes>>

Open(h) == /\ pc[h] = "decide" /\ ~Closed(view[h]) /\ ~Paused(h)

Refuse(h) ==
    /\ Open(h) /\ Refused(Mine(h))
    /\ Save(h, WithRefusal(Mine(h)))
    /\ Return(h, "refused")
    /\ UNCHANGED <<root, files, core, clock, crashes>>

Progress(h) == Open(h) /\ ~Refused(Mine(h))

\* Nothing was ever dispatched: the phase says so.
NeverDispatched(b) == b.phase \in {"prepared", "terminal"}

PreventCreate(h) ==
    /\ Progress(h) /\ ~InstanceKnown(Mine(h))
    /\ Mine(h).intent /\ NeverDispatched(Mine(h))
    /\ Save(h, WithPhase(Mine(h), "terminal"))
    /\ Return(h, "cancelled")
    /\ UNCHANGED <<root, files, core, clock, crashes>>

\* A create of unknown fate is replayed as it was saved, also to cancel it.
Create(h) ==
    /\ Progress(h) /\ ~InstanceKnown(Mine(h))
    /\ ~(Mine(h).intent /\ NeverDispatched(Mine(h)))
    /\ Save(h, Dispatching(Mine(h), "create"))
    /\ Goto(h, "postCreate")
    /\ UNCHANGED <<root, files, core, clock, local, reported, crashes>>

StartUnasked(h) ==
    /\ Progress(h) /\ InstanceKnown(Mine(h)) /\ ~Mine(h).startSaved

\* The intent is there, or is recorded now by a signal.
PreventStart(h) ==
    /\ StartUnasked(h)
    /\ Mine(h).intent \/ "signal" \in Faults
    /\ Save(h, Settled(WithIntent(Mine(h))))
    /\ Return(h, "cancelled")
    /\ UNCHANGED <<root, files, core, clock, crashes>>

Start(h) ==
    /\ StartUnasked(h) /\ ~Mine(h).intent
    /\ Save(h, Dispatching(Mine(h), "start"))
    /\ Goto(h, "postStart")
    /\ UNCHANGED <<root, files, core, clock, local, reported, crashes>>

ObserveStartByReplay(h) ==
    /\ Progress(h) /\ Mine(h).startSaved /\ ~RunKnown(Mine(h))
    /\ Goto(h, "postStart")
    /\ UNCHANGED <<durable, core, clock, local, reported, crashes>>
\* A start whose reply was lost is asked for, never sent again.
ObserveStart(h) ==
    /\ Progress(h) /\ Mine(h).startSaved /\ ~RunKnown(Mine(h))
    /\ Goto(h, "answerStart")
    /\ UNCHANGED <<durable, core, clock, local, reported, crashes>>

Cancel(h) ==
    /\ Progress(h) /\ RunKnown(Mine(h)) /\ Mine(h).intent
    /\ Save(h, Dispatching(Mine(h), "cancel"))
    /\ Goto(h, "postCancel")
    /\ UNCHANGED <<root, files, core, clock, local, reported, crashes>>

Wait(h) ==
    /\ Progress(h) /\ RunKnown(Mine(h)) /\ ~Mine(h).intent
    /\ Goto(h, "late")
    /\ UNCHANGED <<durable, core, clock, local, reported, crashes>>

-----------------------------------------------------------------------------
(* The exchanges with the service *)

PostLabel == [create |-> "postCreate", start |-> "postStart",
              cancel |-> "postCancel"]
AnswerLabel == [create |-> "answerCreate", start |-> "answerStart",
                cancel |-> "answerCancel"]

\* The request reaches the service, or is lost.
Post(h, op) ==
    /\ pc[h] = PostLabel[op]
    /\ \/ posted' = [posted EXCEPT ![RevisionOf[h]] = @ \union {op}]
       \/ posted' = posted
    /\ Goto(h, AnswerLabel[op])
    /\ UNCHANGED <<durable, created, started, cancelled, run, clock, local,
                   reported, crashes>>

\* The receipt Core has by now comes back.
Answer(h) ==
    /\ LET r == RevisionOf[h]
       IN \/ /\ pc[h] = "answerCreate" /\ created[r] # "none"
             /\ Save(h, WithCreate(Mine(h), created[r]))
          \/ /\ pc[h] = "answerStart" /\ started[r] # "none"
             /\ Save(h, WithStart(Mine(h), started[r]))
          \/ /\ pc[h] = "answerCancel" /\ cancelled[r] # "none"
             /\ Save(h, WithCancel(Mine(h), cancelled[r]))
    /\ Goto(h, "late")
    /\ UNCHANGED <<root, files, core, clock, local, reported, crashes>>

\* An HTTP exchange under the observer lock is under way.
Asking(h) ==
    \/ pc[h] = "instance" /\ InstanceKnown(Mine(h))
    \/ pc[h] \in {"run", "answerCreate", "answerStart", "answerCancel"}

\* No answer, or one without a receipt: the loop goes on.
NoAnswer(h) ==
    /\ Asking(h)
    /\ Goto(h, "late")
    /\ UNCHANGED <<durable, core, clock, local, reported, crashes>>

UnreadableAnswer(h) ==
    /\ Asking(h) /\ "unreadable" \in Faults
    /\ Save(h, Uncertain(Mine(h)))
    /\ Return(h, "uncertain")
    /\ UNCHANGED <<root, files, core, clock, crashes>>

\* The cleanup deadline counts from the saved intent.
CleanupOver(h) ==
    /\ pc[h] = "late" /\ Mine(h).intent /\ cleanupExpired[RevisionOf[h]]
    /\ Save(h, Uncertain(Mine(h)))
    /\ Return(h, "uncertain")
    /\ UNCHANGED <<root, files, core, clock, crashes>>

AgainAlthoughLate(h) ==
    /\ pc[h] = "late"
    /\ Goto(h, "loop")
    /\ UNCHANGED <<durable, core, clock, local, reported, crashes>>
Again(h) ==
    /\ pc[h] = "late"
    /\ ~(Mine(h).intent /\ cleanupExpired[RevisionOf[h]])
    /\ Goto(h, "loop")
    /\ UNCHANGED <<durable, core, clock, local, reported, crashes>>

\* A helper is killed; its locks go with it.
Crash(h) ==
    /\ pc[h] # "idle" /\ crashes < MaxCrashes
    /\ crashes' = crashes + 1
    /\ Forget(h)
    /\ UNCHANGED <<durable, core, clock, reported>>

-----------------------------------------------------------------------------
(* Core, the operator, and time *)

\* A request is carried out once; its receipt is kept.  A retryable refusal
\* of the create leaves open that the service creates the instance later.
CoreCreates(r) ==
    /\ "create" \in posted[r] /\ created[r] \in {"none", "retryable"}
    /\ \/ created' = [created EXCEPT ![r] = "applied"]
       \/ /\ created[r] = "none" /\ "refusal" \in Faults
          /\ \E receipt \in {"refused", "retryable"} :
                created' = [created EXCEPT ![r] = receipt]
    /\ UNCHANGED <<durable, posted, started, cancelled, run, clock, pc, local,
                   reported, crashes>>

CoreStarts(r) ==
    /\ "start" \in posted[r] /\ started[r] = "none"
    /\ \/ /\ started' = [started EXCEPT ![r] = "applied"]
          /\ run' = [run EXCEPT ![r] = [status |-> "running",
                                        stopped |-> FALSE]]
       \/ /\ "refusal" \in Faults
          /\ started' = [started EXCEPT ![r] = "refused"] /\ run' = run
    /\ UNCHANGED <<durable, posted, created, cancelled, clock, pc, local,
                   reported, crashes>>

CoreCancels(r) ==
    /\ "cancel" \in posted[r] /\ cancelled[r] = "none"
    /\ \E receipt \in {"applied"} \union
                      (IF "refusal" \in Faults THEN {"refused"} ELSE {}) :
          cancelled' = [cancelled EXCEPT ![r] = receipt]
    /\ UNCHANGED <<durable, posted, created, started, run, clock, pc, local,
                   reported, crashes>>

RunMoves(r) ==
    /\ \E next \in NextViews(run[r]) : run' = [run EXCEPT ![r] = next]
    /\ UNCHANGED <<durable, posted, created, started, cancelled, clock, pc,
                   local, reported, crashes>>

WaitExpires(r) ==
    /\ "deadline" \in Faults /\ Bound(r) /\ ~waitExpired[r]
    /\ waitExpired' = [waitExpired EXCEPT ![r] = TRUE]
    /\ UNCHANGED <<durable, core, cleanupExpired, pc, local, reported, crashes>>

CleanupExpires(r) ==
    /\ "deadline" \in Faults /\ binding[r].intent /\ ~cleanupExpired[r]
    /\ cleanupExpired' = [cleanupExpired EXCEPT ![r] = TRUE]
    /\ UNCHANGED <<durable, core, waitExpired, pc, local, reported, crashes>>

-----------------------------------------------------------------------------
Init ==
    /\ binding = NoProof
    /\ root = [r \in Revision |-> FALSE] /\ files = [r \in Revision |-> FALSE]
    /\ posted = [r \in Revision |-> {}]
    /\ created = [r \in Revision |-> "none"]
    /\ started = [r \in Revision |-> "none"]
    /\ cancelled = [r \in Revision |-> "none"]
    /\ run = [r \in Revision |-> NoView]
    /\ waitExpired = [r \in Revision |-> FALSE]
    /\ cleanupExpired = [r \in Revision |-> FALSE]
    /\ pc = [h \in Helper |-> "idle"]
    /\ todo = [h \in Helper |-> {}]
    /\ proof = [h \in Helper |-> NoProof]
    /\ view = [h \in Helper |-> NoView]
    /\ reported = [r \in Revision |-> {}]
    /\ crashes = 0

Reserve(h) ==
    \/ List(h)
    \/ \E r \in Revision :
          PriorUnreadable(h, r) \/ PriorIrrelevant(h, r) \/ LoadPrior(h, r)
             \/ ReadPrior(h, r)
    \/ PriorsProved(h) \/ Attach(h) \/ Recheck(h) \/ MakeRoot(h)
    \/ SaveBinding(h)

Copy(h) ==
    \/ CopyNotOwned(h) \/ CopyFiles(h) \/ CopyFails(h) \/ CopyPrepared(h)
    \/ CopyKept(h)

Look(h) ==
    \/ Intend(h) \/ InTime(h) \/ RefreshNothing(h) \/ ReadInstance(h)
    \/ ReadRun(h)

Decide(h) ==
    \/ Settle(h) \/ RefsValid(h) \/ RefsInvalid(h) \/ Attend(h) \/ Refuse(h)
    \/ PreventCreate(h) \/ Create(h) \/ PreventStart(h) \/ Start(h)
    \/ ObserveStart(h) \/ Cancel(h) \/ Wait(h)

Exchange(h) ==
    \/ \E op \in Requests : Post(h, op)
    \/ Answer(h) \/ NoAnswer(h) \/ UnreadableAnswer(h)
    \/ CleanupOver(h) \/ Again(h)

HelperStep(h) ==
    \/ Reserve(h) \/ Busy(h) \/ TakeLock(h) \/ Copy(h) \/ Look(h) \/ Decide(h)
    \/ Exchange(h)

CoreStep(r) ==
    CoreCreates(r) \/ CoreStarts(r) \/ CoreCancels(r) \/ RunMoves(r)

Next ==
    \/ \E h \in Helper : Begin(h) \/ HelperStep(h) \/ Crash(h)
    \/ \E r \in Revision : CoreStep(r) \/ WaitExpires(r) \/ CleanupExpires(r)

Spec == Init /\ [][Next]_vars

\* A helper that runs keeps running, and time passes.
Fairness ==
    /\ \A h \in Helper : WF_vars(HelperStep(h))
    /\ \A r \in Revision : WF_vars(WaitExpires(r)) /\ WF_vars(CleanupExpires(r))

FairSpec == Spec /\ Fairness

-----------------------------------------------------------------------------
(* Properties *)

\* The types of the variables: bindings stay within the phases and fields
\* validate_record admits.
TypeOK ==
    /\ binding \in [Revision -> Bindings]
    /\ root \in [Revision -> BOOLEAN] /\ files \in [Revision -> BOOLEAN]
    /\ posted \in [Revision -> SUBSET Requests]
    /\ created \in [Revision -> CreateReceipts]
    /\ started \in [Revision -> Receipts]
    /\ cancelled \in [Revision -> Receipts]
    /\ run \in [Revision -> Views]
    /\ waitExpired \in [Revision -> BOOLEAN]
    /\ cleanupExpired \in [Revision -> BOOLEAN]
    /\ pc \in [Helper -> Labels]
    /\ todo \in [Helper -> SUBSET Revision]
    /\ proof \in [Helper -> [Revision -> Bindings]]
    /\ view \in [Helper -> Views]
    /\ reported \in [Revision -> SUBSET Tracked]
    /\ crashes \in 0..MaxCrashes

\* Core may still do something, or has something going, for a revision.
InFlight(r) ==
    \/ "create" \in posted[r] /\ created[r] \in {"none", "retryable"}
    \/ "start" \in posted[r] /\ started[r] = "none"
    \/ started[r] = "applied"
          /\ ~(run[r].status \in TerminalStatus /\ run[r].stopped)

\* A binding gives up its claim to a cleanup only when nothing of it is left:
\* no request on its way, no run that is live or has a live writer.
ObligationKept ==
    \A r \in Revision : ~binding[r].cleanupRequired => ~InFlight(r)

\* The final results reported of a revision are true of Core, and stay true.
ResultIsTrue ==
    \A r \in Revision : \A result \in reported[r] \ {"invalid_binding"} :
        \/ run[r] = [status |-> result, stopped |-> TRUE]
        \/ result = "cancelled" /\ "start" \notin posted[r]

\* Once a cancellation is saved, no start that had not arrived ever does.
IntentPreventsStart ==
    [][\A r \in Revision :
          binding[r].intent /\ "start" \in posted'[r] => "start" \in posted[r]
      ]_<<posted, binding>>

\* A helper returns: its deadlines bound every wait.
HelperReturns == \A h \in Helper : pc[h] # "idle" ~> pc[h] = "idle"

\* A duplicate attempt is told that it is busy, or attaches; without faults it
\* is never refused over the binding another attempt is just reserving.
DuplicateIsNotRefused == \A r \in Revision : "invalid_binding" \notin reported[r]

\* A revision of which no helper can make anything more: its run has closed, a
\* refusal was saved, or a cancellation was, and nothing is on its way.
Over(r) ==
    LET bound == binding[r]
    IN \/ run[r].status \in TerminalStatus /\ run[r].stopped
       \/ bound.create = "refused" \/ bound.start = "refused"
       \/ /\ bound.intent /\ ~bound.startSaved
          /\ bound.create = "applied" \/ bound.phase \in {"prepared", "terminal"}

\* The bridge keeps the promises of PaperclipIssue.
IssuePromise == INSTANCE PaperclipIssue
    WITH state <- [r \in Revision |-> IF binding[r].phase = "absent" THEN "new"
                                      ELSE IF Over(r) THEN "over"
                                      ELSE "inHand"],
         working <- {r \in Revision :
                       run[r].status # "none"
                          /\ ~(run[r].status \in TerminalStatus
                               /\ run[r].stopped)}
IssueSpec == IssuePromise!Spec

-----------------------------------------------------------------------------
(* The inductive invariant behind ObligationKept, IntentPreventsStart and    *)
(* ResultIsTrue.                                                             *)

\* What Core did, it was asked to do; a run is that of the applied start.
CoreSane(r) ==
    /\ created[r] # "none" => "create" \in posted[r]
    /\ started[r] # "none" => "start" \in posted[r]
    /\ run[r] # NoView => started[r] = "applied"

\* A binding bound of revision r repeats what Core answered, names every start
\* that may have left, and gives its claim up only when nothing is in flight.
Linked(r, bound) ==
    /\ bound.phase = "absent" => bound = NoBinding
    /\ posted[r] # {} => bound.phase # "absent"
    /\ bound.create \in {"applied", "refused"} => created[r] = bound.create
    /\ bound.start # "none" => started[r] = bound.start
    /\ "start" \in posted[r] => bound.startSaved
    /\ bound.startSaved => bound.create = "applied"
    /\ ~bound.cleanupRequired => ~InFlight(r)

\* A final result is backed by Core, or by a saved intent without a start.
Backed(r, bound) ==
    \A result \in reported[r] \ {"invalid_binding"} :
        \/ run[r] = [status |-> result, stopped |-> TRUE]
        \/ result = "cancelled" /\ bound.intent /\ ~bound.startSaved

\* What a helper at a place knows of its binding.
Placed(label, bound) ==
    /\ label \in {"mkdir", "saveBinding"} => bound.phase = "absent"
    /\ label \in ObserverLabels \union {"lock"} => bound.phase # "absent"
    /\ label \in {"postCreate", "postStart"} => bound.cleanupRequired
    /\ label = "postStart" => bound.startSaved /\ ~bound.intent

\* What a helper has read of a closed run still holds.
Seen(h) ==
    /\ Closed(view[h]) => run[RevisionOf[h]] = view[h]
    /\ pc[h] = "refs" => view[h] = [status |-> "succeeded", stopped |-> TRUE]

LocksHold ==
    \A h \in Helper :
        /\ pc[h] \in {"mkdir", "saveBinding"} => IssueLockFree(h)
        /\ pc[h] \in ObserverLabels => ObserverLockFree(h)

BridgeInv ==
    /\ TypeOK
    /\ LocksHold
    /\ \A r \in Revision :
          CoreSane(r) /\ Linked(r, binding[r]) /\ Backed(r, binding[r])
    /\ \A h \in Helper : Placed(pc[h], Mine(h)) /\ Seen(h)
=============================================================================
