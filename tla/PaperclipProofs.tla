--------------------------- MODULE PaperclipProofs ---------------------------
(***************************************************************************)
(* Proofs about PaperclipBridge for every set of revisions and helpers,    *)
(* every fault and any number of crashes.                                  *)
(*                                                                         *)
(* The results on types, claims, reports and intent follow from one        *)
(* inductive invariant, BridgeInv.  A step of a helper either leaves the   *)
(* bindings and Core alone (LocalStep), or is taken under the observer     *)
(* lock and saves one binding (ObserverStep); a lemma for each kind says   *)
(* what such a step has to respect, and each action is shown to be a step  *)
(* of its kind.  That the bridge implements PaperclipIssue needs more,     *)
(* IssueInv: what is over stays over, whoever goes on with it, and what a  *)
(* helper proved of older revisions stands or is found changed.            *)
(***************************************************************************)
EXTENDS PaperclipBridge, TLAPS

\* Every update of a binding yields a binding, and none makes it absent.
LEMMA UpdatesTyped ==
    ASSUME NEW bound \in Bindings
    PROVE  /\ Reserved \in Bindings /\ WithCopy(bound) \in Bindings
           /\ WithIntent(bound) \in Bindings
           /\ \A phase \in Phases : WithPhase(bound, phase) \in Bindings
           /\ \A receipt \in CreateReceipts : WithCreate(bound, receipt) \in Bindings
           /\ \A receipt \in Receipts :
                 /\ WithStart(bound, receipt) \in Bindings
                 /\ WithCancel(bound, receipt) \in Bindings
           /\ \A seen \in Views : WithObservation(bound, seen) \in Bindings
           /\ \A op \in Requests : Dispatching(bound, op) \in Bindings
           /\ Settled(bound) \in Bindings /\ WithRefusal(bound) \in Bindings
           /\ Uncertain(bound) \in Bindings
  <1>1. NoView \in Views
    BY DEF NoView, Views, RunStatus
  <1>2. Reserved \in Bindings
    BY <1>1 DEF Reserved, NoBinding, Bindings, Phases, CreateReceipts, Receipts
  <1>3. \A op \in Requests : Dispatching(bound, op) \in Bindings
    <2>1. /\ DispatchPhase["create"] = "creating"
          /\ DispatchPhase["start"] = "starting"
          /\ DispatchPhase["cancel"] = "cancel_requested"
      BY DEF DispatchPhase
    <2>2. \A op \in Requests : DispatchPhase[op] \in Phases
      BY <2>1 DEF Requests, Phases
    <2> QED
      BY <2>2 DEF Dispatching, Bindings
  <1>4. /\ Settled(bound) \in Bindings /\ WithRefusal(bound) \in Bindings
        /\ Uncertain(bound) \in Bindings
    BY DEF Settled, WithRefusal, Uncertain, WithPhase, Bindings, Phases
  <1>5. /\ WithCopy(bound) \in Bindings /\ WithIntent(bound) \in Bindings
        /\ \A phase \in Phases : WithPhase(bound, phase) \in Bindings
        /\ \A seen \in Views : WithObservation(bound, seen) \in Bindings
    BY DEF WithCopy, WithIntent, WithPhase, WithObservation, Bindings
  <1>6. /\ \A receipt \in CreateReceipts : WithCreate(bound, receipt) \in Bindings
        /\ \A receipt \in Receipts :
              /\ WithStart(bound, receipt) \in Bindings
              /\ WithCancel(bound, receipt) \in Bindings
    BY DEF WithCreate, WithStart, WithCancel, Bindings, Phases
  <1> QED
    BY <1>2, <1>3, <1>4, <1>5, <1>6

\* What the two kinds of helper steps share: only helper h moves, to label,
\* and it remembers seen.
HelperMoves(h, label, seen) ==
    /\ h \in Helper /\ label \in Labels /\ seen \in Views
    /\ pc' = [pc EXCEPT ![h] = label]
    /\ view' = [view EXCEPT ![h] = seen]
    /\ todo' \in [Helper -> SUBSET Revision]
    /\ proof' \in [Helper -> [Revision -> Bindings]]
    /\ root' \in [Revision -> BOOLEAN] /\ files' \in [Revision -> BOOLEAN]
    /\ crashes' \in 0..MaxCrashes
    /\ UNCHANGED <<core, clock>>

\* A step that leaves the bindings and Core alone.
LocalStep(h, label, seen) ==
    /\ HelperMoves(h, label, seen)
    /\ binding' = binding
    /\ reported' \in [Revision -> SUBSET Tracked]
    /\ \A r \in Revision : reported'[r] \subseteq reported[r] \union {"invalid_binding"}
    /\ seen \in {view[h], NoView}
    /\ label \notin {"postCreate", "postStart", "refs"}
    /\ label \in {"mkdir", "saveBinding"} => ~Bound(RevisionOf[h]) /\ IssueLockFree(h)
    /\ label = "lock" => Bound(RevisionOf[h])
    /\ label \in ObserverLabels => Bound(RevisionOf[h]) /\ ObserverLockFree(h)

\* A step under the observer lock that saves bound and reports results.
ObserverStep(h, bound, label, seen, results) ==
    /\ HelperMoves(h, label, seen)
    /\ pc[h] \in ObserverLabels /\ label \in ObserverLabels \union {"idle"}
    /\ bound \in Bindings /\ bound.phase # "absent"
    /\ binding' = [binding EXCEPT ![RevisionOf[h]] = bound]
    /\ results \in SUBSET Tracked
    /\ reported' = [reported EXCEPT ![RevisionOf[h]] = @ \union results]
    /\ Linked(RevisionOf[h], bound)
    /\ Placed(label, bound)
    /\ \A result \in (reported[RevisionOf[h]] \union results) \ {"invalid_binding"} :
          \/ run[RevisionOf[h]] = [status |-> result, stopped |-> TRUE]
          \/ result = "cancelled" /\ bound.intent /\ ~bound.startSaved
    /\ Closed(seen) => run[RevisionOf[h]] = seen
    /\ label = "refs" => seen = [status |-> "succeeded", stopped |-> TRUE]

\* The locks stay exclusive when a helper moves only where its lock was free.
LEMMA LocksKept ==
    ASSUME TypeOK, LocksHold, NEW h \in Helper, NEW label,
           pc' = [pc EXCEPT ![h] = label],
           label \in {"mkdir", "saveBinding"} => IssueLockFree(h),
           label \in ObserverLabels => ObserverLockFree(h)
    PROVE  LocksHold'
  <1>1. \A g \in Helper : pc'[g] = IF g = h THEN label ELSE pc[g]
    BY DEF TypeOK
  <1>2. ASSUME NEW g \in Helper, pc'[g] \in {"mkdir", "saveBinding"}
        PROVE  IssueLockFree(g)'
    <2>1. CASE g = h
      BY <2>1, <1>1, <1>2 DEF IssueLockFree
    <2>2. CASE g # h
      BY <2>2, <1>1, <1>2 DEF IssueLockFree, LocksHold
    <2> QED
      BY <2>1, <2>2
  <1>3. ASSUME NEW g \in Helper, pc'[g] \in ObserverLabels
        PROVE  ObserverLockFree(g)'
    <2>1. CASE g = h
      BY <2>1, <1>1, <1>3 DEF ObserverLockFree
    <2>2. CASE g # h
      BY <2>2, <1>1, <1>3 DEF ObserverLockFree, LocksHold
    <2> QED
      BY <2>1, <2>2
  <1> QED
    BY <1>2, <1>3 DEF LocksHold

LEMMA LocalStepKeeps ==
    ASSUME BridgeInv, NEW h, NEW label, NEW seen, LocalStep(h, label, seen)
    PROVE  BridgeInv'
  <1> USE DEF LocalStep, HelperMoves
  <1>1. TypeOK'
    BY DEF BridgeInv, TypeOK, core, clock
  <1>2. LocksHold'
    BY LocksKept DEF BridgeInv
  <1>3. ASSUME NEW r \in Revision
        PROVE  (CoreSane(r) /\ Linked(r, binding[r]) /\ Backed(r, binding[r]))'
    <2>1. CoreSane(r) /\ Linked(r, binding[r]) /\ Backed(r, binding[r])
      BY DEF BridgeInv
    <2> QED
      BY <2>1 DEF CoreSane, Linked, Backed, InFlight, core
  <1>4. ASSUME NEW g \in Helper
        PROVE  (Placed(pc[g], Mine(g)) /\ Seen(g))'
    <2>1. Placed(pc[g], Mine(g)) /\ Seen(g)
      BY DEF BridgeInv
    <2>2. /\ pc'[g] = IF g = h THEN label ELSE pc[g]
          /\ view'[g] = IF g = h THEN seen ELSE view[g]
      BY DEF BridgeInv, TypeOK
    <2>3. ~Closed(NoView)
      BY DEF Closed, NoView, TerminalStatus
    <2>4. Placed(pc[g], Mine(g))'
      BY <2>1, <2>2 DEF Placed, Mine, Bound
    <2>5. Seen(g)'
      BY <2>1, <2>2, <2>3 DEF Seen, Closed, core
    <2> QED
      BY <2>4, <2>5
  <1> QED
    BY <1>1, <1>2, <1>3, <1>4 DEF BridgeInv

LEMMA ObserverStepKeeps ==
    ASSUME BridgeInv, NEW h, NEW bound, NEW label, NEW seen, NEW results,
           ObserverStep(h, bound, label, seen, results)
    PROVE  BridgeInv'
  <1> DEFINE mine == RevisionOf[h]
  <1> USE DEF ObserverStep, HelperMoves
  <1>0. mine \in Revision
    BY BridgeAssumption
  <1>1. TypeOK'
    BY <1>0 DEF BridgeInv, TypeOK, core, clock
  <1>2. LocksHold'
    <2>1. label \notin {"mkdir", "saveBinding"}
      BY DEF ObserverLabels
    <2>2. ObserverLockFree(h)
      BY DEF BridgeInv, LocksHold
    <2> QED
      BY <2>1, <2>2, LocksKept DEF BridgeInv
  <1>3. \A r \in Revision : binding'[r] = IF r = mine THEN bound ELSE binding[r]
    BY <1>0 DEF BridgeInv, TypeOK
  <1>4. \A r \in Revision :
           reported'[r] = IF r = mine THEN reported[r] \union results ELSE reported[r]
    BY <1>0 DEF BridgeInv, TypeOK
  <1>5. ASSUME NEW r \in Revision
        PROVE  (CoreSane(r) /\ Linked(r, binding[r]) /\ Backed(r, binding[r]))'
    <2>1. CoreSane(r) /\ Linked(r, binding[r]) /\ Backed(r, binding[r])
      BY DEF BridgeInv
    <2>2. CoreSane(r)'
      BY <2>1 DEF CoreSane, core
    <2>3. CASE r = mine
      <3>1. Linked(r, binding[r])'
        BY <2>3, <1>3 DEF Linked, InFlight, core
      <3>2. /\ run' = run /\ binding'[r] = bound
            /\ reported'[r] = reported[mine] \union results
        BY <2>3, <1>3, <1>4 DEF core
      <3>3. Backed(r, binding[r])'
        BY <2>3, <3>2 DEF Backed
      <3> QED
        BY <2>2, <3>1, <3>3
    <2>4. CASE r # mine
      <3>1. Linked(r, binding[r])'
        BY <2>1, <2>4, <1>3 DEF Linked, InFlight, core
      <3>2. Backed(r, binding[r])'
        BY <2>1, <2>4, <1>3, <1>4 DEF Backed, core
      <3> QED
        BY <2>2, <3>1, <3>2
    <2> QED
      BY <2>3, <2>4
  <1>6. ASSUME NEW g \in Helper
        PROVE  (Placed(pc[g], Mine(g)) /\ Seen(g))'
    <2>1. Placed(pc[g], Mine(g)) /\ Seen(g) /\ Placed(pc[h], Mine(h))
      BY DEF BridgeInv
    <2>2. /\ pc'[g] = IF g = h THEN label ELSE pc[g]
          /\ view'[g] = IF g = h THEN seen ELSE view[g]
      BY DEF BridgeInv, TypeOK
    <2>3. RevisionOf[g] \in Revision
      BY BridgeAssumption
    <2>4. Seen(g)'
      BY <2>1, <2>2 DEF Seen, Closed, core
    <2>5. CASE g = h
      BY <2>4, <2>5, <2>2, <1>3, <2>3 DEF Mine
    <2>6. CASE g # h /\ RevisionOf[g] # mine
      <3>1. Mine(g)' = Mine(g)
        BY <2>6, <1>3, <2>3 DEF Mine
      <3> QED
        BY <3>1, <2>1, <2>2, <2>4, <2>6
    <2>7. CASE g # h /\ RevisionOf[g] = mine
      <3>1. Mine(g)' = bound /\ Mine(g) = Mine(h)
        BY <2>7, <1>3, <2>3 DEF Mine
      <3>2. Mine(h).phase # "absent"
        BY <2>1 DEF Placed
      <3>3. pc[g] \notin ObserverLabels
        BY <2>7 DEF BridgeInv, LocksHold, ObserverLockFree
      <3>4. pc[g] \notin {"mkdir", "saveBinding"}
        BY <2>1, <3>1, <3>2 DEF Placed
      <3>5. Placed(pc[g], bound)
        BY <3>3, <3>4 DEF Placed, ObserverLabels
      <3> QED
        BY <3>1, <3>5, <2>2, <2>4, <2>7
    <2> QED
      BY <2>5, <2>6, <2>7
  <1> QED
    BY <1>1, <1>2, <1>5, <1>6 DEF BridgeInv

-----------------------------------------------------------------------------
(* Core, time, and a request that arrives *)

\* A run that has closed stays as it is.
LEMMA ClosedStays ==
    ASSUME NEW v \in Views, Closed(v)
    PROVE  NextViews(v) = {}
  BY DEF NextViews, Closed, TerminalStatus

\* A run that moves stays a run.
LEMMA MovesTyped ==
    ASSUME NEW v \in Views, NEW next \in NextViews(v)
    PROVE  next \in Views /\ next # NoView /\ v # NoView
  <1>1. next \in Views
    BY EndingsAssumption DEF NextViews, Views, RunStatus, TerminalStatus
  <1>2. v.status # "none"
    BY DEF NextViews, Views, RunStatus, TerminalStatus
  <1>3. next.status # "none"
    BY EndingsAssumption DEF NextViews, Views, TerminalStatus
  <1> QED
    BY <1>1, <1>2, <1>3 DEF NoView

\* A step of Core or of the service: bindings and helpers stay.
LEMMA OutsideKeeps ==
    ASSUME BridgeInv, TypeOK',
           UNCHANGED <<durable, pc, local, reported, crashes>>,
           \A r \in Revision :
              /\ CoreSane(r)' /\ Linked(r, binding[r])'
              /\ Closed(run[r]) => run'[r] = run[r]
    PROVE  BridgeInv'
  <1>1. LocksHold'
    BY DEF BridgeInv, LocksHold, IssueLockFree, ObserverLockFree
  <1>2. ASSUME NEW r \in Revision
        PROVE  Backed(r, binding[r])'
    <2>1. ASSUME NEW result \in reported[r] \ {"invalid_binding"},
                 run[r] = [status |-> result, stopped |-> TRUE]
          PROVE  run'[r] = run[r]
      <3>1. result \in TerminalStatus
        BY <2>1 DEF BridgeInv, TypeOK, Tracked, TerminalStatus
      <3>2. Closed(run[r])
        BY <2>1, <3>1 DEF Closed
      <3> QED
        BY <3>2
    <2> QED
      BY <2>1 DEF BridgeInv, Backed, durable
  <1>3. ASSUME NEW h \in Helper
        PROVE  (Placed(pc[h], Mine(h)) /\ Seen(h))'
    <2>1. Placed(pc[h], Mine(h)) /\ Seen(h) /\ RevisionOf[h] \in Revision
      BY BridgeAssumption DEF BridgeInv
    <2>2. Placed(pc[h], Mine(h))'
      BY <2>1 DEF Mine, durable
    <2>3. Seen(h)'
      BY <2>1 DEF Seen, Closed, local
    <2> QED
      BY <2>2, <2>3
  <1> QED
    BY <1>1, <1>2, <1>3 DEF BridgeInv

LEMMA CoreCreatesKeeps ==
    ASSUME BridgeInv, NEW q \in Revision, CoreCreates(q)
    PROVE  BridgeInv'
  <1>1. PICK receipt \in {"applied", "refused", "retryable"} :
           created' = [created EXCEPT ![q] = receipt]
    BY DEF CoreCreates
  <1>2. TypeOK'
    BY <1>1 DEF BridgeInv, TypeOK, CoreCreates, durable, clock, local, CreateReceipts
  <1>3. ASSUME NEW r \in Revision
        PROVE  /\ CoreSane(r)' /\ Linked(r, binding[r])'
               /\ Closed(run[r]) => run'[r] = run[r]
    <2>1. CoreSane(r) /\ Linked(r, binding[r])
      BY DEF BridgeInv
    <2>2. created'[r] = IF r = q THEN receipt ELSE created[r]
      BY <1>1 DEF BridgeInv, TypeOK
    <2>3. CoreSane(r)'
      BY <2>1, <2>2 DEF CoreSane, CoreCreates
    <2>4. InFlight(r)' => InFlight(r)
      BY <2>2 DEF InFlight, CoreCreates
    <2>5. Linked(r, binding[r])'
      BY <2>1, <2>2, <2>4 DEF Linked, CoreCreates, durable
    <2> QED
      BY <2>3, <2>5 DEF CoreCreates
  <1> QED
    BY <1>2, <1>3, OutsideKeeps DEF CoreCreates

LEMMA CoreStartsKeeps ==
    ASSUME BridgeInv, NEW q \in Revision, CoreStarts(q)
    PROVE  BridgeInv'
  <1>1. PICK receipt \in {"applied", "refused"} :
           /\ started' = [started EXCEPT ![q] = receipt]
           /\ \/ run' = run /\ receipt = "refused"
              \/ /\ run' = [run EXCEPT ![q] = [status |-> "running", stopped |-> FALSE]]
                 /\ receipt = "applied"
    BY DEF CoreStarts
  <1>2. TypeOK'
    <2>1. [status |-> "running", stopped |-> FALSE] \in Views
      BY DEF Views, RunStatus
    <2>2. run' \in [Revision -> Views] /\ started' \in [Revision -> Receipts]
      BY <1>1, <2>1 DEF BridgeInv, TypeOK, Receipts
    <2> QED
      BY <2>2 DEF BridgeInv, TypeOK, CoreStarts, durable, clock, local
  <1>3. ASSUME NEW r \in Revision
        PROVE  /\ CoreSane(r)' /\ Linked(r, binding[r])'
               /\ Closed(run[r]) => run'[r] = run[r]
    <2>1. CoreSane(r) /\ Linked(r, binding[r])
      BY DEF BridgeInv
    <2>2. /\ started'[r] = IF r = q THEN receipt ELSE started[r]
          /\ run'[r] = IF r = q /\ receipt = "applied"
                       THEN [status |-> "running", stopped |-> FALSE] ELSE run[r]
      BY <1>1 DEF BridgeInv, TypeOK
    <2>3. CoreSane(r)'
      BY <2>1, <2>2 DEF CoreSane, CoreStarts
    <2>4. InFlight(r)' => InFlight(r)
      BY <2>2 DEF InFlight, CoreStarts
    <2>5. Linked(r, binding[r])'
      BY <2>1, <2>2, <2>4 DEF Linked, CoreStarts, durable
    <2>6. Closed(run[r]) => run'[r] = run[r]
      <3>1. ~Closed(NoView)
        BY DEF Closed, NoView, TerminalStatus
      <3> QED
        BY <2>1, <2>2, <3>1 DEF CoreSane, CoreStarts
    <2> QED
      BY <2>3, <2>5, <2>6
  <1> QED
    BY <1>2, <1>3, OutsideKeeps DEF CoreStarts

LEMMA CoreCancelsKeeps ==
    ASSUME BridgeInv, NEW q \in Revision, CoreCancels(q)
    PROVE  BridgeInv'
  <1>1. PICK receipt \in {"applied", "refused"} :
           cancelled' = [cancelled EXCEPT ![q] = receipt]
    BY DEF CoreCancels
  <1>2. TypeOK'
    BY <1>1 DEF BridgeInv, TypeOK, CoreCancels, durable, clock, local, Receipts
  <1>3. ASSUME NEW r \in Revision
        PROVE  CoreSane(r)' /\ Linked(r, binding[r])'
    BY DEF BridgeInv, CoreSane, Linked, InFlight, CoreCancels, durable
  <1> QED
    BY <1>2, <1>3, OutsideKeeps DEF CoreCancels

LEMMA RunMovesKeeps ==
    ASSUME BridgeInv, NEW q \in Revision, RunMoves(q)
    PROVE  BridgeInv'
  <1>1. PICK next \in NextViews(run[q]) : run' = [run EXCEPT ![q] = next]
    BY DEF RunMoves
  <1>2. run[q] \in Views
    BY DEF BridgeInv, TypeOK
  <1>3. next \in Views /\ run[q] # NoView /\ ~Closed(run[q])
    BY <1>1, <1>2, MovesTyped, ClosedStays
  <1>4. TypeOK'
    BY <1>1, <1>3 DEF BridgeInv, TypeOK, RunMoves, durable, clock, local
  <1>5. ASSUME NEW r \in Revision
        PROVE  /\ CoreSane(r)' /\ Linked(r, binding[r])'
               /\ Closed(run[r]) => run'[r] = run[r]
    <2>1. CoreSane(r) /\ Linked(r, binding[r])
      BY DEF BridgeInv
    <2>2. run'[r] = IF r = q THEN next ELSE run[r]
      BY <1>1 DEF BridgeInv, TypeOK
    <2>3. CoreSane(r)'
      BY <2>1, <2>2, <1>3 DEF CoreSane, RunMoves
    <2>4. InFlight(r)' => InFlight(r)
      BY <2>2, <1>3 DEF InFlight, RunMoves, Closed
    <2>5. Linked(r, binding[r])'
      BY <2>1, <2>4 DEF Linked, RunMoves, durable
    <2> QED
      BY <2>2, <2>3, <2>5, <1>3
  <1> QED
    BY <1>4, <1>5, OutsideKeeps DEF RunMoves

LEMMA ClockKeeps ==
    ASSUME BridgeInv, NEW q \in Revision, WaitExpires(q) \/ CleanupExpires(q)
    PROVE  BridgeInv'
  <1>1. /\ UNCHANGED <<durable, core, pc, local, reported, crashes>>
        /\ waitExpired' \in [Revision -> BOOLEAN]
        /\ cleanupExpired' \in [Revision -> BOOLEAN]
    BY DEF WaitExpires, CleanupExpires, BridgeInv, TypeOK
  <1>2. TypeOK'
    BY <1>1 DEF BridgeInv, TypeOK, durable, core, local
  <1>3. \A r \in Revision : (CoreSane(r) /\ Linked(r, binding[r]))' /\ run' = run
    BY <1>1 DEF BridgeInv, CoreSane, Linked, InFlight, durable, core
  <1> QED
    BY <1>1, <1>2, <1>3, OutsideKeeps

LEMMA StutterKeeps ==
    ASSUME BridgeInv, UNCHANGED vars
    PROVE  BridgeInv'
  <1>1. TypeOK'
    BY DEF BridgeInv, TypeOK, vars
  <1>2. \A r \in Revision : (CoreSane(r) /\ Linked(r, binding[r]))' /\ run' = run
    BY DEF BridgeInv, CoreSane, Linked, InFlight, vars
  <1> QED
    BY <1>1, <1>2, OutsideKeeps DEF vars, durable, local

-----------------------------------------------------------------------------
(* Steps under the observer lock *)

\* new may replace old as the binding of revision r.
Replaces(r, new, old) ==
    /\ new \in Bindings /\ new.phase # "absent" /\ Linked(r, new)
    /\ old.intent /\ ~old.startSaved => new.intent /\ ~new.startSaved

\* Saving bound, the helper goes on at label.
SaveStep(h, bound, label, seen) ==
    /\ HelperMoves(h, label, seen)
    /\ pc[h] \in ObserverLabels /\ label \in ObserverLabels
    /\ Replaces(RevisionOf[h], bound, Mine(h))
    /\ binding' = [binding EXCEPT ![RevisionOf[h]] = bound]
    /\ reported' = reported
    /\ Placed(label, bound)
    /\ Closed(seen) => run[RevisionOf[h]] = seen
    /\ label = "refs" => seen = [status |-> "succeeded", stopped |-> TRUE]

\* Saving bound, the helper returns a result.
ReturnStep(h, bound, result) ==
    /\ HelperMoves(h, "idle", NoView)
    /\ pc[h] \in ObserverLabels
    /\ Replaces(RevisionOf[h], bound, Mine(h))
    /\ binding' = [binding EXCEPT ![RevisionOf[h]] = bound]
    /\ reported' = [reported EXCEPT
                      ![RevisionOf[h]] = @ \union ({result} \intersect Tracked)]
    /\ result \in {"succeeded", "failed", "cancelled"} =>
          \/ run[RevisionOf[h]] = [status |-> result, stopped |-> TRUE]
          \/ result = "cancelled" /\ bound.intent /\ ~bound.startSaved

LEMMA SaveStepKeeps ==
    ASSUME BridgeInv, NEW h, NEW bound, NEW label, NEW seen,
           SaveStep(h, bound, label, seen)
    PROVE  BridgeInv'
  <1>1. RevisionOf[h] \in Revision
    BY BridgeAssumption DEF SaveStep, HelperMoves
  <1>2. Backed(RevisionOf[h], Mine(h))
    BY <1>1 DEF BridgeInv, Mine
  <1>3. reported' = [reported EXCEPT ![RevisionOf[h]] = @ \union {}]
    BY <1>1 DEF SaveStep, BridgeInv, TypeOK
  <1>4. ObserverStep(h, bound, label, seen, {})
    BY <1>2, <1>3 DEF SaveStep, ObserverStep, Backed, Replaces
  <1> QED
    BY <1>4, ObserverStepKeeps

LEMMA ReturnStepKeeps ==
    ASSUME BridgeInv, NEW h, NEW bound, NEW result, ReturnStep(h, bound, result)
    PROVE  BridgeInv'
  <1>1. RevisionOf[h] \in Revision
    BY BridgeAssumption DEF ReturnStep, HelperMoves
  <1>2. Backed(RevisionOf[h], Mine(h))
    BY <1>1 DEF BridgeInv, Mine
  <1>3. ~Closed(NoView) /\ Placed("idle", bound)
    BY DEF Closed, NoView, TerminalStatus, Placed, ObserverLabels
  <1>4. \A res \in (reported[RevisionOf[h]] \union ({result} \intersect Tracked))
                      \ {"invalid_binding"} :
          \/ run[RevisionOf[h]] = [status |-> res, stopped |-> TRUE]
          \/ res = "cancelled" /\ bound.intent /\ ~bound.startSaved
    BY <1>2 DEF ReturnStep, Backed, Replaces, Tracked
  <1>5. ObserverStep(h, bound, "idle", NoView, {result} \intersect Tracked)
    BY <1>3, <1>4 DEF ReturnStep, ObserverStep, Replaces
  <1> QED
    BY <1>5, ObserverStepKeeps

\* What the invariant says of one helper and its binding.
LEMMA Known ==
    ASSUME BridgeInv, NEW h \in Helper
    PROVE  /\ RevisionOf[h] \in Revision
           /\ Mine(h) \in Bindings /\ view[h] \in Views
           /\ Mine(h) = binding[RevisionOf[h]]
           /\ CoreSane(RevisionOf[h]) /\ Linked(RevisionOf[h], Mine(h))
           /\ Placed(pc[h], Mine(h)) /\ Seen(h)
           /\ pc[h] \in ObserverLabels => Mine(h).phase # "absent"
           /\ binding = [binding EXCEPT ![RevisionOf[h]] = Mine(h)]
           /\ view = [view EXCEPT ![h] = view[h]]
  <1>1. RevisionOf[h] \in Revision
    BY BridgeAssumption
  <1>2. /\ binding = [binding EXCEPT ![RevisionOf[h]] = binding[RevisionOf[h]]]
        /\ view = [view EXCEPT ![h] = view[h]]
        /\ binding[RevisionOf[h]] \in Bindings /\ view[h] \in Views
    BY <1>1 DEF BridgeInv, TypeOK
  <1>3. Placed(pc[h], Mine(h)) /\ Seen(h)
    BY DEF BridgeInv
  <1> QED
    BY <1>1, <1>2, <1>3 DEF BridgeInv, Mine, Placed

\* A helper that returns remembers nothing.
LEMMA ForgetMoves ==
    ASSUME BridgeInv, NEW h \in Helper, Forget(h),
           UNCHANGED <<root, files, core, clock, crashes>>
    PROVE  HelperMoves(h, "idle", NoView)
  <1>1. NoView \in Views /\ NoProof \in [Revision -> Bindings] /\ "idle" \in Labels
    BY DEF NoView, Views, RunStatus, NoProof, NoBinding, Bindings, Phases,
           CreateReceipts, Receipts, Labels
  <1> QED
    BY <1>1 DEF HelperMoves, Forget, Goto, BridgeInv, TypeOK

LEMMA GotoMoves ==
    ASSUME BridgeInv, NEW h \in Helper, NEW label \in Labels, Goto(h, label),
           UNCHANGED <<root, core, clock, local, crashes>>,
           files' \in [Revision -> BOOLEAN]
    PROVE  HelperMoves(h, label, view[h])
  BY Known DEF HelperMoves, Goto, BridgeInv, TypeOK, local

\* The updates a helper saves on its way replace the binding they update.
LEMMA UpdatesReplace ==
    ASSUME NEW r \in Revision, NEW bound \in Bindings, bound.phase # "absent",
           Linked(r, bound), CoreSane(r),
           created[r] \in CreateReceipts, started[r] \in Receipts
    PROVE  /\ Replaces(r, bound, bound)
           /\ Replaces(r, WithCopy(bound), bound)
           /\ Replaces(r, WithIntent(bound), bound)
           /\ \A phase \in Phases \ {"absent"} :
                 Replaces(r, WithPhase(bound, phase), bound)
           /\ Replaces(r, Uncertain(bound), bound)
           /\ created[r] # "none" => Replaces(r, WithCreate(bound, created[r]), bound)
           /\ started[r] # "none" => Replaces(r, WithStart(bound, started[r]), bound)
           /\ \A receipt \in Receipts : Replaces(r, WithCancel(bound, receipt), bound)
           /\ \A seen \in Views : Replaces(r, WithObservation(bound, seen), bound)
           /\ \A op \in {"create", "cancel"} :
                 Replaces(r, Dispatching(bound, op), bound)
  <1> USE DEF Replaces, Linked
  <1>1. /\ Replaces(r, bound, bound) /\ Replaces(r, WithCopy(bound), bound)
        /\ Replaces(r, WithIntent(bound), bound)
        /\ \A seen \in Views : Replaces(r, WithObservation(bound, seen), bound)
        /\ \A receipt \in Receipts : Replaces(r, WithCancel(bound, receipt), bound)
    BY UpdatesTyped DEF Bindings, WithCopy, WithIntent, WithObservation, WithCancel
  <1>2. \A phase \in Phases \ {"absent"} :
           Replaces(r, WithPhase(bound, phase), bound)
    BY UpdatesTyped DEF Bindings, WithPhase
  <1>3. Replaces(r, Uncertain(bound), bound)
    BY <1>2 DEF Uncertain, Phases
  <1>4. ASSUME created[r] # "none"
        PROVE  Replaces(r, WithCreate(bound, created[r]), bound)
    <2> DEFINE new == WithCreate(bound, created[r])
    <2>1. /\ new.create = created[r] /\ new.phase # "absent"
          /\ new.start = bound.start /\ new.startSaved = bound.startSaved
          /\ new.intent = bound.intent
          /\ new.cleanupRequired = bound.cleanupRequired
      BY DEF Bindings, WithCreate
    <2>2. new \in Bindings
      BY UpdatesTyped
    <2> QED
      BY <2>1, <2>2, <1>4
  <1>5. ASSUME started[r] # "none"
        PROVE  Replaces(r, WithStart(bound, started[r]), bound)
    <2> DEFINE new == WithStart(bound, started[r])
    <2>1. /\ new.start = started[r] /\ new.phase # "absent"
          /\ new.create = bound.create /\ new.startSaved = bound.startSaved
          /\ new.intent = bound.intent
          /\ new.cleanupRequired = bound.cleanupRequired
      BY DEF Bindings, WithStart
    <2>2. new \in Bindings
      BY UpdatesTyped
    <2> QED
      BY <2>1, <2>2, <1>5
  <1>6. ASSUME NEW op \in {"create", "cancel"}
        PROVE  Replaces(r, Dispatching(bound, op), bound)
    <2>1. /\ DispatchPhase["create"] # "absent"
          /\ DispatchPhase["cancel"] # "absent" /\ op \in Requests
      BY DEF DispatchPhase, Requests
    <2> DEFINE new == Dispatching(bound, op)
    <2>2. /\ new.phase = DispatchPhase[op] /\ new.cleanupRequired = TRUE
          /\ new.create = bound.create /\ new.start = bound.start
          /\ new.startSaved = bound.startSaved /\ new.intent = bound.intent
      BY DEF Bindings, Dispatching
    <2>3. new.phase # "absent"
      BY <2>1, <2>2
    <2>4. new \in Bindings
      BY <2>1, UpdatesTyped
    <2> QED
      BY <2>2, <2>3, <2>4
  <1> QED
    BY <1>1, <1>2, <1>3, <1>4, <1>5, <1>6

-----------------------------------------------------------------------------
(* The actions: reservation *)

\* A helper that goes on, or gives up, before it holds the observer lock.
LEMMA LocalGoto ==
    ASSUME BridgeInv, NEW h \in Helper, NEW label \in Labels, Goto(h, label),
           UNCHANGED <<binding, core, clock, reported, crashes, view>>,
           root' \in [Revision -> BOOLEAN], files' \in [Revision -> BOOLEAN],
           todo' \in [Helper -> SUBSET Revision],
           proof' \in [Helper -> [Revision -> Bindings]],
           label \notin {"postCreate", "postStart", "refs"},
           label \in {"mkdir", "saveBinding"} =>
              ~Bound(RevisionOf[h]) /\ IssueLockFree(h),
           label = "lock" => Bound(RevisionOf[h]),
           label \in ObserverLabels => Bound(RevisionOf[h]) /\ ObserverLockFree(h)
    PROVE  BridgeInv'
  <1>1. HelperMoves(h, label, view[h])
    BY Known DEF HelperMoves, Goto, BridgeInv, TypeOK
  <1>2. LocalStep(h, label, view[h])
    BY <1>1 DEF LocalStep, BridgeInv, TypeOK
  <1> QED
    BY <1>2, LocalStepKeeps

LEMMA LocalForget ==
    ASSUME BridgeInv, NEW h \in Helper, Forget(h),
           UNCHANGED <<durable, core, clock>>, crashes' \in 0..MaxCrashes,
           \/ reported' = reported
           \/ \E result \in {"invalid_binding", "refused", "attention_required"} :
                 reported' = [reported EXCEPT ![RevisionOf[h]] =
                                @ \union ({result} \intersect Tracked)]
    PROVE  BridgeInv'
  <1>1. HelperMoves(h, "idle", NoView)
    <2>1. NoView \in Views /\ NoProof \in [Revision -> Bindings] /\ "idle" \in Labels
      BY DEF NoView, Views, RunStatus, NoProof, NoBinding, Bindings, Phases,
             CreateReceipts, Receipts, Labels
    <2> QED
      BY <2>1 DEF HelperMoves, Forget, Goto, BridgeInv, TypeOK, durable
  <1>2. RevisionOf[h] \in Revision
    BY BridgeAssumption
  <1>3. /\ reported' \in [Revision -> SUBSET Tracked]
        /\ \A r \in Revision : reported'[r] \subseteq reported[r] \union {"invalid_binding"}
    BY <1>2 DEF BridgeInv, TypeOK, Tracked
  <1>4. LocalStep(h, "idle", NoView)
    BY <1>1, <1>3 DEF LocalStep, durable, ObserverLabels
  <1> QED
    BY <1>4, LocalStepKeeps

LEMMA BeginKeeps ==
    ASSUME BridgeInv, NEW h \in Helper, Begin(h)
    PROVE  BridgeInv'
  <1>1. PICK label \in {"lock", "list"} :
           Goto(h, label) /\ (label = "lock" => Bound(RevisionOf[h]))
    BY DEF Begin
  <1>2. label \in Labels /\ label \notin ObserverLabels
    BY DEF Labels, ReserveLabels, ObserverLabels
  <1> QED
    BY <1>1, <1>2, LocalGoto DEF Begin, durable, local, BridgeInv, TypeOK

LEMMA ReserveKeeps ==
    ASSUME BridgeInv, NEW h \in Helper, Reserve(h), ~SaveBinding(h)
    PROVE  BridgeInv'
  <1>0. /\ {"check", "recheck", "lock", "mkdir", "saveBinding"} \subseteq Labels
        /\ {"check", "recheck", "lock", "mkdir", "saveBinding"}
              \intersect ObserverLabels = {}
    BY DEF Labels, ReserveLabels, ObserverLabels
  <1>1. CASE List(h)
    <2>1. todo' \in [Helper -> SUBSET Revision]
      BY <1>1 DEF List, BridgeInv, TypeOK
    <2> QED
      BY <1>0, <1>1, <2>1, LocalGoto DEF List, durable, BridgeInv, TypeOK
  <1>2. ASSUME NEW r \in Revision, PriorUnreadable(h, r)
        PROVE  BridgeInv'
    BY <1>2, LocalForget DEF PriorUnreadable, Return, BridgeInv, TypeOK
  <1>3. ASSUME NEW r \in Revision, PriorIrrelevant(h, r)
        PROVE  BridgeInv'
    <2>1. todo' \in [Helper -> SUBSET Revision]
      BY <1>3 DEF PriorIrrelevant, BridgeInv, TypeOK
    <2>2. Goto(h, "check")
      BY <1>3 DEF PriorIrrelevant, Goto, BridgeInv, TypeOK
    <2> QED
      BY <1>0, <1>3, <2>1, <2>2, LocalGoto
      DEF PriorIrrelevant, durable, BridgeInv, TypeOK
  <1>4. ASSUME NEW r \in Revision, LoadPrior(h, r)
        PROVE  BridgeInv'
    <2>1. CASE Return(h, "refused")
      BY <1>4, <2>1, LocalForget DEF LoadPrior, Return, BridgeInv, TypeOK
    <2>2. CASE ~Return(h, "refused")
      <3>1. proof' = [proof EXCEPT ![h][r] = binding[r]]
        BY <1>4, <2>2 DEF LoadPrior
      <3>2. proof' \in [Helper -> [Revision -> Bindings]]
        BY <3>1 DEF BridgeInv, TypeOK
      <3>3. Goto(h, "check")
        BY <1>4, <2>2 DEF LoadPrior, Goto, BridgeInv, TypeOK
      <3> QED
        BY <1>0, <1>4, <2>2, <3>2, <3>3, LocalGoto
        DEF LoadPrior, durable, BridgeInv, TypeOK
    <2> QED
      BY <2>1, <2>2
  <1>5. ASSUME NEW r \in Revision, ReadPrior(h, r)
        PROVE  BridgeInv'
    <2>1. CASE Return(h, "refused")
      BY <1>5, <2>1, LocalForget DEF ReadPrior, Return, BridgeInv, TypeOK
    <2>2. CASE ~Return(h, "refused")
      <3>0. todo' = [todo EXCEPT ![h] = @ \ {r}]
        BY <1>5, <2>2 DEF ReadPrior
      <3>1. todo' \in [Helper -> SUBSET Revision]
        BY <3>0 DEF BridgeInv, TypeOK
      <3>2. Goto(h, "check")
        BY <1>5, <2>2 DEF ReadPrior, Goto, BridgeInv, TypeOK
      <3> QED
        BY <1>0, <1>5, <2>2, <3>1, <3>2, LocalGoto
        DEF ReadPrior, durable, BridgeInv, TypeOK
    <2> QED
      BY <2>1, <2>2
  <1>6. CASE PriorsProved(h) \/ Attach(h) \/ MakeRoot(h)
    <2>1. root' \in [Revision -> BOOLEAN]
      BY <1>6 DEF PriorsProved, Attach, MakeRoot, durable, BridgeInv, TypeOK
    <2>2. pc[h] = "mkdir" => ~Bound(RevisionOf[h]) /\ IssueLockFree(h)
      BY Known DEF BridgeInv, LocksHold, Placed, Bound
    <2>3. PICK label \in {"recheck", "lock", "saveBinding"} :
             /\ Goto(h, label)
             /\ label = "lock" => Bound(RevisionOf[h])
             /\ label = "saveBinding" => pc[h] = "mkdir"
      BY <1>6 DEF PriorsProved, Attach, MakeRoot
    <2>4. /\ UNCHANGED <<binding, core, clock, reported, crashes, view, files,
                         todo, proof>>
      BY <1>6 DEF PriorsProved, Attach, MakeRoot, durable, local
    <2> QED
      BY <1>0, <2>1, <2>2, <2>3, <2>4, LocalGoto DEF BridgeInv, TypeOK
  <1>7. CASE Recheck(h)
    <2>1. CASE Return(h, "invalid_binding") \/ Return(h, "refused")
      BY <1>7, <2>1, LocalForget DEF Recheck, Return, BridgeInv, TypeOK
    <2>2. CASE ~(Return(h, "invalid_binding") \/ Return(h, "refused"))
      BY <1>0, <1>7, <2>2, LocalGoto
      DEF Recheck, durable, local, BridgeInv, TypeOK
    <2> QED
      BY <2>1, <2>2
  <1> QED
    BY <1>1, <1>2, <1>3, <1>4, <1>5, <1>6, <1>7 DEF Reserve

\* The reservation writes the first record, of which nothing can be in flight.
LEMMA SaveBindingKeeps ==
    ASSUME BridgeInv, NEW h \in Helper, SaveBinding(h)
    PROVE  BridgeInv'
  <1> DEFINE mine == RevisionOf[h]
  <1>0. /\ mine \in Revision /\ binding[mine].phase = "absent"
        /\ CoreSane(mine) /\ Linked(mine, binding[mine])
        /\ Backed(mine, binding[mine]) /\ IssueLockFree(h)
    BY Known DEF BridgeInv, SaveBinding, Placed, LocksHold
  <1>1. /\ binding[mine] = NoBinding /\ posted[mine] = {}
        /\ created[mine] = "none" /\ started[mine] = "none" /\ run[mine] = NoView
    BY <1>0 DEF Linked, CoreSane
  <1>2. binding' = [binding EXCEPT ![mine] = Reserved] /\ Reserved \in Bindings
    BY UpdatesTyped, <1>0 DEF SaveBinding, Save, BridgeInv, TypeOK
  <1>3. /\ Reserved.phase = "prepared" /\ Reserved.create = "none"
        /\ Reserved.start = "none" /\ ~Reserved.startSaved
    BY DEF Reserved, NoBinding
  <1>4. Goto(h, "lock") /\ "lock" \in Labels \ ObserverLabels
    BY DEF SaveBinding, Labels, ReserveLabels, ObserverLabels
  <1>5. TypeOK'
    <2>1. NoProof \in [Revision -> Bindings]
      BY DEF NoProof, NoBinding, Bindings, Phases, CreateReceipts, Receipts,
             NoView, Views, RunStatus
    <2>2. /\ proof' \in [Helper -> [Revision -> Bindings]]
          /\ todo' \in [Helper -> SUBSET Revision]
      BY <2>1 DEF BridgeInv, TypeOK, SaveBinding
    <2>3. binding' \in [Revision -> Bindings] /\ pc' \in [Helper -> Labels]
      BY <1>2, <1>4 DEF BridgeInv, TypeOK, Goto
    <2> QED
      BY <2>2, <2>3 DEF BridgeInv, TypeOK, SaveBinding, core, clock
  <1>6. LocksHold'
    BY <1>4, LocksKept DEF BridgeInv, Goto
  <1>7. ASSUME NEW r \in Revision
        PROVE  (CoreSane(r) /\ Linked(r, binding[r]) /\ Backed(r, binding[r]))'
    <2>1. CoreSane(r) /\ Linked(r, binding[r]) /\ Backed(r, binding[r])
      BY DEF BridgeInv
    <2>2. UNCHANGED <<posted, created, started, cancelled, run, reported>>
      BY DEF SaveBinding, core
    <2>3. CASE r = mine
      <3>1. binding'[r] = Reserved
        BY <2>3, <1>2, <1>0 DEF BridgeInv, TypeOK
      <3>2. ~InFlight(r)
        BY <2>3, <1>1 DEF InFlight
      <3>3. Linked(r, binding[r])'
        BY <2>2, <2>3, <3>1, <3>2, <1>1, <1>3 DEF Linked, InFlight
      <3>4. reported[r] \ {"invalid_binding"} = {}
        <4>1. \A result : run[r] # [status |-> result, stopped |-> TRUE]
          BY <2>3, <1>1 DEF NoView
        <4>2. ~binding[r].intent
          BY <2>3, <1>1 DEF NoBinding
        <4> QED
          BY <2>1, <4>1, <4>2 DEF Backed
      <3> QED
        BY <2>1, <2>2, <3>3, <3>4 DEF CoreSane, Backed
    <2>4. CASE r # mine
      <3>1. binding'[r] = binding[r]
        BY <2>4, <1>2 DEF BridgeInv, TypeOK
      <3> QED
        BY <2>1, <2>2, <3>1 DEF CoreSane, Linked, Backed, InFlight
    <2> QED
      BY <2>3, <2>4
  <1>8. ASSUME NEW g \in Helper
        PROVE  (Placed(pc[g], Mine(g)) /\ Seen(g))'
    <2>1. /\ Placed(pc[g], Mine(g)) /\ Seen(g) /\ RevisionOf[g] \in Revision
          /\ pc'[g] = IF g = h THEN "lock" ELSE pc[g]
      BY <1>4, Known DEF Goto, BridgeInv, TypeOK
    <2>2. Seen(g)'
      BY <2>1 DEF Seen, Closed, SaveBinding, core
    <2>3. CASE g = h
      BY <2>1, <2>2, <2>3, <1>0, <1>2, <1>3
      DEF Placed, Mine, ObserverLabels, BridgeInv, TypeOK
    <2>4. CASE g # h /\ RevisionOf[g] # mine
      <3>1. Mine(g)' = Mine(g)
        BY <2>1, <2>4, <1>2 DEF Mine, BridgeInv, TypeOK
      <3> QED
        BY <2>1, <2>2, <2>4, <3>1
    <2>5. CASE g # h /\ RevisionOf[g] = mine
      <3>1. Mine(g)' = Reserved /\ Mine(g).phase = "absent"
        BY <2>5, <1>0, <1>2 DEF Mine, BridgeInv, TypeOK
      <3>2. pc[g] \notin {"mkdir", "saveBinding"}
        BY <2>5, <1>0 DEF IssueLockFree
      <3>3. pc[g] \notin ObserverLabels
        BY <2>1, <3>1 DEF Placed
      <3>4. Placed(pc[g], Reserved)
        BY <3>2, <3>3, <1>3 DEF Placed, ObserverLabels
      <3> QED
        BY <2>1, <2>2, <2>5, <3>1, <3>4
    <2> QED
      BY <2>3, <2>4, <2>5
  <1> QED
    BY <1>5, <1>6, <1>7, <1>8 DEF BridgeInv

-----------------------------------------------------------------------------
(* The actions: observation *)

\* A helper that saves under its lock and goes on.
LEMMA ObserverSaves ==
    ASSUME BridgeInv, NEW h \in Helper, pc[h] \in ObserverLabels,
           NEW bound, NEW label \in ObserverLabels,
           Replaces(RevisionOf[h], bound, Mine(h)),
           Save(h, bound), Goto(h, label),
           UNCHANGED <<root, files, core, clock, local, reported, crashes>>,
           Placed(label, bound), label # "refs"
    PROVE  BridgeInv'
  <1>1. label \in Labels
    BY DEF Labels
  <1>2. HelperMoves(h, label, view[h])
    BY <1>1, GotoMoves DEF BridgeInv, TypeOK
  <1>3. Closed(view[h]) => run[RevisionOf[h]] = view[h]
    BY Known DEF Seen
  <1>4. SaveStep(h, bound, label, view[h])
    BY <1>2, <1>3 DEF SaveStep, Save
  <1> QED
    BY <1>4, SaveStepKeeps

\* A helper that saves under its lock and returns.
LEMMA ObserverReturns ==
    ASSUME BridgeInv, NEW h \in Helper, pc[h] \in ObserverLabels,
           NEW bound, NEW result,
           Replaces(RevisionOf[h], bound, Mine(h)),
           Save(h, bound), Return(h, result),
           UNCHANGED <<root, files, core, clock, crashes>>,
           result \in {"succeeded", "failed", "cancelled"} =>
              \/ run[RevisionOf[h]] = [status |-> result, stopped |-> TRUE]
              \/ result = "cancelled" /\ bound.intent /\ ~bound.startSaved
    PROVE  BridgeInv'
  <1>1. HelperMoves(h, "idle", NoView)
    BY ForgetMoves DEF Return
  <1>2. ReturnStep(h, bound, result)
    BY <1>1 DEF ReturnStep, Save, Return
  <1> QED
    BY <1>2, ReturnStepKeeps

\* The observer's own binding may be replaced by its updates.
LEMMA MineReplaced ==
    ASSUME BridgeInv, NEW h \in Helper, pc[h] \in ObserverLabels
    PROVE  LET r == RevisionOf[h]
               bound == Mine(h)
           IN /\ r \in Revision /\ bound \in Bindings /\ bound.phase # "absent"
              /\ Linked(r, bound) /\ CoreSane(r)
              /\ created[r] \in CreateReceipts /\ started[r] \in Receipts
              /\ cancelled[r] \in Receipts /\ run[r] \in Views
              /\ Replaces(r, bound, bound)
              /\ Replaces(r, WithCopy(bound), bound)
              /\ Replaces(r, WithIntent(bound), bound)
              /\ \A phase \in Phases \ {"absent"} :
                    Replaces(r, WithPhase(bound, phase), bound)
              /\ Replaces(r, Uncertain(bound), bound)
              /\ created[r] # "none" =>
                    Replaces(r, WithCreate(bound, created[r]), bound)
              /\ started[r] # "none" =>
                    Replaces(r, WithStart(bound, started[r]), bound)
              /\ Replaces(r, WithCancel(bound, cancelled[r]), bound)
              /\ \A op \in {"create", "cancel"} :
                    Replaces(r, Dispatching(bound, op), bound)
  <1> DEFINE r == RevisionOf[h]
  <1> DEFINE bound == Mine(h)
  <1>1. /\ r \in Revision /\ bound \in Bindings /\ bound.phase # "absent"
        /\ Linked(r, bound) /\ CoreSane(r)
    BY Known
  <1>2. /\ created[r] \in CreateReceipts /\ started[r] \in Receipts
        /\ cancelled[r] \in Receipts /\ run[r] \in Views
    BY <1>1 DEF BridgeInv, TypeOK
  <1> HIDE DEF r, bound
  <1>3. /\ Replaces(r, bound, bound)
        /\ Replaces(r, WithCopy(bound), bound)
        /\ Replaces(r, WithIntent(bound), bound)
        /\ \A phase \in Phases \ {"absent"} :
              Replaces(r, WithPhase(bound, phase), bound)
        /\ Replaces(r, Uncertain(bound), bound)
        /\ created[r] # "none" => Replaces(r, WithCreate(bound, created[r]), bound)
        /\ started[r] # "none" => Replaces(r, WithStart(bound, started[r]), bound)
        /\ Replaces(r, WithCancel(bound, cancelled[r]), bound)
        /\ \A op \in {"create", "cancel"} :
              Replaces(r, Dispatching(bound, op), bound)
    BY <1>1, <1>2, UpdatesReplace
  <1> QED
    BY <1>1, <1>2, <1>3 DEF r, bound

LEMMA CopyKeeps ==
    ASSUME BridgeInv, NEW h \in Helper, Busy(h) \/ TakeLock(h) \/ Copy(h)
    PROVE  BridgeInv'
  <1>0. {"copy", "copying", "loop"} \subseteq ObserverLabels /\ ObserverLabels \subseteq Labels
    BY DEF ObserverLabels, Labels
  <1>1. pc[h] \in ObserverLabels => Bound(RevisionOf[h]) /\ ObserverLockFree(h)
    BY Known DEF Bound, BridgeInv, LocksHold
  <1>2. CASE Busy(h)
    BY <1>2, LocalForget DEF Busy, Return, BridgeInv, TypeOK
  <1>3. CASE TakeLock(h)
    <2>1. PICK label \in {"loop", "copy"} : Goto(h, label)
      BY <1>3 DEF TakeLock
    <2>2. Bound(RevisionOf[h]) /\ ObserverLockFree(h)
      BY <1>3, Known DEF TakeLock, Placed, Bound
    <2>3. NoProof \in [Revision -> Bindings]
      BY DEF NoProof, NoBinding, Bindings, Phases, CreateReceipts, Receipts,
             NoView, Views, RunStatus
    <2>4. /\ proof' \in [Helper -> [Revision -> Bindings]]
          /\ todo' \in [Helper -> SUBSET Revision]
      BY <1>3, <2>3 DEF TakeLock, BridgeInv, TypeOK
    <2> QED
      BY <1>0, <1>3, <2>1, <2>2, <2>4, LocalGoto
      DEF TakeLock, durable, BridgeInv, TypeOK
  <1>4. CASE CopyNotOwned(h) \/ CopyFails(h)
    BY <1>4, LocalForget DEF CopyNotOwned, CopyFails, Return, BridgeInv, TypeOK
  <1>5. CASE CopyFiles(h)
    <2>1. files' \in [Revision -> BOOLEAN]
      BY <1>5 DEF CopyFiles, BridgeInv, TypeOK
    <2> QED
      BY <1>0, <1>1, <1>5, <2>1, LocalGoto
      DEF CopyFiles, local, BridgeInv, TypeOK
  <1>6. CASE CopyPrepared(h)
    <2>1. Replaces(RevisionOf[h], WithCopy(Mine(h)), Mine(h))
      BY <1>0, <1>6, MineReplaced DEF CopyPrepared
    <2>2. Placed("loop", WithCopy(Mine(h)))
      BY <2>1 DEF Replaces, Placed
    <2> QED
      BY <1>0, <1>6, <2>1, <2>2, ObserverSaves DEF CopyPrepared
  <1>7. CASE CopyKept(h)
    BY <1>0, <1>1, <1>7, LocalGoto
    DEF CopyKept, durable, local, BridgeInv, TypeOK
  <1> QED
    BY <1>2, <1>3, <1>4, <1>5, <1>6, <1>7 DEF Copy

LEMMA LookKeeps ==
    ASSUME BridgeInv, NEW h \in Helper, Look(h)
    PROVE  BridgeInv'
  <1> DEFINE r == RevisionOf[h]
  <1>0. /\ {"loop", "instance", "run", "decide"} \subseteq ObserverLabels
        /\ ObserverLabels \subseteq Labels
    BY DEF ObserverLabels, Labels
  <1>1. pc[h] \in ObserverLabels /\ Bound(r) /\ ObserverLockFree(h)
    BY <1>0, Known
    DEF Look, Intend, InTime, RefreshNothing, ReadInstance, ReadRun, Bound,
        BridgeInv, LocksHold
  <1>2. NoView \in Views /\ ~Closed(NoView)
    BY DEF NoView, Views, RunStatus, Closed, TerminalStatus
  <1>3. CASE Intend(h)
    <2>1. Replaces(r, WithIntent(Mine(h)), Mine(h))
      BY <1>1, MineReplaced
    <2>2. Placed("instance", WithIntent(Mine(h)))
      BY <2>1 DEF Replaces, Placed
    <2>3. HelperMoves(h, "instance", NoView)
      BY <1>0, <1>2, <1>3 DEF HelperMoves, Intend, Goto, BridgeInv, TypeOK
    <2>4. SaveStep(h, WithIntent(Mine(h)), "instance", NoView)
      BY <1>0, <1>1, <1>2, <1>3, <2>1, <2>2, <2>3 DEF SaveStep, Intend, Save
    <2> QED
      BY <2>4, SaveStepKeeps
  <1>4. CASE InTime(h)
    <2>1. HelperMoves(h, "instance", NoView)
      BY <1>0, <1>2, <1>4 DEF HelperMoves, InTime, Goto, durable, BridgeInv, TypeOK
    <2>2. LocalStep(h, "instance", NoView)
      BY <1>1, <2>1, <1>4 DEF LocalStep, InTime, durable, BridgeInv, TypeOK
    <2> QED
      BY <2>2, LocalStepKeeps
  <1>5. CASE RefreshNothing(h)
    BY <1>0, <1>1, <1>5, LocalGoto
    DEF RefreshNothing, durable, local, BridgeInv, TypeOK
  <1>6. CASE ReadInstance(h)
    <2> DEFINE one == WithStartShown(Mine(h), r)
    <2> DEFINE two == WithCancelShown(one, r)
    <2>1. /\ Replaces(r, one, Mine(h)) /\ r \in Revision /\ CoreSane(r)
          /\ created[r] \in CreateReceipts /\ started[r] \in Receipts
          /\ cancelled[r] \in Receipts
      BY <1>1, MineReplaced DEF WithStartShown
    <2>2. Replaces(r, two, one)
      <3>1. /\ Replaces(r, one, one)
            /\ \A receipt \in Receipts : Replaces(r, WithCancel(one, receipt), one)
        BY <2>1, UpdatesReplace DEF Replaces
      <3> QED
        BY <3>1, <2>1 DEF WithCancelShown
    <2>3. Replaces(r, two, Mine(h))
      BY <2>1, <2>2 DEF Replaces
    <2>4. PICK label \in {"run", "decide"} : Goto(h, label) /\ Save(h, two)
      BY <1>6 DEF ReadInstance
    <2>5. Placed(label, two)
      BY <2>3 DEF Replaces, Placed
    <2> HIDE DEF two
    <2> QED
      BY <1>0, <1>1, <1>6, <2>3, <2>4, <2>5, ObserverSaves DEF ReadInstance
  <1>7. CASE ReadRun(h)
    <2> DEFINE one == WithCancelShown(Mine(h), r)
    <2> DEFINE two == WithObservation(one, run[r])
    <2>1. /\ Replaces(r, one, Mine(h)) /\ r \in Revision /\ CoreSane(r)
          /\ created[r] \in CreateReceipts /\ started[r] \in Receipts
          /\ run[r] \in Views
      BY <1>1, MineReplaced DEF WithCancelShown
    <2>2. Replaces(r, two, one)
      BY <2>1, UpdatesReplace DEF Replaces
    <2>3. Replaces(r, two, Mine(h))
      BY <2>1, <2>2 DEF Replaces
    <2>4. Goto(h, "decide") /\ Save(h, two) /\ view' = [view EXCEPT ![h] = run[r]]
      BY <1>7 DEF ReadRun
    <2>5. Placed("decide", two)
      BY <2>3 DEF Replaces, Placed
    <2> HIDE DEF two
    <2>6. HelperMoves(h, "decide", run[r])
      BY <1>0, <1>7, <2>1, <2>4 DEF HelperMoves, ReadRun, Goto, BridgeInv, TypeOK
    <2>7. SaveStep(h, two, "decide", run[r])
      BY <1>0, <1>1, <1>7, <2>3, <2>4, <2>5, <2>6 DEF SaveStep, ReadRun, Save
    <2> QED
      BY <2>7, SaveStepKeeps
  <1> QED
    BY <1>3, <1>4, <1>5, <1>6, <1>7 DEF Look

\* Giving the claim up is sound when nothing of the revision is in flight.
LEMMA SettledReplaces ==
    ASSUME NEW r \in Revision, NEW bound \in Bindings, Linked(r, bound), ~InFlight(r)
    PROVE  Replaces(r, Settled(bound), bound)
  <1>1. Settled(bound) \in Bindings
    BY UpdatesTyped
  <1> QED
    BY <1>1 DEF Replaces, Linked, Settled, Bindings

\* A refusal gives it up only when Core refused to create anything.
LEMMA RefusalReplaces ==
    ASSUME NEW r \in Revision, NEW bound \in Bindings, Linked(r, bound), CoreSane(r)
    PROVE  Replaces(r, WithRefusal(bound), bound)
  <1> DEFINE new == WithRefusal(bound)
  <1>1. new \in Bindings
    BY UpdatesTyped
  <1>2. /\ new.phase # "absent" /\ new.create = bound.create
        /\ new.start = bound.start /\ new.startSaved = bound.startSaved
        /\ new.intent = bound.intent
        /\ new.cleanupRequired =
              IF NoTargetRefusal(bound) THEN FALSE ELSE bound.cleanupRequired
    BY DEF WithRefusal, Bindings
  <1>3. NoTargetRefusal(bound) => ~InFlight(r)
    BY DEF NoTargetRefusal, Linked, CoreSane, InFlight
  <1> QED
    BY <1>1, <1>2, <1>3 DEF Replaces, Linked

LEMMA SettleKeeps ==
    ASSUME BridgeInv, NEW h \in Helper,
           Settle(h) \/ RefsValid(h) \/ RefsInvalid(h)
    PROVE  BridgeInv'
  <1> DEFINE r == RevisionOf[h]
  <1>0. {"decide", "refs"} \subseteq ObserverLabels /\ "refs" \in Labels
    BY DEF ObserverLabels, Labels
  <1>1. pc[h] \in ObserverLabels
    BY <1>0 DEF Settle, RefsValid, RefsInvalid
  <1>2. /\ r \in Revision /\ Mine(h) \in Bindings /\ view[h] \in Views
        /\ Linked(r, Mine(h)) /\ CoreSane(r) /\ Seen(h)
    BY Known
  <1>3. CASE Settle(h)
    <2>1. run[r] = view[h] /\ Closed(run[r])
      BY <1>2, <1>3 DEF Settle, Seen
    <2>2. ~InFlight(r)
      <3>1. run[r] # NoView
        BY <2>1 DEF Closed, NoView, TerminalStatus
      <3> QED
        BY <1>2, <2>1, <3>1 DEF CoreSane, Linked, InFlight, Closed
    <2>3. Replaces(r, Settled(Mine(h)), Mine(h))
      BY <1>2, <2>2, SettledReplaces
    <2>4. run[r] = [status |-> view[h].status, stopped |-> TRUE]
      BY <1>2, <2>1 DEF Closed, Views
    <2>5. CASE view[h].status = "succeeded"
      <3>1. Goto(h, "refs") /\ UNCHANGED <<local, reported>> /\ Save(h, Settled(Mine(h)))
        BY <1>3, <2>5 DEF Settle
      <3>2. HelperMoves(h, "refs", view[h])
        BY <1>0, <1>3, <3>1, GotoMoves DEF Settle, BridgeInv, TypeOK
      <3>3. Placed("refs", Settled(Mine(h)))
        BY <2>3 DEF Replaces, Placed
      <3>4. SaveStep(h, Settled(Mine(h)), "refs", view[h])
        BY <1>0, <1>1, <2>1, <2>3, <2>4, <2>5, <3>1, <3>2, <3>3 DEF SaveStep, Save
      <3> QED
        BY <3>4, SaveStepKeeps
    <2>6. CASE view[h].status # "succeeded"
      <3>1. /\ Save(h, Settled(Mine(h))) /\ Return(h, view[h].status)
            /\ UNCHANGED <<root, files, core, clock, crashes>>
        BY <1>3, <2>6 DEF Settle
      <3> QED
        BY <1>1, <2>3, <2>4, <3>1, ObserverReturns
    <2> QED
      BY <2>5, <2>6
  <1>4. CASE RefsValid(h)
    <2>1. /\ view[h] = [status |-> "succeeded", stopped |-> TRUE]
          /\ run[r] = view[h]
      BY <1>2, <1>4 DEF RefsValid, Seen, Closed, TerminalStatus
    <2>2. Save(h, Mine(h)) /\ UNCHANGED <<root, files, core, clock, crashes>>
      BY <1>4, Known DEF RefsValid, Save, durable
    <2>3. Replaces(r, Mine(h), Mine(h)) /\ Return(h, "succeeded")
      BY <1>1, <1>4, MineReplaced DEF RefsValid
    <2> QED
      BY <1>1, <2>1, <2>2, <2>3, ObserverReturns
  <1>5. CASE RefsInvalid(h)
    <2>1. Replaces(r, Uncertain(Mine(h)), Mine(h))
      BY <1>1, MineReplaced
    <2>2. /\ Save(h, Uncertain(Mine(h))) /\ Return(h, "refused")
          /\ UNCHANGED <<root, files, core, clock, crashes>>
      BY <1>5 DEF RefsInvalid
    <2> QED
      BY <1>1, <2>1, <2>2, ObserverReturns
  <1> QED
    BY <1>3, <1>4, <1>5

\* The decisions that end without a closed run.
LEMMA GiveUpKeeps ==
    ASSUME BridgeInv, NEW h \in Helper,
           Attend(h) \/ Refuse(h) \/ PreventCreate(h) \/ PreventStart(h)
    PROVE  BridgeInv'
  <1> DEFINE r == RevisionOf[h]
  <1>1. pc[h] \in ObserverLabels
    BY DEF Attend, Refuse, PreventCreate, PreventStart, StartUnasked, Progress,
           Open, ObserverLabels
  <1>2. /\ r \in Revision /\ Mine(h) \in Bindings
        /\ Linked(r, Mine(h)) /\ CoreSane(r)
        /\ \A phase \in Phases \ {"absent"} :
              Replaces(r, WithPhase(Mine(h), phase), Mine(h))
        /\ Replaces(r, Uncertain(Mine(h)), Mine(h))
        /\ Replaces(r, WithIntent(Mine(h)), Mine(h))
    BY <1>1, MineReplaced
  <1>3. CASE Attend(h)
    <2>1. PICK bound \in {WithPhase(Mine(h), "attention_required"), Uncertain(Mine(h))},
               result \in {"attention_required", "uncertain"} :
             /\ Save(h, bound) /\ Return(h, result)
             /\ UNCHANGED <<root, files, core, clock, crashes>>
      BY <1>3 DEF Attend
    <2>2. Replaces(r, bound, Mine(h))
      BY <1>2 DEF Phases
    <2> QED
      BY <1>1, <2>1, <2>2, ObserverReturns
  <1>4. CASE Refuse(h)
    <2>1. Replaces(r, WithRefusal(Mine(h)), Mine(h))
      BY <1>2, RefusalReplaces
    <2>2. /\ Save(h, WithRefusal(Mine(h))) /\ Return(h, "refused")
          /\ UNCHANGED <<root, files, core, clock, crashes>>
      BY <1>4 DEF Refuse
    <2> QED
      BY <1>1, <2>1, <2>2, ObserverReturns
  <1>5. CASE PreventCreate(h)
    <2> DEFINE new == WithPhase(Mine(h), "terminal")
    <2>1. Replaces(r, new, Mine(h)) /\ new.intent /\ ~new.startSaved
      <3>1. Mine(h).intent /\ ~Mine(h).startSaved
        BY <1>2, <1>5 DEF PreventCreate, Linked, InstanceKnown
      <3>2. new.intent = Mine(h).intent /\ new.startSaved = Mine(h).startSaved
        BY <1>2 DEF WithPhase, Bindings
      <3> QED
        BY <1>2, <3>1, <3>2 DEF Phases
    <2>2. /\ Save(h, new) /\ Return(h, "cancelled")
          /\ UNCHANGED <<root, files, core, clock, crashes>>
      BY <1>5 DEF PreventCreate
    <2> QED
      BY <1>1, <2>1, <2>2, ObserverReturns
  <1>6. CASE PreventStart(h)
    <2> DEFINE asked == WithIntent(Mine(h))
    <2> DEFINE new == Settled(asked)
    <2>1. ~InFlight(r)
      BY <1>2, <1>6
      DEF PreventStart, StartUnasked, InstanceKnown, Linked, CoreSane, InFlight
    <2>2. Replaces(r, new, asked)
      BY <1>2, <2>1, SettledReplaces DEF Replaces
    <2>3. asked.intent /\ ~asked.startSaved
      BY <1>2, <1>6 DEF WithIntent, Bindings, PreventStart, StartUnasked
    <2>4. Replaces(r, new, Mine(h)) /\ new.intent /\ ~new.startSaved
      BY <2>2, <2>3 DEF Replaces
    <2>5. /\ Save(h, new) /\ Return(h, "cancelled")
          /\ UNCHANGED <<root, files, core, clock, crashes>>
      BY <1>6 DEF PreventStart
    <2> HIDE DEF new
    <2> QED
      BY <1>1, <2>4, <2>5, ObserverReturns
  <1> QED
    BY <1>3, <1>4, <1>5, <1>6

\* The decisions that send a request, ask for one or wait.
LEMMA GoOnKeeps ==
    ASSUME BridgeInv, NEW h \in Helper,
           Create(h) \/ Start(h) \/ Cancel(h) \/ ObserveStart(h) \/ Wait(h)
    PROVE  BridgeInv'
  <1> DEFINE r == RevisionOf[h]
  <1>0. /\ {"decide", "postCreate", "postStart", "postCancel", "answerStart",
            "late"} \subseteq ObserverLabels
        /\ ObserverLabels \subseteq Labels
    BY DEF ObserverLabels, Labels
  <1>1. pc[h] \in ObserverLabels /\ Bound(r) /\ ObserverLockFree(h)
    BY <1>0, Known
    DEF Create, Start, Cancel, ObserveStart, Wait, StartUnasked, Progress, Open,
        Bound, BridgeInv, LocksHold
  <1>2. /\ r \in Revision /\ Mine(h) \in Bindings /\ Linked(r, Mine(h))
        /\ \A op \in {"create", "cancel"} :
              Replaces(r, Dispatching(Mine(h), op), Mine(h))
    BY <1>1, MineReplaced
  <1>3. CASE Create(h)
    <2> DEFINE new == Dispatching(Mine(h), "create")
    <2>1. Replaces(r, new, Mine(h))
      BY <1>2
    <2>2. new.cleanupRequired
      BY <1>2 DEF Dispatching, Bindings
    <2>3. Placed("postCreate", new)
      BY <2>1, <2>2 DEF Placed, Replaces
    <2>4. /\ Save(h, new) /\ Goto(h, "postCreate")
          /\ UNCHANGED <<root, files, core, clock, local, reported, crashes>>
      BY <1>3 DEF Create
    <2> HIDE DEF new
    <2> QED
      BY <1>0, <1>1, <2>1, <2>3, <2>4, ObserverSaves
  <1>4. CASE Start(h)
    <2> DEFINE new == Dispatching(Mine(h), "start")
    <2>1. /\ new.create = Mine(h).create /\ new.start = Mine(h).start
          /\ new.intent = Mine(h).intent
          /\ new.startSaved /\ new.cleanupRequired
          /\ new.phase = DispatchPhase["start"]
      BY <1>2 DEF Dispatching, Bindings
    <2>2. DispatchPhase["start"] # "absent"
      BY DEF DispatchPhase
    <2>3. new \in Bindings
      BY <1>2, UpdatesTyped DEF Requests
    <2>4. Mine(h).create = "applied" /\ ~Mine(h).intent
      BY <1>4 DEF Start, StartUnasked, InstanceKnown
    <2>5. /\ Save(h, new) /\ Goto(h, "postStart")
          /\ UNCHANGED <<root, files, core, clock, local, reported, crashes>>
      BY <1>4 DEF Start
    <2> HIDE DEF new
    <2>6. Replaces(r, new, Mine(h))
      BY <1>2, <2>1, <2>2, <2>3, <2>4 DEF Replaces, Linked
    <2>7. Placed("postStart", new)
      BY <2>1, <2>2, <2>4 DEF Placed
    <2> QED
      BY <1>0, <1>1, <2>5, <2>6, <2>7, ObserverSaves
  <1>5. CASE Cancel(h)
    <2> DEFINE new == Dispatching(Mine(h), "cancel")
    <2>1. Replaces(r, new, Mine(h))
      BY <1>2
    <2>2. Placed("postCancel", new)
      BY <2>1 DEF Placed, Replaces
    <2>3. /\ Save(h, new) /\ Goto(h, "postCancel")
          /\ UNCHANGED <<root, files, core, clock, local, reported, crashes>>
      BY <1>5 DEF Cancel
    <2> HIDE DEF new
    <2> QED
      BY <1>0, <1>1, <2>1, <2>2, <2>3, ObserverSaves
  <1>6. CASE ObserveStart(h) \/ Wait(h)
    BY <1>0, <1>1, <1>6, LocalGoto
    DEF ObserveStart, Wait, durable, local, BridgeInv, TypeOK
  <1> QED
    BY <1>3, <1>4, <1>5, <1>6
-----------------------------------------------------------------------------
(* The actions: the exchanges, and a death *)

\* A request that arrives was announced: the binding says what is now owed.
LEMMA PostKeeps ==
    ASSUME BridgeInv, NEW h \in Helper, NEW op \in Requests, Post(h, op)
    PROVE  BridgeInv'
  <1> DEFINE mine == RevisionOf[h]
  <1> DEFINE label == AnswerLabel[op]
  <1>1. /\ PostLabel["create"] = "postCreate" /\ PostLabel["start"] = "postStart"
        /\ PostLabel["cancel"] = "postCancel"
        /\ AnswerLabel["create"] = "answerCreate"
        /\ AnswerLabel["start"] = "answerStart"
        /\ AnswerLabel["cancel"] = "answerCancel"
    BY DEF PostLabel, AnswerLabel
  <1>2. /\ label \in {"answerCreate", "answerStart", "answerCancel"}
        /\ pc[h] \in {"postCreate", "postStart", "postCancel"}
        /\ op = "create" => pc[h] = "postCreate"
        /\ op = "start" => pc[h] = "postStart"
        /\ op \in {"create", "start", "cancel"}
    BY <1>1 DEF Requests, Post
  <1>3. /\ {"postCreate", "postStart", "postCancel", "answerCreate", "answerStart",
            "answerCancel"} \subseteq ObserverLabels
        /\ ObserverLabels \subseteq Labels
        /\ ObserverLabels \intersect {"mkdir", "saveBinding", "lock"} = {}
    BY DEF ObserverLabels, Labels
  <1> HIDE DEF label
  <1>4. /\ mine \in Revision /\ Linked(mine, binding[mine])
        /\ binding[mine].phase # "absent"
        /\ op \in {"create", "start"} => binding[mine].cleanupRequired
        /\ op = "start" => binding[mine].startSaved
    BY <1>2, <1>3, Known DEF Placed
  <1>5. /\ \A r \in Revision : r # mine => posted'[r] = posted[r]
        /\ posted'[mine] \in {posted[mine], posted[mine] \union {op}}
        /\ posted' \in [Revision -> SUBSET Requests]
    BY <1>4 DEF Post, BridgeInv, TypeOK
  <1>6. /\ Goto(h, label)
        /\ UNCHANGED <<binding, root, files, created, started, cancelled, run,
                       waitExpired, cleanupExpired, todo, proof, view, reported,
                       crashes>>
    BY DEF Post, durable, clock, local, label
  <1>7. TypeOK'
    BY <1>2, <1>3, <1>5, <1>6 DEF Goto, BridgeInv, TypeOK
  <1>8. LocksHold'
    BY <1>2, <1>3, <1>6, LocksKept DEF Goto, BridgeInv, LocksHold
  <1>9. ASSUME NEW r \in Revision
        PROVE  (CoreSane(r) /\ Linked(r, binding[r]) /\ Backed(r, binding[r]))'
    <2>1. CoreSane(r) /\ Linked(r, binding[r]) /\ Backed(r, binding[r])
      BY DEF BridgeInv
    <2>2. posted[r] \subseteq posted'[r]
      BY <1>5
    <2>3. CoreSane(r)' /\ Backed(r, binding[r])'
      BY <1>6, <2>1, <2>2 DEF CoreSane, Backed
    <2>4. CASE r # mine
      BY <1>5, <1>6, <2>1, <2>3, <2>4 DEF Linked, InFlight
    <2>5. CASE r = mine
      <3>1. "start" \in posted'[r] => binding[r].startSaved
        BY <1>4, <1>5, <2>1, <2>5 DEF Linked
      <3>2. ~binding[r].cleanupRequired => ~InFlight(r)'
        BY <1>2, <1>4, <1>5, <1>6, <2>1, <2>5 DEF Linked, InFlight
      <3>3. Linked(r, binding[r])'
        BY <1>4, <1>6, <2>1, <2>5, <3>1, <3>2 DEF Linked
      <3> QED
        BY <2>3, <3>3
    <2> QED
      BY <2>4, <2>5
  <1>10. ASSUME NEW g \in Helper
         PROVE  (Placed(pc[g], Mine(g)) /\ Seen(g))'
    <2>1. /\ Placed(pc[g], Mine(g)) /\ Seen(g)
          /\ pc'[g] = IF g = h THEN label ELSE pc[g]
      BY <1>6 DEF BridgeInv, TypeOK, Goto
    <2>2. Mine(g)' = Mine(g) /\ Seen(g)'
      BY <1>2, <1>6, <2>1 DEF Mine, Seen, Closed
    <2>3. Placed(label, Mine(h))
      BY <1>2, <1>4 DEF Placed, Mine
    <2>4. CASE g = h
      BY <2>1, <2>2, <2>3, <2>4
    <2>5. CASE g # h
      BY <2>1, <2>2, <2>5
    <2> QED
      BY <2>4, <2>5
  <1> QED
    BY <1>7, <1>8, <1>9, <1>10 DEF BridgeInv

LEMMA ExchangeKeeps ==
    ASSUME BridgeInv, NEW h \in Helper, Exchange(h)
    PROVE  BridgeInv'
  <1> DEFINE r == RevisionOf[h]
  <1>0. /\ {"late", "loop", "instance", "run", "answerCreate", "answerStart",
            "answerCancel"} \subseteq ObserverLabels
        /\ ObserverLabels \subseteq Labels
    BY DEF ObserverLabels, Labels
  <1>1. ASSUME NEW op \in Requests, Post(h, op)
        PROVE  BridgeInv'
    BY <1>1, PostKeeps
  <1>2. CASE Answer(h)
    <2>1. pc[h] \in ObserverLabels
      BY <1>0, <1>2 DEF Answer
    <2>2. PICK bound \in {WithCreate(Mine(h), created[r]),
                          WithStart(Mine(h), started[r]),
                          WithCancel(Mine(h), cancelled[r])} :
             Save(h, bound) /\ Replaces(r, bound, Mine(h))
      BY <1>2, <2>1, MineReplaced DEF Answer
    <2>3. Placed("late", bound)
      BY <2>2 DEF Replaces, Placed
    <2> QED
      BY <1>0, <1>2, <2>1, <2>2, <2>3, ObserverSaves DEF Answer
  <1>3. CASE NoAnswer(h) \/ Again(h)
    <2>1. pc[h] \in ObserverLabels
      BY <1>0, <1>3 DEF NoAnswer, Again, Asking
    <2>2. Bound(r) /\ ObserverLockFree(h)
      BY <2>1, Known DEF Bound, BridgeInv, LocksHold
    <2> QED
      BY <1>0, <1>3, <2>2, LocalGoto
      DEF NoAnswer, Again, durable, local, BridgeInv, TypeOK
  <1>4. CASE UnreadableAnswer(h) \/ CleanupOver(h)
    <2>1. pc[h] \in ObserverLabels
      BY <1>0, <1>4 DEF UnreadableAnswer, CleanupOver, Asking
    <2>2. Replaces(r, Uncertain(Mine(h)), Mine(h))
      BY <2>1, MineReplaced
    <2>3. /\ Save(h, Uncertain(Mine(h))) /\ Return(h, "uncertain")
          /\ UNCHANGED <<root, files, core, clock, crashes>>
      BY <1>4 DEF UnreadableAnswer, CleanupOver
    <2> QED
      BY <2>1, <2>2, <2>3, ObserverReturns
  <1> QED
    BY <1>1, <1>2, <1>3, <1>4 DEF Exchange

LEMMA CrashKeeps ==
    ASSUME BridgeInv, NEW h \in Helper, Crash(h)
    PROVE  BridgeInv'
  <1>1. crashes' \in 0..MaxCrashes
    BY BridgeAssumption DEF Crash, BridgeInv, TypeOK
  <1> QED
    BY <1>1, LocalForget DEF Crash

-----------------------------------------------------------------------------
(* The invariant and the theorems *)

LEMMA InitiallyHolds == Init => BridgeInv
  <1> SUFFICES ASSUME Init PROVE BridgeInv
    OBVIOUS
  <1>1. NoView \in Views /\ NoBinding \in Bindings /\ ~Closed(NoView)
    BY DEF NoView, Views, RunStatus, NoBinding, Bindings, Phases,
           CreateReceipts, Receipts, Closed, TerminalStatus
  <1>2. NoProof \in [Revision -> Bindings] /\ "idle" \in Labels
    BY <1>1 DEF NoProof, Labels
  <1>3. TypeOK
    BY <1>1, <1>2, BridgeAssumption DEF Init, TypeOK, CreateReceipts, Receipts
  <1>4. LocksHold
    BY DEF Init, LocksHold, ObserverLabels
  <1>5. ASSUME NEW r \in Revision
        PROVE  CoreSane(r) /\ Linked(r, binding[r]) /\ Backed(r, binding[r])
    BY DEF Init, NoProof, NoBinding, CoreSane, Linked, InFlight, Backed
  <1>6. ASSUME NEW h \in Helper
        PROVE  Placed(pc[h], Mine(h)) /\ Seen(h)
    BY <1>1 DEF Init, Placed, Seen, ObserverLabels
  <1> QED
    BY <1>3, <1>4, <1>5, <1>6 DEF BridgeInv

LEMMA StepKeeps == BridgeInv /\ [Next]_vars => BridgeInv'
  <1> SUFFICES ASSUME BridgeInv, [Next]_vars PROVE BridgeInv'
    OBVIOUS
  <1>1. ASSUME NEW h \in Helper, Begin(h) \/ HelperStep(h) \/ Crash(h)
        PROVE  BridgeInv'
    <2>1. CASE Begin(h)
      BY <2>1, BeginKeeps
    <2>2. CASE Reserve(h)
      BY <2>2, ReserveKeeps, SaveBindingKeeps
    <2>3. CASE Busy(h) \/ TakeLock(h) \/ Copy(h)
      BY <2>3, CopyKeeps
    <2>4. CASE Look(h)
      BY <2>4, LookKeeps
    <2>5. CASE Decide(h)
      BY <2>5, SettleKeeps, GiveUpKeeps, GoOnKeeps DEF Decide
    <2>6. CASE Exchange(h)
      BY <2>6, ExchangeKeeps
    <2>7. CASE Crash(h)
      BY <2>7, CrashKeeps
    <2> QED
      BY <1>1, <2>1, <2>2, <2>3, <2>4, <2>5, <2>6, <2>7 DEF HelperStep
  <1>2. ASSUME NEW r \in Revision, CoreStep(r) \/ WaitExpires(r) \/ CleanupExpires(r)
        PROVE  BridgeInv'
    BY <1>2, CoreCreatesKeeps, CoreStartsKeeps, CoreCancelsKeeps, RunMovesKeeps,
       ClockKeeps DEF CoreStep
  <1>3. CASE UNCHANGED vars
    BY <1>3, StutterKeeps
  <1> QED
    BY <1>1, <1>2, <1>3 DEF Next

\* The strengthening of all the properties below is an invariant.
THEOREM BridgeInvariant == Spec => []BridgeInv
  BY InitiallyHolds, StepKeeps, PTL DEF Spec

\* The variables keep their types: every record the helpers save is one that
\* validate_record admits (paperclip_bridge.py), whatever was lost or died.
THEOREM TypeCorrect == Spec => []TypeOK
  <1>1. BridgeInv => TypeOK
    BY DEF BridgeInv
  <1> QED
    BY <1>1, BridgeInvariant, PTL

\* A binding drops cleanup_required only when no request of it is on its way
\* to Core and no run of it is live or has a live writer.
THEOREM ObligationMet == Spec => []ObligationKept
  <1>1. BridgeInv => ObligationKept
    BY DEF BridgeInv, Linked, ObligationKept
  <1> QED
    BY <1>1, BridgeInvariant, PTL

\* A final result a helper reported is what Core says of the run for ever, or
\* a cancellation of a revision whose start never reached Core.
THEOREM ResultsTrue == Spec => []ResultIsTrue
  <1>1. BridgeInv => ResultIsTrue
    <2> SUFFICES ASSUME BridgeInv, NEW r \in Revision,
                        NEW result \in reported[r] \ {"invalid_binding"}
                 PROVE  \/ run[r] = [status |-> result, stopped |-> TRUE]
                        \/ result = "cancelled" /\ "start" \notin posted[r]
      BY DEF ResultIsTrue
    <2>1. Backed(r, binding[r]) /\ Linked(r, binding[r])
      BY DEF BridgeInv
    <2> QED
      BY <2>1 DEF Backed, Linked
  <1> QED
    BY <1>1, BridgeInvariant, PTL

\* Only Post makes a request arrive, and it posts a start only for a binding
\* that had no intent when the start was saved.
LEMMA StartArrives ==
    ASSUME BridgeInv, Next, NEW r \in Revision, binding[r].intent,
           "start" \in posted'[r]
    PROVE  "start" \in posted[r]
  <1>1. ASSUME NEW h \in Helper, NEW op \in Requests, Post(h, op)
        PROVE  "start" \in posted[r]
    <2>1. Placed(pc[h], Mine(h)) /\ RevisionOf[h] \in Revision
      BY Known
    <2>2. CASE RevisionOf[h] = r /\ op = "start"
      <3>1. pc[h] = "postStart"
        BY <1>1, <2>2 DEF Post, PostLabel
      <3> QED
        BY <2>1, <2>2, <3>1 DEF Placed, Mine
    <2>3. CASE ~(RevisionOf[h] = r /\ op = "start")
      <3>1. posted'[r] \subseteq posted[r] \union (Requests \ {"start"})
        BY <1>1, <2>1, <2>3 DEF Post, BridgeInv, TypeOK
      <3> QED
        BY <3>1
    <2> QED
      BY <2>2, <2>3
  <1>2. ASSUME NEW h \in Helper, Begin(h) \/ Reserve(h) \/ Crash(h)
        PROVE  posted' = posted
    BY <1>2
    DEF Begin, Reserve, List, PriorUnreadable, PriorIrrelevant, LoadPrior,
        ReadPrior, PriorsProved, Attach, Recheck, MakeRoot, SaveBinding, Crash,
        core
  <1>3. ASSUME NEW h \in Helper, Busy(h) \/ TakeLock(h) \/ Copy(h) \/ Look(h)
        PROVE  posted' = posted
    BY <1>3
    DEF Busy, TakeLock, Copy, CopyNotOwned, CopyFiles, CopyFails, CopyPrepared,
        CopyKept, Look, Intend, InTime, RefreshNothing, ReadInstance, ReadRun,
        core
  <1>4. ASSUME NEW h \in Helper, Decide(h)
        PROVE  posted' = posted
    BY <1>4
    DEF Decide, Settle, RefsValid, RefsInvalid, Attend, Refuse, PreventCreate,
        Create, PreventStart, Start, ObserveStart, Cancel, Wait, core
  <1>5. ASSUME NEW h \in Helper, Exchange(h)
        PROVE  posted' = posted \/ \E op \in Requests : Post(h, op)
    BY <1>5
    DEF Exchange, Answer, NoAnswer, UnreadableAnswer, CleanupOver, Again, core
  <1>6. ASSUME NEW q \in Revision, CoreStep(q) \/ WaitExpires(q) \/ CleanupExpires(q)
        PROVE  posted' = posted
    BY <1>6
    DEF CoreStep, CoreCreates, CoreStarts, CoreCancels, RunMoves, WaitExpires,
        CleanupExpires, core
  <1> QED
    BY <1>1, <1>2, <1>3, <1>4, <1>5, <1>6 DEF Next, HelperStep

\* Once the intent to cancel is saved, no start that had not reached Core by
\* then ever does, whichever helpers die, are run again or run at once.
THEOREM IntentWins == Spec => IntentPreventsStart
  <1>1. BridgeInv /\ [Next]_vars =>
           [\A r \in Revision :
               binding[r].intent /\ "start" \in posted'[r] => "start" \in posted[r]
           ]_<<posted, binding>>
    BY StartArrives DEF vars
  <1> QED
    BY <1>1, BridgeInvariant, PTL DEF Spec, IntentPreventsStart


-----------------------------------------------------------------------------
(* What is over stays over: the invariant behind IssueSpec *)

\* A record of which nothing more is to come, whatever its run shows.
Dropped(bound) ==
    \/ "refused" \in {bound.create, bound.start}
    \/ /\ bound.intent /\ ~bound.startSaved
       /\ bound.create = "applied" \/ bound.phase \in {"prepared", "terminal"}

\* A record that lets a new revision start without a look at the run.
SettledRecord(bound) == bound.phase = "terminal" /\ ~bound.cleanupRequired

\* What a binding of revision r says of its end is so.
EndsTruly(r, bound) ==
    /\ SettledRecord(bound) => Closed(run[r]) \/ Dropped(bound)
    /\ bound.create = "retryable" => bound.cleanupRequired
    /\ bound.cancelSaved => RunKnown(bound)
    /\ bound.cancel # "none" => bound.cancelSaved

\* What an observer at a place knows of the requests of its binding.
Asked(label, bound) ==
    /\ label \in {"postCreate", "answerCreate"} =>
          bound.phase = "creating" /\ bound.cleanupRequired
    /\ label = "late" =>
          bound.create = "applied" \/ bound.phase \notin {"prepared", "terminal"}
    /\ label = "run" => RunKnown(bound)
    /\ label \in {"postStart", "answerStart"} => bound.startSaved
    /\ label \in {"postCancel", "answerCancel"} => bound.cancelSaved

\* What a helper proved of older revisions stands, or will be found changed.
PriorsOver(h) ==
    /\ pc[h] \in {"idle", "list"} => proof[h] = NoProof
    /\ pc[h] = "check" =>
          /\ Proved(h) \subseteq Related(RevisionOf[h])
          /\ \A q \in Proved(h) : ~proof[h][q].cleanupRequired
    /\ pc[h] \in {"check", "recheck"} =>
          \A q \in Proved(h) \ todo[h] :
              Closed(run[q]) \/ SettledRecord(proof[h][q])
    /\ pc[h] = "recheck" => todo[h] = {}
    /\ pc[h] \in {"mkdir", "saveBinding"} =>
          \A q \in Related(RevisionOf[h]) : Over(q)

IssueInv ==
    /\ BridgeInv
    /\ \A r \in Revision : EndsTruly(r, binding[r])
    /\ \A h \in Helper :
          /\ Asked(pc[h], Mine(h))
          /\ view[h] # NoView => RunKnown(Mine(h))
          /\ PriorsOver(h)

LEMMA OverMeans ==
    ASSUME NEW r
    PROVE  Over(r) <=> Closed(run[r]) \/ Dropped(binding[r])
  BY DEF Over, Closed, Dropped

\* A start that Core or the binding knows of was saved, after the instance.
LEMMA StartFollows ==
    ASSUME NEW r, NEW bound, CoreSane(r), Linked(r, bound)
    PROVE  /\ run[r] # NoView \/ RunKnown(bound) \/ bound.start # "none" =>
                 bound.startSaved
           /\ Closed(run[r]) => run[r] # NoView
           /\ bound.startSaved => bound.create = "applied"
  BY DEF CoreSane, Linked, RunKnown, Closed, NoView, TerminalStatus

\* What new, saved over old, may change of the end of revision r.
GoesOn(r, new, old) ==
    /\ new.phase # "absent"
    /\ Closed(run[r]) \/ Dropped(old) => Closed(run[r]) \/ Dropped(new)
    /\ RunKnown(old) => RunKnown(new)
    /\ EndsTruly(r, new)

LEMMA UpdatesGoOn ==
    ASSUME NEW r \in Revision, NEW bound \in Bindings, bound.phase # "absent",
           CoreSane(r), Linked(r, bound), EndsTruly(r, bound)
    PROVE  /\ GoesOn(r, bound, bound) /\ GoesOn(r, WithCopy(bound), bound)
           /\ GoesOn(r, WithIntent(bound), bound)
           /\ \A seen : GoesOn(r, WithObservation(bound, seen), bound)
           /\ bound.startSaved /\ started[r] # "none" =>
                 GoesOn(r, WithStart(bound, started[r]), bound)
           /\ bound.cancelSaved =>
                 \A receipt : GoesOn(r, WithCancel(bound, receipt), bound)
           /\ (\/ bound.create = "applied" \/ Closed(run[r])
               \/ bound.phase \notin {"prepared", "terminal"}) =>
                 GoesOn(r, Uncertain(bound), bound)
  <1> USE DEF GoesOn, EndsTruly, SettledRecord, Dropped, RunKnown, Bindings
  <1>1. GoesOn(r, bound, bound) /\ GoesOn(r, WithCopy(bound), bound)
    BY DEF WithCopy
  <1>2. GoesOn(r, WithIntent(bound), bound)
    BY DEF WithIntent
  <1>3. \A seen : GoesOn(r, WithObservation(bound, seen), bound)
    BY DEF WithObservation
  <1>4. ASSUME bound.startSaved, started[r] # "none"
        PROVE  GoesOn(r, WithStart(bound, started[r]), bound)
    BY <1>4 DEF WithStart, Linked
  <1>5. ASSUME bound.cancelSaved, NEW receipt
        PROVE  GoesOn(r, WithCancel(bound, receipt), bound)
    BY <1>5 DEF WithCancel
  <1>6. ASSUME \/ bound.create = "applied" \/ Closed(run[r])
               \/ bound.phase \notin {"prepared", "terminal"}
        PROVE  GoesOn(r, Uncertain(bound), bound)
    BY <1>6 DEF Uncertain, WithPhase
  <1> QED BY <1>1, <1>2, <1>3, <1>4, <1>5, <1>6

\* A helper writes its own binding only, and Core's run moves without it.
OwnStep(h) ==
    /\ run' = run
    /\ \A q \in Revision \ {RevisionOf[h]} : binding'[q] = binding[q]
    /\ \A g \in Helper \ {h} :
          /\ pc'[g] = pc[g] /\ view'[g] = view[g]
          /\ todo'[g] = todo[g] /\ proof'[g] = proof[g]

LEMMA HelperOwns ==
    ASSUME TypeOK, NEW h \in Helper, Begin(h) \/ HelperStep(h) \/ Crash(h)
    PROVE  OwnStep(h)
  <1> USE DEF OwnStep, TypeOK, Goto, Save, Forget, Return, core, durable, local
  <1>1. CASE Begin(h) \/ Crash(h) \/ Busy(h) \/ TakeLock(h)
    BY <1>1 DEF Begin, Crash, Busy, TakeLock
  <1>2. ASSUME NEW r \in Revision,
               \/ PriorUnreadable(h, r) \/ PriorIrrelevant(h, r)
               \/ LoadPrior(h, r) \/ ReadPrior(h, r)
        PROVE  OwnStep(h)
    <2>1. CASE PriorUnreadable(h, r) \/ PriorIrrelevant(h, r)
      BY <2>1 DEF PriorUnreadable, PriorIrrelevant
    <2>2. CASE LoadPrior(h, r)
      BY <2>2 DEF LoadPrior
    <2>3. CASE ReadPrior(h, r)
      BY <2>3 DEF ReadPrior
    <2> QED BY <1>2, <2>1, <2>2, <2>3
  <1>3. CASE \/ List(h) \/ PriorsProved(h) \/ Attach(h) \/ Recheck(h)
             \/ MakeRoot(h) \/ SaveBinding(h)
    BY <1>3 DEF List, PriorsProved, Attach, Recheck, MakeRoot, SaveBinding
  <1>4. CASE Copy(h)
    BY <1>4
    DEF Copy, CopyNotOwned, CopyFiles, CopyFails, CopyPrepared, CopyKept
  <1>5. CASE Look(h)
    BY <1>5 DEF Look, Intend, InTime, RefreshNothing, ReadInstance, ReadRun
  <1>6. CASE \/ Settle(h) \/ RefsValid(h) \/ RefsInvalid(h) \/ Attend(h)
             \/ Refuse(h) \/ PreventCreate(h) \/ PreventStart(h)
    BY <1>6
    DEF Settle, RefsValid, RefsInvalid, Attend, Refuse, PreventCreate,
        PreventStart
  <1>7. CASE \/ Create(h) \/ Start(h) \/ ObserveStart(h) \/ Cancel(h)
             \/ Wait(h)
    BY <1>7 DEF Create, Start, ObserveStart, Cancel, Wait
  <1>8. CASE Exchange(h)
    BY <1>8
    DEF Exchange, Post, Answer, NoAnswer, UnreadableAnswer, CleanupOver, Again
  <1> QED
    BY <1>1, <1>2, <1>3, <1>4, <1>5, <1>6, <1>7, <1>8
    DEF HelperStep, Reserve, Decide

\* A step of h under its observer lock, to the binding it then has.
ObservedStep(h) ==
    /\ OwnStep(h)
    /\ pc[h] \in ObserverLabels /\ pc'[h] \in ObserverLabels \union {"idle"}
    /\ pc'[h] = "idle" => proof'[h] = NoProof
    /\ GoesOn(RevisionOf[h], Mine(h)', Mine(h))
    /\ Asked(pc'[h], Mine(h)')
    /\ view'[h] # NoView => RunKnown(Mine(h)')

\* What is over stays over, and no binding comes or goes.
OverKept == \A q \in Revision : (Bound(q)' <=> Bound(q)) /\ (Over(q) => Over(q)')

LEMMA OverStays ==
    ASSUME BridgeInv, NEW h \in Helper, OwnStep(h),
           GoesOn(RevisionOf[h], Mine(h)', Mine(h))
    PROVE  \A q \in Revision : Over(q) => Over(q)'
  BY Known, OverMeans DEF OwnStep, GoesOn, Mine, Over, Dropped, Closed

\* The binding of nobody else is in hand while an observer holds its own.
LEMMA ObservedKeeps ==
    ASSUME IssueInv, BridgeInv', NEW h \in Helper, ObservedStep(h)
    PROVE  IssueInv' /\ OverKept
  <1> DEFINE mine == RevisionOf[h]
  <1>0. /\ mine \in Revision /\ OwnStep(h)
        /\ GoesOn(mine, binding'[mine], binding[mine])
    BY BridgeAssumption DEF ObservedStep, Mine
  <1>1. OverKept
    <2>1. Bound(mine) /\ Bound(mine)'
      BY <1>0, Known DEF IssueInv, ObservedStep, GoesOn, Bound, Mine
    <2>2. \A q \in Revision : Over(q) => Over(q)'
      BY <1>0, OverStays DEF ObservedStep, IssueInv
    <2> QED BY <1>0, <2>1, <2>2 DEF OwnStep, Bound, OverKept
  <1>2. ASSUME NEW r \in Revision
        PROVE  EndsTruly(r, binding[r])'
    <2>1. CASE r = mine
      BY <1>0, <2>1 DEF GoesOn, EndsTruly, OwnStep
    <2>2. CASE r # mine
      BY <1>0, <2>2 DEF IssueInv, EndsTruly, OwnStep
    <2> QED BY <2>1, <2>2
  <1>3. ASSUME NEW g \in Helper
        PROVE  Asked(pc[g], Mine(g))' /\ (view[g] # NoView => RunKnown(Mine(g)))'
    <2>1. CASE g = h
      BY <2>1 DEF ObservedStep
    <2>2. CASE g # h /\ RevisionOf[g] = mine
      <3>1. pc[g] \notin ObserverLabels /\ pc'[g] = pc[g] /\ view'[g] = view[g]
        BY <1>0, <2>2
        DEF IssueInv, BridgeInv, LocksHold, ObserverLockFree, ObservedStep,
            OwnStep
      <3>2. Asked(pc'[g], Mine(g)')
        BY <3>1 DEF Asked, ObserverLabels
      <3>3. view[g] # NoView => RunKnown(Mine(g))
        BY DEF IssueInv
      <3> QED BY <1>0, <2>2, <3>1, <3>2, <3>3 DEF GoesOn, Mine
    <2>3. CASE g # h /\ RevisionOf[g] # mine
      <3>1. Mine(g)' = Mine(g) /\ pc'[g] = pc[g] /\ view'[g] = view[g]
        BY <1>0, <2>3, Known DEF OwnStep, Mine, IssueInv
      <3>2. Asked(pc[g], Mine(g)) /\ (view[g] # NoView => RunKnown(Mine(g)))
        BY DEF IssueInv
      <3> QED BY <3>1, <3>2
    <2> QED BY <2>1, <2>2, <2>3
  <1>4. ASSUME NEW g \in Helper
        PROVE  PriorsOver(g)'
    <2>1. CASE g = h
      <3>1. /\ pc'[h] \notin {"list", "check", "recheck", "mkdir", "saveBinding"}
            /\ pc'[h] = "idle" => proof'[h] = NoProof
        BY DEF ObservedStep, ObserverLabels
      <3> QED BY <2>1, <3>1 DEF PriorsOver
    <2>2. CASE g # h
      <3>1. /\ pc'[g] = pc[g] /\ todo'[g] = todo[g] /\ proof'[g] = proof[g]
            /\ run' = run /\ PriorsOver(g) /\ RevisionOf[g] \in Revision
        BY <1>0, <2>2, Known DEF OwnStep, IssueInv
      <3>2. \A q \in Revision : Over(q) => Over(q)'
        BY <1>0, OverStays DEF ObservedStep, IssueInv
      <3>3. \A q \in Revision : Bound(q)' <=> Bound(q)
        BY <1>1 DEF OverKept
      <3>4. Related(RevisionOf[g])' = Related(RevisionOf[g])
        BY <3>3 DEF Related
      <3> HIDE DEF mine
      <3> QED BY <3>1, <3>2, <3>4 DEF PriorsOver, Proved, Related
    <2> QED BY <2>1, <2>2
  <1> QED BY <1>2, <1>3, <1>4, <1>1 DEF IssueInv

-----------------------------------------------------------------------------
(* The observer's actions *)

LEMMA InHand ==
    ASSUME IssueInv, NEW h \in Helper, pc[h] \in ObserverLabels
    PROVE  LET r == RevisionOf[h]
               bound == Mine(h)
           IN /\ BridgeInv /\ r \in Revision
              /\ bound \in Bindings /\ bound.phase # "absent"
              /\ CoreSane(r) /\ Linked(r, bound) /\ EndsTruly(r, bound)
              /\ Placed(pc[h], bound) /\ Seen(h) /\ Asked(pc[h], bound)
              /\ view[h] # NoView => RunKnown(bound)
              /\ Closed(run[r]) => RunKnown(bound) \/ bound.create = "applied"
              /\ RunKnown(bound) => bound.startSaved
              /\ bound.startSaved => bound.create = "applied"
  BY Known, StartFollows DEF IssueInv, Mine

\* A step under the lock that leaves the binding alone.
LEMMA ObservesOn ==
    ASSUME IssueInv, BridgeInv', NEW h \in Helper, OwnStep(h),
           pc[h] \in ObserverLabels, binding' = binding,
           NEW label \in ObserverLabels, Goto(h, label),
           view' = view \/ view' = [view EXCEPT ![h] = NoView],
           Asked(label, Mine(h))
    PROVE  IssueInv' /\ OverKept
  <1>1. /\ pc'[h] = label /\ label # "idle"
        /\ view'[h] \in {view[h], NoView} /\ Mine(h)' = Mine(h)
    BY DEF IssueInv, BridgeInv, TypeOK, Goto, Mine, ObserverLabels
  <1>2. GoesOn(RevisionOf[h], Mine(h), Mine(h))
    BY InHand, UpdatesGoOn
  <1> QED BY <1>1, <1>2, InHand, ObservedKeeps DEF ObservedStep

\* A step under the lock that saves bound and goes on at label.
LEMMA ObservesSaving ==
    ASSUME IssueInv, BridgeInv', NEW h \in Helper, OwnStep(h),
           pc[h] \in ObserverLabels, NEW bound, Save(h, bound),
           NEW label \in ObserverLabels, Goto(h, label),
           view'[h] # NoView => RunKnown(bound),
           GoesOn(RevisionOf[h], bound, Mine(h)), Asked(label, bound)
    PROVE  IssueInv' /\ OverKept
  <1>1. /\ pc'[h] = label /\ label # "idle" /\ Mine(h)' = bound
    BY InHand DEF IssueInv, BridgeInv, TypeOK, Goto, Save, Mine, ObserverLabels
  <1> QED BY <1>1, ObservedKeeps DEF ObservedStep

\* A step under the lock that saves bound and returns.
LEMMA ObservesLast ==
    ASSUME IssueInv, BridgeInv', NEW h \in Helper, OwnStep(h),
           pc[h] \in ObserverLabels, NEW bound, Save(h, bound),
           Forget(h), GoesOn(RevisionOf[h], bound, Mine(h))
    PROVE  IssueInv' /\ OverKept
  <1>1. /\ pc'[h] = "idle" /\ Mine(h)' = bound
        /\ view'[h] = NoView /\ proof'[h] = NoProof
    BY InHand DEF IssueInv, BridgeInv, TypeOK, Goto, Forget, Save, Mine
  <1>2. Asked("idle", bound)
    BY DEF Asked
  <1> QED BY <1>1, <1>2, ObservedKeeps DEF ObservedStep

\* A step under the lock that only returns.
LEMMA ObservesReturn ==
    ASSUME IssueInv, BridgeInv', NEW h \in Helper, OwnStep(h),
           pc[h] \in ObserverLabels, binding' = binding, Forget(h)
    PROVE  IssueInv' /\ OverKept
  <1>1. Save(h, Mine(h))
    BY InHand DEF Save, Mine, BridgeInv, TypeOK
  <1>2. GoesOn(RevisionOf[h], Mine(h), Mine(h))
    BY InHand, UpdatesGoOn
  <1> QED BY <1>1, <1>2, ObservesLast

LEMMA CopyIssue ==
    ASSUME IssueInv, BridgeInv', NEW h \in Helper, OwnStep(h), Copy(h)
    PROVE  IssueInv' /\ OverKept
  <1> USE DEF durable, local
  <1>1. /\ {"copy", "copying", "loop"} \subseteq ObserverLabels
        /\ \A bound : \A label \in {"copying", "loop"} : Asked(label, bound)
    BY DEF ObserverLabels, Asked
  <1>2. pc[h] \in ObserverLabels
    BY <1>1
    DEF Copy, CopyNotOwned, CopyFiles, CopyFails, CopyPrepared, CopyKept
  <1>3. /\ GoesOn(RevisionOf[h], Mine(h), Mine(h))
        /\ GoesOn(RevisionOf[h], WithCopy(Mine(h)), Mine(h))
    BY <1>2, InHand, UpdatesGoOn
  <1>4. CASE CopyNotOwned(h) \/ CopyFails(h)
    BY <1>2, <1>4, ObservesReturn DEF CopyNotOwned, CopyFails, Return
  <1>5. CASE CopyFiles(h)
    BY <1>1, <1>2, <1>5, ObservesOn DEF CopyFiles
  <1>6. CASE CopyKept(h)
    BY <1>1, <1>2, <1>6, ObservesOn DEF CopyKept
  <1>7. CASE CopyPrepared(h)
    <2>1. view'[h] # NoView => RunKnown(WithCopy(Mine(h)))
      BY <1>2, <1>7, InHand DEF CopyPrepared, WithCopy, RunKnown, Bindings
    <2> QED BY <1>1, <1>2, <1>3, <1>7, <2>1, ObservesSaving DEF CopyPrepared
  <1> QED BY <1>4, <1>5, <1>6, <1>7 DEF Copy

LEMMA LookIssue ==
    ASSUME IssueInv, BridgeInv', NEW h \in Helper, OwnStep(h), Look(h)
    PROVE  IssueInv' /\ OverKept
  <1> DEFINE r == RevisionOf[h]
             old == Mine(h)
  <1> USE DEF durable, local
  <1>1. /\ {"loop", "instance", "run", "decide"} \subseteq ObserverLabels
        /\ \A bound : \A label \in {"instance", "decide"} : Asked(label, bound)
        /\ \A bound : RunKnown(bound) => Asked("run", bound)
    BY DEF ObserverLabels, Asked
  <1>2. pc[h] \in ObserverLabels
    BY <1>1
    DEF Look, Intend, InTime, RefreshNothing, ReadInstance, ReadRun
  <1>3. /\ r \in Revision /\ old \in Bindings /\ old.phase # "absent"
        /\ CoreSane(r) /\ Linked(r, old) /\ EndsTruly(r, old)
        /\ Asked(pc[h], old)
    BY <1>2, InHand
  <1>4. CASE Intend(h)
    <2>1. GoesOn(r, WithIntent(old), old)
      BY <1>3, UpdatesGoOn
    <2>2. view'[h] = NoView
      BY <1>4 DEF Intend, IssueInv, BridgeInv, TypeOK
    <2> QED BY <1>1, <1>2, <1>4, <2>1, <2>2, ObservesSaving DEF Intend
  <1>5. CASE InTime(h) \/ RefreshNothing(h)
    BY <1>1, <1>2, <1>5, ObservesOn DEF InTime, RefreshNothing
  <1>6. CASE ReadInstance(h)
    <2> DEFINE shown == WithStartShown(old, r)
               new == WithCancelShown(shown, r)
    <2>1. shown \in Bindings /\ GoesOn(r, shown, old)
      <3>1. started[r] \in Receipts
        BY <1>3 DEF IssueInv, BridgeInv, TypeOK
      <3> QED BY <1>3, <3>1, UpdatesGoOn, UpdatesTyped DEF WithStartShown
    <2>2. /\ CoreSane(r) /\ Linked(r, shown)
      BY <1>3 DEF WithStartShown, WithStart, Linked, Bindings
    <2>3. GoesOn(r, new, shown)
      BY <1>3, <2>1, <2>2, UpdatesGoOn DEF WithCancelShown, GoesOn
    <2>4. GoesOn(r, new, old)
      BY <2>1, <2>3 DEF GoesOn
    <2>5. view[h] # NoView => RunKnown(new)
      BY <1>2, <2>4, InHand DEF GoesOn
    <2>6. Save(h, new) /\ view' = view
      BY <1>6 DEF ReadInstance
    <2>7. PICK label \in {"run", "decide"} :
             Goto(h, label) /\ (label = "run" => RunKnown(new))
      BY <1>6 DEF ReadInstance
    <2> HIDE DEF new, shown
    <2>8. Asked(label, new) /\ label \in ObserverLabels
      BY <1>1, <2>7
    <2> QED BY <1>2, <2>4, <2>5, <2>6, <2>7, <2>8, ObservesSaving DEF r, old
  <1>7. CASE ReadRun(h)
    <2> DEFINE shown == WithCancelShown(old, r)
               new == WithObservation(shown, run[r])
    <2>1. shown \in Bindings /\ GoesOn(r, shown, old)
      <3>1. cancelled[r] \in Receipts
        BY <1>3 DEF IssueInv, BridgeInv, TypeOK
      <3> QED BY <1>3, <3>1, UpdatesGoOn, UpdatesTyped DEF WithCancelShown
    <2>2. Linked(r, shown)
      BY <1>3 DEF WithCancelShown, WithCancel, Linked, Bindings
    <2>3. GoesOn(r, new, shown)
      BY <1>3, <2>1, <2>2, UpdatesGoOn DEF GoesOn
    <2>4. GoesOn(r, new, old)
      BY <2>1, <2>3 DEF GoesOn
    <2>5. RunKnown(old) /\ Save(h, new) /\ Goto(h, "decide")
      BY <1>3, <1>7 DEF ReadRun, Asked
    <2> HIDE DEF new, shown
    <2> QED
      BY <1>1, <1>2, <2>4, <2>5, ObservesSaving DEF GoesOn, r, old
  <1> QED BY <1>4, <1>5, <1>6, <1>7 DEF Look

\* The records an observer leaves when it decides.
LEMMA LastGoOn ==
    ASSUME NEW r \in Revision, NEW bound \in Bindings, bound.phase # "absent",
           CoreSane(r), Linked(r, bound), EndsTruly(r, bound)
    PROVE  /\ Closed(run[r]) => GoesOn(r, Settled(bound), bound)
           /\ RunKnown(bound) =>
                 GoesOn(r, WithPhase(bound, "attention_required"), bound)
           /\ Refused(bound) => GoesOn(r, WithRefusal(bound), bound)
           /\ bound.intent /\ ~bound.startSaved =>
                 GoesOn(r, WithPhase(bound, "terminal"), bound)
           /\ InstanceKnown(bound) /\ ~bound.startSaved =>
                 GoesOn(r, Settled(WithIntent(bound)), bound)
  <1> USE DEF GoesOn, EndsTruly, SettledRecord, Dropped, Bindings
  <1>0. /\ RunKnown(bound) => bound.startSaved
        /\ Closed(run[r]) => bound.create = "applied"
    BY StartFollows
  <1>1. Closed(run[r]) => GoesOn(r, Settled(bound), bound)
    BY <1>0 DEF Settled, RunKnown
  <1>2. RunKnown(bound) =>
           GoesOn(r, WithPhase(bound, "attention_required"), bound)
    BY <1>0 DEF WithPhase, RunKnown
  <1>3. ASSUME Refused(bound) PROVE GoesOn(r, WithRefusal(bound), bound)
    <2> DEFINE new == WithRefusal(bound)
    <2>1. /\ new.create = bound.create /\ new.start = bound.start
          /\ new.startSaved = bound.startSaved /\ new.intent = bound.intent
          /\ new.cancelSaved = bound.cancelSaved
          /\ new.cancel = bound.cancel
          /\ new.phase = IF RunKnown(bound) THEN "cleanup_required"
                         ELSE "terminal"
          /\ new.cleanupRequired = IF NoTargetRefusal(bound) THEN FALSE
                                   ELSE bound.cleanupRequired
      BY DEF WithRefusal
    <2> HIDE DEF new
    <2>2. Closed(run[r]) \/ Dropped(bound) => Closed(run[r]) \/ Dropped(new)
      BY <1>0, <2>1
    <2>3. SettledRecord(new) => Dropped(new)
      BY <1>3, <2>1 DEF Refused, RunKnown, NoTargetRefusal
    <2> QED
      BY <2>1, <2>2, <2>3 DEF new, RunKnown, NoTargetRefusal
  <1>4. bound.intent /\ ~bound.startSaved =>
           GoesOn(r, WithPhase(bound, "terminal"), bound)
    BY DEF WithPhase, RunKnown
  <1>5. InstanceKnown(bound) /\ ~bound.startSaved =>
           GoesOn(r, Settled(WithIntent(bound)), bound)
    BY DEF Settled, WithIntent, RunKnown, InstanceKnown
  <1> QED BY <1>1, <1>2, <1>3, <1>4, <1>5

LEMMA DecideIssue ==
    ASSUME IssueInv, BridgeInv', NEW h \in Helper, OwnStep(h),
           \/ Settle(h) \/ RefsValid(h) \/ RefsInvalid(h) \/ Attend(h)
           \/ Refuse(h) \/ PreventCreate(h) \/ PreventStart(h)
    PROVE  IssueInv' /\ OverKept
  <1> DEFINE r == RevisionOf[h]
             old == Mine(h)
  <1> USE DEF durable, Return
  <1>1. {"refs", "decide"} \subseteq ObserverLabels
    BY DEF ObserverLabels
  <1>2. pc[h] \in ObserverLabels
    BY <1>1
    DEF Settle, RefsValid, RefsInvalid, Attend, Refuse, PreventCreate,
        PreventStart, Open, Progress, StartUnasked
  <1>3. /\ r \in Revision /\ old \in Bindings /\ old.phase # "absent"
        /\ CoreSane(r) /\ Linked(r, old) /\ EndsTruly(r, old)
        /\ Seen(h) /\ (view[h] # NoView => RunKnown(old))
        /\ old.startSaved => old.create = "applied"
    BY <1>2, InHand
  <1>4. CASE Settle(h)
    <2>1. Closed(run[r]) /\ RunKnown(old)
      BY <1>3, <1>4
      DEF Settle, Seen, Closed, NoView, TerminalStatus
    <2>2. GoesOn(r, Settled(old), old)
      BY <1>3, <2>1, LastGoOn
    <2>3. CASE Forget(h)
      BY <1>2, <1>4, <2>2, <2>3, ObservesLast DEF Settle
    <2>4. CASE Goto(h, "refs")
      <3>1. Asked("refs", Settled(old)) /\ RunKnown(Settled(old))
        BY <1>3, <2>1 DEF Asked, Settled, RunKnown, Bindings
      <3> QED
        BY <1>1, <1>2, <1>4, <2>2, <2>4, <3>1, ObservesSaving DEF Settle
    <2> QED BY <1>4, <2>3, <2>4 DEF Settle
  <1>5. CASE RefsValid(h)
    BY <1>2, <1>5, ObservesReturn DEF RefsValid
  <1>6. CASE RefsInvalid(h)
    <2>1. Closed(run[r])
      BY <1>3, <1>6 DEF RefsInvalid, Seen, Closed, TerminalStatus
    <2>2. GoesOn(r, Uncertain(old), old)
      BY <1>3, <2>1, UpdatesGoOn
    <2> QED BY <1>2, <1>6, <2>2, ObservesLast DEF RefsInvalid
  <1>7. CASE Attend(h)
    <2>1. RunKnown(old) /\ old.create = "applied"
      BY <1>3, <1>7, StartFollows DEF Attend, Paused, NoView
    <2>2. /\ GoesOn(r, Uncertain(old), old)
          /\ GoesOn(r, WithPhase(old, "attention_required"), old)
      BY <1>3, <2>1, UpdatesGoOn, LastGoOn
    <2> QED BY <1>2, <1>7, <2>2, ObservesLast DEF Attend
  <1>8. CASE Refuse(h)
    <2>1. GoesOn(r, WithRefusal(old), old)
      BY <1>3, <1>8, LastGoOn DEF Refuse
    <2> QED BY <1>2, <1>8, <2>1, ObservesLast DEF Refuse
  <1>9. CASE PreventCreate(h)
    <2>1. GoesOn(r, WithPhase(old, "terminal"), old)
      BY <1>3, <1>9, LastGoOn DEF PreventCreate, InstanceKnown
    <2> QED BY <1>2, <1>9, <2>1, ObservesLast DEF PreventCreate
  <1>10. CASE PreventStart(h)
    <2>1. GoesOn(r, Settled(WithIntent(old)), old)
      BY <1>3, <1>10, LastGoOn DEF PreventStart, StartUnasked
    <2> QED BY <1>2, <1>10, <2>1, ObservesLast DEF PreventStart
  <1> QED BY <1>4, <1>5, <1>6, <1>7, <1>8, <1>9, <1>10

LEMMA SendIssue ==
    ASSUME IssueInv, BridgeInv', NEW h \in Helper, OwnStep(h),
           Create(h) \/ Start(h) \/ ObserveStart(h) \/ Cancel(h) \/ Wait(h)
    PROVE  IssueInv' /\ OverKept
  <1> DEFINE r == RevisionOf[h]
             old == Mine(h)
  <1> USE DEF durable, local
  <1>1. {"decide", "postCreate", "postStart", "answerStart", "postCancel",
         "late"} \subseteq ObserverLabels
    BY DEF ObserverLabels
  <1>2. /\ pc[h] \in ObserverLabels /\ ~Refused(old)
    BY <1>1
    DEF Create, Start, ObserveStart, Cancel, Wait, Open, Progress, StartUnasked
  <1>3. /\ r \in Revision /\ old \in Bindings /\ old.phase # "absent"
        /\ CoreSane(r) /\ Linked(r, old) /\ EndsTruly(r, old)
        /\ view[h] # NoView => RunKnown(old)
        /\ RunKnown(old) => old.startSaved
        /\ old.startSaved => old.create = "applied"
    BY <1>2, InHand
  <1>4. /\ DispatchPhase["create"] = "creating"
        /\ DispatchPhase["start"] = "starting"
        /\ DispatchPhase["cancel"] = "cancel_requested"
    BY DEF DispatchPhase
  <1>5. CASE Create(h)
    <2> DEFINE new == Dispatching(old, "create")
    <2>1. GoesOn(r, new, old) /\ Asked("postCreate", new)
      BY <1>2, <1>3, <1>4, <1>5
      DEF Create, GoesOn, EndsTruly, SettledRecord, Dropped, Dispatching,
          Bindings, Refused, RunKnown, InstanceKnown, NeverDispatched, Asked
    <2> QED
      BY <1>1, <1>2, <1>3, <1>5, <2>1, ObservesSaving DEF Create, GoesOn
  <1>6. CASE Start(h)
    <2> DEFINE new == Dispatching(old, "start")
    <2>1. GoesOn(r, new, old) /\ Asked("postStart", new)
      BY <1>2, <1>3, <1>4, <1>6
      DEF Start, StartUnasked, GoesOn, EndsTruly, SettledRecord, Dropped,
          Dispatching, Bindings, Refused, RunKnown, InstanceKnown, Asked
    <2> QED
      BY <1>1, <1>2, <1>3, <1>6, <2>1, ObservesSaving DEF Start, GoesOn
  <1>7. CASE Cancel(h)
    <2> DEFINE new == Dispatching(old, "cancel")
    <2>1. GoesOn(r, new, old) /\ Asked("postCancel", new)
      BY <1>2, <1>3, <1>4, <1>7
      DEF Cancel, GoesOn, EndsTruly, SettledRecord, Dropped,
          Dispatching, Bindings, Refused, RunKnown, Asked
    <2> QED
      BY <1>1, <1>2, <1>3, <1>7, <2>1, ObservesSaving DEF Cancel, GoesOn
  <1>8. CASE ObserveStart(h)
    <2>1. Asked("answerStart", old)
      BY <1>8 DEF ObserveStart, Asked
    <2> QED BY <1>1, <1>2, <1>8, <2>1, ObservesOn DEF ObserveStart
  <1>9. CASE Wait(h)
    <2>1. Asked("late", old)
      BY <1>3, <1>9 DEF Wait, Asked
    <2> QED BY <1>1, <1>2, <1>9, <2>1, ObservesOn DEF Wait
  <1> QED BY <1>5, <1>6, <1>7, <1>8, <1>9

LEMMA ExchangeIssue ==
    ASSUME IssueInv, BridgeInv', NEW h \in Helper, OwnStep(h), Exchange(h)
    PROVE  IssueInv' /\ OverKept
  <1> DEFINE r == RevisionOf[h]
             old == Mine(h)
  <1> USE DEF durable, local
  <1>1. {"postCreate", "postStart", "postCancel", "instance", "run",
         "answerCreate", "answerStart", "answerCancel", "late", "loop"}
           \subseteq ObserverLabels
    BY DEF ObserverLabels
  <1>2. \A op \in Requests :
           /\ PostLabel[op] \in {"postCreate", "postStart", "postCancel"}
           /\ AnswerLabel[op] \in {"answerCreate", "answerStart",
                                   "answerCancel"}
           /\ \A bound : Asked(PostLabel[op], bound) =>
                            Asked(AnswerLabel[op], bound)
    BY DEF Requests, PostLabel, AnswerLabel, Asked
  <1>3. pc[h] \in ObserverLabels
    BY <1>1, <1>2
    DEF Exchange, Post, Answer, NoAnswer, UnreadableAnswer, Asking,
        CleanupOver, Again
  <1>4. /\ r \in Revision /\ old \in Bindings /\ old.phase # "absent"
        /\ CoreSane(r) /\ Linked(r, old) /\ EndsTruly(r, old)
        /\ Asked(pc[h], old)
        /\ view[h] # NoView => RunKnown(old)
        /\ RunKnown(old) => old.startSaved
        /\ old.startSaved => old.create = "applied"
    BY <1>3, InHand
  <1>5. Asking(h) => old.create = "applied"
                     \/ old.phase \notin {"prepared", "terminal"}
    BY <1>4 DEF Asking, Asked, InstanceKnown, EndsTruly
  <1>6. ASSUME NEW op \in Requests, Post(h, op)
        PROVE  IssueInv' /\ OverKept
    <2>1. Asked(AnswerLabel[op], old) /\ AnswerLabel[op] \in ObserverLabels
      BY <1>1, <1>2, <1>4, <1>6 DEF Post
    <2> QED BY <1>3, <1>6, <2>1, ObservesOn DEF Post
  <1>7. CASE Answer(h)
    <2>1. PICK new :
             /\ Save(h, new)
             /\ \/ /\ pc[h] = "answerCreate" /\ created[r] # "none"
                   /\ new = WithCreate(old, created[r])
                \/ /\ pc[h] = "answerStart" /\ started[r] # "none"
                   /\ new = WithStart(old, started[r])
                \/ pc[h] = "answerCancel" /\ new = WithCancel(old, cancelled[r])
      BY <1>7 DEF Answer
    <2>2. GoesOn(r, new, old) /\ Asked("late", new)
      <3>1. CASE pc[h] = "answerCreate"
        BY <1>4, <2>1, <3>1
        DEF WithCreate, GoesOn, EndsTruly, SettledRecord, Dropped, RunKnown,
            Linked, Asked, Bindings
      <3>2. CASE pc[h] = "answerStart"
        <4>1. old.startSaved /\ new = WithStart(old, started[r])
              /\ started[r] # "none"
          BY <1>4, <2>1, <3>2 DEF Asked
        <4> QED BY <1>4, <4>1, UpdatesGoOn DEF WithStart, Asked, Bindings
      <3>3. CASE pc[h] = "answerCancel"
        <4>1. old.cancelSaved /\ new = WithCancel(old, cancelled[r])
          BY <1>4, <2>1, <3>3 DEF Asked
        <4>2. old.create = "applied"
          BY <1>4, <4>1 DEF EndsTruly
        <4> QED
          BY <1>4, <4>1, <4>2, UpdatesGoOn DEF WithCancel, Asked, Bindings
      <3> QED BY <2>1, <3>1, <3>2, <3>3
    <2> QED
      BY <1>1, <1>3, <1>4, <1>7, <2>1, <2>2, ObservesSaving
      DEF Answer, GoesOn
  <1>8. CASE NoAnswer(h)
    <2>1. Asked("late", old)
      BY <1>5, <1>8 DEF NoAnswer, Asked
    <2> QED BY <1>1, <1>3, <1>8, <2>1, ObservesOn DEF NoAnswer
  <1>9. CASE UnreadableAnswer(h) \/ CleanupOver(h)
    <2>1. \/ old.create = "applied"
          \/ old.phase \notin {"prepared", "terminal"}
      BY <1>4, <1>5, <1>9 DEF UnreadableAnswer, CleanupOver, Asked
    <2>2. GoesOn(r, Uncertain(old), old)
      BY <1>4, <2>1, UpdatesGoOn
    <2> QED
      BY <1>3, <1>9, <2>2, ObservesLast
      DEF UnreadableAnswer, CleanupOver, Return
  <1>10. CASE Again(h)
    <2>1. Asked("loop", old)
      BY DEF Asked
    <2> QED BY <1>1, <1>3, <1>10, <2>1, ObservesOn DEF Again
  <1> QED BY <1>6, <1>7, <1>8, <1>9, <1>10 DEF Exchange

-----------------------------------------------------------------------------
(* The other actions *)

\* A step of h outside its lock that leaves the bindings alone.
LEMMA EarlyKeeps ==
    ASSUME IssueInv, BridgeInv', NEW h \in Helper, OwnStep(h),
           binding' = binding, view'[h] \in {view[h], NoView},
           Asked(pc'[h], Mine(h)), PriorsOver(h)'
    PROVE  IssueInv' /\ OverKept
  <1>1. run' = run
    BY DEF OwnStep
  <1>2. \A r \in Revision : EndsTruly(r, binding[r])'
    BY <1>1 DEF IssueInv, EndsTruly
  <1>3. ASSUME NEW g \in Helper
        PROVE  (/\ Asked(pc[g], Mine(g))
                /\ view[g] # NoView => RunKnown(Mine(g))
                /\ PriorsOver(g))'
    <2>1. /\ Asked(pc[g], Mine(g)) /\ PriorsOver(g)
          /\ view[g] # NoView => RunKnown(Mine(g))
      BY DEF IssueInv
    <2>2. Mine(g)' = Mine(g)
      BY DEF Mine
    <2>3. CASE g = h
      BY <2>1, <2>2, <2>3
    <2>4. CASE g # h
      <3>1. /\ pc'[g] = pc[g] /\ view'[g] = view[g]
            /\ todo'[g] = todo[g] /\ proof'[g] = proof[g]
        BY <2>4 DEF OwnStep
      <3>2. PriorsOver(g)'
        BY <1>1, <2>1, <3>1 DEF PriorsOver, Proved, Related, Bound, Over
      <3> QED BY <2>1, <2>2, <3>1, <3>2
    <2> QED BY <2>3, <2>4
  <1>4. OverKept
    BY <1>1 DEF OverKept, Bound, Over
  <1> QED BY <1>2, <1>3, <1>4 DEF IssueInv

\* A helper that returns or dies has nothing proved.
LEMMA EarlyForgets ==
    ASSUME IssueInv, BridgeInv', NEW h \in Helper, OwnStep(h),
           binding' = binding, Forget(h)
    PROVE  IssueInv' /\ OverKept
  <1>1. pc'[h] = "idle" /\ view'[h] = NoView /\ proof'[h] = NoProof
    BY DEF Forget, Goto, IssueInv, BridgeInv, TypeOK
  <1>2. Asked("idle", Mine(h)) /\ PriorsOver(h)'
    BY <1>1 DEF Asked, PriorsOver
  <1> QED BY <1>1, <1>2, EarlyKeeps

LEMMA ReserveIssue ==
    ASSUME IssueInv, BridgeInv', NEW h \in Helper, OwnStep(h),
           Begin(h) \/ Reserve(h) \/ Busy(h) \/ TakeLock(h) \/ Crash(h),
           ~SaveBinding(h)
    PROVE  IssueInv' /\ OverKept
  <1> USE DEF durable, local, Return
  <1>0. /\ IssueInv => TypeOK /\ PriorsOver(h) /\ run' = run
        /\ \A bound : \A label \in {"list", "lock", "check", "recheck", "mkdir",
                                    "saveBinding", "copy", "loop"} :
              Asked(label, bound)
    BY DEF IssueInv, BridgeInv, OwnStep, Asked
  <1>1. CASE Begin(h)
    <2>1. /\ view'[h] = view[h] /\ pc'[h] \in {"lock", "list"}
          /\ proof'[h] = NoProof /\ binding' = binding
      BY <1>0, <1>1 DEF Begin, Goto, TypeOK, PriorsOver
    <2>2. PriorsOver(h)'
      BY <2>1 DEF PriorsOver
    <2> QED BY <1>0, <2>1, <2>2, EarlyKeeps
  <1>2. CASE List(h)
    <2>1. /\ view'[h] = view[h] /\ pc'[h] = "check"
          /\ proof'[h] = NoProof /\ binding' = binding
      BY <1>0, <1>2 DEF List, Goto, TypeOK, PriorsOver
    <2>2. Proved(h)' = {}
      BY <2>1 DEF Proved, NoProof
    <2>3. PriorsOver(h)'
      BY <2>1, <2>2 DEF PriorsOver
    <2> QED BY <1>0, <2>1, <2>3, EarlyKeeps
  <1>3. ASSUME NEW r \in Revision, PriorUnreadable(h, r)
        PROVE  IssueInv' /\ OverKept
    BY <1>3, EarlyForgets DEF PriorUnreadable
  <1>4. ASSUME NEW r \in Revision, PriorIrrelevant(h, r)
        PROVE  IssueInv' /\ OverKept
    <2>1. /\ view'[h] = view[h] /\ pc[h] = "check" /\ pc'[h] = "check"
          /\ proof'[h] = proof[h] /\ binding' = binding
          /\ todo'[h] = todo[h] \ {r} /\ r \notin Related(RevisionOf[h])
      BY <1>0, <1>4 DEF PriorIrrelevant, TypeOK
    <2>2. /\ Proved(h)' = Proved(h)
          /\ Related(RevisionOf[h])' = Related(RevisionOf[h])
      BY <2>1 DEF Proved, Related, Bound
    <2>3. PriorsOver(h)'
      BY <1>0, <2>1, <2>2 DEF PriorsOver
    <2> QED BY <1>0, <2>1, <2>3, EarlyKeeps
  <1>5. ASSUME NEW r \in Revision, LoadPrior(h, r)
        PROVE  IssueInv' /\ OverKept
    <2>1. CASE Unsettled(binding[r])
      BY <1>5, <2>1, EarlyForgets DEF LoadPrior
    <2>2. CASE ~Unsettled(binding[r])
      <3>1. /\ view'[h] = view[h] /\ pc[h] = "check" /\ pc'[h] = "check"
            /\ proof'[h] = [proof[h] EXCEPT ![r] = binding[r]]
            /\ todo'[h] = todo[h] /\ binding' = binding
            /\ r \in todo[h] /\ r \in Related(RevisionOf[h])
        BY <1>0, <1>5, <2>2 DEF LoadPrior, TypeOK
      <3>2. /\ Proved(h)' \subseteq Proved(h) \union {r}
            /\ Related(RevisionOf[h])' = Related(RevisionOf[h])
            /\ \A q \in Revision :
                  proof'[h][q] = IF q = r THEN binding[r] ELSE proof[h][q]
        BY <1>0, <3>1 DEF Proved, Related, Bound, TypeOK
      <3>3. ~binding[r].cleanupRequired
        BY <2>2 DEF Unsettled
      <3>4. Proved(h) \subseteq Revision
        BY DEF Proved
      <3>5. PriorsOver(h)'
        BY <1>0, <3>1, <3>2, <3>3, <3>4 DEF PriorsOver
      <3> QED BY <1>0, <3>1, <3>5, EarlyKeeps
    <2> QED BY <2>1, <2>2
  <1>6. ASSUME NEW r \in Revision, ReadPrior(h, r)
        PROVE  IssueInv' /\ OverKept
    <2>1. CASE Forget(h)
      BY <1>6, <2>1, EarlyForgets DEF ReadPrior
    <2>2. CASE SettledInCore(r, proof[h][r])
               /\ todo' = [todo EXCEPT ![h] = @ \ {r}]
               /\ UNCHANGED <<pc, proof, view, reported>>
      <3>1. /\ view'[h] = view[h] /\ pc[h] = "check" /\ pc'[h] = "check"
            /\ proof'[h] = proof[h] /\ binding' = binding
            /\ todo'[h] = todo[h] \ {r} /\ r \in Proved(h)
        BY <1>0, <1>6, <2>2 DEF ReadPrior, TypeOK
      <3>2. /\ Proved(h)' = Proved(h)
            /\ Related(RevisionOf[h])' = Related(RevisionOf[h])
        BY <3>1 DEF Proved, Related, Bound
      <3>3. Closed(run[r]) \/ SettledRecord(proof[h][r])
        BY <1>0, <2>2, <3>1 DEF PriorsOver, SettledInCore, SettledRecord
      <3>4. PriorsOver(h)'
        BY <1>0, <3>1, <3>2, <3>3 DEF PriorsOver
      <3> QED BY <1>0, <3>1, <3>4, EarlyKeeps
    <2> QED BY <1>6, <2>1, <2>2 DEF ReadPrior
  <1>7. CASE PriorsProved(h) \/ Attach(h)
    <2>1. /\ view'[h] = view[h] /\ pc'[h] \in {"recheck", "lock"}
          /\ pc'[h] = "recheck" => pc[h] = "check" /\ todo[h] = {}
          /\ proof'[h] = proof[h] /\ binding' = binding
          /\ todo'[h] = todo[h]
      BY <1>0, <1>7 DEF PriorsProved, Attach, Goto, TypeOK
    <2>2. Proved(h)' = Proved(h)
      BY <2>1 DEF Proved
    <2>3. PriorsOver(h)'
      BY <1>0, <2>1, <2>2 DEF PriorsOver
    <2> QED BY <1>0, <2>1, <2>3, EarlyKeeps
  <1>8. CASE Recheck(h)
    <2>1. CASE Forget(h)
      BY <1>8, <2>1, EarlyForgets DEF Recheck
    <2>2. CASE ProofStands(h) /\ Goto(h, "mkdir") /\ UNCHANGED <<local>>
      <3>1. /\ view'[h] = view[h] /\ pc[h] = "recheck" /\ pc'[h] = "mkdir"
            /\ binding' = binding /\ todo[h] = {}
        BY <1>0, <1>8, <2>2 DEF Recheck, Goto, TypeOK, PriorsOver
      <3>2. ASSUME NEW q \in Related(RevisionOf[h]) PROVE Over(q)
        <4>1. q \in Proved(h) /\ binding[q] = proof[h][q] /\ q \in Revision
          BY <2>2 DEF ProofStands, Related
        <4>2. Closed(run[q]) \/ SettledRecord(binding[q])
          BY <1>0, <3>1, <4>1 DEF PriorsOver
        <4>3. EndsTruly(q, binding[q])
          BY <4>1 DEF IssueInv
        <4> QED BY <4>2, <4>3, OverMeans DEF EndsTruly
      <3>3. PriorsOver(h)'
        BY <1>0, <3>1, <3>2 DEF PriorsOver, Related, Bound, Over
      <3> QED BY <1>0, <3>1, <3>3, EarlyKeeps
    <2> QED BY <1>8, <2>1, <2>2 DEF Recheck
  <1>9. CASE MakeRoot(h)
    <2>1. /\ view'[h] = view[h] /\ pc[h] = "mkdir" /\ pc'[h] = "saveBinding"
          /\ binding' = binding
      BY <1>0, <1>9 DEF MakeRoot, Goto, TypeOK
    <2>2. PriorsOver(h)'
      BY <1>0, <2>1 DEF PriorsOver, Related, Bound, Over
    <2> QED BY <1>0, <2>1, <2>2, EarlyKeeps
  <1>10. CASE Busy(h) \/ Crash(h)
    BY <1>10, EarlyForgets DEF Busy, Crash
  <1>11. CASE TakeLock(h)
    <2>1. /\ view'[h] = view[h] /\ pc'[h] \in {"copy", "loop"}
          /\ binding' = binding
      BY <1>0, <1>11 DEF TakeLock, Goto, TypeOK
    <2>2. PriorsOver(h)'
      BY <2>1 DEF PriorsOver
    <2> QED BY <1>0, <2>1, <2>2, EarlyKeeps
  <1> QED
    BY <1>1, <1>2, <1>3, <1>4, <1>5, <1>6, <1>7, <1>8, <1>9, <1>10, <1>11
    DEF Reserve

\* The reservation: no older revision of the issue is in hand any more, and
\* none is reserved beside it, by the lock of the issue.
LEMMA SaveBindingIssue ==
    ASSUME IssueInv, BridgeInv', NEW h \in Helper, OwnStep(h), SaveBinding(h)
    PROVE  IssueInv'
  <1> DEFINE mine == RevisionOf[h]
  <1>0. /\ mine \in Revision /\ run' = run /\ pc[h] = "saveBinding"
        /\ binding[mine].phase = "absent" /\ binding' = [binding EXCEPT ![mine] = Reserved]
        /\ pc' = [pc EXCEPT ![h] = "lock"] /\ view' = view
    BY Known
    DEF IssueInv, OwnStep, SaveBinding, Save, Goto, Placed, Mine
  <1>1. /\ binding[mine] = NoBinding
        /\ \A r \in Revision :
              binding'[r] = IF r = mine THEN Reserved ELSE binding[r]
    BY <1>0 DEF IssueInv, BridgeInv, Linked, TypeOK
  <1>2. \A g \in Helper :
           pc'[g] = IF g = h THEN "lock" ELSE pc[g]
    BY <1>0 DEF IssueInv, BridgeInv, TypeOK
  <1>3. /\ Reserved.phase = "prepared" /\ Reserved.create = "none"
        /\ ~Reserved.cancelSaved /\ Reserved.cancel = "none"
    BY DEF Reserved, NoBinding
  <1> HIDE DEF mine
  <1>4. ASSUME NEW r \in Revision PROVE EndsTruly(r, binding[r])'
    <2>1. CASE r = mine
      BY <1>1, <1>3, <2>1 DEF EndsTruly, SettledRecord
    <2>2. CASE r # mine
      BY <1>0, <1>1, <2>2 DEF EndsTruly, IssueInv
    <2> QED BY <2>1, <2>2
  <1>5. ASSUME NEW g \in Helper
        PROVE  (Asked(pc[g], Mine(g)) /\ (view[g] # NoView => RunKnown(Mine(g))))'
    <2>1. /\ Asked(pc[g], Mine(g)) /\ Placed(pc[g], Mine(g))
          /\ view[g] # NoView => RunKnown(Mine(g))
          /\ RevisionOf[g] \in Revision
      BY Known DEF IssueInv
    <2>2. CASE RevisionOf[g] = mine
      <3>1. Mine(g) = NoBinding /\ ~RunKnown(NoBinding)
        BY <1>1, <2>2 DEF Mine, NoBinding, RunKnown
      <3>2. view[g] = NoView /\ pc[g] \notin ObserverLabels
        BY <1>0, <1>1, <2>1, <2>2, <3>1 DEF Placed, Mine
      <3>3. pc'[g] \notin ObserverLabels
        BY <1>2, <3>2 DEF ObserverLabels
      <3> QED BY <1>0, <3>2, <3>3 DEF Asked, ObserverLabels
    <2>3. CASE RevisionOf[g] # mine
      <3>1. Mine(g)' = Mine(g)
        BY <1>1, <2>1, <2>3 DEF Mine
      <3> QED BY <1>0, <1>2, <2>1, <3>1 DEF Asked
    <2> QED BY <2>2, <2>3
  <1>6. ASSUME NEW g \in Helper PROVE PriorsOver(g)'
    <2>1. CASE g = h
      BY <1>2, <2>1 DEF PriorsOver
    <2>2. CASE g # h
      <3>1. /\ pc'[g] = pc[g] /\ todo'[g] = todo[g] /\ proof'[g] = proof[g]
            /\ PriorsOver(g) /\ Proved(g)' = Proved(g)
        BY <2>2 DEF OwnStep, IssueInv, Proved
      <3>2. Related(RevisionOf[g]) \subseteq Related(RevisionOf[g])'
        BY <1>1, <1>3 DEF Related, Bound
      <3>3. ASSUME pc[g] \in {"mkdir", "saveBinding"},
                   NEW q \in Related(RevisionOf[g])'
            PROVE  Over(q)'
        <4>1. IssueOf[RevisionOf[g]] # IssueOf[mine]
          BY <1>0, <2>2, <3>3
          DEF IssueInv, BridgeInv, LocksHold, IssueLockFree, mine
        <4>2. q # mine /\ q \in Related(RevisionOf[g])
          BY <1>1, <4>1, <3>3 DEF Related, Bound
        <4> QED
          BY <1>0, <1>1, <3>1, <3>3, <4>2 DEF PriorsOver, Over, Related
      <3> QED BY <1>0, <3>1, <3>2, <3>3 DEF PriorsOver
    <2> QED BY <2>1, <2>2
  <1> QED BY <1>4, <1>5, <1>6 DEF IssueInv

\* What Core does leaves what was over, and what was read of it, as it is.
LEMMA OutsideIssue ==
    ASSUME IssueInv, BridgeInv', UNCHANGED <<binding, pc, local>>,
           \A r \in Revision : Closed(run[r]) => run'[r] = run[r]
    PROVE  IssueInv'
  <1>1. \A r \in Revision : EndsTruly(r, binding[r])'
    BY DEF IssueInv, EndsTruly, Closed
  <1>2. \A q \in Revision : Over(q) => Over(q)'
    BY DEF Over, Closed
  <1>3. ASSUME NEW h \in Helper
        PROVE  (/\ Asked(pc[h], Mine(h))
                /\ view[h] # NoView => RunKnown(Mine(h))
                /\ PriorsOver(h))'
    <2>1. PriorsOver(h)'
      BY <1>2 DEF IssueInv, PriorsOver, Proved, Related, Bound, local, Closed
    <2> QED BY <2>1 DEF IssueInv, Mine, local
  <1> QED BY <1>1, <1>3 DEF IssueInv

LEMMA HelperKeepsIssue ==
    ASSUME IssueInv, BridgeInv', NEW h \in Helper, OwnStep(h),
           Begin(h) \/ HelperStep(h) \/ Crash(h), ~SaveBinding(h)
    PROVE  IssueInv' /\ OverKept
  <1>1. CASE Begin(h) \/ Reserve(h) \/ Busy(h) \/ TakeLock(h) \/ Crash(h)
    BY <1>1, ReserveIssue
  <1>2. CASE Copy(h)
    BY <1>2, CopyIssue
  <1>3. CASE Look(h)
    BY <1>3, LookIssue
  <1>4. CASE Decide(h)
    BY <1>4, DecideIssue, SendIssue DEF Decide
  <1>5. CASE Exchange(h)
    BY <1>5, ExchangeIssue
  <1> QED BY <1>1, <1>2, <1>3, <1>4, <1>5 DEF HelperStep

LEMMA StepIssue == IssueInv /\ [Next]_vars => IssueInv'
  <1> SUFFICES ASSUME IssueInv, [Next]_vars PROVE IssueInv'
    OBVIOUS
  <1>0. BridgeInv' /\ TypeOK
    BY StepKeeps DEF IssueInv, BridgeInv
  <1>1. ASSUME NEW h \in Helper, Begin(h) \/ HelperStep(h) \/ Crash(h)
        PROVE  IssueInv'
    <2>1. OwnStep(h)
      BY <1>0, <1>1, HelperOwns
    <2>2. CASE SaveBinding(h)
      BY <1>0, <2>1, <2>2, SaveBindingIssue
    <2>3. CASE ~SaveBinding(h)
      BY <1>0, <1>1, <2>1, <2>3, HelperKeepsIssue
    <2> QED BY <2>2, <2>3
  <1>2. ASSUME NEW q \in Revision,
               CoreStep(q) \/ WaitExpires(q) \/ CleanupExpires(q)
        PROVE  IssueInv'
    <2>1. UNCHANGED <<binding, pc, local>>
      BY <1>2
      DEF CoreStep, CoreCreates, CoreStarts, CoreCancels, RunMoves,
          WaitExpires, CleanupExpires, durable
    <2>2. ASSUME NEW r \in Revision, Closed(run[r]) PROVE run'[r] = run[r]
      <3>1. CASE CoreStarts(q)
        <4>1. run[q] = NoView /\ ~Closed(NoView)
          BY <3>1
          DEF CoreStarts, IssueInv, BridgeInv, CoreSane, Closed, NoView,
              TerminalStatus
        <4> QED BY <2>2, <3>1, <4>1, <1>0 DEF CoreStarts, TypeOK
      <3>2. CASE RunMoves(q)
        <4>1. q = r => NextViews(run[q]) = {}
          BY <1>0, <2>2, ClosedStays DEF TypeOK
        <4> QED BY <1>0, <3>2, <4>1 DEF RunMoves, TypeOK
      <3> QED
        BY <1>2, <3>1, <3>2
        DEF CoreStep, CoreCreates, CoreCancels, WaitExpires, CleanupExpires,
            core
    <2> QED BY <1>0, <2>1, <2>2, OutsideIssue
  <1>3. CASE UNCHANGED vars
    BY <1>0, <1>3, OutsideIssue DEF vars, local
  <1> QED BY <1>1, <1>2, <1>3 DEF Next

LEMMA InitIssue == Init => IssueInv
  <1> SUFFICES ASSUME Init PROVE IssueInv
    OBVIOUS
  <1>1. \A r \in Revision : EndsTruly(r, binding[r])
    BY DEF Init, NoProof, NoBinding, EndsTruly, SettledRecord
  <1>2. \A h \in Helper : Asked(pc[h], Mine(h)) /\ view[h] = NoView
    BY DEF Init, Asked
  <1>3. \A h \in Helper : PriorsOver(h)
    BY DEF Init, PriorsOver
  <1> QED BY <1>1, <1>2, <1>3, InitiallyHolds DEF IssueInv

LEMMA IssueInvariant == Spec => []IssueInv
  BY InitIssue, StepIssue, PTL DEF Spec

-----------------------------------------------------------------------------
(* The bridge implements PaperclipIssue *)

Stage(r) == IF binding[r].phase = "absent" THEN "new"
            ELSE IF Over(r) THEN "over" ELSE "inHand"
Stages == [r \in Revision |-> Stage(r)]
Works(r) == run[r].status # "none" /\ ~Closed(run[r])
Working == {r \in Revision : Works(r)}

\* The steps of PaperclipIssue in these terms.
LEMMA IssueSteps ==
    /\ \A r \in Revision :
          /\ /\ Stages[r] = "new"
             /\ \A q \in Revision : IssueOf[q] = IssueOf[r] => Stages[q] # "inHand"
             /\ Stages' = [Stages EXCEPT ![r] = "inHand"] /\ Working' = Working
             => IssuePromise!Take(r)
          /\ /\ Stages[r] = "inHand" /\ r \notin Working
             /\ Working' = Working \union {r} /\ Stages' = Stages
             => IssuePromise!StartWork(r)
          /\ /\ r \in Working /\ Working' = Working \ {r}
             /\ Stages' = [Stages EXCEPT ![r] = "over"]
             => IssuePromise!EndWork(r)
          /\ /\ Stages[r] = "inHand" /\ r \notin Working
             /\ Stages' = [Stages EXCEPT ![r] = "over"] /\ Working' = Working
             => IssuePromise!GiveUp(r)
    /\ UNCHANGED <<Stages, Working>> => UNCHANGED IssuePromise!issueVars
  <1> USE DEF Stages, Stage, Working, Works, Closed
  <1>1. ASSUME NEW r \in Revision, Stages[r] = "new",
               \A q \in Revision : IssueOf[q] = IssueOf[r] => Stages[q] # "inHand",
               Stages' = [Stages EXCEPT ![r] = "inHand"], Working' = Working
        PROVE  IssuePromise!Take(r)
    BY <1>1 DEF IssuePromise!Take
  <1>2. ASSUME NEW r \in Revision, Stages[r] = "inHand", r \notin Working,
               Working' = Working \union {r}, Stages' = Stages
        PROVE  IssuePromise!StartWork(r)
    BY <1>2 DEF IssuePromise!StartWork
  <1>3. ASSUME NEW r \in Working, Working' = Working \ {r},
               Stages' = [Stages EXCEPT ![r] = "over"]
        PROVE  IssuePromise!EndWork(r)
    BY <1>3 DEF IssuePromise!EndWork
  <1>4. ASSUME NEW r \in Revision, Stages[r] = "inHand", r \notin Working,
               Stages' = [Stages EXCEPT ![r] = "over"], Working' = Working
        PROVE  IssuePromise!GiveUp(r)
    BY <1>4 DEF IssuePromise!GiveUp
  <1>5. UNCHANGED <<Stages, Working>> => UNCHANGED IssuePromise!issueVars
    BY DEF IssuePromise!issueVars
  <1> QED BY <1>1, <1>2, <1>3, <1>4, <1>5

\* A run that has not closed is that of a revision in hand.
WorkIsInHand == \A r \in Revision : Works(r) => Stage(r) = "inHand"

LEMMA WorkInHand == BridgeInv => WorkIsInHand
  <1> SUFFICES ASSUME BridgeInv, NEW r \in Revision, Works(r)
               PROVE  Stage(r) = "inHand"
    BY DEF WorkIsInHand
  <1>1. CoreSane(r) /\ Linked(r, binding[r])
    BY DEF BridgeInv
  <1>2. run[r] # NoView /\ started[r] = "applied" /\ posted[r] # {}
    BY <1>1 DEF Works, NoView, CoreSane
  <1>3. /\ binding[r].startSaved /\ binding[r].create = "applied"
        /\ binding[r].start # "refused" /\ binding[r].phase # "absent"
    BY <1>1, <1>2, StartFollows DEF Linked, CoreSane
  <1> QED BY <1>3, OverMeans DEF Stage, Dropped, Works

LEMMA WorkInHandNext == BridgeInv' => WorkIsInHand'
  BY WorkInHand, PTL

\* A helper that keeps what is over gives at most its revision up, and only
\* if that has no run.
LEMMA KeptRefines ==
    ASSUME IssueInv, BridgeInv', NEW h \in Helper, OwnStep(h), OverKept
    PROVE  \/ UNCHANGED <<Stages, Working>>
           \/ \E r \in Revision : IssuePromise!GiveUp(r)
  <1> DEFINE mine == RevisionOf[h]
  <1>0. mine \in Revision /\ Working' = Working
    BY BridgeAssumption DEF OwnStep, Working, Works
  <1>1. \A q \in Revision \ {mine} : Stage(q)' = Stage(q)
    BY DEF OwnStep, Stage, Over
  <1>2. \/ Stage(mine)' = Stage(mine)
        \/ Stage(mine) = "inHand" /\ Stage(mine)' = "over"
    BY <1>0 DEF Stage, OverKept, Bound
  <1>3. CASE Stage(mine)' = Stage(mine)
    BY <1>0, <1>1, <1>3 DEF Stages
  <1>4. CASE Stage(mine) = "inHand" /\ Stage(mine)' = "over"
    <2>1. mine \notin Working
      BY <1>0, <1>4, WorkInHandNext DEF WorkIsInHand, Working, Works, OwnStep
    <2>2. Stages' = [Stages EXCEPT ![mine] = "over"] /\ Stages[mine] = "inHand"
      BY <1>0, <1>1, <1>4 DEF Stages
    <2> QED BY <1>0, <2>1, <2>2, IssueSteps
  <1> QED BY <1>2, <1>3, <1>4

\* The reservation takes a revision in hand when all the older ones are over.
LEMMA SaveBindingRefines ==
    ASSUME IssueInv, BridgeInv', NEW h \in Helper, OwnStep(h), SaveBinding(h)
    PROVE  \E r \in Revision : IssuePromise!Take(r)
  <1> DEFINE mine == RevisionOf[h]
  <1>0. /\ mine \in Revision /\ run' = run /\ pc[h] = "saveBinding"
        /\ binding[mine].phase = "absent"
        /\ binding' = [binding EXCEPT ![mine] = Reserved]
    BY Known DEF IssueInv, OwnStep, SaveBinding, Save, Placed, Mine
  <1>1. Working' = Working
    BY <1>0 DEF Working, Works
  <1>2. \A r \in Revision :
           binding'[r] = IF r = mine THEN Reserved ELSE binding[r]
    BY <1>0 DEF IssueInv, BridgeInv, TypeOK
  <1>3. run[mine] = NoView
    BY <1>0 DEF IssueInv, BridgeInv, CoreSane, Linked
  <1>4. Stage(mine) = "new" /\ Stage(mine)' = "inHand"
    BY <1>0, <1>2, <1>3
    DEF Stage, Over, Reserved, NoBinding, NoView, TerminalStatus
  <1>5. \A q \in Revision \ {mine} : Stage(q)' = Stage(q)
    BY <1>0, <1>2 DEF Stage, Over
  <1>6. ASSUME NEW q \in Revision, IssueOf[q] = IssueOf[mine]
        PROVE  Stages[q] # "inHand"
    <2>1. CASE q = mine
      BY <1>4, <2>1 DEF Stages
    <2>2. CASE q # mine /\ Bound(q)
      BY <1>0, <1>6, <2>2 DEF IssueInv, PriorsOver, Related, Stages, Stage
    <2>3. CASE ~Bound(q)
      BY <2>3 DEF Bound, Stages, Stage
    <2> QED BY <2>1, <2>2, <2>3
  <1>7. Stages[mine] = "new" /\ Stages' = [Stages EXCEPT ![mine] = "inHand"]
    BY <1>0, <1>4, <1>5 DEF Stages
  <1> QED BY <1>0, <1>1, <1>6, <1>7, IssueSteps

\* Core starts the run of a revision in hand, and closes no other.
LEMMA CoreRefines ==
    ASSUME IssueInv, BridgeInv', NEW r \in Revision,
           CoreStep(r) \/ WaitExpires(r) \/ CleanupExpires(r)
    PROVE  \/ UNCHANGED <<Stages, Working>>
           \/ IssuePromise!StartWork(r) \/ IssuePromise!EndWork(r)
  <1>0. /\ run \in [Revision -> Views] /\ binding' = binding
        /\ CoreSane(r) /\ Linked(r, binding[r])
        /\ Works(r) => Stage(r) = "inHand"
        /\ Works(r)' => Stage(r)' = "inHand"
    BY WorkInHand, WorkInHandNext
    DEF IssueInv, BridgeInv, TypeOK, WorkIsInHand, CoreStep, CoreCreates,
        CoreStarts, CoreCancels, RunMoves, WaitExpires, CleanupExpires, durable
  <1>1. CASE run' = run
    BY <1>0, <1>1 DEF Stages, Stage, Over, Working, Works
  <1>2. ASSUME NEW next \in Views, run' = [run EXCEPT ![r] = next],
               next.status # "none", ~Closed(run[r]),
               run[r].status = "none" => run[r] = NoView /\ ~Closed(next)
        PROVE  \/ UNCHANGED <<Stages, Working>>
               \/ IssuePromise!StartWork(r) \/ IssuePromise!EndWork(r)
    <2>1. /\ \A q \in Revision : run'[q] = IF q = r THEN next ELSE run[q]
      BY <1>0, <1>2
    <2>2. \A q \in Revision \ {r} :
             Stage(q)' = Stage(q) /\ (Works(q)' <=> Works(q))
      BY <1>0, <2>1 DEF Stage, Over, Works
    <2>3. CASE Closed(next)
      <3>1. Works(r) /\ ~Works(r)'
        BY <1>2, <2>1, <2>3 DEF Works
      <3>2. Stage(r) = "inHand" /\ Stage(r)' = "over"
        BY <1>0, <2>1, <2>3, <3>1 DEF Stage, Over, Closed
      <3>3. /\ r \in Working /\ Working' = Working \ {r}
            /\ Stages' = [Stages EXCEPT ![r] = "over"]
        BY <2>2, <3>1, <3>2 DEF Working, Stages
      <3> QED BY <3>3, IssueSteps
    <2>4. CASE ~Closed(next) /\ run[r].status # "none"
      <3>1. Works(r) /\ Works(r)'
        BY <1>2, <2>1, <2>4 DEF Works
      <3> QED BY <1>0, <2>2, <3>1 DEF Stages, Working
    <2>5. CASE ~Closed(next) /\ run[r].status = "none"
      <3>1. ~Works(r) /\ Works(r)'
        BY <1>2, <2>1, <2>5 DEF Works
      <3>2. Stage(r)' = "inHand"
        BY <1>0, <3>1
      <3>3. Stage(r) = "inHand"
        BY <1>0, <1>2, <3>2 DEF Stage, Over, Closed
      <3>4. /\ Stages[r] = "inHand" /\ r \notin Working
            /\ Working' = Working \union {r} /\ Stages' = Stages
        BY <2>2, <3>1, <3>2, <3>3 DEF Working, Stages
      <3> QED BY <3>4, IssueSteps
    <2> QED BY <2>3, <2>4, <2>5
  <1>3. CASE CoreStarts(r) /\ run' # run
    <2> DEFINE next == [status |-> "running", stopped |-> FALSE]
    <2>1. run' = [run EXCEPT ![r] = next] /\ run[r] = NoView
      BY <1>0, <1>3 DEF CoreStarts, CoreSane
    <2>2. /\ next \in Views /\ next.status # "none" /\ ~Closed(next)
          /\ ~Closed(NoView)
      BY DEF Views, RunStatus, Closed, NoView, TerminalStatus
    <2> HIDE DEF next
    <2> QED BY <1>2, <2>1, <2>2
  <1>4. CASE RunMoves(r)
    <2>1. PICK next \in NextViews(run[r]) : run' = [run EXCEPT ![r] = next]
      BY <1>4 DEF RunMoves
    <2>2. /\ run[r] \in Views /\ next \in Views /\ next # NoView
          /\ run[r] # NoView /\ ~Closed(run[r])
      BY <1>0, <2>1, MovesTyped, ClosedStays
    <2>3. next.status # "none" /\ run[r].status # "none"
      BY <2>1, <2>2, EndingsAssumption
      DEF NextViews, Views, RunStatus, TerminalStatus
    <2> QED BY <1>2, <2>1, <2>2, <2>3
  <1> QED
    BY <1>1, <1>3, <1>4
    DEF CoreStep, CoreCreates, CoreCancels, WaitExpires, CleanupExpires, core

\* The bridge keeps the promises of PaperclipIssue: of an issue at most one
\* revision is in hand, a new one only after every older one is over for good,
\* and only a revision in hand has a run with a live writer, whichever
\* helpers are killed, duplicated or run again and whatever the service loses.
THEOREM BridgeKeepsIssues == Spec => IssueSpec
  <1>1. Init => IssuePromise!Init
    <2> SUFFICES ASSUME Init PROVE IssuePromise!Init
      OBVIOUS
    <2>1. \A r \in Revision : binding[r].phase = "absent" /\ run[r].status = "none"
      BY DEF Init, NoProof, NoBinding, NoView
    <2> QED BY <2>1 DEF IssuePromise!Init
  <1>2. IssueInv /\ [Next]_vars => [IssuePromise!Next]_(IssuePromise!issueVars)
    <2> SUFFICES ASSUME IssueInv, [Next]_vars
                 PROVE  [IssuePromise!Next]_(IssuePromise!issueVars)
      OBVIOUS
    <2>0. BridgeInv' /\ TypeOK
      BY StepKeeps DEF IssueInv, BridgeInv
    <2>1. ASSUME NEW h \in Helper, Begin(h) \/ HelperStep(h) \/ Crash(h)
          PROVE  [IssuePromise!Next]_(IssuePromise!issueVars)
      <3>1. OwnStep(h)
        BY <2>0, <2>1, HelperOwns
      <3>2. CASE SaveBinding(h)
        BY <2>0, <3>1, <3>2, SaveBindingRefines DEF IssuePromise!Next
      <3>3. CASE ~SaveBinding(h)
        BY <2>0, <2>1, <3>1, <3>3, HelperKeepsIssue, KeptRefines, IssueSteps
        DEF IssuePromise!Next
      <3> QED BY <3>2, <3>3
    <2>2. ASSUME NEW r \in Revision,
                 CoreStep(r) \/ WaitExpires(r) \/ CleanupExpires(r)
          PROVE  [IssuePromise!Next]_(IssuePromise!issueVars)
      BY <2>0, <2>2, CoreRefines, IssueSteps DEF IssuePromise!Next
    <2>3. CASE UNCHANGED vars
      <3>1. UNCHANGED <<Stages, Working>>
        BY <2>3 DEF vars, Stages, Stage, Over, Working, Works
      <3> QED BY <3>1, IssueSteps
    <2> QED BY <2>1, <2>2, <2>3 DEF Next
  <1> QED
    BY <1>1, <1>2, IssueInvariant, PTL DEF Spec, IssueSpec, IssuePromise!Spec
=============================================================================
