----------------------------- MODULE LadSession -----------------------------
(***************************************************************************)
(* A LAD session: the command scripts of the graph (workflow.json and      *)
(* workflows/lad/scripts) on the ledger of module LadLedger.  Foreground   *)
(* and Learning are two planes, each at one node of the graph; they share  *)
(* the ledger file and hand it over by a REQUEST and an ACK, two seams of  *)
(* Core.  A script loads the ledger, saves it, writes its projections      *)
(* (input.json, active-role.json, ready.json) and only then ends with the  *)
(* outcome Core routes by: it may die between any two of these, which      *)
(* pauses its plane until the operator redirects it.                       *)
(*                                                                         *)
(* Core is external: a plane runs one node at a time, a consumer of a seam *)
(* runs once its envelope is there, and an envelope is spent by the run    *)
(* that ends, not by one that dies.                                        *)
(***************************************************************************)
EXTENDS LadLedger

CONSTANTS
  Outcomes,       \* the outcomes of each role that a session considers
  Greenfield,     \* setup_intake --greenfield
  Writers,        \* the roles whose runs may change the source
  Failing,        \* the roles whose runs may fail, or leave an unusable result
  MaxCrashes,     \* bound: scripts that die
  MaxRedirects,   \* bound: redirects of the operator
  MaxSource,      \* bound: changes of the source
  AnyOccurrence   \* record_replacement for an occurrence that is not the active one

ASSUME LadSessionAssumption ==
  /\ Outcomes \in [DOMAIN Outcomes -> SUBSET STRING]
  /\ DOMAIN Outcomes \subseteq Roles /\ Writers \cup Failing \subseteq Roles
  /\ Greenfield \in BOOLEAN /\ AnyOccurrence \in BOOLEAN
  /\ MaxCrashes \in Nat /\ MaxRedirects \in Nat /\ MaxSource \in Nat

VARIABLES
  ledger,    \* lad-state/session.json
  held,      \* the copy a script has loaded
  input,     \* the occurrences with an input.json
  shown,     \* the occurrence of active-role.json, in each plane
  ready,     \* the occurrences with a ready.json
  wrote,     \* lad-results/<occurrence>/result.json
  current,   \* Learning's current-request.json
  source,    \* foreground/target, a version
  at, step,  \* the node of each plane, and how far its script is
  next,      \* the node its outcome leads to
  sent, got, \* the REQUEST envelopes, and how many are spent
  acks, heard, \* the ACK envelopes, and how many are spent
  ran,       \* how often a native role ran on an occurrence
  crashes, redirects

files == <<input, shown, ready, wrote, current>>
seams == <<sent, got, acks, heard>>
counts == <<ran, crashes, redirects>>
vars == <<ledger, held, files, source, at, step, next, seams, counts>>

Planes == {"foreground", "learning"}
NoLedger == [none |-> TRUE]
Nowhere == At("none")

Init ==
  /\ ledger = NewState /\ held = [p \in Planes |-> NoLedger]
  /\ input = {} /\ shown = [p \in Planes |-> 0] /\ ready = {} /\ wrote = <<>>
  /\ current = NoRequest /\ source = 0
  /\ at = [foreground |-> Prepare(IF Greenfield THEN "planner" ELSE "recon"),
           learning |-> At("receive_request")]
  /\ step = [p \in Planes |-> "idle"] /\ next = [p \in Planes |-> Nowhere]
  /\ sent = <<>> /\ got = 0 /\ acks = <<>> /\ heard = 0
  /\ ran = [o \in {} |-> 0] /\ crashes = 0 /\ redirects = 0

-----------------------------------------------------------------------------
\* The start, the saves and the end of a script.

\* load: what it checks of the ledger and of the projections beside it.
CanLoad(L) ==
  /\ \A k \in DOMAIN L.usage : L.usage[k] <= Caps[k[1]]
  /\ \A o \in DOMAIN L.occ : /\ o \in ready => o \in input
                             /\ o \in DOMAIN L.accepted => o \in ready /\ o \in DOMAIN wrote
  /\ \A p \in Planes :
       LET o == L.active[p] IN
       o # 0 /\ shown[p] \notin {0, o} =>
         /\ o \notin ready
         /\ shown[p] \in DOMAIN L.accepted \/ L.occ[o].of = shown[p]
  /\ L.occ # <<>> => L.cont.node # Nowhere

\* The envelope a node consumes is there; every other node just runs.
Envelope(p) ==
  CASE at[p] = At("receive_request") -> Len(sent) > got
    [] at[p] = At("accept_learning_ack") -> Len(acks) > heard
    [] OTHER -> TRUE

Goto(p, s) == step' = [step EXCEPT ![p] = s]
Drop(p) == held' = [held EXCEPT ![p] = NoLedger]
Refused(p) ==
  Goto(p, "paused") /\ Drop(p) /\ UNCHANGED <<ledger, files, source, at, next, seams, counts>>
Saved(p, L, node) ==
  /\ ledger' = L /\ next' = [next EXCEPT ![p] = node] /\ Goto(p, "saved") /\ Drop(p)
  /\ UNCHANGED <<files, source, at, seams, counts>>

Load(p) ==
  /\ step[p] = "idle" /\ at[p][1] \notin {"native", "after_ack"} /\ Envelope(p)
  /\ IF CanLoad(ledger)
       THEN /\ Goto(p, "loaded") /\ held' = [held EXCEPT ![p] = ledger]
            /\ UNCHANGED <<ledger, files, source, at, next, seams, counts>>
       ELSE Refused(p)

\* The outcome: Core routes by it, publishes its envelope and spends the one consumed.
Sent(p) ==
  IF at[p] = At("emit_request") THEN Append(sent, ledger.request) ELSE sent
AckedTwice(p) ==
  IF at[p] = At("emit_ack") THEN acks \o <<ledger.request, ledger.request>> ELSE acks
Acked(p) ==
  IF at[p] = At("emit_ack") THEN Append(acks, ledger.request) ELSE acks
Emit(p) ==
  /\ step[p] = "saved"
  /\ at' = [at EXCEPT ![p] = next[p]] /\ next' = [next EXCEPT ![p] = Nowhere]
  /\ Goto(p, IF next[p] \in {At("finished"), At("hold")} THEN next[p][1] ELSE "idle")
  /\ sent' = Sent(p) /\ acks' = Acked(p)
  /\ got' = got + IF at[p] = At("receive_request") THEN 1 ELSE 0
  /\ heard' = heard + IF at[p] = At("accept_learning_ack") THEN 1 ELSE 0
  /\ UNCHANGED <<ledger, held, files, source, counts>>

\* assert_foreground, selected: whose turn it is to use the ledger.
AssertForeground(L) == L.request = NoRequest
Selected(L) ==
  /\ L.request # NoRequest /\ current # NoRequest
  /\ L.request.id = current.id /\ L.request.core = current.core
Owns(p, L) ==
  IF p = "foreground" THEN AssertForeground(L) ELSE Selected(L) /\ L.request.kind = "ASSESS"

-----------------------------------------------------------------------------
\* prepare_role: the reservation, then its projections in order.

\* A preparation that died before READY is completed, on the same source.
Interrupted(p, L, role, replacement) ==
  LET o == L.active[p] IN
  /\ o # 0 /\ L.occ[o].role = role /\ o \notin DOMAIN L.accepted
  /\ replacement => L.occ[o].of # 0 /\ o \notin ready
RematerializedAlways(p, L) ==
  Goto(p, "reserved") /\ UNCHANGED <<ledger, held, files, source, at, next, seams, counts>>
Rematerialized(p, L) ==
  LET o == L.active[p] IN
  IF o \in ready \/ L.occ[o].source # source
    THEN Refused(p)
    ELSE Goto(p, "reserved") /\ UNCHANGED <<ledger, held, files, source, at, next, seams, counts>>

Reserving(p, L, role, replacement) ==
  IF Reserved(L, role, replacement, source) = {}
    THEN Refused(p)
    ELSE \E M \in Reserved(L, role, replacement, source) :
           /\ ledger' = M /\ held' = [held EXCEPT ![p] = M] /\ Goto(p, "reserved")
           /\ UNCHANGED <<files, source, at, next, seams, counts>>

\* learning_prepare: an exhausted assessment is acknowledged as failed.
Exhausted(p, L, role, replacement) ==
  /\ p = "learning" /\ replacement /\ Selected(L)
  /\ \/ Used(L, RoleKey(role, L.request.lineage)) >= 2
     \/ Used(L, <<"replacement", role, L.request.lineage>>) >= 1

PrepareRole(p, role, replacement) ==
  LET L == held[p]
      M == Intended(L, role, source) IN
  /\ step[p] = "loaded" /\ at[p] = IF replacement THEN Replace(role) ELSE Prepare(role)
  /\ IF Exhausted(p, L, role, replacement)
       THEN Saved(p, Mark([L EXCEPT !.learned = @ \cup {L.request.lineage}], At("emit_ack"), 0),
                  At("emit_ack"))
     ELSE IF ~Owns(p, L) THEN Refused(p)
     ELSE IF Interrupted(p, L, role, replacement) THEN Rematerialized(p, L)
     ELSE IF ~Asked(L, role, replacement, Greenfield) THEN Refused(p)
     ELSE IF ~replacement THEN Reserving(p, L, role, FALSE)
     ELSE IF M.intents[Old(L, role)][2] # source THEN Refused(p)
     ELSE /\ ledger' = M /\ held' = [held EXCEPT ![p] = M] /\ Goto(p, "intended")
          /\ UNCHANGED <<files, source, at, next, seams, counts>>

ReserveReplacement(p, role) ==
  step[p] = "intended" /\ at[p] = Replace(role) /\ Reserving(p, held[p], role, TRUE)

\* materialize
WriteInput(p) ==
  /\ step[p] = "reserved" /\ Goto(p, "input")
  /\ input' = input \cup {held[p].active[p]}
  /\ UNCHANGED <<ledger, held, shown, ready, wrote, current, source, at, next, seams, counts>>
WriteActive(p) ==
  /\ step[p] = "input" /\ Goto(p, "active")
  /\ shown' = [shown EXCEPT ![p] = held[p].active[p]]
  /\ UNCHANGED <<ledger, held, input, ready, wrote, current, source, at, next, seams, counts>>
WriteReady(p) ==
  /\ step[p] = "active" /\ Goto(p, "saved") /\ Drop(p)
  /\ ready' = ready \cup {held[p].active[p]}
  /\ next' = [next EXCEPT ![p] = Native(at[p][2])]
  /\ UNCHANGED <<ledger, input, shown, wrote, current, source, at, seams, counts>>

-----------------------------------------------------------------------------
\* The native role: it works from active-role.json and leaves a result, usable
\* or not, or fails; a failure is routed to its replacement.
RunNative(p, role) ==
  LET o == shown[p] IN
  /\ step[p] = "idle" /\ at[p] = Native(role)
  /\ ran' = With(ran, o, 1 + IF o \in DOMAIN ran THEN ran[o] ELSE 0)
  /\ source' \in {source} \cup IF role \in Writers /\ source < MaxSource THEN {source + 1} ELSE {}
  /\ \/ \E outcome \in Outcomes[role], valid \in {TRUE, role \notin Failing} :
          /\ wrote' = With(wrote, o, [outcome |-> outcome, source |-> source', valid |-> valid])
          /\ at' = [at EXCEPT ![p] = Accept(role, outcome)]
     \/ role \in Failing /\ at' = [at EXCEPT ![p] = Replace(role)] /\ UNCHANGED wrote
  /\ UNCHANGED <<ledger, held, input, shown, ready, current, step, next, seams, crashes, redirects>>

\* accept_role: the exact result is accepted once; a replay returns its route.
AcceptRole(p, role, outcome) ==
  LET L == held[p]
      o == L.active[p] IN
  /\ step[p] = "loaded" /\ at[p] = Accept(role, outcome)
  /\ IF ~(IF p = "foreground" THEN AssertForeground(L) ELSE Selected(L)) THEN Refused(p)
     ELSE IF o = 0 \/ o \notin DOMAIN wrote THEN Refused(p)
     ELSE IF \/ L.occ[o].role # role \/ ~wrote[o].valid
             \/ wrote[o].outcome # outcome \/ wrote[o].source # source THEN Refused(p)
     ELSE IF o \in DOMAIN L.accepted THEN Saved(p, ledger, L.accepted[o])
     ELSE IF Accepted(L, o, outcome, source) = {} THEN Refused(p)
     ELSE \E r \in Accepted(L, o, outcome, source) : Saved(p, r.ledger, r.route)

-----------------------------------------------------------------------------
\* The seam.

EmitRequest ==
  LET L == held["foreground"]
      kind == IF L.terminal # "none" THEN "CLOSE" ELSE "ASSESS"
      lineage == IF L.pending # NoPending THEN L.pending.lineage ELSE "unpacketized"
      o == IF L.pending # NoPending THEN L.pending.occ ELSE L.cont.occ
      request == [kind |-> kind, lineage |-> lineage, id |-> L.acked + 1, pending |-> L.pending,
                  source |-> source, stage |-> "published", core |-> 0] IN
  /\ step["foreground"] = "loaded" /\ at["foreground"] = At("emit_request")
  /\ IF L.request # NoRequest
       THEN IF L.request.stage = "published" THEN Saved("foreground", ledger, At("accept_learning_ack"))
                                             ELSE Refused("foreground")
     ELSE IF kind = "ASSESS" /\ L.pending.kind # "learning_gate" THEN Refused("foreground")
     ELSE Saved("foreground", Mark([L EXCEPT !.request = request], At("accept_learning_ack"), o),
                At("accept_learning_ack"))

Received(L, n) ==
  LET M == [L EXCEPT !.request.core = n, !.request.stage = "received", !.seen = n] IN
  IF L.request.kind = "ASSESS" THEN Mark(M, Prepare("learning"), L.request.pending.occ) ELSE M

Receive ==
  LET L == held["learning"]
      n == got + 1 IN
  /\ step["learning"] = "loaded" /\ at["learning"] = At("receive_request")
  /\ IF L.request = NoRequest THEN Refused("learning")
     ELSE IF \/ L.request.id # sent[n].id \/ L.request.core \notin {0, n}
             \/ L.request.stage = "published" /\ n # L.seen + 1 THEN Refused("learning")
     ELSE /\ ledger' = Received(L, n) /\ held' = [held EXCEPT !["learning"] = Received(L, n)]
          /\ Goto("learning", "received")
          /\ UNCHANGED <<files, source, at, next, seams, counts>>

WriteCurrent ==
  /\ step["learning"] = "received" /\ Goto("learning", "saved") /\ Drop("learning")
  /\ current' = held["learning"].request
  /\ next' = [next EXCEPT !["learning"] = IF held["learning"].request.kind = "ASSESS"
                                            THEN Prepare("learning") ELSE At("emit_ack")]
  /\ UNCHANGED <<ledger, input, shown, ready, wrote, source, at, seams, counts>>

\* legal_pending: the saved route is intact, and its role still has a budget.
LegalPending(L) ==
  /\ L.request.source = source /\ L.request.pending = L.pending
  /\ L.request.kind = "ASSESS" =>
       /\ L.pending.target \in {"updater", "troubleshooter"}
       /\ Used(L, <<"all">>) < Caps["all"]
       /\ Used(L, <<L.pending.target, L.request.lineage>>) < Caps[L.pending.target]

EmitAckEarly ==
  LET L == held["learning"] IN
  /\ step["learning"] = "loaded" /\ at["learning"] = At("emit_ack")
  /\ ledger' = [L EXCEPT !.request.stage = "ack_ready"] /\ acks' = Append(acks, ledger'.request)
  /\ next' = [next EXCEPT !["learning"] = At("after_ack")]
  /\ Goto("learning", "saved") /\ Drop("learning")
  /\ UNCHANGED <<files, source, at, sent, got, heard, counts>>
EmitAck ==
  LET L == held["learning"] IN
  /\ step["learning"] = "loaded" /\ at["learning"] = At("emit_ack")
  /\ IF ~Selected(L) THEN Refused("learning")
     ELSE IF ~LegalPending(L) THEN Refused("learning")
     ELSE IF L.request.kind = "ASSESS" /\ L.request.lineage \notin L.learned THEN Refused("learning")
     ELSE Saved("learning", [L EXCEPT !.request.stage = "ack_ready"], At("after_ack"))

Resumed(L) ==
  LET route == IF L.request.kind = "CLOSE" THEN At("finalize") ELSE Prepare(L.pending.target) IN
  Mark([L EXCEPT !.request = NoRequest, !.acked = L.request.id, !.ackRoute = route,
                 !.pending = IF route = Prepare("troubleshooter")
                               THEN Pending("review", "doublechecker", @.lineage, @.occ)
                               ELSE NoPending],
       route, 0)

AcceptAck ==
  LET L == held["foreground"]
      n == heard + 1 IN
  /\ step["foreground"] = "loaded" /\ at["foreground"] = At("accept_learning_ack")
  /\ IF L.request = NoRequest
       THEN IF L.acked = acks[n].id THEN Saved("foreground", ledger, L.ackRoute)
                                    ELSE Refused("foreground")
     ELSE IF ~LegalPending(L) THEN Refused("foreground")
     ELSE IF acks[n] # L.request \/ L.request.stage # "ack_ready" \/ n # L.request.core
       THEN Refused("foreground")
     ELSE Saved("foreground", Resumed(L), Resumed(L).ackRoute)

\* Read-only, from Learning's own projection.
AfterAckFinishes ==
  /\ step["learning"] = "idle" /\ at["learning"] = At("after_ack")
  /\ Saved("learning", ledger, At("finished"))
AfterAck ==
  /\ step["learning"] = "idle" /\ at["learning"] = At("after_ack")
  /\ Saved("learning", ledger,
           IF current.kind = "CLOSE" THEN At("finished") ELSE At("receive_request"))

-----------------------------------------------------------------------------
\* The decisions of boundaries.py.

Boundary(node, allowed, L, route) ==
  /\ step["foreground"] = "loaded" /\ at["foreground"] = At(node)
  /\ IF AssertForeground(held["foreground"]) /\ allowed
       THEN Saved("foreground", L, route) ELSE Refused("foreground")

HumanPause == Boundary("human_pause", TRUE, ledger, At("hold"))
TerminalFailure ==
  Boundary("terminal_failure", TRUE,
           Mark([held["foreground"] EXCEPT !.terminal = "failed"], At("emit_request"), 0),
           At("emit_request"))
Finalize ==
  Boundary("finalize", held["foreground"].terminal # "none"
                         /\ held["foreground"].cont.node = At("finalize"),
           held["foreground"], At("finished"))

\* record_replacement: the operator's own command, beside a paused foreground.
RecordReplacement(o) ==
  LET intent == <<"operator", source>>
      c == ledger.occ[o] IN
  /\ step["foreground"] \in {"paused", "hold"} /\ redirects < MaxRedirects
  /\ CanLoad(ledger) /\ AssertForeground(ledger)
  /\ o \in DOMAIN ledger.intents => ledger.intents[o] = intent
  /\ o = ledger.active["foreground"] \/ AnyOccurrence
  /\ ledger' = Mark([ledger EXCEPT
                       !.intents = With(@, o, intent),
                       !.pending = Pending("operator_replacement", c.role, c.lineage, o)],
                    Replace(c.role), o)
  /\ UNCHANGED <<held, files, source, at, step, next, seams, counts>>

-----------------------------------------------------------------------------
\* A script dies; the operator redirects a paused plane, never to a native role.
Crash(p) ==
  /\ step[p] \notin {"idle", "paused", "hold", "finished"} /\ crashes < MaxCrashes
  /\ crashes' = crashes + 1 /\ Goto(p, "paused") /\ Drop(p)
  /\ next' = [next EXCEPT ![p] = Nowhere]
  /\ UNCHANGED <<ledger, files, source, at, seams, ran, redirects>>

Targets(p) ==
  LET o == ledger.active[p]
      again == IF at[p] = At("hold") THEN {} ELSE {at[p]} IN
  IF p = "learning" THEN again
  ELSE again \cup {At("terminal_failure")}
         \cup (IF o = 0 THEN {} ELSE {Prepare(ledger.occ[o].role), Replace(ledger.occ[o].role)})
         \cup (IF ledger.cont.node[1] \in {"native", "none"} THEN {} ELSE {ledger.cont.node})

Redirect(p) ==
  /\ step[p] \in {"paused", "hold"} /\ redirects < MaxRedirects /\ redirects' = redirects + 1
  /\ \E node \in Targets(p) : at' = [at EXCEPT ![p] = node]
  /\ Goto(p, "idle")
  /\ UNCHANGED <<ledger, held, files, source, next, seams, ran, crashes>>

Script(p) ==
  \/ Load(p) \/ Emit(p) \/ WriteInput(p) \/ WriteActive(p) \/ WriteReady(p)
  \/ \E role \in DOMAIN Outcomes :
       /\ Plane(role) = p
       /\ \/ \E replacement \in BOOLEAN : PrepareRole(p, role, replacement)
          \/ ReserveReplacement(p, role)
          \/ RunNative(p, role)
          \/ \E outcome \in Outcomes[role] : AcceptRole(p, role, outcome)

Seam == EmitRequest \/ Receive \/ WriteCurrent \/ EmitAck \/ AcceptAck \/ AfterAck
Decision == HumanPause \/ TerminalFailure \/ Finalize

Next ==
  \/ \E p \in Planes : Script(p) \/ Crash(p) \/ Redirect(p)
  \/ Seam \/ Decision
  \/ \E o \in DOMAIN ledger.occ : RecordReplacement(o)

\* Core runs the node a plane is at, and a script has a deadline: each plane goes
\* on.  No fairness for the operator, nor for dying.
Spec ==
  /\ Init /\ [][Next]_vars
  /\ \A p \in Planes : WF_vars(Script(p))
  /\ WF_vars(Seam) /\ WF_vars(Decision)

-----------------------------------------------------------------------------
Steps == {"idle", "loaded", "intended", "reserved", "input", "active", "received", "saved",
          "paused", "hold", "finished"}

\* Types, and that the projections, results and runs are of reserved occurrences.
TypeOK ==
  /\ DOMAIN ledger = DOMAIN NewState
  /\ \A o \in DOMAIN ledger.occ : /\ ledger.occ[o].role \in Roles
                                  /\ ledger.occ[o].of \in 0..(o - 1)
  /\ DOMAIN ledger.accepted \cup DOMAIN ledger.intents \subseteq DOMAIN ledger.occ
  /\ input \cup ready \cup DOMAIN wrote \cup DOMAIN ran \subseteq DOMAIN ledger.occ
  /\ step \in [Planes -> Steps] /\ source \in 0..MaxSource
  /\ got \in 0..Len(sent) /\ heard \in 0..Len(acks) /\ Len(acks) <= Len(sent)
  /\ crashes \in 0..MaxCrashes /\ redirects \in 0..MaxRedirects

\* Wherever a script dies, the next one can load the ledger and what lies beside it
\* (lad_state.load): a session is never locked out of its own state.
Loadable == CanLoad(ledger)

\* A native role runs on the reservation made for it and committed READY, and never
\* twice on one: what was debited once is dispatched at most once.
DispatchedOnce ==
  \A p \in Planes, role \in Roles :
    at[p] = Native(role) =>
      LET o == shown[p] IN
      o = ledger.active[p] /\ o \in ready /\ o \notin DOMAIN ran /\ ledger.occ[o].role = role

\* The two planes share one file without a lock: a script that saves the ledger saves
\* what it made of the ledger as it is, so no save undoes another.
NoLostSave ==
  [][\A p \in Planes :
       ledger' # ledger /\ step'[p] # step[p] => held[p] = ledger]_vars

\* A reservation answers one decision, and no decision is answered twice, however often
\* its preparation dies and is redirected: it is the route of an accepted result, or of
\* an acknowledgement.  Only a replacement reserves again.
EachDecisionOnce ==
  LET Fresh == {o \in DOMAIN ledger.occ : ledger.occ[o].of = 0} IN
  \A o \in Fresh :
    LET c == ledger.occ[o].asked[1] IN
    /\ o > 1 /\ c.occ # 0 /\ ledger.occ[o].role # "learning" =>
         c.occ \in DOMAIN ledger.accepted /\ ledger.accepted[c.occ] = Prepare(ledger.occ[o].role)
    /\ \A q \in Fresh \ {o} : ledger.occ[q].asked # ledger.occ[o].asked

\* While Learning has the request, the route it was saved with stays the pending one
\* and the source stays as assessed: only a budget can refuse the acknowledgement.
RouteKept ==
  ledger.request # NoRequest => /\ ledger.request.pending = ledger.pending
                                /\ ledger.request.source = source

\* The operator has recorded a replacement of a review of the packet.
Overruled(lineage) ==
  \E o \in DOMAIN ledger.intents :
    /\ ledger.intents[o][1] = "operator"
    /\ ledger.occ[o].role = "doublechecker" /\ ledger.occ[o].lineage = lineage

\* After the second evaluated repair of a packet it goes on, to another repair or to its
\* completion, only when Learning has disposed of it, whatever dies or is redirected; only
\* the operator's replacement of the very review takes the assessment back (record_replacement
\* overwrites what is pending).
LearningGate ==
  [][\A o \in DOMAIN ledger'.occ \ DOMAIN ledger.occ :
       LET c == ledger'.occ[o] IN
       /\ c.role \in {"fixer", "updater"}
       /\ Cardinality({pair \in ledger.pairs : pair[1] = c.lineage}) >= 2
       => c.lineage \in ledger.learned \/ Overruled(c.lineage)]_vars

\* A session ends as succeeded with its plan drained: "PASS requires drained accepted
\* plan" (role-contracts.md, Arbiter).
SucceededIsDrained ==
  step["foreground"] = "finished" /\ ledger.terminal = "succeeded" => Open(ledger) = {}

\* An accepted packet is reopened by the one remediation episode of the session, and by
\* no other repair of the plan.
ReopenedByRemediation ==
  [][\A n \in DOMAIN ledger.plan :
       ledger.plan[n].accepted /\ ~ledger'.plan[n].accepted =>
         /\ Used(ledger, <<"remediation">>) = 1
         /\ ledger.pending.kind = "remediation"]_vars

\* A preparation that dies leaves a ledger that loads: it "can rematerialize the exact
\* committed reservation" (contracts.md).
InterruptedLoads == \A p \in Planes : step[p] = "paused" => CanLoad(ledger)

\* However long the roles fail, repair and replace each other, the budgets bring a
\* session the operator does not redirect to a pause for a human, to its end, or to a
\* wait for an acknowledgement; then Learning has finished, or has paused and owes it.
StopsLegally ==
  \/ <>(redirects > 0)
  \/ <>[](\/ step["foreground"] \in {"paused", "hold"}
          \/ step["foreground"] = "finished" /\ step["learning"] \in {"finished", "paused"}
          \/ /\ at["foreground"] = At("accept_learning_ack") /\ step["foreground"] = "idle"
             /\ step["learning"] = "paused")

=============================================================================
