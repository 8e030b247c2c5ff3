----------------------------- MODULE LadProofs -----------------------------
(***************************************************************************)
(* The safety of the LAD session, for any packets, caps, outcomes, roles   *)
(* that fail or change the source, deaths and redirects: the theorems      *)
(* about LadSession.                                                       *)
(*                                                                         *)
(* Two planes save one file without a lock, so the first invariant, Inv,   *)
(* says whose turn it is: while there is a request, the foreground waits   *)
(* for its acknowledgement or has yet to send it, and a script of Learning *)
(* holds the ledger as it is.  From it, StepEffects gives what each step   *)
(* does to the ledger itself instead of to a copy of it, and all that      *)
(* follows is proved from these effects: DispatchInv is about occurrences  *)
(* and the files beside the ledger, DecisionInv about what a reservation   *)
(* answers, PlanInv about the remediation, Gates about the packets whose   *)
(* repairs Learning has yet to see, LoadInv about what the next script has *)
(* to be able to load.                                                     *)
(***************************************************************************)
EXTENDS LadSession, TLAPS, FiniteSetTheorems

\* A ledger has the fields of the first, a request its own.
IsLedger(L) ==
  L = [occ |-> L.occ, accepted |-> L.accepted, active |-> L.active, usage |-> L.usage,
       intents |-> L.intents, plan |-> L.plan, baselines |-> L.baselines, reviews |-> L.reviews,
       fixers |-> L.fixers, pairs |-> L.pairs, learned |-> L.learned, pending |-> L.pending,
       request |-> L.request, seen |-> L.seen, acked |-> L.acked, ackRoute |-> L.ackRoute,
       cont |-> L.cont, terminal |-> L.terminal]
IsRequest(R) ==
  /\ R = [kind |-> R.kind, lineage |-> R.lineage, id |-> R.id, pending |-> R.pending,
          source |-> R.source, stage |-> R.stage, core |-> R.core]
  /\ R.kind \in {"ASSESS", "CLOSE"} /\ R.id \in Nat

\* A script that holds a copy of the ledger; one that prepares an occurrence.
Preparing == {"intended", "reserved", "input", "active"}
Holding == Preparing \cup {"loaded", "received"}

\* The nodes at which Learning works on a request, and those at which it waits.
Busy == {"prepare", "replace", "native", "accept", "emit_ack"}
Waiting == {At("receive_request"), At("after_ack"), At("finished")}

\* Learning has the request: its envelope is on the way, or it works on it.
LearningHas == Len(sent) > got \/ at["learning"][1] \in Busy

\* The routes that an acceptance leads to.
Routes == {"prepare", "replace", "emit_request", "human_pause"}
RouteOf(role, route) ==
  IF role = "learning" THEN route \in {Replace("learning"), At("emit_ack")} ELSE route[1] \in Routes

Planar ==
  /\ step \in [Planes -> Steps]
  /\ DOMAIN at = Planes /\ DOMAIN next = Planes /\ DOMAIN held = Planes

IsSeq(s) == \E S : s \in Seq(S)

\* The ledger: a request and its route, and the routes of what was accepted.
LedgerInv ==
  /\ IsLedger(ledger) /\ ledger.acked \in Nat /\ ledger.ackRoute[1] # "native"
  /\ IsSeq(ledger.occ) /\ Len(ledger.occ) \in Nat /\ DOMAIN ledger.active = Planes
  /\ \A p \in Planes : ledger.active[p] \in 0..Len(ledger.occ)
  /\ DOMAIN ledger.accepted \subseteq 1..Len(ledger.occ)
  /\ \A o \in DOMAIN ledger.accepted : RouteOf(ledger.occ[o].role, ledger.accepted[o])
  /\ ledger.request # NoRequest =>
       /\ IsRequest(ledger.request) /\ ledger.request.id = ledger.acked + 1
       /\ ledger.cont.node # At("emit_request")
       /\ ledger.request.pending = ledger.pending
       /\ ledger.request.kind = "ASSESS" => ledger.pending.kind = "learning_gate"

\* The seams: at most one envelope is not received, a request that Learning has is open
\* and not acknowledged, and an acknowledgement is of a past request, or exactly of the
\* open one.
SeamInv ==
  /\ got \in Nat /\ heard \in Nat /\ Len(sent) \in Nat /\ Len(acks) \in Nat
  /\ IsSeq(sent) /\ IsSeq(acks)
  /\ got <= Len(sent) /\ Len(sent) <= got + 1 /\ heard <= Len(acks)
  /\ Len(sent) > got => at["learning"] \in Waiting
  /\ LearningHas => ledger.request # NoRequest
  /\ \A k \in 1..Len(acks) :
       /\ acks[k].id \in Nat
       /\ \/ acks[k].id <= ledger.acked
          \/ /\ ledger.request # NoRequest /\ ledger.request = acks[k]
             /\ ledger.request.stage = "ack_ready" /\ ~LearningHas

\* Learning's script holds the ledger as it is, and only while Learning has the request.
LearningInv ==
  LET a == at["learning"]
      s == step["learning"]
      n == next["learning"] IN
  /\ a \in Waiting \/ a[1] \in Busy
  /\ a = At("finished") => s = "finished"
  /\ a[1] = "native" => s = "idle"
  /\ s \in Preparing => a[1] \in {"prepare", "replace"} /\ ledger.request.kind = "ASSESS"
  /\ s = "received" => a = At("receive_request")
  /\ s \in Holding => held["learning"] = ledger /\ LearningHas /\ a # At("after_ack")
  /\ s = "saved" =>
       \/ a = At("emit_ack") /\ n = At("after_ack") /\ ledger.request.stage = "ack_ready"
       \/ a = At("after_ack") /\ n \in {At("receive_request"), At("finished")}
       \/ a # At("emit_ack") /\ a # At("after_ack") /\ n[1] \in Busy /\ LearningHas

\* The foreground's script holds the ledger as it is unless Learning has the request; while
\* there is one, the foreground waits for its acknowledgement, or has yet to send it.
ForegroundInv ==
  LET a == at["foreground"]
      s == step["foreground"]
      n == next["foreground"]
      H == held["foreground"] IN
  /\ a[1] = "native" => s = "idle"
  /\ s \in Preparing => a[1] \in {"prepare", "replace"}
  /\ s # "received"
  /\ s = "saved" => a[1] \notin {"emit_ack", "receive_request"}
  /\ a = At("emit_request") /\ s = "saved" => ledger.request # NoRequest
  /\ a = At("accept_learning_ack") /\ s \in Holding \cup {"saved"} => Len(acks) > heard
  /\ ledger.request # NoRequest =>
       /\ s \notin Preparing /\ a[1] # "native"
       /\ s = "saved" => n = At("accept_learning_ack") /\ a = At("emit_request")
       /\ a = At("emit_request") => ~LearningHas /\ ledger.request.stage = "published"
  /\ s \in Holding =>
       /\ IsLedger(H) /\ (H.request = NoRequest <=> ledger.request = NoRequest)
       /\ H.request = NoRequest => H = ledger
       /\ H.request # NoRequest => IsRequest(H.request) /\ H.request.id = ledger.request.id
       /\ a = At("accept_learning_ack") /\ ledger.request # NoRequest
          /\ acks[heard + 1].id = ledger.request.id => H = ledger

Inv == Planar /\ LedgerInv /\ SeamInv /\ LearningInv /\ ForegroundInv

\* While there is a request the source is as assessed: nobody but a role writes to it.
SourceInv == ledger.request # NoRequest => ledger.request.source = source

-----------------------------------------------------------------------------
\* What the functions of the ledger change, and what they keep.
Kept(L, M) ==
  /\ IsLedger(M)
  /\ M.occ = L.occ /\ M.accepted = L.accepted /\ M.active = L.active /\ M.intents = L.intents
  /\ M.cont = L.cont /\ M.request = L.request /\ M.seen = L.seen /\ M.acked = L.acked
  /\ M.ackRoute = L.ackRoute

LEMMA KeptByFields ==
  ASSUME NEW L, IsLedger(L), NEW x
  PROVE  /\ Kept(L, L) /\ Kept(L, [L EXCEPT !.pending = x]) /\ Kept(L, [L EXCEPT !.plan = x])
         /\ Kept(L, [L EXCEPT !.usage = x]) /\ Kept(L, [L EXCEPT !.baselines = x])
         /\ Kept(L, [L EXCEPT !.reviews = x]) /\ Kept(L, [L EXCEPT !.fixers = x])
         /\ Kept(L, [L EXCEPT !.pairs = x]) /\ Kept(L, [L EXCEPT !.learned = x])
         /\ Kept(L, [L EXCEPT !.terminal = x])
  BY DEF Kept, IsLedger

LEMMA KeptOn ==
  ASSUME NEW L, NEW M, NEW N, Kept(L, M), Kept(M, N)
  PROVE  Kept(L, N)
  BY DEF Kept

\* What a choice leads to: a route of the role's plane, on a ledger whose history is kept.
Leads(L, role, r) == Kept(L, r.ledger) /\ RouteOf(role, r.route)

LEMMA Heads ==
  ASSUME NEW x
  PROVE  /\ Prepare(x)[1] = "prepare" /\ Replace(x)[1] = "replace" /\ Native(x)[1] = "native"
         /\ At(x)[1] = x /\ Prepare(x)[2] = x /\ Replace(x)[2] = x /\ Native(x)[2] = x
  BY DEF Prepare, Replace, Native, At

LEMMA AcceptHead ==
  ASSUME NEW x, NEW y
  PROVE  Accept(x, y)[1] = "accept" /\ Accept(x, y)[2] = x
  BY DEF Accept

LEMMA RouteHeads ==
  ASSUME NEW role, role # "learning", NEW x
  PROVE  /\ RouteOf(role, Prepare(x)) /\ RouteOf(role, Replace(x))
         /\ RouteOf(role, At("emit_request")) /\ RouteOf(role, At("human_pause"))
  BY Heads DEF RouteOf, Routes

LEMMA ToLeads ==
  ASSUME NEW L, NEW M, NEW role, NEW route, RouteOf(role, route), Kept(L, M), NEW r \in To(route, M)
  PROVE  Leads(L, role, r)
  BY DEF To, Leads

LEMMA DebitKept ==
  ASSUME NEW L, IsLedger(L), NEW keys, NEW M \in Debit(L, keys)
  PROVE  Kept(L, M)
<1>1. M = [L EXCEPT !.usage = [k \in DOMAIN L.usage \cup keys |->
                                 Used(L, k) + IF k \in keys THEN 1 ELSE 0]]
  BY DEF Debit
<1> QED BY <1>1, KeptByFields

LEMMA RecoverLeads ==
  ASSUME NEW L, IsLedger(L), NEW o, NEW kind, NEW role, role # "learning", NEW r \in Recover(L, o, kind)
  PROVE  Leads(L, role, r)
  BY KeptByFields, RouteHeads, ToLeads DEF Recover

LEMMA ConsultLeads ==
  ASSUME NEW L, IsLedger(L), NEW o, NEW role, role # "learning", NEW r \in Consult(L, o)
  PROVE  Leads(L, role, r)
  BY KeptByFields, RouteHeads, ToLeads DEF Consult

LEMMA OnwardLeads ==
  ASSUME NEW L, NEW M, Kept(L, M), NEW role, role # "learning", NEW r \in Onward(M)
  PROVE  Leads(L, role, r)
  BY RouteHeads, ToLeads DEF Onward

LEMMA PlanLeads ==
  ASSUME NEW L, IsLedger(L), NEW role, role # "learning", NEW r \in Plan(L)
  PROVE  Leads(L, role, r)
<1>1. PICK plan : r \in Onward([L EXCEPT !.plan = plan, !.pending = NoPending])
  BY DEF Plan
<1> DEFINE M == [L EXCEPT !.plan = plan]
<1>2. Kept(L, M) /\ Kept(M, [M EXCEPT !.pending = NoPending])
  <2>1. Kept(L, M)
    BY KeptByFields
  <2>2. IsLedger(M)
    BY <2>1 DEF Kept
  <2> QED BY <2>1, <2>2, KeptByFields
<1>3. Kept(L, [M EXCEPT !.pending = NoPending])
  BY <1>2, KeptOn
<1> QED BY <1>1, <1>3, OnwardLeads

LEMMA ReviewKept ==
  ASSUME NEW L, IsLedger(L), NEW o, NEW passed, NEW version
  PROVE  Kept(L, Review(L, o, passed, version))
<1> DEFINE c == L.occ[o]
           checked == IF c.role = "checker"
                        THEN [L EXCEPT !.baselines = @ \cup {c.lineage}, !.pending = NoPending]
                        ELSE L
<1>1. Kept(L, checked)
  BY DEF Kept, IsLedger
<1>2. IsLedger(checked)
  BY <1>1 DEF Kept
<1>3. Kept(checked, [checked EXCEPT !.reviews = With(checked.reviews, c.lineage, version)])
      /\ Kept(checked, [checked EXCEPT !.reviews = Without(checked.reviews, c.lineage)])
  BY <1>2, KeptByFields
<1>4. Kept(L, [checked EXCEPT !.reviews = With(checked.reviews, c.lineage, version)])
      /\ Kept(L, [checked EXCEPT !.reviews = Without(checked.reviews, c.lineage)])
  BY <1>1, <1>3, KeptOn
<1> QED BY <1>4 DEF Review

LEMMA GateLeads ==
  ASSUME NEW L, NEW K, Kept(K, L), NEW o, NEW passed, NEW role, role # "learning",
         NEW r \in Gate(L, o, passed)
  PROVE  Leads(K, role, r)
<1> DEFINE c == L.occ[o]
           M == [L EXCEPT !.pairs = @ \cup {<<c.lineage, c.fixer>>}]
           paired == Cardinality({p \in M.pairs : p[1] = c.lineage})
           target == IF passed THEN "updater" ELSE IF paired < 2 THEN "fixer" ELSE "troubleshooter"
           N == IF target = "troubleshooter"
                  THEN [M EXCEPT !.pending = Pending("review", c.role, c.lineage, o)] ELSE M
           G == [N EXCEPT !.pending = Pending("learning_gate", target, c.lineage, o)]
<1>1. IsLedger(L)
  BY DEF Kept
<1>2. Kept(L, M)
  BY <1>1, KeptByFields
<1>a. IsLedger(M)
  BY <1>2 DEF Kept
<1>3. Kept(M, N)
  BY <1>a, <1>2, KeptByFields
<1>4. Kept(L, N)
  BY <1>2, <1>3, KeptOn
<1>b. IsLedger(N)
  BY <1>4 DEF Kept
<1>5. Kept(N, G)
  BY <1>b, KeptByFields
<1>6. Kept(K, L) /\ Kept(K, N) /\ Kept(K, G)
  BY <1>4, <1>5, KeptOn
<1>7. \/ r \in To(Prepare(IF passed THEN "updater" ELSE "fixer"), L)
      \/ r \in To(At("emit_request"), G)
      \/ r \in To(Prepare(target), N)
  BY DEF Gate
<1> HIDE DEF M, N, G, target
<1> QED BY <1>6, <1>7, ToLeads, RouteHeads

LEMMA RepairedLeads ==
  ASSUME NEW L, IsLedger(L), NEW o, NEW outcome, NEW role, role # "learning",
         NEW r \in Repaired(L, o, outcome)
  PROVE  Leads(L, role, r)
<1>1. r \in To(Prepare("doublechecker"), L) \/ r \in To(Replace(L.pending.target), L)
  BY DEF Repaired
<1> QED BY <1>1, KeptByFields, ToLeads, RouteHeads

LEMMA UpdatedLeads ==
  ASSUME NEW L, IsLedger(L), NEW o, NEW outcome, NEW version, NEW role, role # "learning",
         NEW r \in Updated(L, o, outcome, version)
  PROVE  Leads(L, role, r)
<1> DEFINE c == L.occ[o]
           unreviewed == [L EXCEPT !.reviews = Without(@, c.lineage)]
           baseless == [unreviewed EXCEPT !.pending = Pending("new_baseline", "checker", c.lineage, o)]
           done == [L EXCEPT !.plan[Cursor(L)].accepted = TRUE]
<1>1. Kept(L, unreviewed) /\ Kept(L, done)
  <2>1. done = [L EXCEPT !.plan = [L.plan EXCEPT ![Cursor(L)].accepted = TRUE]]
    OBVIOUS
  <2> QED BY <2>1, KeptByFields
<1>2. IsLedger(unreviewed)
  BY <1>1 DEF Kept
<1>3. Kept(unreviewed, baseless)
  BY <1>2, KeptByFields
<1>4. Kept(L, baseless)
  BY <1>1, <1>3, KeptOn
<1>5. \/ r \in To(Prepare("checker"), baseless)
      \/ r \in To(Prepare("doublechecker"), unreviewed)
      \/ r \in Onward(done)
  BY DEF Updated
<1> HIDE DEF unreviewed, baseless, done
<1> QED BY <1>1, <1>4, <1>5, ToLeads, RouteHeads, OnwardLeads

LEMMA VerdictLeads ==
  ASSUME NEW L, IsLedger(L), NEW o, NEW outcome, NEW role, role # "learning",
         NEW r \in Verdict(L, o, outcome)
  PROVE  Leads(L, role, r)
<1>1. CASE outcome = "PASS"
  <2> DEFINE M == [L EXCEPT !.terminal = "succeeded"]
             N == [M EXCEPT !.pending = NoPending]
  <2>1. r \in To(At("emit_request"), N)
    BY <1>1 DEF Verdict
  <2>2. Kept(L, M)
    BY KeptByFields
  <2>3. IsLedger(M)
    BY <2>2 DEF Kept
  <2>4. Kept(M, N)
    BY <2>3, KeptByFields
  <2>5. Kept(L, N)
    BY <2>2, <2>4, KeptOn
  <2> HIDE DEF N
  <2> QED BY <2>1, <2>5, ToLeads, RouteHeads
<1>2. CASE outcome # "PASS"
  <2>1. PICK M \in Debit(L, {<<"remediation">>}) :
          r \in To(Prepare("manager"),
                   [M EXCEPT !.pending = Pending("remediation", "manager", "unpacketized", o)])
    BY <1>2 DEF Verdict
  <2>2. Kept(L, M)
    BY DebitKept
  <2>3. IsLedger(M)
    BY <2>2 DEF Kept
  <2>4. Kept(M, [M EXCEPT !.pending = Pending("remediation", "manager", "unpacketized", o)])
    BY <2>3, KeptByFields
  <2>5. Kept(L, [M EXCEPT !.pending = Pending("remediation", "manager", "unpacketized", o)])
    BY <2>2, <2>4, KeptOn
  <2> QED BY <2>1, <2>5, ToLeads, RouteHeads
<1> QED BY <1>1, <1>2

LEMMA LearntLeads ==
  ASSUME NEW L, IsLedger(L), NEW o, NEW outcome, NEW r \in Learnt(L, o, outcome)
  PROVE  /\ Leads(L, "learning", r) /\ r.ledger.pending = L.pending /\ r.ledger.plan = L.plan
         /\ L.request # NoRequest
<1> DEFINE M == [L EXCEPT !.learned = @ \cup {L.occ[o].lineage}]
<1>1. \/ r \in To(Replace("learning"), L)
      \/ r \in To(At("emit_ack"), M)
  BY DEF Learnt
<1>2. Kept(L, M) /\ M.pending = L.pending /\ M.plan = L.plan
  BY KeptByFields DEF IsLedger
<1>3. RouteOf("learning", Replace("learning")) /\ RouteOf("learning", At("emit_ack"))
  BY DEF RouteOf
<1>4. L.request # NoRequest
  BY DEF Learnt
<1>5. Kept(L, L)
  BY KeptByFields
<1>6. r.ledger = L \/ r.ledger = M
  BY <1>1 DEF To
<1> HIDE DEF M
<1> QED BY <1>1, <1>2, <1>3, <1>4, <1>5, <1>6, ToLeads

LEMMA ChosenLeads ==
  ASSUME NEW L, IsLedger(L), NEW o, NEW outcome, NEW version, L.occ[o].role # "learning",
         NEW r \in Chosen(L, o, outcome, version)
  PROVE  Leads(L, L.occ[o].role, r)
<1> DEFINE c == L.occ[o]
           role == c.role
           passed == outcome = "PASS"
           fixed == [L EXCEPT !.fixers = With(@, c.lineage, o)]
<1>1. Kept(L, L) /\ Kept(L, fixed)
  BY KeptByFields
<1>2. Kept(L, Review(L, o, passed, version))
  BY ReviewKept
<1>3. \/ \E x : r \in To(Prepare(x), L) \/ r \in To(Prepare(x), fixed)
                \/ r \in To(Prepare(x), Review(L, o, passed, version))
      \/ r \in Consult(L, o) \/ r \in Plan(L)
      \/ r \in Gate(Review(L, o, passed, version), o, passed)
      \/ r \in Updated(L, o, outcome, version)
      \/ r \in Repaired(L, o, outcome)
      \/ r \in Recover(L, o, "execution")
      \/ \E x : \E M \in Debit(L, {<<"planning_repair">>}) : r \in To(Prepare(x), M)
      \/ r \in Verdict(L, o, outcome)
  BY DEF Chosen
<1>4. \A M \in Debit(L, {<<"planning_repair">>}) : Kept(L, M)
  BY DebitKept
<1> HIDE DEF fixed, role, passed
<1>5. role # "learning"
  BY DEF role
<1>6. ASSUME r \in Gate(Review(L, o, passed, version), o, passed) PROVE Leads(L, role, r)
  BY <1>2, <1>5, <1>6, GateLeads
<1>7. ASSUME r \in Plan(L) \/ r \in Consult(L, o) \/ r \in Recover(L, o, "execution") PROVE Leads(L, role, r)
  BY <1>5, <1>7, PlanLeads, ConsultLeads, RecoverLeads
<1>8. ASSUME r \in Updated(L, o, outcome, version) \/ r \in Repaired(L, o, outcome) \/ r \in Verdict(L, o, outcome)
      PROVE Leads(L, role, r)
  BY <1>5, <1>8, UpdatedLeads, RepairedLeads, VerdictLeads
<1>9. Leads(L, role, r)
  BY <1>1, <1>2, <1>3, <1>4, <1>5, <1>6, <1>7, <1>8, ToLeads, RouteHeads
<1> QED BY <1>9 DEF role

LEMMA ChooseLeads ==
  ASSUME NEW L, IsLedger(L), NEW o, NEW outcome, NEW version, NEW r \in Choose(L, o, outcome, version)
  PROVE  /\ Leads(L, L.occ[o].role, r)
         /\ L.occ[o].role = "learning" => r.ledger.pending = L.pending /\ r.ledger.plan = L.plan
<1> DEFINE role == L.occ[o].role
           human == [L EXCEPT !.pending = Pending("human", role, L.occ[o].lineage, o)]
<1>1. CASE role = "learning"
  <2>1. r \in Learnt(L, o, outcome)
    BY <1>1 DEF Choose
  <2> QED BY <2>1, <1>1, LearntLeads
<1>2. CASE role # "learning"
  <2>1. \/ r \in To(At("human_pause"), L) \/ r \in To(At("human_pause"), human)
        \/ r \in To(Replace(role), L) \/ r \in To(Prepare("consultant"), L)
        \/ r \in Recover(L, o, "execution")
        \/ r \in Chosen(L, o, outcome, version)
    BY <1>2 DEF Choose
  <2>2. Kept(L, L) /\ Kept(L, human)
    BY KeptByFields
  <2> HIDE DEF human
  <2> QED BY <1>2, <2>1, <2>2, ToLeads, RouteHeads, RecoverLeads, ChosenLeads
<1> QED BY <1>1, <1>2

\* The saves of a preparation, of an acceptance and of the seam.
IsAcceptance(r, L, o) ==
  LET M == r.ledger IN
  /\ IsLedger(M) /\ RouteOf(L.occ[o].role, r.route)
  /\ M.occ = L.occ /\ M.active = L.active /\ M.intents = L.intents
  /\ M.accepted = With(L.accepted, o, r.route)
  /\ M.cont = [node |-> r.route, occ |-> o]
  /\ M.request = L.request /\ M.seen = L.seen /\ M.acked = L.acked /\ M.ackRoute = L.ackRoute
  /\ L.occ[o].role = "learning" => M.pending = L.pending /\ M.plan = L.plan

LEMMA AcceptedEffect ==
  ASSUME NEW L, IsLedger(L), NEW o, NEW outcome, NEW version, NEW r \in Accepted(L, o, outcome, version)
  PROVE  IsAcceptance(r, L, o)
<1>1. PICK s \in Choose(L, o, outcome, version) :
        r = [route |-> s.route,
             ledger |-> Mark([s.ledger EXCEPT !.accepted = With(@, o, s.route)], s.route, o)]
  BY DEF Accepted
<1>2. Kept(L, s.ledger) /\ RouteOf(L.occ[o].role, s.route)
      /\ (L.occ[o].role = "learning" => s.ledger.pending = L.pending /\ s.ledger.plan = L.plan)
  BY ChooseLeads DEF Leads
<1> DEFINE N == s.ledger
           A == [N EXCEPT !.accepted = With(N.accepted, o, s.route)]
<1>3. IsLedger(N)
  BY <1>2 DEF Kept
<1>4. /\ IsLedger(A) /\ A.occ = N.occ /\ A.active = N.active /\ A.intents = N.intents
      /\ A.accepted = With(N.accepted, o, s.route) /\ A.request = N.request /\ A.seen = N.seen
      /\ A.acked = N.acked /\ A.ackRoute = N.ackRoute /\ A.pending = N.pending /\ A.plan = N.plan
  BY <1>3 DEF IsLedger
<1>5. r.ledger = [A EXCEPT !.cont = [node |-> s.route, occ |-> o]] /\ r.route = s.route
  BY <1>1 DEF Mark
<1> DEFINE M == r.ledger
<1>6. /\ IsLedger(M) /\ M.occ = A.occ /\ M.active = A.active /\ M.intents = A.intents
      /\ M.accepted = A.accepted /\ M.request = A.request /\ M.seen = A.seen
      /\ M.acked = A.acked /\ M.ackRoute = A.ackRoute /\ M.pending = A.pending /\ M.plan = A.plan
      /\ M.cont = [node |-> s.route, occ |-> o]
  <2> HIDE DEF A
  <2> QED BY <1>4, <1>5 DEF IsLedger
<1> HIDE DEF A
<1> QED BY <1>2, <1>4, <1>5, <1>6 DEF Kept, IsAcceptance

ReservedFor(L, role, replacement) ==
  IF replacement THEN L.occ[Old(L, role)].lineage ELSE Lineage(L, role)

\* The occurrence that is reserved.
IsReserved(c, L, role, replacement, version) ==
  /\ c.role = role /\ c.lineage = ReservedFor(L, role, replacement) /\ c.source = version
  /\ c.of = (IF replacement THEN Old(L, role) ELSE 0) /\ c.asked = <<L.cont, L.seen>>

\* What a reservation saves.
IsReservation(M, L, role, replacement, version) ==
  /\ IsLedger(M)
  /\ \E c : M.occ = Append(L.occ, c) /\ IsReserved(c, L, role, replacement, version)
  /\ M.active = [L.active EXCEPT ![Plane(role)] = Len(L.occ) + 1]
  /\ M.accepted = L.accepted /\ M.intents = L.intents
  /\ M.cont = [node |-> Native(role), occ |-> Len(L.occ) + 1]
  /\ M.request = L.request /\ M.seen = L.seen /\ M.acked = L.acked /\ M.ackRoute = L.ackRoute
  /\ M.pending = IF replacement /\ L.pending = NoPending
                   THEN Pending("replacement", role, ReservedFor(L, role, replacement), Old(L, role))
                   ELSE L.pending
  /\ M.plan = L.plan /\ M.pairs = L.pairs /\ M.learned = L.learned

LEMMA ReservedEffect ==
  ASSUME NEW L, IsLedger(L), NEW role, NEW replacement, NEW version,
         NEW M \in Reserved(L, role, replacement, version)
  PROVE  IsReservation(M, L, role, replacement, version)
<1> DEFINE old == Old(L, role)
           lineage == IF replacement THEN L.occ[old].lineage ELSE Lineage(L, role)
           repair == role = "troubleshooter" /\ Used(L, <<"local_repair", Lineage(L, role)>>) < 1
           keys == {<<"all">>, RoleKey(role, lineage)}
                   \cup (IF repair THEN {<<"local_repair", lineage>>} ELSE {})
                   \cup (IF replacement THEN {<<"replacement", role, lineage>>} ELSE {})
           fixer == IF lineage \in DOMAIN L.fixers THEN L.fixers[lineage] ELSE 0
           occurrence ==
             [role |-> role, lineage |-> lineage, of |-> IF replacement THEN old ELSE 0,
              repair |-> repair, source |-> version, fixer |-> fixer, asked |-> <<L.cont, L.seen>>]
           o == Len(L.occ) + 1
           Made(N) == [N EXCEPT !.occ = Append(@, occurrence), !.active[Plane(role)] = o,
                          !.pending = IF replacement /\ @ = NoPending
                                        THEN Pending("replacement", role, lineage, old) ELSE @]
<1>1. PICK N \in Debit(L, keys) : M = Mark(Made(N), Native(role), o)
  BY DEF Reserved
<1>2. N = [L EXCEPT !.usage = [k \in DOMAIN L.usage \cup keys |->
                                 Used(L, k) + IF k \in keys THEN 1 ELSE 0]]
  BY DEF Debit
<1> HIDE DEF occurrence, keys
<1>3. /\ IsLedger(N) /\ N.occ = L.occ /\ N.active = L.active /\ N.accepted = L.accepted
      /\ N.intents = L.intents /\ N.cont = L.cont /\ N.request = L.request /\ N.seen = L.seen
      /\ N.acked = L.acked /\ N.ackRoute = L.ackRoute /\ N.pending = L.pending /\ N.plan = L.plan
      /\ N.pairs = L.pairs /\ N.learned = L.learned
  BY <1>2 DEF IsLedger
<1> HIDE DEF lineage, old
<1> DEFINE due == IF replacement /\ N.pending = NoPending
                    THEN Pending("replacement", role, lineage, old) ELSE N.pending
           reserved == Append(N.occ, occurrence)
           active == [N.active EXCEPT ![Plane(role)] = o]
<1>4. Made(N) = [N EXCEPT !.occ = reserved, !.active = active, !.pending = due]
  BY <1>3 DEF IsLedger
<1>5. due = IF replacement /\ N.pending = NoPending
              THEN Pending("replacement", role, lineage, old) ELSE N.pending
  OBVIOUS
<1>6. reserved = Append(N.occ, occurrence) /\ active = [N.active EXCEPT ![Plane(role)] = o]
  OBVIOUS
<1> HIDE DEF due, reserved, active
<1>7. PICK N1 : N1 = [N EXCEPT !.occ = reserved]
  OBVIOUS
<1>8. PICK N2 : N2 = [N1 EXCEPT !.active = active]
  OBVIOUS
<1>9. IsLedger(N1) /\ N1.occ = reserved /\ N1.active = N.active /\ N1.pending = N.pending
      /\ N1.accepted = N.accepted /\ N1.intents = N.intents /\ N1.request = N.request /\ N1.seen = N.seen
      /\ N1.acked = N.acked /\ N1.ackRoute = N.ackRoute /\ N1.plan = N.plan
      /\ N1.pairs = N.pairs /\ N1.learned = N.learned
  BY <1>3, <1>7 DEF IsLedger
<1>10. IsLedger(N2) /\ N2.occ = reserved /\ N2.active = active /\ N2.pending = N1.pending
      /\ N2.accepted = N1.accepted /\ N2.intents = N1.intents /\ N2.request = N1.request /\ N2.seen = N1.seen
      /\ N2.acked = N1.acked /\ N2.ackRoute = N1.ackRoute /\ N2.plan = N1.plan
      /\ N2.pairs = N1.pairs /\ N2.learned = N1.learned
  BY <1>8, <1>9 DEF IsLedger
<1>11. Made(N) = [N2 EXCEPT !.pending = due]
  BY <1>3, <1>4, <1>7, <1>8 DEF IsLedger
<1> HIDE DEF Made
<1> DEFINE P == Made(N)
<1>12. /\ IsLedger(P) /\ P.occ = N2.occ /\ P.active = N2.active
      /\ P.accepted = N2.accepted /\ P.intents = N2.intents /\ P.request = N2.request /\ P.seen = N2.seen
      /\ P.acked = N2.acked /\ P.ackRoute = N2.ackRoute /\ P.plan = N2.plan
      /\ P.pairs = N2.pairs /\ P.learned = N2.learned
      /\ P.pending = due
  BY <1>10, <1>11 DEF IsLedger
<1>13. M = [P EXCEPT !.cont = [node |-> Native(role), occ |-> o]]
  BY <1>1 DEF Mark
<1> HIDE DEF P
<1>14. /\ IsLedger(P) /\ P.occ = Append(N.occ, occurrence) /\ P.active = [N.active EXCEPT ![Plane(role)] = o]
      /\ P.accepted = N.accepted /\ P.intents = N.intents /\ P.request = N.request /\ P.seen = N.seen
      /\ P.acked = N.acked /\ P.ackRoute = N.ackRoute /\ P.plan = N.plan
      /\ P.pairs = N.pairs /\ P.learned = N.learned
      /\ P.pending = IF replacement /\ N.pending = NoPending
                       THEN Pending("replacement", role, lineage, old) ELSE N.pending
  BY <1>5, <1>6, <1>12, <1>9, <1>10
<1> HIDE DEF P
<1>15. /\ IsLedger(M) /\ M.occ = P.occ /\ M.active = P.active
      /\ M.accepted = P.accepted /\ M.intents = P.intents /\ M.request = P.request /\ M.seen = P.seen
      /\ M.acked = P.acked /\ M.ackRoute = P.ackRoute /\ M.plan = P.plan /\ M.pending = P.pending
      /\ M.pairs = P.pairs /\ M.learned = P.learned
      /\ M.cont = [node |-> Native(role), occ |-> o]
  BY <1>14, <1>13 DEF IsLedger
<1>16. M.occ = Append(L.occ, occurrence) /\ M.active = [L.active EXCEPT ![Plane(role)] = o]
      /\ M.pending = IF replacement /\ L.pending = NoPending
                       THEN Pending("replacement", role, lineage, old) ELSE L.pending
  BY <1>3, <1>14, <1>15
<1>17. IsReserved(occurrence, L, role, replacement, version)
  BY DEF occurrence, IsReserved, lineage, old, ReservedFor
<1>18. \E c : M.occ = Append(L.occ, c) /\ IsReserved(c, L, role, replacement, version)
  BY <1>16, <1>17
<1> QED BY <1>3, <1>14, <1>15, <1>16, <1>18 DEF lineage, old, ReservedFor, IsReservation

LEMMA IntendedEffect ==
  ASSUME NEW L, IsLedger(L), NEW role, NEW version
  PROVE  LET M == Intended(L, role, version) IN
         /\ IsLedger(M) /\ M.occ = L.occ /\ M.active = L.active /\ M.accepted = L.accepted
         /\ M.cont = L.cont /\ M.request = L.request /\ M.seen = L.seen /\ M.acked = L.acked
         /\ M.ackRoute = L.ackRoute /\ M.pending = L.pending /\ M.plan = L.plan
         /\ M.pairs = L.pairs /\ M.learned = L.learned
  BY DEF Intended, IsLedger

-----------------------------------------------------------------------------
\* Who has the turn is an invariant: Init, and the steps by what they change.
LEMMA AppendIsSeq ==
  ASSUME NEW s, IsSeq(s), NEW x
  PROVE  /\ IsSeq(Append(s, x)) /\ Len(s) \in Nat /\ Len(Append(s, x)) = Len(s) + 1
         /\ \A k \in 1..Len(s) : Append(s, x)[k] = s[k]
         /\ Append(s, x)[Len(s) + 1] = x
<1>1. PICK S : s \in Seq(S)
  BY DEF IsSeq
<1>2. s \in Seq(S \cup {x})
  BY <1>1
<1>3. Append(s, x) \in Seq(S \cup {x})
  BY <1>2
<1> QED BY <1>2, <1>3 DEF IsSeq

LEMMA InitInv == Init => Inv
<1> SUFFICES ASSUME Init PROVE Inv
  OBVIOUS
<1> USE DEF Init, NewState, NoRequest, NoPending
<1>1. Planar
  BY DEF Planar, Planes, Steps
<1>2. LedgerInv
  <2>1. IsLedger(ledger)
    BY DEF IsLedger
  <2>2. /\ ledger.acked \in Nat /\ ledger.request = NoRequest /\ ledger.accepted = <<>>
        /\ ledger.occ = <<>> /\ DOMAIN ledger.active = Planes /\ \A p \in Planes : ledger.active[p] = 0
    BY DEF Planes
  <2>4. IsSeq(ledger.occ) /\ Len(ledger.occ) = 0
    BY <2>2 DEF IsSeq
  <2>3. ledger.ackRoute[1] # "native"
    BY Heads
  <2> QED BY <2>1, <2>2, <2>3, <2>4 DEF LedgerInv
<1>3. at["learning"] = At("receive_request") /\ at["foreground"][1] = "prepare"
  BY Heads
<1>4. ~LearningHas
  BY <1>3, Heads DEF LearningHas, Busy
<1>5. SeamInv
  BY <1>4 DEF SeamInv, IsSeq, Waiting
<1>6. step["learning"] = "idle" /\ step["foreground"] = "idle"
  BY DEF Planes
<1>7. LearningInv
  <2>1. at["learning"] # At("finished") /\ at["learning"][1] # "native"
    <3>1. At("receive_request") # At("finished") /\ At("receive_request")[1] # "native"
      BY Heads
    <3> QED BY <1>3, <3>1
  <2> QED BY <1>3, <1>6, <2>1 DEF LearningInv, Waiting, Holding, Preparing
<1>8. ForegroundInv
  BY <1>3, <1>6, Heads DEF ForegroundInv, Holding, Preparing
<1> QED BY <1>1, <1>2, <1>5, <1>7, <1>8 DEF Inv

\* A step of the foreground, or of Learning, that saves nothing and sends nothing.
SameLedger == UNCHANGED <<ledger, sent, got, acks, heard>>
Rests(p) == at'[p] = at[p] /\ step'[p] = step[p] /\ next'[p] = next[p] /\ held'[p] = held[p]

LEMMA ForegroundAlone ==
  ASSUME Inv, SameLedger, Rests("learning"), Planar', ForegroundInv'
  PROVE  Inv'
<1>1. LearningHas' <=> LearningHas
  BY DEF LearningHas, SameLedger, Rests
<1>2. LedgerInv'
  BY DEF Inv, LedgerInv, SameLedger
<1>3. SeamInv'
  BY <1>1 DEF Inv, SeamInv, SameLedger, Rests
<1>4. LearningInv'
  BY <1>1 DEF Inv, LearningInv, SameLedger, Rests
<1> QED BY <1>2, <1>3, <1>4 DEF Inv

LEMMA LearningAlone ==
  ASSUME Inv, SameLedger, Rests("foreground"), Planar', LearningInv',
         at'["learning"] \in Waiting \/ at'["learning"][1] \in Busy,
         LearningHas' <=> LearningHas, Len(sent) > got => at'["learning"] \in Waiting
  PROVE  Inv'
<1>2. LedgerInv'
  BY DEF Inv, LedgerInv, SameLedger
<1>3. SeamInv'
  BY DEF Inv, SeamInv, SameLedger
<1>4. ForegroundInv'
  BY DEF Inv, ForegroundInv, SameLedger, Rests
<1> QED BY <1>2, <1>3, <1>4 DEF Inv

\* A save of the foreground, which has the turn; and one of Learning, which has it.
LEMMA ForegroundSaves ==
  ASSUME Inv, ledger.request = NoRequest, LedgerInv', ledger'.acked = ledger.acked,
         UNCHANGED <<sent, got, acks, heard, at>>, Rests("learning"), Planar', ForegroundInv'
  PROVE  Inv'
<1>1. ~LearningHas /\ (LearningHas' <=> LearningHas)
  BY DEF Inv, SeamInv, LearningHas
<1>3. SeamInv'
  BY <1>1 DEF Inv, SeamInv
<1>4. LearningInv'
  BY <1>1 DEF Inv, LearningInv, Rests, LearningHas, Busy, At
<1> QED BY <1>3, <1>4 DEF Inv

LEMMA LearningSaves ==
  ASSUME Inv, step["learning"] \in Holding, LedgerInv', ledger'.acked = ledger.acked,
         ledger'.request # NoRequest, ledger'.request.id = ledger.request.id,
         UNCHANGED <<sent, got, acks, heard, at>>, Rests("foreground"), Planar', LearningInv'
  PROVE  Inv'
<1>1. LearningHas /\ (LearningHas' <=> LearningHas) /\ ledger.request # NoRequest
  BY DEF Inv, SeamInv, LearningInv, LearningHas
<1>2. ledger.request.id = ledger.acked + 1 /\ ledger.acked \in Nat
  BY <1>1 DEF Inv, LedgerInv
<1>3. \A k \in 1..Len(acks) : acks[k].id <= ledger.acked
  BY <1>1 DEF Inv, SeamInv
<1>4. SeamInv'
  BY <1>1, <1>3 DEF Inv, SeamInv
<1>5. ForegroundInv'
  BY <1>1, <1>2, <1>3 DEF Inv, ForegroundInv, SeamInv, Rests
<1> QED BY <1>4, <1>5 DEF Inv

LEMMA GotoStep ==
  ASSUME Planar, NEW p \in Planes, NEW s \in Steps, Goto(p, s)
  PROVE  /\ step' \in [Planes -> Steps] /\ step'[p] = s
         /\ \A q \in Planes \ {p} : step'[q] = step[q]
  BY DEF Planar, Goto

LEMMA DropStep ==
  ASSUME Planar, NEW p \in Planes, Drop(p)
  PROVE  DOMAIN held' = Planes /\ \A q \in Planes \ {p} : held'[q] = held[q]
  BY DEF Planar, Drop

\* A script that is refused, or dies, has saved nothing since.
LEMMA PausedKeeps ==
  ASSUME Inv, NEW p \in Planes, at[p][1] # "native", step[p] # "finished",
         Goto(p, "paused"), Drop(p),
         DOMAIN next' = Planes, \A q \in Planes \ {p} : next'[q] = next[q],
         SameLedger, at' = at
  PROVE  Inv'
<1>1. Planar
  BY DEF Inv
<1>2. /\ step' \in [Planes -> Steps] /\ step'[p] = "paused"
      /\ \A q \in Planes \ {p} : step'[q] = step[q]
  BY <1>1, GotoStep DEF Steps
<1>3. DOMAIN held' = Planes /\ \A q \in Planes \ {p} : held'[q] = held[q]
  BY <1>1, DropStep
<1>4. Planar'
  BY <1>1, <1>2, <1>3 DEF Planar
<1>5. LearningHas' <=> LearningHas
  BY DEF LearningHas, SameLedger
<1>6. CASE p = "foreground"
  <2>1. Rests("learning")
    BY <1>2, <1>3, <1>6 DEF Planes, Rests
  <2>2. ForegroundInv'
    BY <1>2, <1>5, <1>6 DEF Inv, ForegroundInv, SameLedger, Holding, Preparing
  <2> QED BY <1>4, <2>1, <2>2, ForegroundAlone
<1>7. CASE p = "learning"
  <2>1. Rests("foreground")
    BY <1>2, <1>3, <1>7 DEF Planes, Rests
  <2>2. LearningInv' /\ (Len(sent) > got => at["learning"] \in Waiting)
        /\ (at["learning"] \in Waiting \/ at["learning"][1] \in Busy)
    BY <1>2, <1>7 DEF Inv, SeamInv, LearningInv, Holding, Preparing
  <2> QED BY <1>4, <1>5, <2>1, <2>2, LearningAlone
<1> QED BY <1>6, <1>7 DEF Planes

LEMMA RefusedKeeps ==
  ASSUME Inv, NEW p \in Planes, at[p][1] # "native", step[p] # "finished", Refused(p)
  PROVE  Inv'
<1>1. SameLedger /\ at' = at /\ next' = next /\ Goto(p, "paused") /\ Drop(p)
  BY DEF Refused, SameLedger, seams
<1>2. DOMAIN next' = Planes
  BY <1>1 DEF Inv, Planar
<1> QED BY <1>1, <1>2, PausedKeeps

LEMMA CrashKeeps ==
  ASSUME Inv, NEW p \in Planes, Crash(p)
  PROVE  Inv'
<1>1. SameLedger /\ at' = at /\ next' = [next EXCEPT ![p] = Nowhere] /\ Goto(p, "paused") /\ Drop(p)
      /\ step[p] # "idle" /\ step[p] # "finished"
  BY DEF Crash, SameLedger, seams
<1>2. DOMAIN next' = Planes /\ \A q \in Planes \ {p} : next'[q] = next[q]
  BY <1>1 DEF Inv, Planar
<1>3. at[p][1] # "native"
  BY <1>1 DEF Inv, LearningInv, ForegroundInv, Planes
<1> QED BY <1>1, <1>2, <1>3, PausedKeeps

\* A script that goes on preparing what it has reserved.
LEMMA PreparingKeeps ==
  ASSUME Inv, NEW p \in Planes, NEW s \in Preparing, step[p] \in Holding,
         at[p][1] \in {"prepare", "replace"}, p = "foreground" => ledger.request = NoRequest,
         p = "learning" => ledger.request.kind = "ASSESS",
         Goto(p, s), SameLedger, UNCHANGED <<at, next, held>>
  PROVE  Inv'
<1>1. Planar
  BY DEF Inv
<1>2. /\ step' \in [Planes -> Steps] /\ step'[p] = s
      /\ \A q \in Planes \ {p} : step'[q] = step[q]
  BY <1>1, GotoStep DEF Steps, Preparing
<1>b. at[p] # At("finished") /\ at[p][1] # "native"
  BY Heads
<1>3. s \in Holding /\ s \notin {"idle", "saved", "received"}
  BY DEF Holding, Preparing
<1>4. Planar'
  BY <1>1, <1>2 DEF Planar
<1>5. LearningHas' <=> LearningHas
  BY DEF LearningHas, SameLedger
<1>6. CASE p = "foreground"
  <2>1. Rests("learning")
    BY <1>2, <1>6 DEF Planes, Rests
  <2>2. ForegroundInv'
    BY <1>2, <1>3, <1>5, <1>6, SMT DEF Inv, ForegroundInv, SameLedger
  <2> QED BY <1>4, <2>1, <2>2, ForegroundAlone
<1>7. CASE p = "learning"
  <2>1. Rests("foreground")
    BY <1>2, <1>7 DEF Planes, Rests
  <2>2. LearningInv' /\ (Len(sent) > got => at["learning"] \in Waiting)
        /\ (at["learning"] \in Waiting \/ at["learning"][1] \in Busy)
    BY <1>2, <1>3, <1>5, <1>7, <1>b DEF Inv, SeamInv, LearningInv, SameLedger
  <2> QED BY <1>4, <1>5, <2>1, <2>2, LearningAlone
<1> QED BY <1>6, <1>7 DEF Planes

LEMMA LoadKeeps ==
  ASSUME Inv, NEW p \in Planes, Load(p)
  PROVE  Inv'
<1> USE DEF Load
<1>1. CASE ~CanLoad(ledger)
  <2>1. at[p][1] # "native" /\ step[p] # "finished" /\ Refused(p)
    BY <1>1
  <2> QED BY <2>1, RefusedKeeps
<1>2. CASE CanLoad(ledger)
  <2>1. SameLedger /\ Goto(p, "loaded") /\ held' = [held EXCEPT ![p] = ledger] /\ UNCHANGED <<at, next>>
    BY <1>2 DEF SameLedger, seams
  <2>2. Planar
    BY DEF Inv
  <2>3. /\ step' \in [Planes -> Steps] /\ step'[p] = "loaded"
        /\ \A q \in Planes \ {p} : step'[q] = step[q]
    BY <2>1, <2>2, GotoStep DEF Steps
  <2>4. held'[p] = ledger /\ \A q \in Planes \ {p} : held'[q] = held[q]
    BY <2>1, <2>2 DEF Planar
  <2>5. Planar'
    BY <2>1, <2>2, <2>3 DEF Planar
  <2>6. LearningHas' <=> LearningHas
    BY <2>1 DEF LearningHas, SameLedger
  <2>7. CASE p = "foreground"
    <3>1. Rests("learning")
      BY <2>1, <2>3, <2>4, <2>7 DEF Planes, Rests
    <3>2. at[p] = At("accept_learning_ack") => Len(acks) > heard
      BY Heads DEF Envelope
    <3>3. /\ at[p][1] # "native" /\ LedgerInv
      BY DEF Inv
    <3>4. ForegroundInv'
      BY <2>1, <2>3, <2>4, <2>6, <2>7, <3>2, <3>3 DEF Inv, ForegroundInv, SameLedger, Holding, Preparing, LedgerInv
    <3> QED BY <2>1, <2>5, <3>1, <3>4, ForegroundAlone
  <2>8. CASE p = "learning"
    <3>1. Rests("foreground")
      BY <2>1, <2>3, <2>4, <2>8 DEF Planes, Rests
    <3>2. at[p] # At("after_ack") /\ at[p][1] # "native"
      BY Heads
    <3>3. at[p] = At("receive_request") => Len(sent) > got
      BY Heads DEF Envelope
    <3>4. at[p] # At("finished")
      BY <2>8 DEF Inv, LearningInv
    <3>5. LearningHas
      BY <2>8, <3>2, <3>3, <3>4 DEF Inv, LearningInv, LearningHas, Waiting
    <3>6. LearningInv'
      BY <2>1, <2>3, <2>4, <2>6, <2>8, <3>2, <3>4, <3>5
      DEF Inv, LearningInv, SameLedger, Holding, Preparing
    <3>7. (Len(sent) > got => at["learning"] \in Waiting)
        /\ (at["learning"] \in Waiting \/ at["learning"][1] \in Busy)
      BY DEF Inv, SeamInv, LearningInv
    <3> QED BY <2>1, <2>5, <2>6, <3>1, <3>6, <3>7, LearningAlone
  <2> QED BY <2>7, <2>8 DEF Planes
<1> QED BY <1>1, <1>2

\* What a script that ends may lead to, of a ledger and at a node.
Ends(p, L, node) ==
  IF p = "foreground"
    THEN /\ at[p][1] \notin {"emit_ack", "receive_request", "native"}
         /\ at[p] = At("emit_request") => L.request # NoRequest
         /\ at[p] = At("accept_learning_ack") => Len(acks) > heard
         /\ L.request # NoRequest => node = At("accept_learning_ack") /\ at[p] = At("emit_request")
    ELSE \/ at[p] = At("emit_ack") /\ node = At("after_ack") /\ L.request.stage = "ack_ready"
         \/ at[p] = At("after_ack") /\ node \in {At("receive_request"), At("finished")}
         \/ at[p] \notin Waiting \ {At("receive_request")} /\ at[p] # At("emit_ack") /\ at[p][1] # "native"
            /\ node[1] \in Busy /\ LearningHas

\* A script ends, and has saved nothing in the ledger.
LEMMA SavedKeeps ==
  ASSUME Inv, NEW p \in Planes, NEW node, Ends(p, ledger, node),
         Goto(p, "saved"), Drop(p), next' = [next EXCEPT ![p] = node], SameLedger, at' = at
  PROVE  Inv'
<1>1. Planar
  BY DEF Inv
<1>2. /\ step' \in [Planes -> Steps] /\ step'[p] = "saved"
      /\ \A q \in Planes \ {p} : step'[q] = step[q]
  BY <1>1, GotoStep DEF Steps
<1>3. DOMAIN held' = Planes /\ \A q \in Planes \ {p} : held'[q] = held[q]
  BY <1>1, DropStep
<1>a. DOMAIN next' = Planes /\ next'[p] = node /\ \A q \in Planes \ {p} : next'[q] = next[q]
  BY <1>1 DEF Planar
<1>4. Planar'
  BY <1>1, <1>2, <1>3, <1>a DEF Planar
<1>5. LearningHas' <=> LearningHas
  BY DEF LearningHas, SameLedger
<1>6. CASE p = "foreground"
  <2>1. Rests("learning")
    BY <1>2, <1>3, <1>a, <1>6 DEF Planes, Rests
  <2>2. ForegroundInv'
    BY <1>2, <1>a, <1>5, <1>6 DEF Inv, ForegroundInv, SameLedger, Holding, Preparing, Ends
  <2> QED BY <1>4, <2>1, <2>2, ForegroundAlone
<1>7. CASE p = "learning"
  <2>1. Rests("foreground")
    BY <1>2, <1>3, <1>a, <1>7 DEF Planes, Rests
  <2>2. (Len(sent) > got => at["learning"] \in Waiting)
        /\ (at["learning"] \in Waiting \/ at["learning"][1] \in Busy)
    BY DEF Inv, SeamInv, LearningInv
  <2>3. at["learning"] # At("finished") /\ at["learning"][1] # "native"
    BY <1>7, Heads DEF Ends, Waiting
  <2>4. at["learning"] = At("receive_request") => at["learning"] # At("emit_ack") /\ at["learning"] # At("after_ack")
    BY Heads
  <2>5. LearningInv'
    BY <1>2, <1>a, <1>5, <1>7, <2>3, <2>4 DEF Inv, LearningInv, SameLedger, Holding, Preparing, Ends, Waiting
  <2> QED BY <1>4, <1>5, <2>1, <2>2, <2>5, LearningAlone
<1> QED BY <1>6, <1>7 DEF Planes

\* The operator never redirects to a native role, and Learning only to its own node.
LEMMA RedirectKeeps ==
  ASSUME Inv, NEW p \in Planes, Redirect(p)
  PROVE  Inv'
<1>1. PICK node \in Targets(p) : at' = [at EXCEPT ![p] = node]
  BY DEF Redirect
<1>2. SameLedger /\ Goto(p, "idle") /\ step[p] \in {"paused", "hold"} /\ UNCHANGED <<next, held>>
  BY DEF Redirect, SameLedger, seams
<1>3. Planar
  BY DEF Inv
<1>4. /\ step' \in [Planes -> Steps] /\ step'[p] = "idle"
      /\ \A q \in Planes \ {p} : step'[q] = step[q]
  BY <1>2, <1>3, GotoStep DEF Steps
<1>5. /\ DOMAIN at' = Planes /\ at'[p] = node /\ \A q \in Planes \ {p} : at'[q] = at[q]
  BY <1>1, <1>3 DEF Planar
<1>6. Planar'
  BY <1>2, <1>3, <1>4, <1>5 DEF Planar
<1>7. CASE p = "foreground"
  <2>1. Rests("learning")
    BY <1>2, <1>4, <1>5, <1>7 DEF Planes, Rests
  <2>2. LearningHas' <=> LearningHas
    BY <1>2, <1>5, <1>7 DEF LearningHas, SameLedger, Planes
  <2>3. node = at[p] \/ node = At("terminal_failure") \/ (\E x : node = Prepare(x) \/ node = Replace(x))
        \/ (node = ledger.cont.node /\ node[1] # "native")
    BY <1>7 DEF Targets
  <2>4. node[1] # "native"
    <3>1. at[p][1] # "native"
      BY <1>2, <1>7 DEF Inv, ForegroundInv
    <3> QED BY <2>3, <3>1, Heads
  <2>5. node = At("emit_request") => node = at[p] \/ ledger.request = NoRequest
    <3>1. ledger.request # NoRequest => ledger.cont.node # At("emit_request")
      BY DEF Inv, LedgerInv
    <3> QED BY <2>3, <3>1, Heads
  <2>6. ForegroundInv'
    BY <1>2, <1>4, <1>5, <1>7, <2>2, <2>4, <2>5
    DEF Inv, ForegroundInv, SameLedger, Holding, Preparing
  <2> QED BY <1>2, <1>6, <2>1, <2>6, ForegroundAlone
<1>8. CASE p = "learning"
  <2>1. Rests("foreground")
    BY <1>2, <1>4, <1>5, <1>8 DEF Planes, Rests
  <2>2. node = at[p]
    BY <1>8 DEF Targets
  <2>3. LearningHas' <=> LearningHas
    BY <1>2, <1>5, <1>8, <2>2 DEF LearningHas, SameLedger
  <2>4. (Len(sent) > got => at["learning"] \in Waiting)
        /\ (at["learning"] \in Waiting \/ at["learning"][1] \in Busy)
    BY DEF Inv, SeamInv, LearningInv
  <2>5. at[p] # At("finished")
    BY <1>2, <1>8 DEF Inv, LearningInv
  <2>6. LearningInv'
    BY <1>2, <1>4, <1>5, <1>8, <2>2, <2>3, <2>5
    DEF Inv, LearningInv, SameLedger, Holding, Preparing
  <2> QED BY <1>2, <1>5, <1>6, <1>8, <2>1, <2>2, <2>3, <2>4, <2>6, LearningAlone
<1> QED BY <1>7, <1>8 DEF Planes

\* The end of a script: Core routes by it, and publishes what it emits.
LEMMA EmitKeeps ==
  ASSUME Inv, NEW p \in Planes, Emit(p)
  PROVE  Inv'
<1>1. /\ step[p] = "saved" /\ at' = [at EXCEPT ![p] = next[p]] /\ next' = [next EXCEPT ![p] = Nowhere]
      /\ sent' = Sent(p) /\ acks' = Acked(p)
      /\ got' = got + IF at[p] = At("receive_request") THEN 1 ELSE 0
      /\ heard' = heard + IF at[p] = At("accept_learning_ack") THEN 1 ELSE 0
      /\ UNCHANGED <<ledger, held>>
  BY DEF Emit
<1> DEFINE s == IF next[p] \in {At("finished"), At("hold")} THEN next[p][1] ELSE "idle"
<1>2. Goto(p, s)
  BY DEF Emit
<1>3. s \in {"finished", "hold", "idle"} /\ (next[p] = At("finished") => s = "finished")
      /\ (next[p][1] = "native" => s = "idle")
  BY Heads
<1> HIDE DEF s
<1>4. Planar /\ LedgerInv
  BY DEF Inv
<1>5. /\ step' \in [Planes -> Steps] /\ step'[p] = s
      /\ \A q \in Planes \ {p} : step'[q] = step[q]
  BY <1>2, <1>3, <1>4, GotoStep DEF Steps
<1>6. /\ DOMAIN at' = Planes /\ at'[p] = next[p] /\ \A q \in Planes \ {p} : at'[q] = at[q]
      /\ DOMAIN next' = Planes /\ \A q \in Planes \ {p} : next'[q] = next[q]
  BY <1>1, <1>4 DEF Planar
<1>7. Planar'
  BY <1>1, <1>4, <1>5, <1>6 DEF Planar
<1>8. LedgerInv'
  BY <1>1, <1>4 DEF LedgerInv
<1>9. CASE p = "foreground"
  <2>1. Rests("learning")
    BY <1>1, <1>5, <1>6, <1>9 DEF Planes, Rests
  <2>2. at[p] # At("emit_ack") /\ at[p] # At("receive_request")
    BY <1>1, <1>9, Heads DEF Inv, ForegroundInv
  <2>3. acks' = acks /\ got' = got
    <3>1. got \in Nat
      BY DEF Inv, SeamInv
    <3> QED BY <1>1, <2>2, <3>1 DEF Acked
  <2>4. CASE at[p] = At("emit_request")
    <3>1. /\ ledger.request # NoRequest /\ ~LearningHas /\ ledger.request.stage = "published"
          /\ next[p] = At("accept_learning_ack")
      BY <1>1, <1>9, <2>4 DEF Inv, ForegroundInv
    <3>2. sent' = Append(sent, ledger.request)
      BY <1>1, <2>4 DEF Sent
    <3>3. at[p] # At("accept_learning_ack")
      BY <2>4, Heads
    <3>4. heard' = heard /\ heard \in Nat /\ got \in Nat /\ Len(sent) = got /\ at["learning"] \in Waiting
      BY <1>1, <3>1, <3>3 DEF Inv, SeamInv, LearningInv, LearningHas
    <3>5. IsSeq(sent') /\ Len(sent') = got + 1
      BY <3>2, <3>4, AppendIsSeq DEF Inv, SeamInv
    <3>6. \A k \in 1..Len(acks) : acks[k].id \in Nat /\ acks[k].id <= ledger.acked
      BY <3>1 DEF Inv, SeamInv
    <3>7. SeamInv'
      BY <1>1, <2>1, <2>3, <3>1, <3>4, <3>5, <3>6 DEF Inv, SeamInv, Rests
    <3>8. LearningInv'
      BY <1>1, <2>1, <3>1, <3>4, <3>5 DEF Inv, LearningInv, Rests, LearningHas
    <3>9. at'[p] = At("accept_learning_ack") /\ at'[p][1] # "native" /\ at'[p] # At("emit_request")
      BY <1>6, <3>1, Heads
    <3>10. ForegroundInv'
      BY <1>1, <1>3, <1>5, <1>9, <3>1, <3>9 DEF ForegroundInv, Holding, Preparing
    <3> QED BY <1>7, <1>8, <3>7, <3>8, <3>10 DEF Inv
  <2>5. CASE at[p] # At("emit_request")
    <3>1. ledger.request = NoRequest
      BY <1>1, <1>9, <2>5 DEF Inv, ForegroundInv
    <3>2. sent' = sent
      BY <1>1, <2>5 DEF Sent
    <3>3. LearningHas' <=> LearningHas
      BY <2>1, <2>3, <3>2 DEF LearningHas, Rests
    <3>4. at[p] = At("accept_learning_ack") => Len(acks) > heard
      BY <1>1, <1>9 DEF Inv, ForegroundInv
    <3>5. SeamInv'
      BY <1>1, <2>1, <2>3, <3>2, <3>3, <3>4 DEF Inv, SeamInv, Rests
    <3>6. LearningInv'
      BY <1>1, <2>1, <3>3 DEF Inv, LearningInv, Rests
    <3>7. ForegroundInv'
      BY <1>1, <1>3, <1>5, <1>6, <1>9, <3>1 DEF ForegroundInv, Holding, Preparing
    <3> QED BY <1>7, <1>8, <3>5, <3>6, <3>7 DEF Inv
  <2> QED BY <2>4, <2>5
<1>10. CASE p = "learning"
  <2>1. Rests("foreground")
    BY <1>1, <1>5, <1>6, <1>10 DEF Planes, Rests
  <2>2. /\ at[p] # At("emit_request") /\ at[p] # At("accept_learning_ack")
        /\ \A w \in Waiting : w[1] \notin Busy /\ w # At("emit_ack")
    BY <1>10, Heads DEF Inv, LearningInv, Waiting, Busy
  <2>3. sent' = sent /\ heard' = heard /\ got \in Nat /\ heard \in Nat
    BY <1>1, <2>2 DEF Inv, SeamInv, Sent
  <2>4. /\ ForegroundInv /\ SeamInv /\ LearningInv
    BY DEF Inv
  <2>5. CASE at[p] = At("emit_ack")
    <3>1. /\ next[p] = At("after_ack") /\ ledger.request.stage = "ack_ready"
          /\ at[p][1] \in Busy /\ at[p] # At("receive_request")
      BY <1>1, <1>10, <2>5, Heads DEF Inv, LearningInv, Busy
    <3>2. LearningHas /\ ledger.request # NoRequest /\ ~(Len(sent) > got)
      BY <1>10, <2>2, <2>5, <3>1 DEF Inv, SeamInv, LearningHas
    <3>3. /\ acks' = Append(acks, ledger.request) /\ got' = got /\ at'[p] = At("after_ack")
      BY <1>1, <1>6, <2>3, <2>5, <3>1 DEF Acked
    <3>4. ~LearningHas' /\ at'[p] \in Waiting
      BY <1>10, <2>2, <2>3, <3>2, <3>3 DEF LearningHas, Waiting
    <3>5. /\ IsSeq(acks') /\ Len(acks) \in Nat /\ Len(acks') = Len(acks) + 1
          /\ \A k \in 1..Len(acks) : acks'[k] = acks[k]
          /\ acks'[Len(acks) + 1] = ledger.request
      BY <3>3, AppendIsSeq DEF Inv, SeamInv
    <3>6. \A k \in 1..Len(acks) : acks[k].id \in Nat /\ acks[k].id <= ledger.acked
      BY <3>2 DEF Inv, SeamInv
    <3>7. ledger.request.id = ledger.acked + 1 /\ ledger.acked \in Nat
      BY <1>4, <3>2 DEF LedgerInv
    <3>8. \A k \in 1..Len(acks') :
            /\ acks'[k].id \in Nat
            /\ acks'[k].id <= ledger.acked \/ acks'[k] = ledger.request
      BY <3>5, <3>6, <3>7
    <3>9. SeamInv'
      BY <1>1, <2>3, <2>4, <3>1, <3>2, <3>3, <3>4, <3>5, <3>8 DEF SeamInv
    <3>10. LearningInv'
      BY <1>1, <1>3, <1>5, <1>10, <3>1, <3>3, <3>4, Heads DEF LearningInv, Holding, Preparing
    <3>11. at["foreground"] = At("accept_learning_ack") /\ step["foreground"] \in Holding =>
             acks[heard + 1].id <= ledger.acked /\ acks'[heard + 1] = acks[heard + 1]
      BY <2>3, <2>4, <3>5, <3>6 DEF ForegroundInv
    <3>12. ForegroundInv'
      BY <1>1, <2>1, <2>3, <2>4, <3>2, <3>4, <3>5, <3>6, <3>7, <3>11 DEF ForegroundInv, Rests
    <3> QED BY <1>7, <1>8, <3>9, <3>10, <3>12 DEF Inv
  <2>6. CASE at[p] # At("emit_ack")
    <3>1. acks' = acks
      BY <1>1, <2>6 DEF Acked
    <3>2. CASE at[p] = At("after_ack")
      <4>1. /\ next[p] \in Waiting /\ next[p] # At("after_ack") /\ got' = got /\ at[p] \in Waiting
            /\ next[p][1] # "native"
        BY <1>1, <1>10, <2>3, <2>4, <3>2, Heads DEF LearningInv, Waiting
      <4>2. LearningHas' <=> LearningHas
        BY <1>6, <1>10, <2>2, <2>3, <4>1 DEF LearningHas
      <4>3. SeamInv'
        BY <1>1, <1>6, <1>10, <2>3, <2>4, <3>1, <4>1, <4>2 DEF SeamInv
      <4>4. LearningInv'
        BY <1>1, <1>3, <1>5, <1>6, <1>10, <4>1 DEF LearningInv, Holding, Preparing
      <4>5. ForegroundInv'
        BY <1>1, <2>1, <2>3, <2>4, <3>1, <4>2 DEF ForegroundInv, Rests
      <4> QED BY <1>7, <1>8, <4>3, <4>4, <4>5 DEF Inv
    <3>3. CASE at[p] # At("after_ack")
      <4>1. next[p][1] \in Busy /\ LearningHas /\ at'[p] = next[p]
        BY <1>1, <1>6, <1>10, <2>4, <2>6, <3>3 DEF LearningInv
      <4>2. LearningHas'
        BY <1>10, <4>1 DEF LearningHas
      <4>3. ~(Len(sent) > got') /\ got' \in Nat /\ got' <= Len(sent)
        <5>1. CASE at[p] = At("receive_request")
          <6>1. Len(sent) > got
            BY <1>10, <2>2, <4>1, <5>1 DEF LearningHas, Waiting
          <6> QED BY <1>1, <2>4, <5>1, <6>1 DEF SeamInv
        <5>2. CASE at[p] # At("receive_request")
          <6>1. at[p] # At("finished")
            BY <1>1, <1>10, <2>4 DEF LearningInv
          <6> QED BY <1>1, <1>10, <2>4, <3>3, <5>2, <6>1 DEF SeamInv, Waiting
        <5> QED BY <5>1, <5>2
      <4>4. SeamInv'
        BY <1>1, <2>3, <2>4, <3>1, <4>1, <4>2, <4>3 DEF SeamInv
      <4>5. next[p] \notin Waiting
        BY <2>2, <4>1
      <4>6. LearningInv'
        BY <1>1, <1>3, <1>5, <1>6, <1>10, <4>1, <4>2, <4>5 DEF LearningInv, Holding, Preparing, Waiting
      <4>7. ForegroundInv'
        BY <1>1, <2>1, <2>3, <2>4, <3>1, <4>1 DEF ForegroundInv, Rests
      <4> QED BY <1>7, <1>8, <4>4, <4>6, <4>7 DEF Inv
    <3> QED BY <3>2, <3>3
  <2> QED BY <2>5, <2>6
<1> QED BY <1>9, <1>10 DEF Planes

LEMMA RunNativeKeeps ==
  ASSUME Inv, NEW p \in Planes, NEW role, RunNative(p, role)
  PROVE  Inv'
<1>1. PICK node : at' = [at EXCEPT ![p] = node] /\ ((\E x : node = Accept(role, x)) \/ node = Replace(role))
  BY DEF RunNative
<1>2. /\ SameLedger /\ step[p] = "idle" /\ UNCHANGED <<held, step, next>> /\ at[p] = Native(role)
  BY DEF RunNative, SameLedger, seams
<1>3. at[p][1] = "native" /\ node[1] \in {"accept", "replace"}
  BY <1>1, <1>2, Heads, AcceptHead
<1>4. /\ DOMAIN at' = Planes /\ at'[p] = node /\ \A q \in Planes \ {p} : at'[q] = at[q]
      /\ Planar
  BY <1>1 DEF Inv, Planar
<1>5. Planar'
  BY <1>2, <1>4 DEF Planar
<1>a. node \notin Waiting /\ node # At("emit_request")
  BY <1>3, Heads DEF Waiting
<1>6. CASE p = "foreground"
  <2>1. Rests("learning")
    BY <1>2, <1>4, <1>6 DEF Planes, Rests
  <2>2. LearningHas' <=> LearningHas
    BY <1>2, <2>1 DEF LearningHas, SameLedger, Rests
  <2>3. ForegroundInv'
    BY <1>2, <1>3, <1>4, <1>6, <1>a, <2>2 DEF Inv, ForegroundInv, SameLedger, Holding, Preparing
  <2> QED BY <1>2, <1>5, <2>1, <2>3, ForegroundAlone
<1>7. CASE p = "learning"
  <2>1. Rests("foreground")
    BY <1>2, <1>4, <1>7 DEF Planes, Rests
  <2>2. node[1] \in Busy /\ at[p][1] \in Busy
    BY <1>3 DEF Busy
  <2>3. LearningHas /\ LearningHas'
    BY <1>4, <1>7, <2>2 DEF LearningHas
  <2>4. \A w \in Waiting : w[1] \notin Busy
    BY Heads DEF Waiting, Busy
  <2>5. ~(Len(sent) > got)
    BY <1>7, <2>2, <2>4 DEF Inv, SeamInv
  <2>6. LearningInv'
    BY <1>2, <1>3, <1>4, <1>7, <1>a, <2>2 DEF Inv, LearningInv, SameLedger, Holding, Preparing, Waiting
  <2> QED BY <1>2, <1>4, <1>5, <1>7, <2>1, <2>2, <2>3, <2>5, <2>6, LearningAlone
<1> QED BY <1>6, <1>7 DEF Planes

\* A save by the plane whose turn it is keeps the exchange as it is.
KeepsExchange(M) ==
  /\ IsLedger(M) /\ M.request = ledger.request /\ M.acked = ledger.acked /\ M.ackRoute = ledger.ackRoute
  /\ IsSeq(M.occ) /\ Len(M.occ) \in Nat /\ DOMAIN M.active = Planes
  /\ \A p \in Planes : M.active[p] \in 0..Len(M.occ)
  /\ DOMAIN M.accepted \subseteq 1..Len(M.occ)
  /\ \A o \in DOMAIN M.accepted : RouteOf(M.occ[o].role, M.accepted[o])
  /\ ledger.request # NoRequest => M.cont.node # At("emit_request") /\ M.pending = ledger.pending

LEMMA SaveKeeps ==
  ASSUME Inv, NEW p \in Planes, step[p] \in Holding, p = "foreground" => ledger.request = NoRequest,
         NEW M, KeepsExchange(M), ledger' = M, UNCHANGED <<sent, got, acks, heard, at>>,
         NEW s \in Steps, Goto(p, s),
         DOMAIN held' = Planes, \A q \in Planes \ {p} : held'[q] = held[q],
         DOMAIN next' = Planes, \A q \in Planes \ {p} : next'[q] = next[q],
         \/ /\ s \in Preparing /\ held'[p] = M /\ at[p][1] \in {"prepare", "replace"}
            /\ p = "learning" => ledger.request.kind = "ASSESS"
         \/ s = "saved" /\ Ends(p, M, next'[p])
  PROVE  Inv'
<1>1. Planar /\ LedgerInv
  BY DEF Inv
<1>2. /\ step' \in [Planes -> Steps] /\ step'[p] = s
      /\ \A q \in Planes \ {p} : step'[q] = step[q]
  BY <1>1, GotoStep
<1>3. Planar'
  BY <1>1, <1>2 DEF Planar
<1>4. LedgerInv'
  BY <1>1 DEF LedgerInv, KeepsExchange
<1>5. LearningHas' <=> LearningHas
  BY DEF LearningHas
<1>6. ledger'.request = ledger.request /\ ledger'.acked = ledger.acked
  BY DEF KeepsExchange
<1>7. at[p][1] \in {"prepare", "replace"} =>
        /\ at[p] \notin Waiting /\ at[p] # At("emit_ack") /\ at[p] # At("emit_request")
        /\ at[p] # At("accept_learning_ack")
  BY Heads DEF Waiting
<1>8. CASE p = "foreground"
  <2>1. Rests("learning")
    BY <1>2, <1>8 DEF Planes, Rests
  <2>2. ForegroundInv'
    BY <1>2, <1>5, <1>6, <1>7, <1>8 DEF Inv, ForegroundInv, Holding, Preparing, Ends, KeepsExchange
  <2> QED BY <1>3, <1>4, <1>6, <1>8, <2>1, <2>2, ForegroundSaves
<1>9. CASE p = "learning"
  <2>1. Rests("foreground")
    BY <1>2, <1>9 DEF Planes, Rests
  <2>2. at["learning"] \in Waiting \/ at["learning"][1] \in Busy
    BY <1>9 DEF Inv, LearningInv
  <2>3. LearningHas /\ ledger.request # NoRequest /\ at[p] # At("after_ack") /\ at[p] # At("finished")
    BY <1>9 DEF Inv, LearningInv, SeamInv, Holding, Preparing
  <2>4. at[p][1] # "native"
    BY <1>9 DEF Inv, LearningInv, Holding, Preparing
  <2>5. LearningInv'
    BY <1>2, <1>5, <1>6, <1>7, <1>9, <2>2, <2>3, <2>4 DEF LearningInv, Holding, Preparing, Ends, Waiting
  <2> QED BY <1>3, <1>4, <1>6, <1>9, <2>1, <2>3, <2>5, LearningSaves
<1> QED BY <1>8, <1>9 DEF Planes

\* The copy a script holds is the ledger as it is, when it has the turn.
LEMMA OwnHeld ==
  ASSUME Inv, NEW p \in Planes, step[p] \in Holding,
         p = "foreground" => held[p].request = NoRequest
  PROVE  /\ held[p] = ledger
         /\ p = "foreground" => ledger.request = NoRequest
         /\ p = "learning" => LearningHas /\ ledger.request # NoRequest
  BY DEF Inv, LearningInv, ForegroundInv, SeamInv, Planes

\* A request under assessment keeps its pending route.
LEMMA Assessing ==
  ASSUME Inv, ledger.request # NoRequest, ledger.request.kind = "ASSESS"
  PROVE  ledger.pending # NoPending
  BY DEF Inv, LedgerInv, NoPending

LEMMA ReservedExchange ==
  ASSUME Inv, NEW role, NEW replacement, NEW version, NEW M \in Reserved(ledger, role, replacement, version),
         ledger.request # NoRequest => ledger.request.kind = "ASSESS"
  PROVE  KeepsExchange(M)
<1> DEFINE o == Len(ledger.occ) + 1
<1>1. LedgerInv /\ IsLedger(ledger)
  BY DEF Inv, LedgerInv
<1>a. IsReservation(M, ledger, role, replacement, version)
  BY <1>1, ReservedEffect
<1>2. PICK c : M.occ = Append(ledger.occ, c)
  BY <1>a DEF IsReservation
<1>3. /\ IsLedger(M) /\ M.active = [ledger.active EXCEPT ![Plane(role)] = o]
      /\ M.accepted = ledger.accepted /\ M.cont = [node |-> Native(role), occ |-> o]
      /\ M.request = ledger.request /\ M.acked = ledger.acked /\ M.ackRoute = ledger.ackRoute
      /\ ledger.pending # NoPending => M.pending = ledger.pending
  BY <1>a DEF IsReservation
<1>4. /\ IsSeq(M.occ) /\ Len(M.occ) = Len(ledger.occ) + 1 /\ Len(ledger.occ) \in Nat
      /\ \A k \in 1..Len(ledger.occ) : M.occ[k] = ledger.occ[k]
  BY <1>1, <1>2, AppendIsSeq DEF LedgerInv
<1>5. DOMAIN M.active = Planes /\ \A p \in Planes : M.active[p] \in 0..Len(M.occ)
  BY <1>1, <1>3, <1>4 DEF LedgerInv
<1>6. DOMAIN M.accepted \subseteq 1..Len(M.occ)
      /\ \A k \in DOMAIN M.accepted : RouteOf(M.occ[k].role, M.accepted[k])
  BY <1>1, <1>3, <1>4 DEF LedgerInv
<1>7. M.cont.node # At("emit_request")
  BY <1>3, Heads
<1> QED BY <1>3, <1>4, <1>5, <1>6, <1>7, Assessing DEF KeepsExchange

LEMMA ReservingKeeps ==
  ASSUME Inv, NEW p \in Planes, step[p] \in {"loaded", "intended"}, at[p][1] \in {"prepare", "replace"},
         held[p] = ledger, p = "foreground" => ledger.request = NoRequest,
         p = "learning" => ledger.request.kind = "ASSESS",
         NEW role, NEW replacement, Reserving(p, ledger, role, replacement)
  PROVE  Inv'
<1>1. CASE Reserved(ledger, role, replacement, source) = {}
  BY <1>1, RefusedKeeps DEF Reserving
<1>2. CASE Reserved(ledger, role, replacement, source) # {}
  <2>1. PICK M \in Reserved(ledger, role, replacement, source) :
          /\ ledger' = M /\ held' = [held EXCEPT ![p] = M] /\ Goto(p, "reserved")
          /\ UNCHANGED <<files, source, at, next, seams, counts>>
    BY <1>2 DEF Reserving
  <2>2. KeepsExchange(M)
    BY ReservedExchange DEF Planes
  <2>3. Planar /\ step[p] \in Holding /\ "reserved" \in Preparing /\ "reserved" \in Steps
    BY DEF Inv, Holding, Preparing, Steps
  <2>4. /\ DOMAIN held' = Planes /\ held'[p] = M /\ \A q \in Planes \ {p} : held'[q] = held[q]
        /\ DOMAIN next' = Planes /\ next' = next
    BY <2>1, <2>3 DEF Planar
  <2> QED BY <2>1, <2>2, <2>3, <2>4, SaveKeeps DEF seams
<1> QED BY <1>1, <1>2

LEMMA ReserveReplacementKeeps ==
  ASSUME Inv, NEW p \in Planes, NEW role, ReserveReplacement(p, role)
  PROVE  Inv'
<1>1. step[p] = "intended" /\ at[p] = Replace(role) /\ Reserving(p, held[p], role, TRUE)
  BY DEF ReserveReplacement
<1>2. step[p] \in Preparing /\ step[p] \in Holding /\ at[p][1] = "replace"
  BY <1>1, Heads DEF Preparing, Holding
<1>3. p = "foreground" => ledger.request = NoRequest
  BY <1>2 DEF Inv, ForegroundInv
<1>4. p = "foreground" => held[p].request = NoRequest
  BY <1>2, <1>3 DEF Inv, ForegroundInv
<1>5. held[p] = ledger
  BY <1>2, <1>4, OwnHeld
<1>6. p = "learning" => ledger.request.kind = "ASSESS"
  BY <1>2 DEF Inv, LearningInv
<1> QED BY <1>1, <1>2, <1>3, <1>5, <1>6, ReservingKeeps

LEMMA PrepareRoleKeeps ==
  ASSUME Inv, NEW p \in Planes, NEW role, NEW replacement \in BOOLEAN, PrepareRole(p, role, replacement)
  PROVE  Inv'
<1> DEFINE L == held[p]
           M == Intended(L, role, source)
<1>1. step[p] = "loaded" /\ at[p] = IF replacement THEN Replace(role) ELSE Prepare(role)
  BY DEF PrepareRole
<1>2. step[p] \in Holding /\ at[p][1] \in {"prepare", "replace"}
  BY <1>1, Heads DEF Holding
<1>3. at[p][1] # "native" /\ step[p] # "finished"
  BY <1>1, <1>2
<1>4. CASE Exhausted(p, L, role, replacement)
  <2> DEFINE N == [L EXCEPT !.learned = @ \cup {L.request.lineage}]
             K == Mark(N, At("emit_ack"), 0)
  <2>1. Saved(p, K, At("emit_ack"))
    BY <1>4 DEF PrepareRole
  <2>2. p = "learning"
    BY <1>4 DEF Exhausted
  <2>3. L = ledger /\ LearningHas /\ ledger.request # NoRequest
    BY <1>2, <2>2, OwnHeld
  <2>4. LedgerInv /\ Planar
    BY DEF Inv
  <2>5. Kept(L, N) /\ N.pending = L.pending
    BY <2>3, <2>4, KeptByFields DEF LedgerInv, IsLedger
  <2>6. K = [N EXCEPT !.cont = [node |-> At("emit_ack"), occ |-> 0]]
    BY DEF Mark
  <2>7. /\ IsLedger(K) /\ K.request = L.request /\ K.acked = L.acked /\ K.ackRoute = L.ackRoute
        /\ K.occ = L.occ /\ K.active = L.active /\ K.accepted = L.accepted /\ K.pending = L.pending
        /\ K.cont.node = At("emit_ack")
    <3> HIDE DEF N, K
    <3> QED BY <2>5, <2>6 DEF Kept, IsLedger
  <2> HIDE DEF K
  <2>8. At("emit_ack") # At("emit_request") /\ At("emit_ack")[1] \in Busy
    BY Heads DEF Busy
  <2>9. KeepsExchange(K)
    BY <2>3, <2>4, <2>7, <2>8 DEF KeepsExchange, LedgerInv
  <2>10. /\ ledger' = K /\ Goto(p, "saved") /\ Drop(p) /\ next' = [next EXCEPT ![p] = At("emit_ack")]
         /\ UNCHANGED <<sent, got, acks, heard, at>>
    BY <2>1 DEF Saved, seams
  <2>11. /\ DOMAIN held' = Planes /\ \A q \in Planes \ {p} : held'[q] = held[q]
         /\ DOMAIN next' = Planes /\ next'[p] = At("emit_ack")
         /\ \A q \in Planes \ {p} : next'[q] = next[q]
    BY <2>4, <2>10, DropStep DEF Planar
  <2>12. at[p] \notin Waiting /\ at[p] # At("emit_ack")
    BY <1>2, Heads DEF Waiting
  <2>13. Ends(p, K, next'[p])
    BY <1>3, <2>2, <2>3, <2>8, <2>11, <2>12 DEF Ends
  <2> QED BY <1>2, <2>2, <2>9, <2>10, <2>11, <2>13, SaveKeeps DEF Steps
<1>5. CASE ~Exhausted(p, L, role, replacement) /\ ~Owns(p, L)
  BY <1>3, <1>5, RefusedKeeps DEF PrepareRole
<1>6. CASE ~Exhausted(p, L, role, replacement) /\ Owns(p, L)
  <2>1. p = "foreground" => held[p].request = NoRequest
    BY <1>6 DEF Owns, AssertForeground
  <2>2. L = ledger /\ (p = "foreground" => ledger.request = NoRequest)
    BY <1>2, <2>1, OwnHeld
  <2>3. p = "learning" => ledger.request.kind = "ASSESS"
    BY <1>6, <2>2 DEF Owns
  <2>4. CASE Interrupted(p, L, role, replacement)
    <3>1. Rematerialized(p, L)
      BY <1>6, <2>4 DEF PrepareRole
    <3>2. \/ Refused(p)
          \/ Goto(p, "reserved") /\ UNCHANGED <<ledger, held, files, source, at, next, seams, counts>>
      BY <3>1 DEF Rematerialized
    <3>3. ASSUME Goto(p, "reserved"), UNCHANGED <<ledger, held, files, source, at, next, seams, counts>> PROVE Inv'
      BY <1>2, <2>2, <2>3, <3>3, PreparingKeeps DEF SameLedger, seams, Preparing
    <3> QED BY <1>3, <3>2, <3>3, RefusedKeeps
  <2>5. CASE ~Interrupted(p, L, role, replacement)
    <3>1. \/ Refused(p)
          \/ Reserving(p, L, role, FALSE)
          \/ /\ ledger' = M /\ held' = [held EXCEPT ![p] = M] /\ Goto(p, "intended")
             /\ UNCHANGED <<files, source, at, next, seams, counts>>
      BY <1>6, <2>5 DEF PrepareRole
    <3>2. ASSUME Reserving(p, L, role, FALSE) PROVE Inv'
      BY <1>1, <1>2, <2>2, <2>3, <3>2, ReservingKeeps
    <3>3. ASSUME ledger' = M, held' = [held EXCEPT ![p] = M], Goto(p, "intended"),
                 UNCHANGED <<files, source, at, next, seams, counts>>
          PROVE Inv'
      <4>1. LedgerInv /\ Planar
        BY DEF Inv
      <4>2. /\ IsLedger(M) /\ M.occ = L.occ /\ M.active = L.active /\ M.accepted = L.accepted
            /\ M.cont = L.cont /\ M.request = L.request /\ M.acked = L.acked
            /\ M.ackRoute = L.ackRoute /\ M.pending = L.pending
        BY <2>2, <4>1, IntendedEffect DEF LedgerInv
      <4> HIDE DEF M
      <4>3. KeepsExchange(M)
        BY <2>2, <4>1, <4>2 DEF KeepsExchange, LedgerInv
      <4>4. /\ DOMAIN held' = Planes /\ held'[p] = M /\ \A q \in Planes \ {p} : held'[q] = held[q]
            /\ DOMAIN next' = Planes /\ next' = next
        BY <3>3, <4>1 DEF Planar
      <4> QED BY <1>2, <2>2, <2>3, <3>3, <4>3, <4>4, SaveKeeps DEF seams, Preparing, Steps
    <3> QED BY <1>3, <3>1, <3>2, <3>3, RefusedKeeps
  <2> QED BY <2>4, <2>5
<1> QED BY <1>4, <1>5, <1>6

\* The projections of a preparation, in order.
LEMMA ProjectionKeeps ==
  ASSUME Inv, NEW p \in Planes, WriteInput(p) \/ WriteActive(p)
  PROVE  Inv'
<1>1. PICK s \in Preparing : Goto(p, s)
  BY DEF WriteInput, WriteActive, Preparing
<1>2. SameLedger /\ UNCHANGED <<at, next, held>> /\ step[p] \in Preparing /\ step[p] \in Holding
  BY DEF WriteInput, WriteActive, SameLedger, seams, Preparing, Holding
<1>3. /\ at[p][1] \in {"prepare", "replace"}
      /\ p = "foreground" => ledger.request = NoRequest
      /\ p = "learning" => ledger.request.kind = "ASSESS"
  BY <1>2 DEF Inv, ForegroundInv, LearningInv, Planes
<1> QED BY <1>1, <1>2, <1>3, PreparingKeeps

LEMMA WriteReadyKeeps ==
  ASSUME Inv, NEW p \in Planes, WriteReady(p)
  PROVE  Inv'
<1> DEFINE node == Native(at[p][2])
<1>1. /\ step[p] = "active" /\ Goto(p, "saved") /\ Drop(p) /\ next' = [next EXCEPT ![p] = node]
      /\ SameLedger /\ at' = at
  BY DEF WriteReady, SameLedger, seams
<1>2. step[p] \in Preparing /\ step[p] \in Holding
  BY <1>1 DEF Preparing, Holding
<1>3. /\ at[p][1] \in {"prepare", "replace"}
      /\ p = "foreground" => ledger.request = NoRequest
      /\ p = "learning" => LearningHas
  BY <1>2 DEF Inv, ForegroundInv, LearningInv, Planes
<1>4. node[1] \in Busy
  BY Heads DEF Busy
<1>5. at[p] \notin Waiting /\ at[p] # At("emit_ack") /\ at[p] # At("emit_request")
      /\ at[p] # At("accept_learning_ack") /\ at[p][1] \notin {"emit_ack", "receive_request", "native"}
  BY <1>3, Heads DEF Waiting
<1>6. Ends(p, ledger, node)
  BY <1>3, <1>4, <1>5 DEF Ends, Planes
<1> QED BY <1>1, <1>6, SavedKeeps

\* A save that ends a script.
LEMMA EndKeeps ==
  ASSUME Inv, NEW p \in Planes, step[p] \in Holding, p = "foreground" => ledger.request = NoRequest,
         NEW M, KeepsExchange(M), NEW node, Ends(p, M, node), Saved(p, M, node)
  PROVE  Inv'
<1>1. /\ ledger' = M /\ Goto(p, "saved") /\ Drop(p) /\ next' = [next EXCEPT ![p] = node]
      /\ UNCHANGED <<sent, got, acks, heard, at>> /\ Planar
  BY DEF Saved, seams, Inv
<1>2. /\ DOMAIN held' = Planes /\ \A q \in Planes \ {p} : held'[q] = held[q]
      /\ DOMAIN next' = Planes /\ next'[p] = node /\ \A q \in Planes \ {p} : next'[q] = next[q]
  BY <1>1, DropStep DEF Planar
<1>3. "saved" \in Steps
  BY DEF Steps
<1> QED BY <1>1, <1>2, <1>3, SaveKeeps

LEMMA SameEndKeeps ==
  ASSUME Inv, NEW p \in Planes, NEW node, Ends(p, ledger, node), Saved(p, ledger, node)
  PROVE  Inv'
  BY SavedKeeps DEF Saved, seams, SameLedger

LEMMA AcceptedExchange ==
  ASSUME Inv, NEW o \in 1..Len(ledger.occ), NEW outcome, NEW r \in Accepted(ledger, o, outcome, source),
         ledger.request # NoRequest => ledger.occ[o].role = "learning"
  PROVE  KeepsExchange(r.ledger)
<1> DEFINE M == r.ledger
<1>1. LedgerInv /\ IsLedger(ledger)
  BY DEF Inv, LedgerInv
<1>2. /\ IsLedger(M) /\ RouteOf(ledger.occ[o].role, r.route)
      /\ M.occ = ledger.occ /\ M.active = ledger.active
      /\ M.accepted = With(ledger.accepted, o, r.route) /\ M.cont = [node |-> r.route, occ |-> o]
      /\ M.request = ledger.request /\ M.acked = ledger.acked /\ M.ackRoute = ledger.ackRoute
      /\ ledger.occ[o].role = "learning" => M.pending = ledger.pending
  BY <1>1, AcceptedEffect DEF IsAcceptance
<1> HIDE DEF M
<1>3. /\ DOMAIN M.accepted \subseteq 1..Len(M.occ)
      /\ \A k \in DOMAIN M.accepted : RouteOf(M.occ[k].role, M.accepted[k])
  BY <1>1, <1>2 DEF With, LedgerInv
<1>4. ledger.occ[o].role = "learning" => r.route # At("emit_request")
  BY <1>2, Heads DEF RouteOf
<1> QED BY <1>1, <1>2, <1>3, <1>4 DEF KeepsExchange, LedgerInv, M

LEMMA AcceptRoleKeeps ==
  ASSUME Inv, NEW p \in Planes, NEW role, Plane(role) = p, NEW outcome, AcceptRole(p, role, outcome)
  PROVE  Inv'
<1> DEFINE L == held[p]
           o == L.active[p]
<1>1. step[p] = "loaded" /\ at[p] = Accept(role, outcome)
  BY DEF AcceptRole
<1>2. step[p] \in Holding /\ at[p][1] = "accept" /\ step[p] # "finished" /\ at[p][1] # "native"
  BY <1>1, AcceptHead DEF Holding
<1>3. SUFFICES ASSUME ~Refused(p) PROVE Inv'
  BY <1>2, RefusedKeeps
<1>4. /\ p = "foreground" => L.request = NoRequest
      /\ o # 0 /\ L.occ[o].role = role /\ o \in DOMAIN wrote
      /\ \/ o \in DOMAIN L.accepted /\ Saved(p, ledger, L.accepted[o])
         \/ \E r \in Accepted(L, o, outcome, source) : Saved(p, r.ledger, r.route)
  BY <1>3 DEF AcceptRole, AssertForeground
<1>5. L = ledger /\ (p = "foreground" => ledger.request = NoRequest) /\ (p = "learning" => LearningHas)
  BY <1>2, <1>4, OwnHeld
<1>6. LedgerInv
  BY DEF Inv
<1>7. o \in 1..Len(ledger.occ)
  BY <1>4, <1>5, <1>6 DEF LedgerInv
<1>8. p = "learning" <=> role = "learning"
  BY DEF Plane
<1>9. at[p] \notin Waiting /\ at[p] # At("emit_ack") /\ at[p] # At("emit_request")
      /\ at[p] # At("accept_learning_ack") /\ at[p][1] \notin {"emit_ack", "receive_request", "native"}
  BY <1>2, Heads DEF Waiting
<1>10. ASSUME NEW route, RouteOf(role, route), NEW M, M.request = ledger.request PROVE Ends(p, M, route)
  <2>1. p = "learning" => route[1] \in Busy
    BY <1>8, <1>10, Heads DEF RouteOf, Busy
  <2> QED BY <1>5, <1>9, <1>10, <2>1 DEF Ends, Planes
<1>11. CASE o \in DOMAIN L.accepted /\ Saved(p, ledger, L.accepted[o])
  <2>1. RouteOf(role, L.accepted[o])
    BY <1>4, <1>5, <1>6, <1>11 DEF LedgerInv
  <2>2. Ends(p, ledger, L.accepted[o])
    BY <1>10, <2>1
  <2> QED BY <1>11, <2>2, SameEndKeeps
<1>12. ASSUME NEW r \in Accepted(L, o, outcome, source), Saved(p, r.ledger, r.route) PROVE Inv'
  <2>1. KeepsExchange(r.ledger)
    <3>1. ledger.request # NoRequest => ledger.occ[o].role = "learning"
      BY <1>4, <1>5, <1>8 DEF Planes
    <3> QED BY <1>5, <1>7, <1>12, <3>1, AcceptedExchange
  <2>2. RouteOf(role, r.route)
    <3>1. IsLedger(L)
      BY <1>5, <1>6 DEF LedgerInv
    <3>2. RouteOf(L.occ[o].role, r.route)
      BY <1>12, <3>1, AcceptedEffect DEF IsAcceptance
    <3> QED BY <1>4, <3>2
  <2>3. Ends(p, r.ledger, r.route)
    BY <1>10, <2>1, <2>2 DEF KeepsExchange
  <2> QED BY <1>2, <1>5, <1>12, <2>1, <2>3, EndKeeps
<1> QED BY <1>4, <1>11, <1>12

\* The seam.
LEMMA EmitRequestKeeps ==
  ASSUME Inv, EmitRequest
  PROVE  Inv'
<1> DEFINE p == "foreground"
           L == held[p]
           kind == IF L.terminal # "none" THEN "CLOSE" ELSE "ASSESS"
           lineage == IF L.pending # NoPending THEN L.pending.lineage ELSE "unpacketized"
           o == IF L.pending # NoPending THEN L.pending.occ ELSE L.cont.occ
           request == [kind |-> kind, lineage |-> lineage, id |-> L.acked + 1, pending |-> L.pending,
                       source |-> source, stage |-> "published", core |-> 0]
           N == [L EXCEPT !.request = request]
           M == Mark(N, At("accept_learning_ack"), o)
           node == At("accept_learning_ack")
<1>1. step[p] = "loaded" /\ at[p] = At("emit_request")
  BY DEF EmitRequest
<1>2. /\ step[p] \in Holding /\ step[p] # "finished" /\ p \in Planes
      /\ at[p][1] = "emit_request" /\ at[p] # node
  BY <1>1, Heads DEF Holding, Planes
<1>3. at[p][1] # "native"
  BY <1>2
<1>4. SUFFICES ASSUME ~Refused(p) PROVE Inv'
  BY <1>2, <1>3, RefusedKeeps
<1>5. CASE L.request # NoRequest
  <2>1. Saved(p, ledger, node)
    BY <1>4, <1>5 DEF EmitRequest
  <2>2. ledger.request # NoRequest
    BY <1>2, <1>5 DEF Inv, ForegroundInv
  <2>3. Ends(p, ledger, node)
    BY <1>1, <1>2, <2>2 DEF Ends
  <2> QED BY <1>2, <2>1, <2>3, SameEndKeeps
<1>6. CASE L.request = NoRequest
  <2>1. L = ledger /\ ledger.request = NoRequest
    BY <1>2, <1>6, OwnHeld
  <2>2. (kind = "ASSESS" => L.pending.kind = "learning_gate") /\ Saved(p, M, node)
    BY <1>4, <1>6 DEF EmitRequest
  <2>3. LedgerInv /\ Planar
    BY DEF Inv
  <2>4. kind \in {"ASSESS", "CLOSE"} /\ L.acked \in Nat
    BY <2>1, <2>3 DEF LedgerInv
  <2> HIDE DEF kind, lineage, o
  <2>5. /\ IsRequest(request) /\ request # NoRequest /\ request.id = L.acked + 1 /\ request.kind = kind
        /\ request.pending = L.pending /\ request.stage = "published" /\ request.source = source
    BY <2>4 DEF IsRequest, NoRequest
  <2> HIDE DEF request
  <2>6. /\ IsLedger(N) /\ N.request = request /\ N.occ = L.occ /\ N.active = L.active
        /\ N.accepted = L.accepted /\ N.acked = L.acked /\ N.ackRoute = L.ackRoute /\ N.pending = L.pending
    BY <2>1, <2>3 DEF LedgerInv, IsLedger
  <2>7. M = [N EXCEPT !.cont = [node |-> node, occ |-> o]]
    BY DEF Mark
  <2> HIDE DEF N
  <2>8. /\ IsLedger(M) /\ M.request = request /\ M.occ = L.occ /\ M.active = L.active
        /\ M.accepted = L.accepted /\ M.acked = L.acked /\ M.ackRoute = L.ackRoute /\ M.pending = L.pending
        /\ M.cont.node = node
    BY <2>6, <2>7 DEF IsLedger
  <2> HIDE DEF M
  <2>9. /\ ledger' = M /\ Goto(p, "saved") /\ Drop(p) /\ next' = [next EXCEPT ![p] = node]
        /\ UNCHANGED <<sent, got, acks, heard, at>>
    BY <2>2 DEF Saved, seams
  <2>10. node # At("emit_request")
    BY Heads
  <2>11. LedgerInv'
    BY <2>1, <2>2, <2>3, <2>5, <2>8, <2>9, <2>10 DEF LedgerInv
  <2>12. /\ step' \in [Planes -> Steps] /\ step'[p] = "saved" /\ step'["learning"] = step["learning"]
    BY <2>3, <2>9, GotoStep DEF Planes, Steps
  <2>13. /\ DOMAIN held' = Planes /\ held'["learning"] = held["learning"]
         /\ DOMAIN next' = Planes /\ next'[p] = node /\ next'["learning"] = next["learning"]
    BY <2>3, <2>9, DropStep DEF Planar, Planes
  <2>14. Planar' /\ Rests("learning")
    BY <2>3, <2>9, <2>12, <2>13 DEF Planar, Rests
  <2>15. ~LearningHas /\ ~LearningHas'
    BY <2>1, <2>9 DEF Inv, SeamInv, LearningHas
  <2>16. ForegroundInv'
    BY <1>1, <1>2, <2>5, <2>8, <2>9, <2>10, <2>12, <2>13, <2>15
    DEF ForegroundInv, Holding, Preparing
  <2> QED BY <2>1, <2>8, <2>9, <2>11, <2>14, <2>16, ForegroundSaves
<1> QED BY <1>5, <1>6

\* What a request becomes, and the ledger with it.
IsStaged(R, Q, stage) ==
  IsRequest(R) /\ R.id = Q.id /\ R.kind = Q.kind /\ R.lineage = Q.lineage
  /\ R.pending = Q.pending /\ R.source = Q.source
  /\ R.stage = stage /\ R # NoRequest
IsResaved(M, L, R) ==
  /\ IsLedger(M) /\ M.request = R /\ M.occ = L.occ /\ M.active = L.active /\ M.accepted = L.accepted
  /\ M.acked = L.acked /\ M.ackRoute = L.ackRoute /\ M.pending = L.pending
  /\ M.cont = L.cont \/ M.cont.node = Prepare("learning")

LEMMA ReceivedEffect ==
  ASSUME NEW L, IsLedger(L), IsRequest(L.request), NEW n
  PROVE  /\ IsResaved(Received(L, n), L, Received(L, n).request)
         /\ IsStaged(Received(L, n).request, L.request, "received")
<1> DEFINE Q == L.request
           K == [Q EXCEPT !.core = n]
           R == [K EXCEPT !.stage = "received"]
           A == [L EXCEPT !.request = R]
           N == [A EXCEPT !.seen = n]
           M == Received(L, n)
<1>1. /\ IsRequest(K) /\ K.id = Q.id /\ K.kind = Q.kind /\ K.lineage = Q.lineage /\ K.pending = Q.pending /\ K.source = Q.source
  BY DEF IsRequest
<1>2. N = [L EXCEPT !.request.core = n, !.request.stage = "received", !.seen = n]
  BY DEF IsLedger, IsRequest
<1>3. M = N \/ M = [N EXCEPT !.cont = [node |-> Prepare("learning"), occ |-> L.request.pending.occ]]
  <2> HIDE DEF N
  <2> QED BY <1>2 DEF Received, Mark
<1> HIDE DEF K
<1>4. IsStaged(R, Q, "received")
  BY <1>1 DEF IsRequest, IsStaged, NoRequest
<1> HIDE DEF R
<1>5. /\ IsLedger(A) /\ A.request = R /\ A.occ = L.occ /\ A.active = L.active /\ A.cont = L.cont
      /\ A.accepted = L.accepted /\ A.acked = L.acked /\ A.ackRoute = L.ackRoute /\ A.pending = L.pending
  BY DEF IsLedger
<1> HIDE DEF A
<1>6. /\ IsLedger(N) /\ N.request = R /\ N.occ = L.occ /\ N.active = L.active /\ N.cont = L.cont
      /\ N.accepted = L.accepted /\ N.acked = L.acked /\ N.ackRoute = L.ackRoute /\ N.pending = L.pending
  BY <1>5 DEF IsLedger
<1> HIDE DEF N, M
<1>7. IsResaved(M, L, R)
  BY <1>3, <1>6 DEF IsLedger, IsResaved
<1> QED BY <1>4, <1>7 DEF IsResaved, M

LEMMA ReceiveKeeps ==
  ASSUME Inv, Receive
  PROVE  Inv'
<1> DEFINE p == "learning"
           L == held[p]
           n == got + 1
           M == Received(L, n)
           R == M.request
<1>1. step[p] = "loaded" /\ at[p] = At("receive_request")
  BY DEF Receive
<1>2. step[p] \in Holding /\ step[p] # "finished" /\ p \in Planes /\ at[p][1] = "receive_request"
  BY <1>1, Heads DEF Holding, Planes
<1>3. at[p][1] # "native"
  BY <1>2
<1>4. SUFFICES ASSUME ~Refused(p) PROVE Inv'
  BY <1>2, <1>3, RefusedKeeps
<1>5. L = ledger /\ LearningHas /\ ledger.request # NoRequest
  BY <1>2, OwnHeld
<1>6. /\ ledger' = M /\ held' = [held EXCEPT ![p] = M] /\ Goto(p, "received")
      /\ UNCHANGED <<sent, got, acks, heard, at, next>>
  BY <1>4, <1>5 DEF Receive, seams
<1>7. LedgerInv /\ Planar
  BY DEF Inv
<1>8. IsRequest(L.request) /\ IsLedger(L)
  BY <1>5, <1>7 DEF LedgerInv
<1>9. IsResaved(M, L, R) /\ IsStaged(R, L.request, "received")
  BY <1>8, ReceivedEffect
<1> HIDE DEF n, M, R
<1>a. /\ IsRequest(R) /\ R # NoRequest /\ R.id = L.request.id /\ R.kind = L.request.kind
      /\ R.pending = L.request.pending
  BY <1>9 DEF IsStaged
<1>13. /\ IsLedger(M) /\ M.request = R /\ M.occ = L.occ /\ M.active = L.active
       /\ M.accepted = L.accepted /\ M.acked = L.acked /\ M.ackRoute = L.ackRoute /\ M.pending = L.pending
       /\ M.cont = L.cont \/ M.cont.node = Prepare("learning")
  BY <1>9 DEF IsResaved
<1>14. Prepare("learning") # At("emit_request") /\ at[p] # At("emit_ack") /\ at[p] # At("after_ack")
       /\ at[p] # At("finished")
  BY <1>2, Heads
<1>15. LedgerInv'
  BY <1>5, <1>6, <1>7, <1>a, <1>13, <1>14 DEF LedgerInv
<1>16. /\ step' \in [Planes -> Steps] /\ step'[p] = "received" /\ step'["foreground"] = step["foreground"]
  BY <1>6, <1>7, GotoStep DEF Planes, Steps
<1>17. Planar' /\ Rests("foreground") /\ held'[p] = M
  BY <1>6, <1>7, <1>16 DEF Planar, Rests, Planes
<1>18. LearningHas'
  BY <1>5, <1>6 DEF LearningHas
<1>19. LearningInv'
  BY <1>1, <1>2, <1>3, <1>6, <1>14, <1>16, <1>17, <1>18 DEF LearningInv, Holding, Preparing, Waiting
<1> QED BY <1>2, <1>5, <1>6, <1>a, <1>13, <1>15, <1>17, <1>19, LearningSaves

LEMMA WriteCurrentKeeps ==
  ASSUME Inv, WriteCurrent
  PROVE  Inv'
<1> DEFINE p == "learning"
           node == IF held[p].request.kind = "ASSESS" THEN Prepare("learning") ELSE At("emit_ack")
<1>1. /\ step[p] = "received" /\ Goto(p, "saved") /\ Drop(p) /\ next' = [next EXCEPT ![p] = node]
      /\ SameLedger /\ at' = at /\ p \in Planes
  BY DEF WriteCurrent, SameLedger, seams, Planes
<1>2. at[p] = At("receive_request") /\ LearningHas
  BY <1>1 DEF Inv, LearningInv, Holding
<1>3. at[p] # At("emit_ack") /\ at[p][1] # "native" /\ node[1] \in Busy
  BY <1>2, Heads DEF Busy
<1> HIDE DEF node
<1>4. Ends(p, ledger, node)
  BY <1>2, <1>3 DEF Ends
<1> QED BY <1>1, <1>4, SavedKeeps

LEMMA EmitAckKeeps ==
  ASSUME Inv, EmitAck
  PROVE  Inv'
<1> DEFINE p == "learning"
           L == held[p]
           R == [L.request EXCEPT !.stage = "ack_ready"]
           M == [L EXCEPT !.request = R]
<1>1. step[p] = "loaded" /\ at[p] = At("emit_ack")
  BY DEF EmitAck
<1>2. step[p] \in Holding /\ step[p] # "finished" /\ p \in Planes /\ at[p][1] = "emit_ack"
  BY <1>1, Heads DEF Holding, Planes
<1>3. at[p][1] # "native"
  BY <1>2
<1>4. SUFFICES ASSUME ~Refused(p) PROVE Inv'
  BY <1>2, <1>3, RefusedKeeps
<1>5. L = ledger /\ LearningHas /\ ledger.request # NoRequest
  BY <1>2, OwnHeld
<1>6. LedgerInv /\ Planar
  BY DEF Inv
<1>7. IsRequest(L.request) /\ IsLedger(L)
  BY <1>5, <1>6 DEF LedgerInv
<1>8. M = [L EXCEPT !.request.stage = "ack_ready"]
  BY <1>7 DEF IsLedger, IsRequest
<1>9. Saved(p, M, At("after_ack"))
  BY <1>4, <1>5, <1>8 DEF EmitAck
<1>10. /\ IsRequest(R) /\ R # NoRequest /\ R.id = L.request.id /\ R.kind = L.request.kind
       /\ R.pending = L.request.pending /\ R.stage = "ack_ready"
  BY <1>7 DEF IsRequest, NoRequest
<1> HIDE DEF R
<1>11. /\ IsLedger(M) /\ M.request = R /\ M.occ = L.occ /\ M.active = L.active /\ M.cont = L.cont
       /\ M.accepted = L.accepted /\ M.acked = L.acked /\ M.ackRoute = L.ackRoute /\ M.pending = L.pending
  BY <1>7 DEF IsLedger
<1> HIDE DEF M
<1>12. /\ ledger' = M /\ Goto(p, "saved") /\ Drop(p) /\ next' = [next EXCEPT ![p] = At("after_ack")]
       /\ UNCHANGED <<sent, got, acks, heard, at>>
  BY <1>9 DEF Saved, seams
<1>13. LedgerInv'
  BY <1>5, <1>6, <1>10, <1>11, <1>12 DEF LedgerInv
<1>14. /\ step' \in [Planes -> Steps] /\ step'[p] = "saved" /\ step'["foreground"] = step["foreground"]
  BY <1>6, <1>12, GotoStep DEF Planes, Steps
<1>15. /\ DOMAIN held' = Planes /\ held'["foreground"] = held["foreground"]
       /\ DOMAIN next' = Planes /\ next'[p] = At("after_ack") /\ next'["foreground"] = next["foreground"]
  BY <1>6, <1>12, DropStep DEF Planar, Planes
<1>16. Planar' /\ Rests("foreground")
  BY <1>6, <1>12, <1>14, <1>15 DEF Planar, Rests, Planes
<1>17. at[p][1] \in Busy /\ at[p] # At("finished") /\ at[p] # At("receive_request")
  BY <1>2, Heads DEF Busy
<1>18. LearningInv'
  BY <1>1, <1>3, <1>10, <1>11, <1>12, <1>14, <1>15, <1>17 DEF LearningInv, Holding, Preparing
<1> QED BY <1>2, <1>5, <1>10, <1>11, <1>12, <1>13, <1>16, <1>18, LearningSaves

\* What an acknowledgement leaves: no request, its number, and the route it returns to.
IsResumed(M, L) ==
  /\ IsLedger(M) /\ M.request = NoRequest /\ M.acked = L.request.id
  /\ M.ackRoute = (IF L.request.kind = "CLOSE" THEN At("finalize") ELSE Prepare(L.pending.target))
  /\ M.occ = L.occ /\ M.active = L.active /\ M.accepted = L.accepted /\ M.cont = [node |-> M.ackRoute, occ |-> 0]

LEMMA ResumedEffect ==
  ASSUME NEW L, IsLedger(L)
  PROVE  IsResumed(Resumed(L), L)
<1> DEFINE route == IF L.request.kind = "CLOSE" THEN At("finalize") ELSE Prepare(L.pending.target)
           pending == IF route = Prepare("troubleshooter")
                        THEN Pending("review", "doublechecker", L.pending.lineage, L.pending.occ)
                        ELSE NoPending
           A == [L EXCEPT !.request = NoRequest]
           B == [A EXCEPT !.acked = L.request.id]
           C == [B EXCEPT !.ackRoute = route]
           D == [C EXCEPT !.pending = pending]
           M == Resumed(L)
<1>1. M = [[L EXCEPT !.request = NoRequest, !.acked = L.request.id, !.ackRoute = route, !.pending = pending]
             EXCEPT !.cont = [node |-> route, occ |-> 0]]
  BY DEF Resumed, Mark, IsLedger
<1> HIDE DEF route, pending
<1>2. D = [L EXCEPT !.request = NoRequest, !.acked = L.request.id, !.ackRoute = route, !.pending = pending]
  OBVIOUS
<1>3. M = [D EXCEPT !.cont = [node |-> route, occ |-> 0]]
  <2> HIDE DEF D, M
  <2> QED BY <1>1, <1>2
<1>4. /\ IsLedger(A) /\ A.request = NoRequest /\ A.occ = L.occ /\ A.active = L.active /\ A.accepted = L.accepted
  BY DEF IsLedger
<1> HIDE DEF A
<1>5. /\ IsLedger(B) /\ B.request = NoRequest /\ B.occ = L.occ /\ B.active = L.active /\ B.accepted = L.accepted
      /\ B.acked = L.request.id
  BY <1>4 DEF IsLedger
<1> HIDE DEF B
<1>6. /\ IsLedger(C) /\ C.request = NoRequest /\ C.occ = L.occ /\ C.active = L.active /\ C.accepted = L.accepted
      /\ C.acked = L.request.id /\ C.ackRoute = route
  BY <1>5 DEF IsLedger
<1> HIDE DEF C
<1>7. /\ IsLedger(D) /\ D.request = NoRequest /\ D.occ = L.occ /\ D.active = L.active /\ D.accepted = L.accepted
      /\ D.acked = L.request.id /\ D.ackRoute = route
  BY <1>6 DEF IsLedger
<1> HIDE DEF D, M
<1>8. /\ IsLedger(M) /\ M.request = NoRequest /\ M.occ = L.occ /\ M.active = L.active /\ M.accepted = L.accepted
      /\ M.acked = L.request.id /\ M.ackRoute = route /\ M.cont = [node |-> route, occ |-> 0]
  BY <1>3, <1>7 DEF IsLedger
<1> QED BY <1>8 DEF IsResumed, route, M

LEMMA AcceptAckKeeps ==
  ASSUME Inv, AcceptAck
  PROVE  Inv'
<1> DEFINE p == "foreground"
           L == held[p]
           n == heard + 1
           M == Resumed(L)
           route == M.ackRoute
<1>1. step[p] = "loaded" /\ at[p] = At("accept_learning_ack")
  BY DEF AcceptAck
<1>2. step[p] \in Holding /\ step[p] # "finished" /\ p \in Planes /\ at[p][1] = "accept_learning_ack"
      /\ at[p] # At("emit_request")
  BY <1>1, Heads DEF Holding, Planes
<1>3. at[p][1] # "native"
  BY <1>2
<1>4. SUFFICES ASSUME ~Refused(p) PROVE Inv'
  BY <1>2, <1>3, RefusedKeeps
<1>5. LedgerInv /\ Planar /\ SeamInv /\ ForegroundInv /\ LearningInv
  BY DEF Inv
<1>6. Len(acks) > heard
  BY <1>1, <1>2, <1>5 DEF ForegroundInv
<1>7. CASE L.request = NoRequest
  <2>1. L = ledger /\ ledger.request = NoRequest
    BY <1>2, <1>7, OwnHeld
  <2>2. Saved(p, ledger, L.ackRoute)
    BY <1>4, <1>7 DEF AcceptAck
  <2>3. Ends(p, ledger, L.ackRoute)
    BY <1>2, <1>6, <2>1 DEF Ends
  <2> QED BY <1>2, <2>2, <2>3, SameEndKeeps
<1>8. CASE L.request # NoRequest
  <2>1. Saved(p, M, route) /\ acks[n] = L.request
    BY <1>4, <1>8 DEF AcceptAck
  <2>2. ledger.request # NoRequest /\ acks[n].id = ledger.request.id
    BY <1>2, <1>5, <1>8, <2>1 DEF ForegroundInv
  <2>3. L = ledger
    BY <1>1, <1>2, <1>5, <2>2 DEF ForegroundInv
  <2>4. n \in 1..Len(acks)
    BY <1>5, <1>6 DEF SeamInv
  <2>5. ledger.acked \in Nat /\ ledger.request.id = ledger.acked + 1 /\ IsLedger(L)
    BY <1>5, <2>2, <2>3 DEF LedgerInv
  <2>6. ~LearningHas
    BY <1>5, <2>2, <2>4, <2>5 DEF SeamInv
  <2>7. IsResumed(M, L)
    BY <2>5, ResumedEffect
  <2> HIDE DEF M, L
  <2>8. /\ IsLedger(M) /\ M.request = NoRequest /\ M.acked = ledger.acked + 1
        /\ route \in {At("finalize"), Prepare(L.pending.target)}
        /\ M.occ = ledger.occ /\ M.active = ledger.active /\ M.accepted = ledger.accepted
    BY <2>3, <2>5, <2>7 DEF IsResumed
  <2> HIDE DEF n, route
  <2>9. /\ ledger' = M /\ Goto(p, "saved") /\ Drop(p) /\ next' = [next EXCEPT ![p] = route]
        /\ UNCHANGED <<sent, got, acks, heard, at>>
    BY <2>1 DEF Saved, seams
  <2>10. route[1] # "native"
    BY <2>8, Heads
  <2>11. LedgerInv'
    BY <1>5, <2>5, <2>8, <2>9, <2>10 DEF LedgerInv, route
  <2>12. ~LearningHas' /\ (LearningHas' <=> LearningHas)
    BY <2>6, <2>9 DEF LearningHas
  <2>13. \A k \in 1..Len(acks) : acks[k].id \in Nat /\ acks[k].id <= ledger.acked + 1
    BY <1>5, <2>5 DEF SeamInv
  <2>14. SeamInv'
    BY <1>5, <2>8, <2>9, <2>12, <2>13 DEF SeamInv
  <2>15. /\ step' \in [Planes -> Steps] /\ step'[p] = "saved" /\ step'["learning"] = step["learning"]
    BY <1>5, <2>9, GotoStep DEF Planes, Steps
  <2>16. /\ DOMAIN held' = Planes /\ held'["learning"] = held["learning"]
         /\ DOMAIN next' = Planes /\ next'[p] = route /\ next'["learning"] = next["learning"]
    BY <1>5, <2>9, DropStep DEF Planar, Planes
  <2>17. Planar'
    BY <1>5, <2>9, <2>15, <2>16 DEF Planar
  <2>18. LearningInv'
    BY <1>5, <2>6, <2>9, <2>12, <2>15, <2>16 DEF LearningInv, LearningHas, Busy, At
  <2>19. ForegroundInv'
    BY <1>1, <1>2, <1>6, <2>8, <2>9, <2>15, <2>16 DEF ForegroundInv, Holding, Preparing
  <2> QED BY <2>11, <2>14, <2>17, <2>18, <2>19 DEF Inv
<1> QED BY <1>7, <1>8

LEMMA AfterAckKeeps ==
  ASSUME Inv, AfterAck
  PROVE  Inv'
<1>1. /\ at["learning"] = At("after_ack")
      /\ \E node \in {At("receive_request"), At("finished")} : Saved("learning", ledger, node)
  BY DEF AfterAck
<1>2. \A node \in {At("receive_request"), At("finished")} : Ends("learning", ledger, node)
  BY <1>1 DEF Ends
<1> QED BY <1>1, <1>2, SameEndKeeps DEF Planes

\* The decisions, and the operator's replacement beside a paused foreground.
LEMMA BoundaryKeeps ==
  ASSUME Inv, NEW name, name \in {"human_pause", "terminal_failure", "finalize"}, NEW allowed,
         NEW L, NEW route, held["foreground"] = ledger => KeepsExchange(L), Boundary(name, allowed, L, route)
  PROVE  Inv'
<1> DEFINE p == "foreground"
<1>1. step[p] = "loaded" /\ at[p] = At(name) /\ p \in Planes
  BY DEF Boundary, Planes
<1>2. step[p] \in Holding /\ step[p] # "finished" /\ at[p][1] = name
  BY <1>1, Heads DEF Holding
<1>3. /\ at[p][1] \notin {"emit_ack", "receive_request", "native"}
      /\ at[p] # At("emit_request") /\ at[p] # At("accept_learning_ack")
  BY <1>2, Heads
<1>a. at[p][1] # "native"
  BY <1>3
<1>4. SUFFICES ASSUME ~Refused(p) PROVE Inv'
  BY <1>1, <1>2, <1>a, RefusedKeeps
<1>5. held[p].request = NoRequest /\ Saved(p, L, route)
  BY <1>4 DEF Boundary, AssertForeground
<1>6. held[p] = ledger /\ ledger.request = NoRequest
  BY <1>1, <1>2, <1>5, OwnHeld
<1>7. KeepsExchange(L)
  BY <1>6
<1>8. Ends(p, L, route)
  BY <1>3, <1>6, <1>7 DEF Ends, KeepsExchange
<1> QED BY <1>1, <1>2, <1>5, <1>6, <1>7, <1>8, EndKeeps

LEMMA SameExchange == Inv /\ ledger.request = NoRequest => KeepsExchange(ledger)
  BY DEF Inv, LedgerInv, KeepsExchange

LEMMA DecisionKeeps ==
  ASSUME Inv, Decision
  PROVE  Inv'
<1> DEFINE H == held["foreground"]
           F == [H EXCEPT !.terminal = "failed"]
           M == Mark(F, At("emit_request"), 0)
<1>1. LedgerInv
  BY DEF Inv
<1>2. ASSUME H = ledger, H.request = NoRequest PROVE KeepsExchange(ledger) /\ KeepsExchange(M)
  <2>1. KeepsExchange(ledger)
    BY <1>2, SameExchange
  <2>2. /\ IsLedger(F) /\ F.request = H.request /\ F.occ = H.occ /\ F.active = H.active
        /\ F.accepted = H.accepted /\ F.acked = H.acked /\ F.ackRoute = H.ackRoute
    BY <1>1, <1>2 DEF LedgerInv, IsLedger
  <2>3. M = [F EXCEPT !.cont = [node |-> At("emit_request"), occ |-> 0]]
    BY DEF Mark
  <2> HIDE DEF F, M
  <2>4. /\ IsLedger(M) /\ M.request = H.request /\ M.occ = H.occ /\ M.active = H.active
        /\ M.accepted = H.accepted /\ M.acked = H.acked /\ M.ackRoute = H.ackRoute
    BY <2>2, <2>3 DEF IsLedger
  <2>5. KeepsExchange(M)
    BY <1>2, <2>1, <2>4 DEF KeepsExchange
  <2> QED BY <2>1, <2>5
<1>3. ASSUME H.request # NoRequest, NEW name, name \in {"human_pause", "terminal_failure", "finalize"},
             NEW allowed, NEW L, NEW route, Boundary(name, allowed, L, route)
      PROVE  Inv'
  <2>1. Refused("foreground") /\ step["foreground"] = "loaded" /\ at["foreground"] = At(name)
    BY <1>3 DEF Boundary, AssertForeground
  <2>2. at["foreground"][1] = name /\ name # "native"
    BY <1>3, <2>1, Heads
  <2>3. at["foreground"][1] # "native" /\ step["foreground"] # "finished"
    BY <2>1, <2>2
  <2> QED BY <2>1, <2>3, RefusedKeeps DEF Planes
<1>4. CASE H.request # NoRequest
  BY <1>3, <1>4 DEF Decision, HumanPause, TerminalFailure, Finalize
<1>5. CASE H.request = NoRequest
  <2>1. CASE HumanPause
    BY <1>2, <1>5, <2>1, BoundaryKeeps DEF HumanPause
  <2>2. CASE TerminalFailure
    BY <1>2, <1>5, <2>2, BoundaryKeeps DEF TerminalFailure
  <2>3. CASE Finalize
    BY <1>2, <1>5, <2>3, BoundaryKeeps DEF Finalize
  <2> QED BY <2>1, <2>2, <2>3 DEF Decision
<1> QED BY <1>4, <1>5

LEMMA RecordReplacementKeeps ==
  ASSUME Inv, NEW o, RecordReplacement(o)
  PROVE  Inv'
<1> DEFINE c == ledger.occ[o]
           intents == With(ledger.intents, o, <<"operator", source>>)
           pending == Pending("operator_replacement", c.role, c.lineage, o)
           A == [ledger EXCEPT !.intents = intents]
           B == [A EXCEPT !.pending = pending]
           M == [B EXCEPT !.cont = [node |-> Replace(c.role), occ |-> o]]
<1>1. LedgerInv /\ Planar /\ IsLedger(ledger) /\ ledger.request = NoRequest
  BY DEF Inv, LedgerInv, RecordReplacement, AssertForeground
<1>2. ledger' = M
  BY DEF RecordReplacement, Mark
<1> HIDE DEF intents, pending
<1>3. /\ IsLedger(A) /\ A.request = ledger.request /\ A.occ = ledger.occ /\ A.active = ledger.active
      /\ A.accepted = ledger.accepted /\ A.acked = ledger.acked /\ A.ackRoute = ledger.ackRoute
  BY <1>1 DEF IsLedger
<1> HIDE DEF A
<1>4. /\ IsLedger(B) /\ B.request = ledger.request /\ B.occ = ledger.occ /\ B.active = ledger.active
      /\ B.accepted = ledger.accepted /\ B.acked = ledger.acked /\ B.ackRoute = ledger.ackRoute
  BY <1>3 DEF IsLedger
<1> HIDE DEF B
<1>5. /\ IsLedger(M) /\ M.request = ledger.request /\ M.occ = ledger.occ /\ M.active = ledger.active
      /\ M.accepted = ledger.accepted /\ M.acked = ledger.acked /\ M.ackRoute = ledger.ackRoute
  BY <1>4 DEF IsLedger
<1> HIDE DEF M
<1>6. LedgerInv'
  BY <1>1, <1>2, <1>5 DEF LedgerInv
<1>7. /\ UNCHANGED <<sent, got, acks, heard, at, held, step, next>>
      /\ step["foreground"] \in {"paused", "hold"}
  BY DEF RecordReplacement, seams
<1>8. Planar' /\ Rests("learning")
  BY <1>1, <1>7 DEF Planar, Rests
<1>9. ForegroundInv'
  BY <1>1, <1>2, <1>5, <1>7 DEF Inv, ForegroundInv, Holding, Preparing
<1> QED BY <1>1, <1>2, <1>5, <1>6, <1>7, <1>8, <1>9, ForegroundSaves

LEMMA StepKeeps ==
  ASSUME Inv, Next
  PROVE  Inv'
<1>1. ASSUME NEW p \in Planes, Script(p) PROVE Inv'
  <2>1. ASSUME NEW role \in DOMAIN Outcomes, Plane(role) = p,
               \/ \E replacement \in BOOLEAN : PrepareRole(p, role, replacement)
               \/ ReserveReplacement(p, role) \/ RunNative(p, role)
               \/ \E outcome \in Outcomes[role] : AcceptRole(p, role, outcome)
        PROVE  Inv'
    BY <2>1, PrepareRoleKeeps, ReserveReplacementKeeps, RunNativeKeeps, AcceptRoleKeeps
  <2> QED BY <1>1, <2>1, LoadKeeps, EmitKeeps, ProjectionKeeps, WriteReadyKeeps DEF Script
<1>2. ASSUME Seam PROVE Inv'
  BY <1>2, EmitRequestKeeps, ReceiveKeeps, WriteCurrentKeeps, EmitAckKeeps, AcceptAckKeeps, AfterAckKeeps
  DEF Seam
<1> QED BY <1>1, <1>2, CrashKeeps, RedirectKeeps, DecisionKeeps, RecordReplacementKeeps DEF Next

LEMMA StutterKeeps ==
  ASSUME Inv, UNCHANGED vars
  PROVE  Inv'
  BY DEF vars, files, seams, counts, Inv, Planar, LedgerInv, SeamInv, LearningInv, ForegroundInv, LearningHas

\* The planes take turns at the ledger: from emit_request until accept_ack the foreground
\* saves nothing but a repeated emission, and Learning saves only while it has the request,
\* whatever script dies, is repeated or is redirected.
THEOREM TurnsKept == Spec => []Inv
<1>1. Inv /\ [Next]_vars => Inv'
  BY StepKeeps, StutterKeeps
<1> QED BY <1>1, InitInv, PTL DEF Spec

-----------------------------------------------------------------------------
\* What a step does to the ledger as it is: the script that saves has the turn.
Turn(p) == step[p] \in Holding /\ held[p] = ledger
Alone(p) == p = "foreground" => ledger.request = NoRequest
Keeping == UNCHANGED <<files, source, at, next, seams, counts>>

Quiet(p) ==
  /\ \E s \in {"paused", "loaded"} : Goto(p, s)
  /\ next' = next \/ next' = [next EXCEPT ![p] = Nowhere]
  /\ UNCHANGED <<ledger, files, source, at, seams, ran>>
Ended(p) ==
  (p = "learning" => at[p] # At("receive_request")) /\ \E node : node[1] # "native" /\ Saved(p, ledger, node)

Rematerializes(p, role) ==
  /\ Turn(p) /\ Plane(role) = p /\ at[p] \in {Prepare(role), Replace(role)}
  /\ ledger.active[p] # 0 /\ ledger.occ[ledger.active[p]].role = role /\ ledger.active[p] \notin ready
  /\ Goto(p, "reserved") /\ ledger' = ledger /\ Keeping
Intends(p, role) ==
  /\ Turn(p) /\ Alone(p) /\ Plane(role) = p /\ at[p] = Replace(role) /\ Asked(ledger, role, TRUE, Greenfield)
  /\ ~Interrupted(p, ledger, role, TRUE)
  /\ Goto(p, "intended") /\ ledger' = Intended(ledger, role, source) /\ Keeping
Reserves(p, role, replacement) ==
  /\ Turn(p) /\ Alone(p) /\ Plane(role) = p /\ at[p] = (IF replacement THEN Replace(role) ELSE Prepare(role))
  /\ IF replacement THEN step[p] = "intended"
     ELSE Asked(ledger, role, FALSE, Greenfield) /\ ~Interrupted(p, ledger, role, FALSE)
  /\ Goto(p, "reserved") /\ ledger' \in Reserved(ledger, role, replacement, source) /\ Keeping
Accepts(p, o, outcome) ==
  /\ Turn(p) /\ Alone(p) /\ o \in (1..Len(ledger.occ)) \ DOMAIN ledger.accepted
  /\ o = ledger.active[p] /\ Plane(ledger.occ[o].role) = p /\ at[p][1] = "accept"
  /\ o \in DOMAIN wrote
  /\ \E r \in Accepted(ledger, o, outcome, source) : Saved(p, r.ledger, r.route)

GivesUp ==
  /\ Turn("learning") /\ at["learning"][1] = "replace"
  /\ Saved("learning", Mark([ledger EXCEPT !.learned = @ \cup {ledger.request.lineage}], At("emit_ack"), 0),
           At("emit_ack"))
IsAsked(R) == R # NoRequest /\ R.source = source /\ R.stage = "published" /\ R.core = 0
Asks ==
  /\ Turn("foreground") /\ ledger.request = NoRequest
  /\ \E R, o :
       /\ IsAsked(R) /\ (R.kind = "ASSESS" => R.lineage = ledger.pending.lineage)
       /\ Saved("foreground", Mark([ledger EXCEPT !.request = R], At("accept_learning_ack"), o),
                At("accept_learning_ack"))
Gets ==
  /\ Turn("learning") /\ step["learning"] = "loaded" /\ at["learning"] = At("receive_request")
  /\ ledger.request.core \in {0, got + 1}
  /\ ledger.request.stage = "published" => got + 1 = ledger.seen + 1
  /\ ledger' = Received(ledger, got + 1) /\ Goto("learning", "received") /\ Keeping
Acknowledges ==
  /\ Turn("learning") /\ at["learning"] = At("emit_ack")
  /\ ledger.request.kind = "ASSESS" => ledger.request.lineage \in ledger.learned
  /\ Saved("learning", [ledger EXCEPT !.request.stage = "ack_ready"], At("after_ack"))
Resumes ==
  /\ Turn("foreground") /\ ledger.request # NoRequest /\ ledger.request.stage = "ack_ready"
  /\ ledger.request.core = heard + 1 /\ ledger.request = acks[heard + 1] /\ Len(acks) > heard
  /\ ledger.request.kind = "ASSESS" => ledger.pending.target \in {"updater", "troubleshooter"}
  /\ Saved("foreground", Resumed(ledger), Resumed(ledger).ackRoute)
Fails ==
  /\ Turn("foreground") /\ ledger.request = NoRequest
  /\ Saved("foreground", Mark([ledger EXCEPT !.terminal = "failed"], At("emit_request"), 0), At("emit_request"))

ScriptEffect(p) ==
  \/ Quiet(p) \/ Ended(p) \/ Emit(p) \/ WriteInput(p) \/ WriteActive(p) \/ WriteReady(p)
  \/ \E role \in Roles : \/ RunNative(p, role) /\ Plane(role) = p
                         \/ Rematerializes(p, role) \/ Intends(p, role)
                         \/ \E replacement \in BOOLEAN : Reserves(p, role, replacement)
  \/ \E o, outcome : Accepts(p, o, outcome)
SeamEffect == GivesUp \/ Asks \/ Gets \/ WriteCurrent \/ Acknowledges \/ Resumes

LEMMA RefusedIsQuiet ==
  ASSUME NEW p \in Planes, Refused(p)
  PROVE  Quiet(p)
  BY DEF Refused, Quiet, counts

LEMMA ReservingEffect ==
  ASSUME NEW p \in Planes, NEW role, NEW replacement, Turn(p), Alone(p), Plane(role) = p,
         at[p] = (IF replacement THEN Replace(role) ELSE Prepare(role)),
         IF replacement THEN step[p] = "intended"
         ELSE Asked(ledger, role, FALSE, Greenfield) /\ ~Interrupted(p, ledger, role, FALSE),
         Reserving(p, ledger, role, replacement)
  PROVE  Quiet(p) \/ Reserves(p, role, replacement)
<1>1. CASE Reserved(ledger, role, replacement, source) = {}
  BY <1>1, RefusedIsQuiet DEF Reserving
<1>2. CASE Reserved(ledger, role, replacement, source) # {}
  <2>1. PICK M \in Reserved(ledger, role, replacement, source) :
          ledger' = M /\ Goto(p, "reserved") /\ Keeping
    BY <1>2 DEF Reserving, Keeping
  <2> QED BY <2>1 DEF Reserves
<1> QED BY <1>1, <1>2

LEMMA PrepareEffect ==
  ASSUME Inv, NEW p \in Planes, NEW role, Plane(role) = p, NEW replacement \in BOOLEAN,
         PrepareRole(p, role, replacement)
  PROVE  \/ Quiet(p) \/ Rematerializes(p, role) \/ Intends(p, role) \/ GivesUp
         \/ Reserves(p, role, replacement)
<1> DEFINE L == held[p]
<1>1. step[p] = "loaded" /\ at[p] = IF replacement THEN Replace(role) ELSE Prepare(role)
  BY DEF PrepareRole
<1>2. step[p] \in Holding
  BY <1>1 DEF Holding
<1>3. SUFFICES ASSUME ~Refused(p)
               PROVE \/ Quiet(p) \/ Rematerializes(p, role) \/ Intends(p, role) \/ GivesUp
                     \/ Reserves(p, role, replacement)
  BY RefusedIsQuiet
<1>4. CASE Exhausted(p, L, role, replacement)
  <2>1. p = "learning" /\ replacement
    BY <1>4 DEF Exhausted
  <2>2. L = ledger
    BY <1>2, <2>1, OwnHeld
  <2>3. at[p][1] = "replace"
    BY <1>1, <2>1, Heads
  <2> QED BY <1>2, <1>4, <2>1, <2>2, <2>3 DEF PrepareRole, GivesUp, Turn
<1>5. CASE ~Exhausted(p, L, role, replacement)
  <2>1. Owns(p, L)
    BY <1>3, <1>5 DEF PrepareRole
  <2>2. L = ledger /\ Alone(p)
    BY <1>2, <2>1, OwnHeld DEF Owns, AssertForeground, Alone
  <2>3. Turn(p) /\ Alone(p)
    BY <1>2, <2>2 DEF Turn
  <2>4. CASE Interrupted(p, L, role, replacement)
    <3>1. /\ ledger.active[p] # 0 /\ ledger.occ[ledger.active[p]].role = role /\ ledger.active[p] \notin ready
          /\ Goto(p, "reserved") /\ ledger' = ledger /\ Keeping
      BY <1>3, <1>5, <2>1, <2>2, <2>4 DEF PrepareRole, Rematerialized, Keeping, Interrupted
    <3> QED BY <1>1, <2>3, <3>1 DEF Rematerializes
  <2>5. CASE ~Interrupted(p, L, role, replacement)
    <3>1. Asked(L, role, replacement, Greenfield)
      BY <1>3, <1>5, <2>1, <2>5 DEF PrepareRole
    <3>2. CASE ~replacement
      <4>1. Reserving(p, ledger, role, replacement)
        BY <1>3, <1>5, <2>1, <2>2, <2>5, <3>1, <3>2 DEF PrepareRole
      <4> QED BY <1>1, <2>2, <2>3, <2>5, <3>1, <3>2, <4>1, ReservingEffect
    <3>3. CASE replacement
      <4>1. ledger' = Intended(ledger, role, source) /\ Goto(p, "intended") /\ Keeping
        BY <1>3, <1>5, <2>1, <2>2, <2>5, <3>1, <3>3 DEF PrepareRole, Keeping
      <4> QED BY <1>1, <2>2, <2>3, <2>5, <3>1, <3>3, <4>1 DEF Intends
    <3> QED BY <3>2, <3>3
  <2> QED BY <2>4, <2>5
<1> QED BY <1>4, <1>5

LEMMA ReserveReplacementEffect ==
  ASSUME Inv, NEW p \in Planes, NEW role, Plane(role) = p, ReserveReplacement(p, role)
  PROVE  Quiet(p) \/ Reserves(p, role, TRUE)
<1>1. step[p] = "intended" /\ at[p] = Replace(role) /\ Reserving(p, held[p], role, TRUE)
  BY DEF ReserveReplacement
<1>2. step[p] \in Preparing /\ step[p] \in Holding
  BY <1>1 DEF Preparing, Holding
<1>3. p = "foreground" => held[p].request = NoRequest
  BY <1>2 DEF Inv, ForegroundInv
<1>4. held[p] = ledger
  BY <1>2, <1>3, OwnHeld
<1> QED BY <1>1, <1>2, <1>3, <1>4, ReservingEffect DEF Turn, Alone

LEMMA AcceptEffect ==
  ASSUME Inv, NEW p \in Planes, NEW role, Plane(role) = p, NEW outcome, AcceptRole(p, role, outcome)
  PROVE  Quiet(p) \/ Ended(p) \/ \E o : Accepts(p, o, outcome)
<1> DEFINE L == held[p]
           o == L.active[p]
<1>1. step[p] = "loaded" /\ at[p][1] = "accept" /\ at[p] # At("receive_request")
  <2>1. step[p] = "loaded" /\ at[p] = Accept(role, outcome)
    BY DEF AcceptRole
  <2> QED BY <2>1, AcceptHead, Heads
<1>2. step[p] \in Holding
  BY <1>1 DEF Holding
<1>3. SUFFICES ASSUME ~Refused(p) PROVE Ended(p) \/ \E q : Accepts(p, q, outcome)
  BY RefusedIsQuiet
<1>4. /\ p = "foreground" => L.request = NoRequest
      /\ o # 0 /\ L.occ[o].role = role /\ o \in DOMAIN wrote
      /\ \/ o \in DOMAIN L.accepted /\ Saved(p, ledger, L.accepted[o])
         \/ o \notin DOMAIN L.accepted /\ \E r \in Accepted(L, o, outcome, source) : Saved(p, r.ledger, r.route)
  BY <1>3 DEF AcceptRole, AssertForeground
<1>5. L = ledger /\ Alone(p)
  BY <1>2, <1>4, OwnHeld DEF Alone
<1>6. LedgerInv
  BY DEF Inv
<1>7. o \in 1..Len(ledger.occ)
  BY <1>4, <1>5, <1>6 DEF LedgerInv
<1>8. CASE o \in DOMAIN L.accepted
  <2>1. RouteOf(role, L.accepted[o]) /\ Saved(p, ledger, L.accepted[o])
    BY <1>4, <1>5, <1>6, <1>8 DEF LedgerInv
  <2>2. L.accepted[o][1] # "native"
    BY <2>1, Heads DEF RouteOf, Routes
  <2> QED BY <1>1, <2>1, <2>2 DEF Ended
<1>9. CASE o \notin DOMAIN L.accepted
  <2>1. Accepts(p, o, outcome)
    BY <1>1, <1>2, <1>4, <1>5, <1>7, <1>9 DEF Accepts, Turn
  <2> QED BY <2>1
<1> QED BY <1>8, <1>9

LEMMA EmitRequestEffect ==
  ASSUME Inv, EmitRequest
  PROVE  Quiet("foreground") \/ Ended("foreground") \/ Asks
<1> DEFINE p == "foreground"
           L == held[p]
           kind == IF L.terminal # "none" THEN "CLOSE" ELSE "ASSESS"
           lineage == IF L.pending # NoPending THEN L.pending.lineage ELSE "unpacketized"
           o == IF L.pending # NoPending THEN L.pending.occ ELSE L.cont.occ
           R == [kind |-> kind, lineage |-> lineage, id |-> L.acked + 1, pending |-> L.pending,
                 source |-> source, stage |-> "published", core |-> 0]
           node == At("accept_learning_ack")
<1>1. step[p] \in Holding /\ p \in Planes
  BY DEF EmitRequest, Holding, Planes
<1>2. SUFFICES ASSUME ~Refused(p) PROVE Ended(p) \/ Asks
  BY <1>1, RefusedIsQuiet
<1>3. CASE L.request # NoRequest
  <2>1. Saved(p, ledger, node)
    BY <1>2, <1>3 DEF EmitRequest
  <2> QED BY <2>1, Heads DEF Ended
<1>4. CASE L.request = NoRequest
  <2>1. L = ledger /\ ledger.request = NoRequest
    BY <1>1, <1>4, OwnHeld
  <2>2. Saved(p, Mark([L EXCEPT !.request = R], node, o), node)
    BY <1>2, <1>4 DEF EmitRequest
  <2> HIDE DEF o
  <2>3. IsAsked(R)
    BY DEF IsAsked, NoRequest
  <2>4. R.kind = "ASSESS" => R.lineage = ledger.pending.lineage
    <3> SUFFICES ASSUME kind = "ASSESS" PROVE lineage = ledger.pending.lineage
      OBVIOUS
    <3>1. L.pending.kind = "learning_gate"
      BY <1>2, <1>4 DEF EmitRequest
    <3> QED BY <2>1, <3>1 DEF NoPending
  <2> HIDE DEF R
  <2> QED BY <1>1, <2>1, <2>2, <2>3, <2>4 DEF Asks, Turn
<1> QED BY <1>3, <1>4

LEMMA ReceiveEffect ==
  ASSUME Inv, Receive
  PROVE  Quiet("learning") \/ Gets
<1> DEFINE p == "learning"
           L == held[p]
<1>1. step[p] = "loaded" /\ at[p] = At("receive_request") /\ p \in Planes /\ step[p] \in Holding
  BY DEF Receive, Holding, Planes
<1>2. SUFFICES ASSUME ~Refused(p) PROVE Gets
  BY <1>1, RefusedIsQuiet
<1>3. L = ledger
  BY <1>1, OwnHeld
<1> QED BY <1>1, <1>2, <1>3 DEF Receive, Gets, Turn, Keeping

LEMMA EmitAckEffect ==
  ASSUME Inv, EmitAck
  PROVE  Quiet("learning") \/ Acknowledges
<1> DEFINE p == "learning"
           L == held[p]
<1>1. step[p] = "loaded" /\ at[p] = At("emit_ack") /\ p \in Planes /\ step[p] \in Holding
  BY DEF EmitAck, Holding, Planes
<1>2. SUFFICES ASSUME ~Refused(p) PROVE Acknowledges
  BY <1>1, RefusedIsQuiet
<1>3. L = ledger
  BY <1>1, OwnHeld
<1> QED BY <1>1, <1>2, <1>3 DEF EmitAck, Acknowledges, Turn

LEMMA AcceptAckEffect ==
  ASSUME Inv, AcceptAck
  PROVE  Quiet("foreground") \/ Ended("foreground") \/ Resumes
<1> DEFINE p == "foreground"
           L == held[p]
           n == heard + 1
<1>1. step[p] = "loaded" /\ at[p] = At("accept_learning_ack") /\ p \in Planes /\ step[p] \in Holding
  BY DEF AcceptAck, Holding, Planes
<1>2. SUFFICES ASSUME ~Refused(p) PROVE Ended(p) \/ Resumes
  BY <1>1, RefusedIsQuiet
<1>3. LedgerInv /\ ForegroundInv
  BY DEF Inv
<1>4. CASE L.request = NoRequest
  <2>1. L = ledger
    BY <1>1, <1>4, OwnHeld
  <2>2. Saved(p, ledger, L.ackRoute)
    BY <1>2, <1>4 DEF AcceptAck
  <2>3. L.ackRoute[1] # "native"
    BY <1>3, <2>1 DEF LedgerInv
  <2> QED BY <2>2, <2>3 DEF Ended
<1>5. CASE L.request # NoRequest
  <2>1. /\ Saved(p, Resumed(L), Resumed(L).ackRoute) /\ acks[n] = L.request
        /\ L.request.stage = "ack_ready" /\ n = L.request.core
    BY <1>2, <1>5 DEF AcceptAck
  <2>2. ledger.request # NoRequest /\ acks[n].id = ledger.request.id
    BY <1>1, <1>3, <1>5, <2>1 DEF ForegroundInv
  <2>3. L = ledger /\ Len(acks) > heard
    BY <1>1, <1>3, <2>2 DEF ForegroundInv
  <2>4. L.request.kind = "ASSESS" => L.pending.target \in {"updater", "troubleshooter"}
    BY <1>2, <1>5 DEF AcceptAck, LegalPending
  <2> QED BY <1>1, <2>1, <2>2, <2>3, <2>4 DEF Resumes, Turn
<1> QED BY <1>4, <1>5

LEMMA AfterAckEffect == AfterAck => Ended("learning")
<1>1. /\ At("finished")[1] # "native" /\ At("receive_request")[1] # "native"
      /\ At("after_ack") # At("receive_request")
  BY Heads
<1> QED BY <1>1 DEF AfterAck, Ended

LEMMA DecisionEffect ==
  ASSUME Inv, Decision
  PROVE  Quiet("foreground") \/ Ended("foreground") \/ Fails
<1> DEFINE p == "foreground"
           L == held[p]
<1>1. step[p] = "loaded" /\ p \in Planes /\ step[p] \in Holding
  BY DEF Decision, HumanPause, TerminalFailure, Finalize, Boundary, Holding, Planes
<1>2. SUFFICES ASSUME ~Refused(p) PROVE Ended(p) \/ Fails
  BY <1>1, RefusedIsQuiet
<1>3. L.request = NoRequest
  BY <1>2 DEF Decision, HumanPause, TerminalFailure, Finalize, Boundary, AssertForeground
<1>4. L = ledger /\ ledger.request = NoRequest
  BY <1>1, <1>3, OwnHeld
<1>5. At("hold")[1] # "native" /\ At("finished")[1] # "native"
  BY Heads
<1>6. CASE HumanPause
  BY <1>2, <1>5, <1>6 DEF HumanPause, Boundary, Ended
<1>7. CASE TerminalFailure
  BY <1>1, <1>2, <1>4, <1>7 DEF TerminalFailure, Boundary, Fails, Turn
<1>8. CASE Finalize
  BY <1>2, <1>4, <1>5, <1>8 DEF Finalize, Boundary, Ended
<1> QED BY <1>6, <1>7, <1>8 DEF Decision

LEMMA StepEffects ==
  ASSUME Inv, Next
  PROVE  \/ \E p \in Planes : ScriptEffect(p) \/ Redirect(p)
         \/ SeamEffect \/ Fails
         \/ \E o \in DOMAIN ledger.occ : RecordReplacement(o)
<1>1. ASSUME NEW p \in Planes, Script(p) PROVE ScriptEffect(p) \/ SeamEffect
  <2>1. ASSUME NEW role \in DOMAIN Outcomes, Plane(role) = p,
               \/ \E replacement \in BOOLEAN : PrepareRole(p, role, replacement)
               \/ ReserveReplacement(p, role) \/ RunNative(p, role)
               \/ \E outcome \in Outcomes[role] : AcceptRole(p, role, outcome)
        PROVE  ScriptEffect(p) \/ SeamEffect
    <3>1. role \in Roles
      BY LadSessionAssumption
    <3>2. ASSUME NEW replacement \in BOOLEAN, PrepareRole(p, role, replacement) PROVE ScriptEffect(p) \/ SeamEffect
      BY <2>1, <3>1, <3>2, PrepareEffect DEF ScriptEffect, SeamEffect
    <3>3. ASSUME ReserveReplacement(p, role) PROVE ScriptEffect(p)
      BY <2>1, <3>1, <3>3, ReserveReplacementEffect DEF ScriptEffect
    <3>4. ASSUME RunNative(p, role) PROVE ScriptEffect(p)
      BY <2>1, <3>1, <3>4 DEF ScriptEffect
    <3>5. ASSUME NEW outcome, AcceptRole(p, role, outcome) PROVE ScriptEffect(p)
      BY <2>1, <3>5, AcceptEffect DEF ScriptEffect
    <3> QED BY <2>1, <3>2, <3>3, <3>4, <3>5
  <2>2. Load(p) => Quiet(p)
    <3>1. Load(p) => Refused(p) \/ Quiet(p)
      BY DEF Load, Quiet, counts
    <3> QED BY <3>1, RefusedIsQuiet
  <2> QED BY <1>1, <2>1, <2>2 DEF Script, ScriptEffect
<1>2. ASSUME Seam PROVE SeamEffect \/ \E p \in Planes : ScriptEffect(p)
  BY <1>2, EmitRequestEffect, ReceiveEffect, EmitAckEffect, AcceptAckEffect, AfterAckEffect
  DEF Seam, SeamEffect, ScriptEffect, Planes
<1>3. ASSUME Decision PROVE Fails \/ \E p \in Planes : ScriptEffect(p)
  BY <1>3, DecisionEffect DEF ScriptEffect, Planes
<1>4. ASSUME NEW p \in Planes, Crash(p) PROVE ScriptEffect(p)
  BY <1>4 DEF Crash, Quiet, ScriptEffect
<1> QED BY <1>1, <1>2, <1>3, <1>4 DEF Next

-----------------------------------------------------------------------------
\* NoLostSave: every save is of the ledger that its script holds.
Acts(p) == Turn(p) /\ \E s \in Steps : Goto(p, s)

LEMMA WhoSaves ==
  ASSUME Inv, Next, ledger' # ledger
  PROVE  step' = step \/ \E p \in Planes : Acts(p)
<1>1. \A p \in Planes : \A L, node : Saved(p, L, node) /\ Turn(p) => Acts(p)
  BY DEF Saved, Acts, Steps
<1>2. ASSUME NEW p \in Planes, ScriptEffect(p) PROVE Acts(p)
  <2>1. ~(Quiet(p) \/ Ended(p) \/ Emit(p) \/ WriteInput(p) \/ WriteActive(p) \/ WriteReady(p))
    BY DEF Quiet, Ended, Saved, Emit, WriteInput, WriteActive, WriteReady
  <2>2. \A role : ~RunNative(p, role) /\ ~Rematerializes(p, role)
    BY DEF RunNative, Rematerializes
  <2>3. \A role, replacement : Intends(p, role) \/ Reserves(p, role, replacement) => Acts(p)
    BY DEF Intends, Reserves, Acts, Steps
  <2>4. \A o, outcome : Accepts(p, o, outcome) => Acts(p)
    BY <1>1 DEF Accepts
  <2> QED BY <1>2, <2>1, <2>2, <2>3, <2>4 DEF ScriptEffect
<1>3. SeamEffect \/ Fails => \E p \in Planes : Acts(p)
  <2>1. ~WriteCurrent
    BY DEF WriteCurrent
  <2>2. Gets => Acts("learning")
    BY DEF Gets, Acts, Steps
  <2> QED BY <1>1, <2>1, <2>2 DEF SeamEffect, Fails, GivesUp, Asks, Acknowledges, Resumes, Planes
<1>4. \A p \in Planes : ~Redirect(p)
  BY DEF Redirect
<1>5. \A o : RecordReplacement(o) => step' = step
  BY DEF RecordReplacement
<1> QED BY <1>2, <1>3, <1>4, <1>5, StepEffects

\* A script that saves the ledger (lad_state.save) saves what it made of the ledger as it is:
\* although each script works on the copy it loaded, no save undoes one of the other plane.
THEOREM NoSaveLost == Spec => NoLostSave
<1>1. Inv /\ [Next]_vars =>
        [\A p \in Planes : ledger' # ledger /\ step'[p] # step[p] => held[p] = ledger]_vars
  <2> SUFFICES ASSUME Inv, Next, NEW p \in Planes, ledger' # ledger, step'[p] # step[p]
               PROVE  held[p] = ledger
    OBVIOUS
  <2>1. PICK q \in Planes : Acts(q)
    BY WhoSaves
  <2>2. q = p
    BY <2>1 DEF Acts, Goto, Inv, Planar
  <2> QED BY <2>1, <2>2 DEF Acts, Turn
<1> QED BY <1>1, TurnsKept, PTL DEF Spec, NoLostSave

-----------------------------------------------------------------------------
\* The saves of the seam and of a decision reserve and accept nothing.
Untouched(M, L) ==
  /\ IsLedger(M) /\ M.occ = L.occ /\ M.accepted = L.accepted /\ M.active = L.active
  /\ M.seen = L.seen /\ M.pairs = L.pairs /\ L.learned \subseteq M.learned
IsMarked(M, L, route) ==
  /\ Untouched(M, L) /\ M.intents = L.intents /\ M.pending = L.pending /\ M.cont.node = route
  /\ M.plan = L.plan /\ M.usage = L.usage

OnlyMarked(M, L, route) == IsMarked(M, L, route) /\ M.request = L.request

LEMMA MarkEffect ==
  ASSUME NEW L, IsLedger(L), NEW route, NEW o
  PROVE  OnlyMarked(Mark(L, route, o), L, route)
  BY DEF Mark, OnlyMarked, IsMarked, Untouched, IsLedger

LEMMA MarkedOn ==
  ASSUME NEW K, NEW L, NEW M, NEW route, IsMarked(L, K, K.cont.node), IsMarked(M, L, route)
  PROVE  IsMarked(M, K, route)
  BY DEF IsMarked, Untouched

LEMMA GivesUpEffect ==
  ASSUME Inv, GivesUp
  PROVE  IsMarked(ledger', ledger, At("emit_ack")) /\ ledger'.request = ledger.request
<1> DEFINE N == [ledger EXCEPT !.learned = @ \cup {ledger.request.lineage}]
<1>1. ledger' = Mark(N, At("emit_ack"), 0)
  BY DEF GivesUp, Saved
<1>2. IsLedger(ledger)
  BY DEF Inv, LedgerInv
<1>3. IsMarked(N, ledger, ledger.cont.node) /\ N.request = ledger.request /\ IsLedger(N)
  BY <1>2 DEF IsMarked, Untouched, IsLedger
<1> HIDE DEF N
<1>4. IsMarked(ledger', N, At("emit_ack")) /\ ledger'.request = N.request
  BY <1>1, <1>3, MarkEffect DEF OnlyMarked
<1> QED BY <1>3, <1>4, MarkedOn

LEMMA FailsEffect ==
  ASSUME Inv, Fails
  PROVE  IsMarked(ledger', ledger, At("emit_request")) /\ ledger'.request = ledger.request
<1> DEFINE N == [ledger EXCEPT !.terminal = "failed"]
<1>1. ledger' = Mark(N, At("emit_request"), 0)
  BY DEF Fails, Saved
<1>2. IsLedger(ledger)
  BY DEF Inv, LedgerInv
<1>3. IsMarked(N, ledger, ledger.cont.node) /\ N.request = ledger.request /\ IsLedger(N)
  BY <1>2 DEF IsMarked, Untouched, IsLedger
<1> HIDE DEF N
<1>4. IsMarked(ledger', N, At("emit_request")) /\ ledger'.request = N.request
  BY <1>1, <1>3, MarkEffect DEF OnlyMarked
<1> QED BY <1>3, <1>4, MarkedOn

LEMMA AsksEffect ==
  ASSUME Inv, Asks
  PROVE  IsMarked(ledger', ledger, At("accept_learning_ack")) /\ IsAsked(ledger'.request)
         /\ (ledger'.request.kind = "ASSESS" => ledger'.request.lineage = ledger.pending.lineage)
<1>1. PICK R, o : /\ IsAsked(R) /\ (R.kind = "ASSESS" => R.lineage = ledger.pending.lineage)
                  /\ ledger' = Mark([ledger EXCEPT !.request = R], At("accept_learning_ack"), o)
  BY DEF Asks, Saved
<1> DEFINE N == [ledger EXCEPT !.request = R]
<1>2. IsLedger(ledger)
  BY DEF Inv, LedgerInv
<1>3. IsMarked(N, ledger, ledger.cont.node) /\ N.request = R /\ IsLedger(N)
  BY <1>2 DEF IsMarked, Untouched, IsLedger
<1>4. ledger' = Mark(N, At("accept_learning_ack"), o)
  BY <1>1
<1> HIDE DEF N
<1>5. IsMarked(ledger', N, At("accept_learning_ack")) /\ ledger'.request = N.request
  BY <1>3, <1>4, MarkEffect DEF OnlyMarked
<1> QED BY <1>1, <1>3, <1>5, MarkedOn

\* A request that Learning receives, or acknowledges, is the one of the foreground.
IsGot(M, L, n) ==
  /\ IsLedger(M) /\ M.occ = L.occ /\ M.accepted = L.accepted /\ M.active = L.active
  /\ M.intents = L.intents /\ M.pending = L.pending /\ M.plan = L.plan /\ M.usage = L.usage
  /\ M.seen = n /\ M.request.core = n /\ M.pairs = L.pairs /\ M.learned = L.learned
  /\ M.cont = IF L.request.kind = "ASSESS"
                THEN [node |-> Prepare("learning"), occ |-> L.request.pending.occ] ELSE L.cont

LEMMA GotEffect ==
  ASSUME NEW L, IsLedger(L), IsRequest(L.request), NEW n
  PROVE  IsGot(Received(L, n), L, n)
<1> DEFINE Q == L.request
           K == [Q EXCEPT !.core = n]
           R == [K EXCEPT !.stage = "received"]
           A == [L EXCEPT !.request = R]
           N == [A EXCEPT !.seen = n]
           M == Received(L, n)
<1>1. IsRequest(K) /\ K.core = n
  BY DEF IsRequest
<1>2. N = [L EXCEPT !.request.core = n, !.request.stage = "received", !.seen = n]
  BY DEF IsLedger, IsRequest
<1>3. M = IF Q.kind = "ASSESS" THEN [N EXCEPT !.cont = [node |-> Prepare("learning"), occ |-> Q.pending.occ]] ELSE N
  <2> HIDE DEF N
  <2> QED BY <1>2 DEF Received, Mark
<1> HIDE DEF K
<1>4. R.core = n
  BY <1>1 DEF IsRequest
<1> HIDE DEF R
<1>5. /\ IsLedger(A) /\ A.request = R /\ A.occ = L.occ /\ A.active = L.active /\ A.cont = L.cont
      /\ A.accepted = L.accepted /\ A.pending = L.pending /\ A.plan = L.plan /\ A.usage = L.usage
      /\ A.intents = L.intents /\ A.pairs = L.pairs /\ A.learned = L.learned
  BY DEF IsLedger
<1> HIDE DEF A
<1>6. /\ IsLedger(N) /\ N.request = R /\ N.occ = L.occ /\ N.active = L.active /\ N.cont = L.cont
      /\ N.accepted = L.accepted /\ N.pending = L.pending /\ N.plan = L.plan /\ N.usage = L.usage
      /\ N.intents = L.intents /\ N.seen = n /\ N.pairs = L.pairs /\ N.learned = L.learned
  BY <1>5 DEF IsLedger
<1> HIDE DEF N, M
<1>7. IsGot(M, L, n)
  BY <1>3, <1>4, <1>6 DEF IsLedger, IsGot
<1> QED BY <1>7 DEF M

LEMMA GetsEffect ==
  ASSUME Inv, Gets
  PROVE  /\ IsGot(ledger', ledger, got + 1) /\ IsStaged(ledger'.request, ledger.request, "received")
         /\ ledger.request # NoRequest
<1>1. step["learning"] \in Holding /\ ledger' = Received(ledger, got + 1)
  BY DEF Gets, Turn
<1>2. IsLedger(ledger) /\ IsRequest(ledger.request) /\ ledger.request # NoRequest
  BY <1>1 DEF Inv, LedgerInv, LearningInv, SeamInv
<1> QED BY <1>1, <1>2, GotEffect, ReceivedEffect

LEMMA AcknowledgesEffect ==
  ASSUME Inv, Acknowledges
  PROVE  /\ IsMarked(ledger', ledger, ledger.cont.node) /\ ledger'.cont = ledger.cont
         /\ IsStaged(ledger'.request, ledger.request, "ack_ready")
         /\ ledger'.request.core = ledger.request.core /\ ledger.request # NoRequest
<1> DEFINE R == [ledger.request EXCEPT !.stage = "ack_ready"]
           M == [ledger EXCEPT !.request = R]
<1>1. step["learning"] \in Holding /\ ledger' = [ledger EXCEPT !.request.stage = "ack_ready"]
  BY DEF Acknowledges, Turn, Saved
<1>2. IsLedger(ledger) /\ IsRequest(ledger.request) /\ ledger.request # NoRequest
  BY <1>1 DEF Inv, LedgerInv, LearningInv, SeamInv
<1>3. ledger' = M
  BY <1>1, <1>2 DEF IsLedger, IsRequest
<1>4. IsStaged(R, ledger.request, "ack_ready") /\ R.core = ledger.request.core
  BY <1>2 DEF IsStaged, IsRequest, NoRequest
<1> HIDE DEF R
<1>5. IsMarked(M, ledger, ledger.cont.node) /\ M.cont = ledger.cont /\ M.request = R
  BY <1>2 DEF IsMarked, Untouched, IsLedger
<1> QED BY <1>2, <1>3, <1>4, <1>5

LEMMA ResumesEffect ==
  ASSUME Inv, Resumes
  PROVE  /\ Untouched(ledger', ledger) /\ ledger'.intents = ledger.intents
         /\ ledger'.plan = ledger.plan /\ ledger'.usage = ledger.usage
         /\ ledger'.request = NoRequest /\ ledger'.cont = [node |-> ledger'.ackRoute, occ |-> 0]
         /\ ledger'.ackRoute = (IF ledger.request.kind = "CLOSE" THEN At("finalize")
                                                                 ELSE Prepare(ledger.pending.target))
         /\ \/ ledger'.pending = NoPending
            \/ ledger'.pending = Pending("review", "doublechecker", ledger.pending.lineage, ledger.pending.occ)
               /\ ledger.request.kind = "ASSESS"
<1> DEFINE L == ledger
           route == IF L.request.kind = "CLOSE" THEN At("finalize") ELSE Prepare(L.pending.target)
           pending == IF route = Prepare("troubleshooter")
                        THEN Pending("review", "doublechecker", L.pending.lineage, L.pending.occ)
                        ELSE NoPending
           A == [L EXCEPT !.request = NoRequest]
           B == [A EXCEPT !.acked = L.request.id]
           C == [B EXCEPT !.ackRoute = route]
           D == [C EXCEPT !.pending = pending]
           M == Resumed(L)
<1>a. ledger' = M /\ IsLedger(L)
  BY DEF Resumes, Saved, Inv, LedgerInv
<1>1. M = [[L EXCEPT !.request = NoRequest, !.acked = L.request.id, !.ackRoute = route, !.pending = pending]
             EXCEPT !.cont = [node |-> route, occ |-> 0]]
  BY <1>a DEF Resumed, Mark, IsLedger
<1>b. \/ pending = NoPending
      \/ /\ pending = Pending("review", "doublechecker", L.pending.lineage, L.pending.occ)
         /\ L.request.kind # "CLOSE"
  <2>1. At("finalize") # Prepare("troubleshooter")
    BY Heads
  <2> QED BY <2>1
<1>c. ledger.request.kind \in {"ASSESS", "CLOSE"}
  BY DEF Resumes, Inv, LedgerInv, IsRequest
<1> HIDE DEF route, pending
<1>2. D = [L EXCEPT !.request = NoRequest, !.acked = L.request.id, !.ackRoute = route, !.pending = pending]
  OBVIOUS
<1>3. M = [D EXCEPT !.cont = [node |-> route, occ |-> 0]]
  <2> HIDE DEF D, M
  <2> QED BY <1>1, <1>2
<1>4. /\ IsMarked(A, L, L.cont.node) /\ A.request = NoRequest
  BY <1>a DEF IsMarked, Untouched, IsLedger
<1> HIDE DEF A
<1>5. /\ IsMarked(B, A, A.cont.node) /\ B.request = NoRequest
  BY <1>4 DEF IsMarked, Untouched, IsLedger
<1> HIDE DEF B
<1>6. /\ IsMarked(C, B, B.cont.node) /\ C.request = NoRequest /\ C.ackRoute = route
  BY <1>5 DEF IsMarked, Untouched, IsLedger
<1> HIDE DEF C
<1>7. /\ Untouched(D, C) /\ D.request = NoRequest /\ D.ackRoute = route /\ D.pending = pending
      /\ D.intents = C.intents /\ D.plan = C.plan /\ D.usage = C.usage
  BY <1>6 DEF IsMarked, Untouched, IsLedger
<1> HIDE DEF D, M
<1>8. /\ Untouched(M, D) /\ M.request = NoRequest /\ M.ackRoute = route /\ M.pending = pending
      /\ M.intents = D.intents /\ M.plan = D.plan /\ M.usage = D.usage
      /\ M.cont = [node |-> route, occ |-> 0]
  BY <1>3, <1>7 DEF Untouched, IsLedger
<1>9. /\ Untouched(M, L) /\ M.intents = L.intents /\ M.plan = L.plan /\ M.usage = L.usage
  BY <1>4, <1>5, <1>6, <1>7, <1>8 DEF IsMarked, Untouched
<1> QED BY <1>a, <1>b, <1>c, <1>8, <1>9 DEF route

LEMMA RecordReplacementEffect ==
  ASSUME Inv, NEW o, RecordReplacement(o)
  PROVE  /\ Untouched(ledger', ledger) /\ ledger'.request = ledger.request
         /\ ledger'.intents = With(ledger.intents, o, <<"operator", source>>)
         /\ ledger'.pending = Pending("operator_replacement", ledger.occ[o].role, ledger.occ[o].lineage, o)
         /\ ledger'.cont.node = Replace(ledger.occ[o].role)
         /\ ledger'.plan = ledger.plan /\ ledger'.usage = ledger.usage
         /\ UNCHANGED <<held, files, source, at, step, next, seams, counts>>
<1> DEFINE c == ledger.occ[o]
           intents == With(ledger.intents, o, <<"operator", source>>)
           pending == Pending("operator_replacement", c.role, c.lineage, o)
           A == [ledger EXCEPT !.intents = intents]
           B == [A EXCEPT !.pending = pending]
           M == [B EXCEPT !.cont = [node |-> Replace(c.role), occ |-> o]]
<1>1. IsLedger(ledger)
  BY DEF Inv, LedgerInv
<1>2. ledger' = M
  BY DEF RecordReplacement, Mark
<1> HIDE DEF intents, pending
<1>3. /\ Untouched(A, ledger) /\ A.request = ledger.request /\ A.intents = intents
      /\ A.plan = ledger.plan /\ A.usage = ledger.usage
  BY <1>1 DEF Untouched, IsLedger
<1> HIDE DEF A
<1>4. /\ Untouched(B, A) /\ B.request = A.request /\ B.intents = A.intents /\ B.pending = pending
      /\ B.plan = A.plan /\ B.usage = A.usage
  BY <1>3 DEF Untouched, IsLedger
<1> HIDE DEF B
<1>5. /\ Untouched(M, B) /\ M.request = B.request /\ M.intents = B.intents /\ M.pending = B.pending
      /\ M.plan = B.plan /\ M.usage = B.usage /\ M.cont.node = Replace(c.role)
  BY <1>4 DEF Untouched, IsLedger
<1> HIDE DEF M
<1>6. Untouched(ledger', ledger)
  BY <1>2, <1>3, <1>4, <1>5 DEF Untouched
<1>7. UNCHANGED <<held, files, source, at, step, next, seams, counts>>
  BY DEF RecordReplacement
<1> QED BY <1>2, <1>3, <1>4, <1>5, <1>6, <1>7 DEF intents, pending

-----------------------------------------------------------------------------
\* RouteKept: while there is a request, no role of the foreground runs.
LEMMA SourceStep ==
  ASSUME "learning" \notin Writers, Inv, SourceInv, Next
  PROVE  SourceInv'
<1> SUFFICES ASSUME ledger'.request # NoRequest PROVE ledger'.request.source = source'
  BY DEF SourceInv
<1>1. IsLedger(ledger)
  BY DEF Inv, LedgerInv
<1> DEFINE Same == ledger'.request = ledger.request /\ source' = source
<1>2. Same => ledger'.request.source = source'
  BY DEF SourceInv
<1>3. ASSUME NEW p \in Planes, ScriptEffect(p) PROVE ledger'.request.source = source'
  <2>1. ASSUME Quiet(p) \/ Ended(p) \/ Emit(p) \/ WriteInput(p) \/ WriteActive(p) \/ WriteReady(p)
        PROVE  Same
    BY <2>1 DEF Quiet, Ended, Saved, Emit, WriteInput, WriteActive, WriteReady, files
  <2>2. ASSUME NEW role, RunNative(p, role), Plane(role) = p PROVE ledger'.request.source = source'
    <3>1. ledger' = ledger /\ at[p] = Native(role) /\ (role \notin Writers => source' = source)
      BY <2>2 DEF RunNative
    <3>2. at[p][1] = "native"
      BY <3>1, Heads
    <3>3. p # "foreground"
      BY <3>1, <3>2 DEF Inv, ForegroundInv
    <3>4. role = "learning"
      BY <2>2, <3>3 DEF Plane
    <3> QED BY <1>2, <3>1, <3>4
  <2>3. ASSUME NEW role, Rematerializes(p, role) PROVE Same
    BY <2>3 DEF Rematerializes, Keeping
  <2>4. ASSUME NEW role, Intends(p, role) PROVE Same
    <3>1. Intended(ledger, role, source).request = ledger.request
      BY <1>1, IntendedEffect
    <3> QED BY <2>4, <3>1 DEF Intends, Keeping
  <2>5. ASSUME NEW role, NEW replacement, Reserves(p, role, replacement) PROVE Same
    <3>1. IsReservation(ledger', ledger, role, replacement, source)
      BY <1>1, <2>5, ReservedEffect DEF Reserves
    <3> QED BY <2>5, <3>1 DEF IsReservation, Reserves, Keeping
  <2>6. ASSUME NEW o, NEW outcome, Accepts(p, o, outcome) PROVE Same
    <3>1. PICK r \in Accepted(ledger, o, outcome, source) : Saved(p, r.ledger, r.route)
      BY <2>6 DEF Accepts
    <3>a. IsAcceptance(r, ledger, o)
      BY <1>1, <3>1, AcceptedEffect
    <3>2. r.ledger.request = ledger.request
      BY <3>a DEF IsAcceptance
    <3> QED BY <3>1, <3>2 DEF Saved
  <2> QED BY <1>2, <1>3, <2>1, <2>2, <2>3, <2>4, <2>5, <2>6 DEF ScriptEffect
<1>4. ASSUME SeamEffect PROVE ledger'.request.source = source'
  <2>1. source' = source
    BY <1>4 DEF SeamEffect, GivesUp, Asks, Gets, WriteCurrent, Acknowledges, Resumes, Saved, Keeping
  <2>2. CASE GivesUp
    BY <1>2, <2>1, <2>2, GivesUpEffect
  <2>3. CASE Asks
    BY <2>1, <2>3, AsksEffect DEF IsAsked
  <2>4. CASE Gets
    BY <1>2, <2>1, <2>4, GetsEffect DEF IsStaged, SourceInv
  <2>5. CASE WriteCurrent
    BY <1>2, <2>1, <2>5 DEF WriteCurrent
  <2>6. CASE Acknowledges
    BY <1>2, <2>1, <2>6, AcknowledgesEffect DEF IsStaged, SourceInv
  <2>7. CASE Resumes
    BY <2>7, ResumesEffect
  <2> QED BY <1>4, <2>2, <2>3, <2>4, <2>5, <2>6, <2>7 DEF SeamEffect
<1>5. ASSUME Fails PROVE Same
  BY <1>5, FailsEffect DEF Fails, Saved
<1>6. ASSUME NEW p \in Planes, Redirect(p) PROVE Same
  BY <1>6 DEF Redirect
<1>7. ASSUME NEW o, RecordReplacement(o) PROVE Same
  BY <1>7, RecordReplacementEffect
<1> QED BY <1>2, <1>3, <1>4, <1>5, <1>6, <1>7, StepEffects

\* While Learning has the request (emit_request to accept_ack) neither the pending route nor
\* the source changes, so legal_pending finds both as they were sent.  Learning's access to
\* the source is read-only (context/role-contracts.md:5): that is the hypothesis.
THEOREM RouteIsKept ==
  ASSUME "learning" \notin Writers
  PROVE  Spec => []RouteKept
<1>1. Init => SourceInv
  BY DEF Init, NewState, SourceInv
<1>2. Inv /\ SourceInv /\ [Next]_vars => SourceInv'
  <2>1. ASSUME Inv, SourceInv, UNCHANGED vars PROVE SourceInv'
    BY <2>1 DEF vars, SourceInv
  <2> QED BY <2>1, SourceStep
<1>3. Inv /\ SourceInv => RouteKept
  BY DEF Inv, LedgerInv, SourceInv, RouteKept
<1> QED BY <1>1, <1>2, <1>3, TurnsKept, PTL DEF Spec

-----------------------------------------------------------------------------
\* What a result does to the plan, to what is pending and to the one remediation.
Remediations(L) == Used(L, <<"remediation">>)
PlainPending(x, L, o) ==
  \/ x = L.pending \/ x = NoPending
  \/ \E kind, target, lineage : kind # "remediation" /\ x = Pending(kind, target, lineage, o)

IsPlain(M, L, o) ==
  /\ IsLedger(M) /\ M.plan = L.plan /\ Remediations(M) = Remediations(L)
  /\ PlainPending(M.pending, L, o)
IsReplan(M, L) ==
  /\ IsLedger(M) /\ Remediations(M) = Remediations(L) /\ M.pending = NoPending
  /\ \E affected \in Reopened(L) :
       M.plan = [n \in DOMAIN Packets |->
                   [lineage |-> Packets[n],
                    accepted |-> n \in DOMAIN L.plan /\ L.plan[n].accepted /\ n \notin affected]]
IsCompletion(M, L) ==
  /\ IsLedger(M) /\ Remediations(M) = Remediations(L) /\ M.pending = L.pending
  /\ M.plan = [L.plan EXCEPT ![Cursor(L)].accepted = TRUE]
IsRemediation(M, L, o) ==
  /\ IsLedger(M) /\ M.plan = L.plan /\ ~(Remediations(L) >= Caps["remediation"])
  /\ Remediations(M) = Remediations(L) + 1
  /\ M.pending = Pending("remediation", "manager", "unpacketized", o)
Results(M, L, o) ==
  IsPlain(M, L, o) \/ IsReplan(M, L) \/ IsCompletion(M, L) \/ IsRemediation(M, L, o)

LEMMA PlainFields ==
  ASSUME NEW L, IsLedger(L), NEW o, NEW x
  PROVE  /\ IsPlain(L, L, o)
         /\ IsPlain([L EXCEPT !.baselines = x], L, o) /\ IsPlain([L EXCEPT !.reviews = x], L, o)
         /\ IsPlain([L EXCEPT !.fixers = x], L, o) /\ IsPlain([L EXCEPT !.pairs = x], L, o)
         /\ IsPlain([L EXCEPT !.learned = x], L, o) /\ IsPlain([L EXCEPT !.terminal = x], L, o)
  BY DEF IsPlain, IsLedger, PlainPending, Remediations, Used

LEMMA PlainSet ==
  ASSUME NEW L, IsLedger(L), NEW o, NEW x, PlainPending(x, L, o)
  PROVE  IsPlain([L EXCEPT !.pending = x], L, o)
  BY DEF IsPlain, IsLedger, Remediations, Used

LEMMA PlainKinds ==
  ASSUME NEW L, NEW o, NEW target, NEW lineage
  PROVE  /\ PlainPending(Pending("execution", target, lineage, o), L, o)
         /\ PlainPending(Pending("contract", target, lineage, o), L, o)
         /\ PlainPending(Pending("review", target, lineage, o), L, o)
         /\ PlainPending(Pending("learning_gate", target, lineage, o), L, o)
         /\ PlainPending(Pending("new_baseline", target, lineage, o), L, o)
         /\ PlainPending(Pending("human", target, lineage, o), L, o)
         /\ PlainPending(NoPending, L, o) /\ PlainPending(L.pending, L, o)
  BY DEF PlainPending

LEMMA PlainOn ==
  ASSUME NEW L, NEW M, NEW N, NEW o, IsPlain(M, L, o), IsPlain(N, M, o)
  PROVE  IsPlain(N, L, o)
  BY DEF IsPlain, PlainPending

LEMMA ToIs ==
  ASSUME NEW route, NEW L, NEW r \in To(route, L)
  PROVE  r.ledger = L
  BY DEF To

LEMMA RecoverPlain ==
  ASSUME NEW L, IsLedger(L), NEW o, NEW r \in Recover(L, o, "execution")
  PROVE  IsPlain(r.ledger, L, o)
<1> DEFINE c == L.occ[o]
           M == [L EXCEPT !.pending = Pending("execution", c.role, c.lineage, o)]
<1>1. r.ledger = L \/ r.ledger = M
  BY ToIs DEF Recover
<1>2. IsPlain(M, L, o)
  BY PlainKinds, PlainSet
<1> HIDE DEF M
<1> QED BY <1>1, <1>2, PlainFields

LEMMA ConsultPlain ==
  ASSUME NEW L, IsLedger(L), NEW o, NEW r \in Consult(L, o)
  PROVE  IsPlain(r.ledger, L, o)
<1> DEFINE c == L.occ[o]
           M == [L EXCEPT !.pending = Pending("contract", c.role, c.lineage, o)]
<1>1. r.ledger = L \/ r.ledger = M
  BY ToIs DEF Consult
<1>2. IsPlain(M, L, o)
  BY PlainKinds, PlainSet
<1> HIDE DEF M
<1> QED BY <1>1, <1>2, PlainFields

LEMMA PlanReplans ==
  ASSUME NEW L, IsLedger(L), NEW r \in Plan(L)
  PROVE  IsReplan(r.ledger, L)
<1> DEFINE Planned(affected) ==
             [n \in DOMAIN Packets |->
                [lineage |-> Packets[n],
                 accepted |-> n \in DOMAIN L.plan /\ L.plan[n].accepted /\ n \notin affected]]
<1>1. PICK a \in Reopened(L) : r \in Onward([L EXCEPT !.plan = Planned(a), !.pending = NoPending])
  BY DEF Plan
<1>2. r.ledger = [L EXCEPT !.plan = Planned(a), !.pending = NoPending]
  BY <1>1, ToIs DEF Onward
<1> DEFINE x == Planned(a)
           M == [L EXCEPT !.plan = x]
           N == [M EXCEPT !.pending = NoPending]
<1>3. r.ledger = N
  BY <1>2
<1> HIDE DEF x
<1>4. IsLedger(M) /\ M.plan = x /\ M.usage = L.usage
  BY DEF IsLedger
<1> HIDE DEF M
<1>5. IsLedger(N) /\ N.plan = x /\ N.usage = L.usage /\ N.pending = NoPending
  BY <1>4 DEF IsLedger
<1> HIDE DEF N
<1>6. Remediations(N) = Remediations(L)
  BY <1>5 DEF Remediations, Used
<1>7. \E affected \in Reopened(L) : N.plan = Planned(affected)
  BY <1>1, <1>5 DEF x
<1> QED BY <1>3, <1>5, <1>6, <1>7 DEF IsReplan

LEMMA ReviewPlain ==
  ASSUME NEW L, IsLedger(L), NEW o, NEW passed, NEW version
  PROVE  IsPlain(Review(L, o, passed, version), L, o)
<1> DEFINE c == L.occ[o]
           base == [L EXCEPT !.baselines = @ \cup {c.lineage}]
           clear == [base EXCEPT !.pending = NoPending]
           checked == IF c.role = "checker"
                        THEN [L EXCEPT !.baselines = @ \cup {c.lineage}, !.pending = NoPending]
                        ELSE L
<1>1. IsPlain(base, L, o)
  BY PlainFields
<1>2. IsLedger(base)
  BY <1>1 DEF IsPlain
<1>3. IsPlain(clear, base, o)
  BY <1>2, PlainKinds, PlainSet
<1>a. IsPlain(L, L, o)
  BY PlainFields
<1>4. IsPlain(clear, L, o) /\ IsPlain(L, L, o)
  <2> HIDE DEF clear, base
  <2> QED BY <1>1, <1>3, <1>a, PlainOn
<1>5. checked = clear \/ checked = L
  OBVIOUS
<1>6. IsPlain(checked, L, o)
  <2> HIDE DEF checked, clear
  <2> QED BY <1>4, <1>5
<1>7. Review(L, o, passed, version) \in
        {[checked EXCEPT !.reviews = With(checked.reviews, c.lineage, version)],
         [checked EXCEPT !.reviews = Without(checked.reviews, c.lineage)]}
  BY DEF Review
<1> HIDE DEF checked
<1>8. IsLedger(checked)
  BY <1>6 DEF IsPlain
<1>b. /\ IsPlain([checked EXCEPT !.reviews = With(checked.reviews, c.lineage, version)], checked, o)
      /\ IsPlain([checked EXCEPT !.reviews = Without(checked.reviews, c.lineage)], checked, o)
  BY <1>8, PlainFields
<1>9. IsPlain(Review(L, o, passed, version), checked, o)
  BY <1>7, <1>b
<1> QED BY <1>6, <1>9, PlainOn

LEMMA GatePlain ==
  ASSUME NEW L, IsLedger(L), NEW o, NEW passed, NEW r \in Gate(L, o, passed)
  PROVE  IsPlain(r.ledger, L, o)
<1> DEFINE c == L.occ[o]
           M == [L EXCEPT !.pairs = @ \cup {<<c.lineage, c.fixer>>}]
           paired == Cardinality({p \in M.pairs : p[1] = c.lineage})
           target == IF passed THEN "updater" ELSE IF paired < 2 THEN "fixer" ELSE "troubleshooter"
           review == [M EXCEPT !.pending = Pending("review", c.role, c.lineage, o)]
           N == IF target = "troubleshooter"
                  THEN [M EXCEPT !.pending = Pending("review", c.role, c.lineage, o)] ELSE M
           G == [N EXCEPT !.pending = Pending("learning_gate", target, c.lineage, o)]
<1>1. r.ledger \in {L, G, N}
  BY ToIs DEF Gate
<1> HIDE DEF target
<1>2. IsPlain(L, L, o) /\ IsPlain(M, L, o)
  BY PlainFields
<1>3. IsLedger(M)
  BY <1>2 DEF IsPlain
<1>4. IsPlain(review, M, o) /\ IsPlain(M, M, o)
  BY <1>3, PlainKinds, PlainSet, PlainFields
<1>5. N = review \/ N = M
  OBVIOUS
<1> HIDE DEF M, review, N
<1>6. IsPlain(N, M, o)
  BY <1>4, <1>5
<1>7. IsPlain(N, L, o) /\ IsLedger(N)
  BY <1>2, <1>6, PlainOn DEF IsPlain
<1>8. IsPlain(G, N, o)
  BY <1>7, PlainKinds, PlainSet
<1> HIDE DEF G
<1>9. IsPlain(G, L, o)
  BY <1>7, <1>8, PlainOn
<1> QED BY <1>1, <1>2, <1>7, <1>9

LEMMA UpdatedResults ==
  ASSUME NEW L, IsLedger(L), NEW o, NEW outcome, NEW version, NEW r \in Updated(L, o, outcome, version)
  PROVE  IsPlain(r.ledger, L, o) \/ IsCompletion(r.ledger, L)
<1> DEFINE c == L.occ[o]
           unreviewed == [L EXCEPT !.reviews = Without(@, c.lineage)]
           baseless == [unreviewed EXCEPT !.pending = Pending("new_baseline", "checker", c.lineage, o)]
           done == [L EXCEPT !.plan[Cursor(L)].accepted = TRUE]
<1>1. r.ledger \in {baseless, unreviewed, done}
  BY ToIs DEF Updated, Onward
<1>2. IsPlain(unreviewed, L, o)
  BY PlainFields
<1>3. IsLedger(unreviewed)
  BY <1>2 DEF IsPlain
<1>4. IsPlain(baseless, unreviewed, o)
  BY <1>3, PlainKinds, PlainSet
<1>5. IsPlain(baseless, L, o)
  BY <1>2, <1>4, PlainOn
<1>6. IsCompletion(done, L)
  <2> DEFINE x == [L.plan EXCEPT ![Cursor(L)].accepted = TRUE]
             D == [L EXCEPT !.plan = x]
  <2>1. done = D
    BY DEF IsLedger
  <2> HIDE DEF x
  <2>2. IsLedger(D) /\ D.plan = x /\ D.usage = L.usage /\ D.pending = L.pending
    BY DEF IsLedger
  <2> HIDE DEF D
  <2>3. Remediations(D) = Remediations(L)
    BY <2>2 DEF Remediations, Used
  <2>4. IsCompletion(D, L)
    BY <2>2, <2>3 DEF IsCompletion, x
  <2> HIDE DEF done
  <2> QED BY <2>1, <2>4
<1> HIDE DEF unreviewed, baseless, done
<1> QED BY <1>1, <1>2, <1>5, <1>6

LEMMA DebitRemediations ==
  ASSUME NEW L, IsLedger(L), Remediations(L) \in Nat, NEW keys, NEW M \in Debit(L, keys)
  PROVE  /\ IsLedger(M) /\ M.plan = L.plan /\ M.pending = L.pending
         /\ \A k \in keys : ~(Used(L, k) >= Caps[k[1]])
         /\ Remediations(M) = IF <<"remediation">> \in keys THEN Remediations(L) + 1 ELSE Remediations(L)
<1> DEFINE usage == [k \in DOMAIN L.usage \cup keys |-> Used(L, k) + IF k \in keys THEN 1 ELSE 0]
           key == <<"remediation">>
<1>1. M = [L EXCEPT !.usage = usage] /\ \A k \in keys : ~(Used(L, k) >= Caps[k[1]])
  BY DEF Debit
<1>2. key \in DOMAIN L.usage \cup keys => usage[key] = Used(L, key) + IF key \in keys THEN 1 ELSE 0
  OBVIOUS
<1>3. DOMAIN usage = DOMAIN L.usage \cup keys
  OBVIOUS
<1> HIDE DEF usage, key
<1>4. IsLedger(M) /\ M.plan = L.plan /\ M.pending = L.pending /\ M.usage = usage
  BY <1>1 DEF IsLedger
<1>5. Remediations(L) = Used(L, key) /\ Remediations(M) = Used(M, key)
  BY DEF Remediations, key
<1>6. Used(M, key) = IF key \in keys THEN Used(L, key) + 1 ELSE Used(L, key)
  <2>1. CASE key \in keys
    BY <1>2, <1>3, <1>4, <1>5, <2>1 DEF Used
  <2>2. CASE key \notin keys
    BY <1>2, <1>3, <1>4, <1>5, <2>2 DEF Used
  <2> QED BY <2>1, <2>2
<1> QED BY <1>1, <1>4, <1>5, <1>6 DEF key

LEMMA VerdictResults ==
  ASSUME NEW L, IsLedger(L), Remediations(L) \in Nat,
         NEW o, NEW outcome, NEW r \in Verdict(L, o, outcome)
  PROVE  IsPlain(r.ledger, L, o) \/ IsRemediation(r.ledger, L, o)
<1>1. CASE outcome = "PASS"
  <2> DEFINE M == [L EXCEPT !.terminal = "succeeded"]
             N == [M EXCEPT !.pending = NoPending]
  <2>1. r.ledger = N
    BY <1>1, ToIs DEF Verdict
  <2>2. IsPlain(M, L, o)
    BY PlainFields
  <2>3. IsLedger(M)
    BY <2>2 DEF IsPlain
  <2>4. IsPlain(N, M, o)
    BY <2>3, PlainKinds, PlainSet
  <2> HIDE DEF M, N
  <2>5. IsPlain(N, L, o)
    BY <2>2, <2>4, PlainOn
  <2> QED BY <2>1, <2>5
<1>2. CASE outcome # "PASS"
  <2> DEFINE keys == {<<"remediation">>}
             x == Pending("remediation", "manager", "unpacketized", o)
  <2>1. PICK M \in Debit(L, keys) : r \in To(Prepare("manager"), [M EXCEPT !.pending = x])
    BY <1>2 DEF Verdict
  <2>2. r.ledger = [M EXCEPT !.pending = x]
    BY <2>1, ToIs
  <2>3. <<"remediation">> \in keys
    OBVIOUS
  <2> HIDE DEF keys, x
  <2>4. /\ IsLedger(M) /\ M.plan = L.plan /\ M.pending = L.pending
        /\ \A k \in keys : ~(Used(L, k) >= Caps[k[1]])
        /\ Remediations(M) = Remediations(L) + 1
    BY <2>1, <2>3, DebitRemediations
  <2>5. ~(Remediations(L) >= Caps["remediation"])
    BY <2>3, <2>4 DEF Remediations
  <2> DEFINE N == [M EXCEPT !.pending = x]
  <2>6. IsLedger(N) /\ N.plan = M.plan /\ N.usage = M.usage /\ N.pending = x
    BY <2>4 DEF IsLedger
  <2> HIDE DEF N
  <2>7. IsRemediation(N, L, o)
    BY <2>4, <2>5, <2>6 DEF IsRemediation, Remediations, Used, x
  <2> QED BY <2>2, <2>7 DEF N
<1> QED BY <1>1, <1>2

LEMMA ChosenResults ==
  ASSUME NEW L, IsLedger(L), Remediations(L) \in Nat, NEW o, NEW outcome,
         NEW version, NEW r \in Chosen(L, o, outcome, version)
  PROVE  Results(r.ledger, L, o)
<1> DEFINE c == L.occ[o]
           passed == outcome = "PASS"
           fixed == [L EXCEPT !.fixers = With(@, c.lineage, o)]
           reviewed == Review(L, o, passed, version)
<1>1. IsPlain(L, L, o) /\ IsPlain(fixed, L, o)
  BY PlainFields
<1>2. IsPlain(reviewed, L, o)
  BY ReviewPlain
<1>3. \/ r.ledger \in {L, fixed, reviewed}
      \/ r \in Consult(L, o) \/ r \in Plan(L)
      \/ r \in Gate(reviewed, o, passed)
      \/ r \in Updated(L, o, outcome, version)
      \/ r \in Recover(L, o, "execution")
      \/ r.ledger \in Debit(L, {<<"planning_repair">>})
      \/ r \in Verdict(L, o, outcome)
  BY ToIs DEF Chosen, Repaired
<1> HIDE DEF fixed, reviewed, passed
<1>4. ASSUME r \in Gate(reviewed, o, passed) PROVE IsPlain(r.ledger, L, o)
  <2>1. IsLedger(reviewed)
    BY <1>2 DEF IsPlain
  <2>2. IsPlain(r.ledger, reviewed, o)
    BY <1>4, <2>1, GatePlain
  <2> QED BY <1>2, <2>2, PlainOn
<1>5. ASSUME r.ledger \in Debit(L, {<<"planning_repair">>}) PROVE IsPlain(r.ledger, L, o)
  <2> DEFINE keys == {<<"planning_repair">>}
  <2>1. <<"remediation">> \notin keys
    OBVIOUS
  <2> HIDE DEF keys
  <2>2. /\ IsLedger(r.ledger) /\ r.ledger.plan = L.plan /\ r.ledger.pending = L.pending
        /\ Remediations(r.ledger) = Remediations(L)
    BY <1>5, <2>1, DebitRemediations DEF keys
  <2> QED BY <2>2 DEF IsPlain, PlainPending
<1>6. ASSUME r \in Plan(L) PROVE IsReplan(r.ledger, L)
  BY <1>6, PlanReplans
<1>7. ASSUME r \in Consult(L, o) \/ r \in Recover(L, o, "execution") PROVE IsPlain(r.ledger, L, o)
  BY <1>7, ConsultPlain, RecoverPlain
<1>8. ASSUME r \in Updated(L, o, outcome, version) PROVE IsPlain(r.ledger, L, o) \/ IsCompletion(r.ledger, L)
  BY <1>8, UpdatedResults
<1>9. ASSUME r \in Verdict(L, o, outcome) PROVE IsPlain(r.ledger, L, o) \/ IsRemediation(r.ledger, L, o)
  BY <1>9, VerdictResults
<1> QED BY <1>1, <1>2, <1>3, <1>4, <1>5, <1>6, <1>7, <1>8, <1>9 DEF Results

LEMMA ChooseResults ==
  ASSUME NEW L, IsLedger(L), Remediations(L) \in Nat, NEW o, NEW outcome,
         NEW version, NEW r \in Choose(L, o, outcome, version)
  PROVE  Results(r.ledger, L, o)
<1> DEFINE c == L.occ[o]
           human == [L EXCEPT !.pending = Pending("human", c.role, c.lineage, o)]
           learnt == [L EXCEPT !.learned = @ \cup {c.lineage}]
<1>1. IsPlain(L, L, o) /\ IsPlain(learnt, L, o)
  BY PlainFields
<1>2. IsPlain(human, L, o)
  BY PlainKinds, PlainSet
<1>3. \/ r.ledger \in {L, human, learnt}
      \/ r \in Recover(L, o, "execution")
      \/ r \in Chosen(L, o, outcome, version)
  BY ToIs DEF Choose, Learnt
<1> HIDE DEF human, learnt
<1> QED BY <1>1, <1>2, <1>3, RecoverPlain, ChosenResults DEF Results

LEMMA AcceptedResults ==
  ASSUME NEW L, IsLedger(L), Remediations(L) \in Nat, NEW o, NEW outcome,
         NEW version, NEW r \in Accepted(L, o, outcome, version)
  PROVE  Results(r.ledger, L, o)
<1>1. PICK s \in Choose(L, o, outcome, version) :
        r = [route |-> s.route,
             ledger |-> Mark([s.ledger EXCEPT !.accepted = With(@, o, s.route)], s.route, o)]
  BY DEF Accepted
<1> DEFINE N == s.ledger
           A == [N EXCEPT !.accepted = With(N.accepted, o, s.route)]
<1>2. Results(N, L, o)
  BY <1>1, ChooseResults
<1>3. IsLedger(N)
  BY <1>2 DEF Results, IsPlain, IsReplan, IsCompletion, IsRemediation
<1>4. r.ledger = [A EXCEPT !.cont = [node |-> s.route, occ |-> o]]
  BY <1>1 DEF Mark
<1> HIDE DEF N
<1>5. IsLedger(A) /\ A.plan = N.plan /\ A.usage = N.usage /\ A.pending = N.pending
  BY <1>3 DEF IsLedger
<1> HIDE DEF A
<1> DEFINE M == r.ledger
<1>6. IsLedger(M) /\ M.plan = N.plan /\ M.usage = N.usage /\ M.pending = N.pending
  BY <1>4, <1>5 DEF IsLedger
<1> HIDE DEF M
<1>7. Remediations(M) = Remediations(N)
  BY <1>6 DEF Remediations, Used
<1>8. Results(M, L, o)
  BY <1>2, <1>6, <1>7 DEF Results, IsPlain, IsReplan, IsCompletion, IsRemediation
<1> QED BY <1>8 DEF M

-----------------------------------------------------------------------------
\* Occurrences, and what lies beside the ledger: a reservation is dispatched once.
OccInv ==
  /\ \A o \in 1..Len(ledger.occ) : ledger.occ[o].role \in Roles /\ ledger.occ[o].of \in 0..(o - 1)
  /\ \A p \in Planes : ledger.active[p] # 0 => Plane(ledger.occ[ledger.active[p]].role) = p
  /\ DOMAIN ledger.intents \subseteq 1..Len(ledger.occ)
  /\ ledger.pending # NoPending => ledger.pending.occ \in 1..Len(ledger.occ)
  /\ Remediations(ledger) \in Nat
FilesInv ==
  /\ input \cup ready \cup DOMAIN wrote \subseteq 1..Len(ledger.occ)
  /\ ready \subseteq input /\ DOMAIN wrote \subseteq ready /\ DOMAIN ran \subseteq ready
  /\ DOMAIN shown = Planes

\* The reservation that a node of native roles runs on.
Dispatched(p, node) ==
  LET o == ledger.active[p] IN
  o # 0 /\ node = Native(ledger.occ[o].role) /\ shown[p] = o /\ o \in ready /\ o \notin DOMAIN ran
PlaneInv(p) ==
  LET o == ledger.active[p] IN
  /\ step[p] = "intended" =>
       Asked(ledger, at[p][2], TRUE, Greenfield) /\ ~Interrupted(p, ledger, at[p][2], TRUE)
  /\ step[p] \in {"reserved", "input", "active"} =>
       o # 0 /\ o \notin ready /\ ledger.occ[o].role = at[p][2]
  /\ step[p] \in {"input", "active"} => o \in input
  /\ step[p] = "active" => shown[p] = o
  /\ step[p] = "saved" /\ next[p][1] = "native" => Dispatched(p, next[p])
  /\ at[p][1] = "native" => Dispatched(p, at[p])
DispatchInv == OccInv /\ FilesInv /\ \A p \in Planes : PlaneInv(p)

\* An acknowledgement is of a request that was spent.
CountInv == Len(acks) + (IF at["learning"][1] \in Busy THEN 1 ELSE 0) <= got

\* The decisions: a route, and the request it was made under.
Fresh == {o \in 1..Len(ledger.occ) : ledger.occ[o].of = 0}
Underway(L) == L.request # NoRequest /\ L.request.stage \in {"received", "ack_ready"}
SeenInv ==
  /\ ledger.seen \in Nat
  /\ ledger.seen <= got + (IF at["learning"] = At("receive_request") THEN 1 ELSE 0)
  /\ Underway(ledger) => ledger.request.core = ledger.seen /\ ledger.seen > 0
  /\ ledger.request # NoRequest /\ ~Underway(ledger) =>
       /\ ledger.request.stage = "published"
       /\ at["learning"][1] \notin Busy /\ step["learning"] # "received"
       /\ ~(step["learning"] = "saved" /\ at["learning"] = At("receive_request"))
RouteInv ==
  LET k == ledger.cont.occ
      node == ledger.cont.node IN
  /\ Len(ledger.occ) = 0 => node[1] # "prepare"
  /\ node[1] = "prepare" /\ (k # 0 \/ node = Prepare("learning")) =>
       k \in DOMAIN ledger.accepted /\ (node # Prepare("learning") => ledger.accepted[k] = node)
  /\ ledger.pending.kind = "learning_gate" => ledger.pending.occ \in DOMAIN ledger.accepted
AskedInv(o) ==
  LET role == ledger.occ[o].role
      c == ledger.occ[o].asked[1]
      s == ledger.occ[o].asked[2] IN
  /\ s \in Nat /\ s <= ledger.seen
  /\ IF o = 1 THEN c.node[1] # "prepare" ELSE c.node = Prepare(role)
  /\ o # 1 /\ (c.occ # 0 \/ role = "learning") =>
       c.occ \in DOMAIN ledger.accepted /\ (role # "learning" => ledger.accepted[c.occ] = Prepare(role))
  /\ o # 1 /\ c.occ = 0 /\ role # "learning" /\ Underway(ledger) => s # ledger.seen
  /\ role = "learning" => s <= got
  /\ ledger.cont.node[1] = "prepare" => ledger.occ[o].asked # <<ledger.cont, ledger.seen>>
DecisionInv ==
  /\ SeenInv /\ RouteInv
  /\ \A o \in Fresh : AskedInv(o)
  /\ \A o, q \in Fresh : o # q => ledger.occ[o].asked # ledger.occ[q].asked

-----------------------------------------------------------------------------
\* A step reserves at most: no occurrence is lost or changed.
Grows ==
  /\ Len(ledger.occ) \in Nat /\ Len(ledger'.occ) \in Nat /\ Len(ledger.occ) <= Len(ledger'.occ)
  /\ \A o \in 1..Len(ledger.occ) : ledger'.occ[o] = ledger.occ[o]

LEMMA OccInit == Init => DispatchInv
<1> SUFFICES ASSUME Init PROVE DispatchInv
  OBVIOUS
<1> USE DEF Init, NewState
<1>1. ledger.occ = <<>> /\ Len(ledger.occ) = 0 /\ \A p \in Planes : ledger.active[p] = 0
  BY DEF Planes
<1>2. DOMAIN ledger.intents = {} /\ ledger.pending = NoPending /\ Remediations(ledger) = 0
  BY DEF Remediations, Used
<1>3. OccInv
  BY <1>1, <1>2 DEF OccInv
<1>4. FilesInv
  BY DEF FilesInv
<1>5. \A p \in Planes : step[p] = "idle" /\ at[p][1] # "native"
  BY Heads DEF Planes
<1>6. \A p \in Planes : PlaneInv(p)
  BY <1>5 DEF PlaneInv
<1> QED BY <1>3, <1>4, <1>6 DEF DispatchInv

LEMMA OccSame ==
  ASSUME Inv, OccInv, ledger'.occ = ledger.occ, ledger'.active = ledger.active,
         DOMAIN ledger'.intents \subseteq 1..Len(ledger.occ),
         ledger'.pending # NoPending => ledger'.pending.occ \in 1..Len(ledger.occ),
         Remediations(ledger') \in Nat
  PROVE  OccInv' /\ Grows
  BY DEF OccInv, Grows, Inv, LedgerInv, Remediations, Used

LEMMA OccMarked ==
  ASSUME Inv, OccInv, NEW route, IsMarked(ledger', ledger, route)
  PROVE  OccInv' /\ Grows
<1>1. /\ ledger'.occ = ledger.occ /\ ledger'.active = ledger.active /\ ledger'.intents = ledger.intents
      /\ ledger'.pending = ledger.pending /\ ledger'.usage = ledger.usage
  BY DEF IsMarked, Untouched
<1>2. Remediations(ledger') = Remediations(ledger)
  BY <1>1 DEF Remediations, Used
<1> QED BY <1>1, <1>2, OccSame DEF OccInv

\* Whatever a replacement replaces was reserved.
LEMMA OldReserved ==
  ASSUME Inv, OccInv, NEW role \in Roles
  PROVE  Old(ledger, role) \in 0..Len(ledger.occ)
<1>1. Plane(role) \in Planes
  BY DEF Plane, Planes
<1> QED BY <1>1 DEF Inv, LedgerInv, OccInv, Old

\* What a reservation debits.
ReservedKeys(L, role, replacement) ==
  LET lineage == ReservedFor(L, role, replacement) IN
  {<<"all">>, RoleKey(role, lineage)}
    \cup (IF role = "troubleshooter" /\ Used(L, <<"local_repair", Lineage(L, role)>>) < 1
            THEN {<<"local_repair", lineage>>} ELSE {})
    \cup (IF replacement THEN {<<"replacement", role, lineage>>} ELSE {})

LEMMA ReservedUsage ==
  ASSUME NEW L, IsLedger(L), NEW role, NEW replacement, NEW version,
         NEW M \in Reserved(L, role, replacement, version)
  PROVE  \E N \in Debit(L, ReservedKeys(L, role, replacement)) : M.usage = N.usage
<1> DEFINE old == Old(L, role)
           lineage == IF replacement THEN L.occ[old].lineage ELSE Lineage(L, role)
           repair == role = "troubleshooter" /\ Used(L, <<"local_repair", Lineage(L, role)>>) < 1
           keys == {<<"all">>, RoleKey(role, lineage)}
                   \cup (IF repair THEN {<<"local_repair", lineage>>} ELSE {})
                   \cup (IF replacement THEN {<<"replacement", role, lineage>>} ELSE {})
<1>k. keys = ReservedKeys(L, role, replacement)
  BY DEF ReservedKeys, ReservedFor
<1> DEFINE fixer == IF lineage \in DOMAIN L.fixers THEN L.fixers[lineage] ELSE 0
           occurrence ==
             [role |-> role, lineage |-> lineage, of |-> IF replacement THEN old ELSE 0,
              repair |-> repair, source |-> version, fixer |-> fixer, asked |-> <<L.cont, L.seen>>]
           o == Len(L.occ) + 1
           Made(N) == [N EXCEPT !.occ = Append(@, occurrence), !.active[Plane(role)] = o,
                          !.pending = IF replacement /\ @ = NoPending
                                        THEN Pending("replacement", role, lineage, old) ELSE @]
<1>1. PICK N \in Debit(L, keys) : M = Mark(Made(N), Native(role), o)
  BY DEF Reserved
<1>2. IsLedger(N)
  BY <1>1, DebitKept DEF Kept
<1> HIDE DEF occurrence, keys, lineage, old
<1>3. Made(N) = [N EXCEPT !.occ = Append(N.occ, occurrence),
                          !.active = [N.active EXCEPT ![Plane(role)] = o],
                          !.pending = IF replacement /\ N.pending = NoPending
                                        THEN Pending("replacement", role, lineage, old) ELSE N.pending]
  BY <1>2 DEF IsLedger
<1> HIDE DEF Made
<1> DEFINE P == Made(N)
<1>4. IsLedger(P) /\ P.usage = N.usage
  BY <1>2, <1>3 DEF IsLedger
<1>5. M = [P EXCEPT !.cont = [node |-> Native(role), occ |-> o]]
  BY <1>1 DEF Mark
<1> HIDE DEF P
<1>6. M.usage = P.usage
  BY <1>4, <1>5 DEF IsLedger
<1> QED BY <1>k, <1>1, <1>4, <1>6

LEMMA ReplacementReserved ==
  ASSUME DispatchInv, NEW p \in Planes, NEW role, Reserves(p, role, TRUE)
  PROVE  Asked(ledger, role, TRUE, Greenfield) /\ ~Interrupted(p, ledger, role, TRUE)
         /\ Old(ledger, role) # 0
<1>1. step[p] = "intended" /\ at[p][2] = role
  BY Heads DEF Reserves
<1>2. PlaneInv(p)
  BY DEF DispatchInv
<1>3. Asked(ledger, role, TRUE, Greenfield) /\ ~Interrupted(p, ledger, role, TRUE)
  BY <1>1, <1>2 DEF PlaneInv
<1> QED BY <1>3 DEF Asked

LEMMA ReservedRemediations ==
  ASSUME NEW L, IsLedger(L), Remediations(L) \in Nat, NEW role, NEW replacement, NEW version,
         NEW M \in Reserved(L, role, replacement, version), role \in Roles
  PROVE  Remediations(M) = Remediations(L)
<1> DEFINE keys == ReservedKeys(L, role, replacement)
<1>1. PICK N \in Debit(L, keys) : M.usage = N.usage
  BY ReservedUsage
<1>2. <<"remediation">> \notin keys
  <2>1. \A lineage : RoleKey(role, lineage) # <<"remediation">>
    BY DEF RoleKey, Roles, SessionRoles, PacketRoles
  <2> QED BY <2>1 DEF ReservedKeys
<1> HIDE DEF keys
<1>3. Remediations(N) = Remediations(L)
  BY <1>1, <1>2, DebitRemediations
<1> QED BY <1>1, <1>3 DEF Remediations, Used

LEMMA OccIntends ==
  ASSUME Inv, OccInv, NEW p \in Planes, NEW role \in Roles, Intends(p, role)
  PROVE  OccInv' /\ Grows
<1>1. Old(ledger, role) \in 1..Len(ledger.occ)
  <2>1. Old(ledger, role) # 0
    BY DEF Intends, Asked
  <2>2. Len(ledger.occ) \in Nat
    BY DEF Inv, LedgerInv
  <2> QED BY <2>1, <2>2, OldReserved
<1>2. ledger' = Intended(ledger, role, source) /\ IsLedger(ledger)
  BY DEF Intends, Inv, LedgerInv
<1>3. /\ ledger'.occ = ledger.occ /\ ledger'.active = ledger.active /\ ledger'.pending = ledger.pending
  BY <1>2, IntendedEffect
<1>4. ledger'.usage = ledger.usage
      /\ (ledger'.intents = ledger.intents
          \/ ledger'.intents = With(ledger.intents, Old(ledger, role), <<"graph", source>>))
  BY <1>2 DEF Intended, IsLedger
<1>5. DOMAIN ledger'.intents \subseteq DOMAIN ledger.intents \cup {Old(ledger, role)}
  BY <1>4 DEF With
<1>6. Remediations(ledger') = Remediations(ledger)
  BY <1>4 DEF Remediations, Used
<1> QED BY <1>1, <1>3, <1>5, <1>6, OccSame DEF OccInv

LEMMA OccReserves ==
  ASSUME Inv, DispatchInv, NEW p \in Planes, NEW role \in Roles, NEW replacement \in BOOLEAN,
         Reserves(p, role, replacement)
  PROVE  OccInv' /\ Grows
<1> DEFINE new == Len(ledger.occ) + 1
<1>1. IsLedger(ledger) /\ LedgerInv /\ OccInv
  BY DEF Inv, LedgerInv, DispatchInv
<1>2. IsReservation(ledger', ledger, role, replacement, source)
  BY <1>1, ReservedEffect DEF Reserves
<1>3. PICK c : ledger'.occ = Append(ledger.occ, c) /\ IsReserved(c, ledger, role, replacement, source)
  BY <1>2 DEF IsReservation
<1>4. /\ Len(ledger.occ) \in Nat /\ Len(ledger'.occ) = new /\ ledger'.occ[new] = c
      /\ \A o \in 1..Len(ledger.occ) : ledger'.occ[o] = ledger.occ[o]
  BY <1>1, <1>3, AppendIsSeq DEF LedgerInv
<1>5. Old(ledger, role) \in 0..Len(ledger.occ)
  BY <1>1, OldReserved
<1>6. replacement => Old(ledger, role) # 0
  BY ReplacementReserved
<1>7. Remediations(ledger') \in Nat
  <2>1. Remediations(ledger') = Remediations(ledger)
    BY <1>1, ReservedRemediations DEF Reserves, OccInv
  <2> QED BY <1>1, <2>1 DEF OccInv
<1>8. c.role = role /\ c.of \in 0..Len(ledger.occ)
  BY <1>3, <1>4, <1>5 DEF IsReserved
<1>9. ledger'.active = [ledger.active EXCEPT ![p] = new] /\ Plane(role) = p
  BY <1>2 DEF IsReservation, Reserves
<1>10. /\ ledger'.intents = ledger.intents
       /\ ledger'.pending # NoPending => ledger'.pending.occ \in 1..Len(ledger.occ)
  BY <1>1, <1>2, <1>4, <1>5, <1>6 DEF IsReservation, OccInv, Pending
<1> HIDE DEF new
<1>11. \A o \in 1..new : ledger'.occ[o].role \in Roles /\ ledger'.occ[o].of \in 0..(o - 1)
  <2> SUFFICES ASSUME NEW o \in 1..new
               PROVE  ledger'.occ[o].role \in Roles /\ ledger'.occ[o].of \in 0..(o - 1)
    OBVIOUS
  <2>1. CASE o = new
    BY <1>4, <1>8, <2>1 DEF new
  <2>2. CASE o # new
    <3>1. o \in 1..Len(ledger.occ)
      BY <1>4, <2>2 DEF new
    <3> QED BY <1>1, <1>4, <3>1 DEF OccInv
  <2> QED BY <2>1, <2>2
<1>12. \A q \in Planes : ledger'.active[q] # 0 => Plane(ledger'.occ[ledger'.active[q]].role) = q
  <2> SUFFICES ASSUME NEW q \in Planes, ledger'.active[q] # 0
               PROVE  Plane(ledger'.occ[ledger'.active[q]].role) = q
    OBVIOUS
  <2>1. CASE q = p
    <3>1. ledger'.active[q] = new
      BY <1>1, <1>9, <2>1 DEF LedgerInv
    <3> QED BY <1>4, <1>8, <1>9, <2>1, <3>1
  <2>2. CASE q # p
    <3>1. ledger'.active[q] = ledger.active[q]
      BY <1>1, <1>9, <2>2 DEF LedgerInv
    <3>2. ledger.active[q] \in 1..Len(ledger.occ)
      BY <1>1, <1>4, <3>1 DEF LedgerInv
    <3> QED BY <1>1, <1>4, <3>1, <3>2 DEF OccInv
  <2> QED BY <2>1, <2>2
<1>13. OccInv'
  BY <1>1, <1>4, <1>7, <1>10, <1>11, <1>12 DEF OccInv, new, Remediations, Used
<1>14. Grows
  BY <1>4 DEF Grows, new
<1> QED BY <1>13, <1>14

\* What an acceptance leaves pending.
LEMMA AcceptedPending ==
  ASSUME Inv, OccInv, NEW o \in 1..Len(ledger.occ), NEW outcome, NEW version,
         NEW r \in Accepted(ledger, o, outcome, version)
  PROVE  /\ Remediations(r.ledger) \in Nat
         /\ r.ledger.pending \in {ledger.pending, NoPending} \/ r.ledger.pending.occ = o
<1> DEFINE M == r.ledger
<1>1. IsLedger(ledger) /\ Remediations(ledger) \in Nat
  BY DEF Inv, LedgerInv, OccInv
<1>2. Results(M, ledger, o)
  BY <1>1, AcceptedResults
<1>3. CASE IsPlain(M, ledger, o)
  <2>1. PlainPending(M.pending, ledger, o) /\ Remediations(M) = Remediations(ledger)
    BY <1>3 DEF IsPlain
  <2>2. \A kind, target, lineage : Pending(kind, target, lineage, o).occ = o
    BY DEF Pending
  <2> QED BY <1>1, <2>1, <2>2 DEF PlainPending
<1>4. CASE IsReplan(M, ledger)
  BY <1>1, <1>4 DEF IsReplan
<1>5. CASE IsCompletion(M, ledger)
  BY <1>1, <1>5 DEF IsCompletion
<1>6. CASE IsRemediation(M, ledger, o)
  BY <1>1, <1>6 DEF IsRemediation, Pending
<1> QED BY <1>2, <1>3, <1>4, <1>5, <1>6 DEF Results

LEMMA OccAccepts ==
  ASSUME Inv, OccInv, NEW p \in Planes, NEW o, NEW outcome, Accepts(p, o, outcome)
  PROVE  OccInv' /\ Grows
<1>1. PICK r \in Accepted(ledger, o, outcome, source) : ledger' = r.ledger
  BY DEF Accepts, Saved
<1>2. IsLedger(ledger) /\ o \in 1..Len(ledger.occ)
  BY DEF Inv, LedgerInv, Accepts
<1>3. IsAcceptance(r, ledger, o)
  BY <1>2, AcceptedEffect
<1>4. ledger'.occ = ledger.occ /\ ledger'.active = ledger.active /\ ledger'.intents = ledger.intents
  BY <1>1, <1>3 DEF IsAcceptance
<1>5. Remediations(ledger') \in Nat
      /\ (ledger'.pending # NoPending => ledger'.pending.occ \in 1..Len(ledger.occ))
  BY <1>1, <1>2, AcceptedPending DEF OccInv
<1> QED BY <1>4, <1>5, OccSame DEF OccInv

LEMMA OccResumes ==
  ASSUME Inv, OccInv, Resumes
  PROVE  OccInv' /\ Grows
<1>1. /\ Untouched(ledger', ledger) /\ ledger'.intents = ledger.intents /\ ledger'.usage = ledger.usage
      /\ \/ ledger'.pending = NoPending
         \/ ledger'.pending = Pending("review", "doublechecker", ledger.pending.lineage, ledger.pending.occ)
            /\ ledger.request.kind = "ASSESS"
  BY ResumesEffect
<1>2. ledger.request.kind = "ASSESS" => ledger.pending # NoPending
  BY Assessing DEF Resumes
<1>3. ledger'.pending # NoPending => ledger'.pending.occ \in 1..Len(ledger.occ)
  BY <1>1, <1>2 DEF OccInv, Pending
<1>4. Remediations(ledger') = Remediations(ledger)
  BY <1>1 DEF Remediations, Used
<1> QED BY <1>1, <1>3, <1>4, OccSame DEF OccInv, Untouched

LEMMA OccStep ==
  ASSUME Inv, DispatchInv, Next
  PROVE  OccInv' /\ Grows
<1>1. IsLedger(ledger) /\ OccInv /\ Len(ledger.occ) \in Nat
  BY DEF Inv, LedgerInv, DispatchInv
<1>2. ASSUME ledger' = ledger PROVE OccInv' /\ Grows
  BY <1>1, <1>2, OccSame DEF OccInv
<1>3. ASSUME NEW p \in Planes, ScriptEffect(p) PROVE OccInv' /\ Grows
  <2>1. ASSUME Quiet(p) \/ Ended(p) \/ Emit(p) \/ WriteInput(p) \/ WriteActive(p) \/ WriteReady(p)
        PROVE  ledger' = ledger
    BY <2>1 DEF Quiet, Ended, Saved, Emit, WriteInput, WriteActive, WriteReady
  <2>2. ASSUME NEW role, RunNative(p, role) \/ Rematerializes(p, role) PROVE ledger' = ledger
    BY <2>2 DEF RunNative, Rematerializes
  <2>3. ASSUME NEW role \in Roles, Intends(p, role) PROVE OccInv' /\ Grows
    BY <1>1, <2>3, OccIntends
  <2>4. ASSUME NEW role \in Roles, NEW replacement \in BOOLEAN, Reserves(p, role, replacement)
        PROVE  OccInv' /\ Grows
    BY <2>4, OccReserves
  <2>5. ASSUME NEW o, NEW outcome, Accepts(p, o, outcome) PROVE OccInv' /\ Grows
    BY <1>1, <2>5, OccAccepts
  <2> QED BY <1>2, <1>3, <2>1, <2>2, <2>3, <2>4, <2>5 DEF ScriptEffect
<1>4. ASSUME SeamEffect \/ Fails PROVE OccInv' /\ Grows
  <2>1. GivesUp \/ Asks \/ Acknowledges \/ Fails => \E route : IsMarked(ledger', ledger, route)
    BY GivesUpEffect, AsksEffect, AcknowledgesEffect, FailsEffect
  <2>2. ASSUME Gets PROVE OccInv' /\ Grows
    <3>1. IsGot(ledger', ledger, got + 1)
      BY <2>2, GetsEffect
    <3>2. Remediations(ledger') = Remediations(ledger)
      BY <3>1 DEF IsGot, Remediations, Used
    <3> QED BY <1>1, <3>1, <3>2, OccSame DEF IsGot, OccInv
  <2>3. WriteCurrent => ledger' = ledger
    BY DEF WriteCurrent
  <2> QED BY <1>1, <1>2, <1>4, <2>1, <2>2, <2>3, OccMarked, OccResumes DEF SeamEffect
<1>5. ASSUME NEW p \in Planes, Redirect(p) PROVE ledger' = ledger
  BY <1>5 DEF Redirect
<1>6. ASSUME NEW o \in DOMAIN ledger.occ, RecordReplacement(o) PROVE OccInv' /\ Grows
  <2>1. o \in 1..Len(ledger.occ)
    BY DEF Inv, LedgerInv, IsSeq
  <2>2. /\ Untouched(ledger', ledger) /\ ledger'.intents = With(ledger.intents, o, <<"operator", source>>)
        /\ ledger'.pending = Pending("operator_replacement", ledger.occ[o].role, ledger.occ[o].lineage, o)
        /\ ledger'.usage = ledger.usage
    BY <1>6, RecordReplacementEffect
  <2>3. DOMAIN ledger'.intents \subseteq DOMAIN ledger.intents \cup {o} /\ ledger'.pending.occ = o
    BY <2>2 DEF With, Pending
  <2>4. Remediations(ledger') = Remediations(ledger)
    BY <2>2 DEF Remediations, Used
  <2> QED BY <1>1, <2>1, <2>2, <2>3, <2>4, OccSame DEF OccInv, Untouched
<1> QED BY <1>2, <1>3, <1>4, <1>5, <1>6, StepEffects

-----------------------------------------------------------------------------
\* What a step of one plane leaves to the other.
Elsewhere(q) ==
  LET o == ledger.active[q] IN
  /\ at'[q] = at[q] /\ step'[q] = step[q] /\ next'[q] = next[q] /\ shown'[q] = shown[q]
  /\ ledger'.active[q] = o
  /\ o # 0 => (o \in ready' <=> o \in ready) /\ (o \in DOMAIN ran' <=> o \in DOMAIN ran)
  /\ step[q] = "intended" => ledger' = ledger
Others(p) == \A q \in Planes \ {p} : Elsewhere(q)

LEMMA ElsewhereKeeps ==
  ASSUME Inv, DispatchInv, Grows, input \subseteq input', NEW q \in Planes, Elsewhere(q)
  PROVE  PlaneInv(q)'
<1> DEFINE o == ledger.active[q]
<1>1. PlaneInv(q) /\ o \in 0..Len(ledger.occ)
  BY DEF DispatchInv, Inv, LedgerInv
<1>2. o # 0 => ledger'.occ[o] = ledger.occ[o]
  BY <1>1 DEF Grows
<1>3. step'[q] = "intended" => step[q] = "intended" /\ ledger' = ledger /\ at'[q] = at[q]
  BY DEF Elsewhere
<1>4. step'[q] = "intended" =>
        Asked(ledger', at'[q][2], TRUE, Greenfield) /\ ~Interrupted(q, ledger, at[q][2], TRUE)'
  <2> SUFFICES ASSUME step'[q] = "intended"
               PROVE  Asked(ledger', at'[q][2], TRUE, Greenfield) /\ ~Interrupted(q, ledger, at[q][2], TRUE)'
    OBVIOUS
  <2>1. Asked(ledger, at[q][2], TRUE, Greenfield) /\ ~Interrupted(q, ledger, at[q][2], TRUE)
    BY <1>1, <1>3 DEF PlaneInv
  <2>2. ~Interrupted(q, ledger, at[q][2], TRUE)'
    BY <1>3, <2>1 DEF Interrupted, Elsewhere
  <2> QED BY <1>3, <2>1, <2>2
<1>5. \A node : Dispatched(q, node) => Dispatched(q, node)'
  BY <1>2 DEF Elsewhere, Dispatched
<1>6. step'[q] = "saved" /\ next'[q][1] = "native" => Dispatched(q, next[q])' /\ next'[q] = next[q]
  BY <1>1, <1>5 DEF Elsewhere, PlaneInv
<1>7. at'[q][1] = "native" => Dispatched(q, at[q])' /\ at'[q] = at[q]
  BY <1>1, <1>5 DEF Elsewhere, PlaneInv
<1>8. step'[q] \in {"reserved", "input", "active"} =>
        ledger'.active[q] # 0 /\ ledger'.active[q] \notin ready' /\ ledger'.occ[ledger'.active[q]].role = at'[q][2]
  BY <1>1, <1>2 DEF Elsewhere, PlaneInv
<1>9. /\ step'[q] \in {"input", "active"} => ledger'.active[q] \in input'
      /\ step'[q] = "active" => shown'[q] = ledger'.active[q]
  BY <1>1 DEF Elsewhere, PlaneInv
<1> QED BY <1>4, <1>6, <1>7, <1>8, <1>9 DEF PlaneInv, Dispatched, Interrupted

\* While one plane prepares, the other does not save.
LEMMA Prepares ==
  ASSUME Inv, NEW p \in Planes, step[p] \in Preparing
  PROVE  Turn(p) /\ Alone(p) /\ at[p][1] \in {"prepare", "replace"}
<1>1. step[p] \in Holding /\ (p = "foreground" => held[p].request = NoRequest)
  BY DEF Holding, Inv, ForegroundInv
<1>2. held[p] = ledger /\ Alone(p)
  BY <1>1, OwnHeld DEF Alone
<1>3. at[p][1] \in {"prepare", "replace"}
  BY DEF Inv, ForegroundInv, LearningInv, Planes
<1> QED BY <1>1, <1>2, <1>3 DEF Turn

LEMMA OneTurn ==
  ASSUME Inv, NEW p \in Planes, Turn(p), Alone(p) \/ Resumes, NEW q \in Planes \ {p}
  PROVE  step[q] \notin Preparing
<1> SUFFICES ASSUME step[q] \in Preparing PROVE FALSE
  OBVIOUS
<1>1. Turn(q) /\ Alone(q)
  BY Prepares
<1>2. step["learning"] \in Holding
  BY <1>1 DEF Turn, Planes
<1>3. LearningHas /\ ledger.request # NoRequest
  BY <1>2 DEF Inv, LearningInv, SeamInv
<1>4. p = "foreground" /\ q = "learning" /\ Resumes
  BY <1>1, <1>3 DEF Alone, Planes
<1>5. ledger.request = acks[heard + 1] /\ heard + 1 \in 1..Len(acks)
  BY <1>4 DEF Resumes, Inv, SeamInv
<1>6. ledger.request.id <= ledger.acked
  BY <1>3, <1>5 DEF Inv, SeamInv
<1> QED BY <1>3, <1>6 DEF Inv, LedgerInv

LEMMA HoldsNoRole ==
  ASSUME Inv, NEW p \in Planes, step[p] # "idle"
  PROVE  at[p][1] # "native"
  BY DEF Inv, LearningInv, ForegroundInv, Planes

LEMMA GotoOne ==
  ASSUME Inv, NEW p \in Planes, NEW s, Goto(p, s)
  PROVE  step'[p] = s /\ \A q \in Planes \ {p} : step'[q] = step[q]
  BY DEF Inv, Planar, Goto

\* A save that ends its script.
LEMMA PlaneEnds ==
  ASSUME Inv, DispatchInv, NEW p \in Planes, Turn(p), Alone(p) \/ Resumes, NEW L, NEW node, Saved(p, L, node),
         node[1] # "native", L.active = ledger.active
  PROVE  PlaneInv(p)' /\ Others(p)
<1>1. /\ step'[p] = "saved" /\ \A q \in Planes \ {p} : step'[q] = step[q]
      /\ next'[p] = node /\ (\A q \in Planes \ {p} : next'[q] = next[q])
  <2>1. Goto(p, "saved") /\ next' = [next EXCEPT ![p] = node] /\ DOMAIN next = Planes
    BY DEF Saved, Inv, Planar
  <2> QED BY <2>1, GotoOne
<1>2. at'[p][1] # "native"
  <2>1. step[p] # "idle" /\ at' = at
    BY DEF Turn, Holding, Preparing, Saved
  <2> QED BY <2>1, HoldsNoRole
<1>3. PlaneInv(p)'
  BY <1>1, <1>2 DEF PlaneInv
<1>4. Others(p)
  BY <1>1, OneTurn DEF Others, Elsewhere, Saved, files, counts, Preparing
<1> QED BY <1>3, <1>4

\* The two planes work on different occurrences.
LEMMA OtherActive ==
  ASSUME OccInv, NEW p \in Planes, NEW q \in Planes \ {p}, ledger.active[p] # 0
  PROVE  ledger.active[q] # ledger.active[p]
  BY DEF OccInv

LEMMA PlaneQuiet ==
  ASSUME Inv, DispatchInv, NEW p \in Planes, Quiet(p)
  PROVE  PlaneInv(p)' /\ Others(p)
<1>1. PICK s \in {"paused", "loaded"} : Goto(p, s)
  BY DEF Quiet
<1>2. step'[p] = s /\ \A q \in Planes \ {p} : step'[q] = step[q]
  BY <1>1, GotoOne
<1>3. \A q \in Planes \ {p} : next'[q] = next[q]
  BY DEF Quiet, Inv, Planar
<1>4. UNCHANGED <<ledger, shown, ready, at, ran>>
  BY DEF Quiet, files
<1>5. PlaneInv(p)'
  BY <1>2, <1>4 DEF DispatchInv, PlaneInv, Dispatched
<1>6. Others(p)
  BY <1>2, <1>3, <1>4 DEF Others, Elsewhere
<1> QED BY <1>5, <1>6

LEMMA PlaneEnded ==
  ASSUME Inv, DispatchInv, NEW p \in Planes, Ended(p)
  PROVE  PlaneInv(p)' /\ Others(p)
<1>1. PICK node : node[1] # "native" /\ Saved(p, ledger, node)
  BY DEF Ended
<1>2. step'[p] = "saved" /\ \A q \in Planes \ {p} : step'[q] = step[q]
  BY <1>1, GotoOne DEF Saved
<1>3. next'[p] = node /\ \A q \in Planes \ {p} : next'[q] = next[q]
  BY <1>1 DEF Saved, Inv, Planar
<1>4. UNCHANGED <<ledger, shown, ready, at, ran>>
  BY <1>1 DEF Saved, files, counts
<1>5. PlaneInv(p)'
  BY <1>1, <1>2, <1>3, <1>4 DEF DispatchInv, PlaneInv, Dispatched
<1>6. Others(p)
  BY <1>2, <1>3, <1>4 DEF Others, Elsewhere
<1> QED BY <1>5, <1>6

LEMMA PlaneEmit ==
  ASSUME Inv, DispatchInv, NEW p \in Planes, Emit(p)
  PROVE  PlaneInv(p)' /\ Others(p)
<1>1. step'[p] \in {"idle", "finished", "hold"} /\ \A q \in Planes \ {p} : step'[q] = step[q]
  <2>1. Goto(p, IF next[p] \in {At("finished"), At("hold")} THEN next[p][1] ELSE "idle")
    BY DEF Emit
  <2>2. step'[p] = (IF next[p] \in {At("finished"), At("hold")} THEN next[p][1] ELSE "idle")
        /\ \A q \in Planes \ {p} : step'[q] = step[q]
    BY <2>1, GotoOne
  <2> QED BY <2>2, Heads
<1>2. step[p] = "saved" /\ UNCHANGED <<ledger, shown, ready, ran>>
  BY DEF Emit, files, counts
<1>3. at'[p] = next[p] /\ \A q \in Planes \ {p} : at'[q] = at[q] /\ next'[q] = next[q]
  BY DEF Emit, Inv, Planar
<1>4. PlaneInv(p)'
  BY <1>1, <1>2, <1>3 DEF DispatchInv, PlaneInv, Dispatched
<1>5. Others(p)
  BY <1>1, <1>2, <1>3 DEF Others, Elsewhere
<1> QED BY <1>4, <1>5

\* The projections of a preparation are of the occurrence that it reserved.
Projects(p) == WriteInput(p) \/ WriteActive(p) \/ WriteReady(p)

LEMMA WhoWrites ==
  ASSUME Inv, Next
  PROVE  \/ UNCHANGED <<input, shown, ready, wrote, ran>>
         \/ \E p \in Planes : Projects(p) \/ \E role : RunNative(p, role)
<1> DEFINE Same == UNCHANGED <<input, shown, ready, wrote, ran>>
<1>1. ASSUME NEW p \in Planes, ScriptEffect(p) PROVE Same \/ Projects(p) \/ \E role : RunNative(p, role)
  <2>1. Quiet(p) \/ Ended(p) \/ Emit(p) => Same
    BY DEF Quiet, Ended, Saved, Emit, files, counts
  <2>2. \A role : Rematerializes(p, role) \/ Intends(p, role) => Same
    BY DEF Rematerializes, Intends, Keeping, files, counts
  <2>3. \A role, replacement : Reserves(p, role, replacement) => Same
    BY DEF Reserves, Keeping, files, counts
  <2>4. \A o, outcome : Accepts(p, o, outcome) => Same
    BY DEF Accepts, Saved, files, counts
  <2> QED BY <1>1, <2>1, <2>2, <2>3, <2>4 DEF ScriptEffect, Projects
<1>2. SeamEffect \/ Fails => Same
  BY DEF SeamEffect, GivesUp, Asks, Gets, WriteCurrent, Acknowledges, Resumes, Fails, Saved, Keeping, files, counts
<1>3. \A p \in Planes : Redirect(p) => Same
  BY DEF Redirect, files
<1>4. \A o : RecordReplacement(o) => Same
  BY RecordReplacementEffect DEF files, counts
<1> QED BY <1>1, <1>2, <1>3, <1>4, StepEffects

LEMMA Projected ==
  ASSUME Inv, DispatchInv, NEW p \in Planes, Projects(p)
  PROVE  LET o == ledger.active[p] IN
         /\ held[p].active[p] = o /\ o \in 1..Len(ledger.occ) /\ o \notin ready /\ o \notin DOMAIN ran
         /\ ledger.occ[o].role = at[p][2] /\ at[p][1] # "native"
         /\ \A q \in Planes \ {p} : ledger.active[q] # o
<1>1. step[p] \in Preparing /\ step[p] \in {"reserved", "input", "active"}
  BY DEF Projects, WriteInput, WriteActive, WriteReady, Preparing
<1>2. held[p] = ledger /\ at[p][1] # "native"
  BY <1>1, Prepares DEF Turn
<1>3. /\ ledger.active[p] # 0 /\ ledger.active[p] \notin ready
      /\ ledger.occ[ledger.active[p]].role = at[p][2]
  BY <1>1 DEF DispatchInv, PlaneInv
<1>4. ledger.active[p] \in 1..Len(ledger.occ)
  BY <1>3 DEF Inv, LedgerInv
<1>5. ledger.active[p] \notin DOMAIN ran
  BY <1>3 DEF DispatchInv, FilesInv
<1>6. \A q \in Planes \ {p} : ledger.active[q] # ledger.active[p]
  BY <1>3, OtherActive DEF DispatchInv
<1> QED BY <1>2, <1>3, <1>4, <1>5, <1>6

LEMMA PlaneProjects ==
  ASSUME Inv, DispatchInv, NEW p \in Planes, Projects(p)
  PROVE  PlaneInv(p)' /\ Others(p)
<1> DEFINE o == ledger.active[p]
<1>1. /\ held[p].active[p] = o /\ o \in 1..Len(ledger.occ) /\ o \notin ready /\ o \notin DOMAIN ran
      /\ ledger.occ[o].role = at[p][2] /\ at[p][1] # "native"
      /\ \A q \in Planes \ {p} : ledger.active[q] # o
  BY Projected
<1>a. o # 0
  BY <1>1 DEF Inv, LedgerInv
<1>2. UNCHANGED <<ledger, at, ran>>
  BY DEF Projects, WriteInput, WriteActive, WriteReady, counts
<1>3. \A q \in Planes \ {p} : step'[q] = step[q]
  BY GotoOne DEF Projects, WriteInput, WriteActive, WriteReady
<1>4. CASE WriteInput(p)
  <2>1. step'[p] = "input" /\ UNCHANGED <<next, shown, ready>> /\ o \in input'
    BY <1>1, <1>4, GotoOne DEF WriteInput
  <2> QED BY <1>1, <1>a, <1>2, <1>3, <2>1 DEF PlaneInv, Others, Elsewhere
<1>5. CASE WriteActive(p)
  <2>1. step'[p] = "active" /\ UNCHANGED <<next, ready, input>> /\ o \in input
    BY <1>5, GotoOne DEF WriteActive, DispatchInv, PlaneInv
  <2>2. shown'[p] = o /\ \A q \in Planes \ {p} : shown'[q] = shown[q]
    BY <1>1, <1>5 DEF WriteActive, DispatchInv, FilesInv
  <2> QED BY <1>1, <1>a, <1>2, <1>3, <2>1, <2>2 DEF PlaneInv, Others, Elsewhere
<1>6. CASE WriteReady(p)
  <2>1. step'[p] = "saved" /\ UNCHANGED shown /\ ready' = ready \cup {o}
    BY <1>1, <1>6, GotoOne DEF WriteReady
  <2>2. next'[p] = Native(at[p][2]) /\ \A q \in Planes \ {p} : next'[q] = next[q]
    BY <1>6 DEF WriteReady, Inv, Planar
  <2>3. shown[p] = o
    BY <1>6 DEF WriteReady, DispatchInv, PlaneInv
  <2>4. Dispatched(p, next[p])'
    BY <1>1, <1>a, <1>2, <2>1, <2>2, <2>3 DEF Dispatched
  <2>5. PlaneInv(p)'
    BY <1>1, <1>2, <2>1, <2>4 DEF PlaneInv
  <2>6. Others(p)
    BY <1>1, <1>2, <1>3, <2>1, <2>2 DEF Others, Elsewhere
  <2> QED BY <2>5, <2>6
<1> QED BY <1>4, <1>5, <1>6 DEF Projects

LEMMA PlaneRuns ==
  ASSUME Inv, DispatchInv, NEW p \in Planes, NEW role, RunNative(p, role)
  PROVE  PlaneInv(p)' /\ Others(p)
<1>1. step[p] = "idle" /\ at[p] = Native(role) /\ at[p][1] = "native"
  BY Heads DEF RunNative
<1>2. Dispatched(p, at[p]) /\ ledger.active[p] # 0
  BY <1>1 DEF DispatchInv, PlaneInv, Dispatched
<1>3. DOMAIN ran' = DOMAIN ran \cup {ledger.active[p]}
  BY <1>2 DEF RunNative, Dispatched, With
<1>4. UNCHANGED <<ledger, step, next, shown, ready>>
  BY DEF RunNative
<1>5. at'[p][1] # "native" /\ \A q \in Planes \ {p} : at'[q] = at[q]
  <2>1. \E node : node[1] # "native" /\ at' = [at EXCEPT ![p] = node]
    BY Heads, AcceptHead DEF RunNative
  <2> QED BY <2>1 DEF Inv, Planar
<1>6. PlaneInv(p)'
  BY <1>1, <1>4, <1>5 DEF PlaneInv
<1>7. \A q \in Planes \ {p} : ledger.active[q] # ledger.active[p]
  BY <1>2, OtherActive DEF DispatchInv
<1>8. Others(p)
  BY <1>3, <1>4, <1>5, <1>7 DEF Others, Elsewhere
<1> QED BY <1>6, <1>8

LEMMA PlaneRematerializes ==
  ASSUME Inv, DispatchInv, NEW p \in Planes, NEW role, Rematerializes(p, role)
  PROVE  PlaneInv(p)' /\ Others(p)
<1>1. /\ step'[p] = "reserved" /\ \A q \in Planes \ {p} : step'[q] = step[q]
      /\ UNCHANGED <<ledger, shown, ready, at, next, ran>>
      /\ ledger.active[p] # 0 /\ ledger.occ[ledger.active[p]].role = role /\ ledger.active[p] \notin ready
  BY GotoOne DEF Rematerializes, Keeping, files, counts
<1>2. at[p][2] = role /\ at[p][1] # "native"
  BY Heads DEF Rematerializes
<1> QED BY <1>1, <1>2 DEF PlaneInv, Others, Elsewhere

LEMMA PlaneIntends ==
  ASSUME Inv, DispatchInv, NEW p \in Planes, NEW role, Intends(p, role)
  PROVE  PlaneInv(p)' /\ Others(p)
<1>1. /\ step'[p] = "intended" /\ \A q \in Planes \ {p} : step'[q] = step[q]
      /\ UNCHANGED <<shown, ready, at, next, ran>>
  BY GotoOne DEF Intends, Keeping, files, counts
<1>2. /\ at[p][2] = role /\ at[p][1] # "native"
      /\ Asked(ledger, role, TRUE, Greenfield) /\ ~Interrupted(p, ledger, role, TRUE)
  BY Heads DEF Intends
<1>3. /\ ledger'.pending = ledger.pending /\ ledger'.active = ledger.active /\ ledger'.occ = ledger.occ
      /\ ledger'.accepted = ledger.accepted /\ ledger'.cont = ledger.cont
  BY IntendedEffect DEF Intends, Inv, LedgerInv
<1>4. Asked(ledger', role, TRUE, Greenfield)
  BY <1>2, <1>3 DEF Asked, Old
<1>5. ~Interrupted(p, ledger, at[p][2], TRUE)'
  BY <1>1, <1>2, <1>3 DEF Interrupted
<1>6. PlaneInv(p)'
  BY <1>1, <1>2, <1>4, <1>5 DEF PlaneInv, Interrupted
<1>7. Others(p)
  BY <1>1, <1>3, OneTurn DEF Others, Elsewhere, Intends, Preparing
<1> QED BY <1>6, <1>7

LEMMA PlaneReserves ==
  ASSUME Inv, DispatchInv, NEW p \in Planes, NEW role \in Roles, NEW replacement \in BOOLEAN,
         Reserves(p, role, replacement)
  PROVE  PlaneInv(p)' /\ Others(p)
<1> DEFINE new == Len(ledger.occ) + 1
<1>1. /\ step'[p] = "reserved" /\ \A q \in Planes \ {p} : step'[q] = step[q]
      /\ UNCHANGED <<shown, ready, at, next, ran>>
  BY GotoOne DEF Reserves, Keeping, files, counts
<1>2. at[p][2] = role /\ at[p][1] # "native" /\ Plane(role) = p
  BY Heads DEF Reserves
<1>3. IsLedger(ledger) /\ LedgerInv
  BY DEF Inv, LedgerInv
<1>4. IsReservation(ledger', ledger, role, replacement, source)
  BY <1>3, ReservedEffect DEF Reserves
<1>5. ledger'.active[p] = new /\ \A q \in Planes \ {p} : ledger'.active[q] = ledger.active[q]
  BY <1>2, <1>3, <1>4 DEF IsReservation, LedgerInv
<1>6. PICK c : ledger'.occ = Append(ledger.occ, c) /\ IsReserved(c, ledger, role, replacement, source)
  BY <1>4 DEF IsReservation
<1>7. ledger'.occ[new] = c /\ c.role = role /\ Len(ledger.occ) \in Nat
  BY <1>3, <1>6, AppendIsSeq DEF LedgerInv, IsReserved
<1>8. new # 0 /\ new \notin ready
  BY <1>7 DEF DispatchInv, FilesInv
<1> HIDE DEF new
<1>9. PlaneInv(p)'
  BY <1>1, <1>2, <1>5, <1>7, <1>8 DEF PlaneInv
<1>10. Others(p)
  BY <1>1, <1>5, OneTurn DEF Others, Elsewhere, Reserves, Preparing
<1> QED BY <1>9, <1>10

LEMMA PlaneAccepts ==
  ASSUME Inv, DispatchInv, NEW p \in Planes, NEW o, NEW outcome, Accepts(p, o, outcome)
  PROVE  PlaneInv(p)' /\ Others(p)
<1>1. PICK r \in Accepted(ledger, o, outcome, source) : Saved(p, r.ledger, r.route)
  BY DEF Accepts
<1>2. IsAcceptance(r, ledger, o)
  BY <1>1, AcceptedEffect DEF Inv, LedgerInv
<1>3. r.ledger.active = ledger.active /\ r.route[1] # "native"
  BY <1>2, Heads DEF IsAcceptance, RouteOf, Routes
<1> QED BY <1>1, <1>3, PlaneEnds DEF Accepts

LEMMA PlaneSeam ==
  ASSUME Inv, DispatchInv, GivesUp \/ Asks \/ Acknowledges \/ Resumes \/ Fails
  PROVE  \E p \in Planes : PlaneInv(p)' /\ Others(p)
<1>1. Untouched(ledger', ledger)
  BY GivesUpEffect, AsksEffect, AcknowledgesEffect, ResumesEffect, FailsEffect DEF IsMarked
<1>2. PICK p \in Planes : /\ Turn(p) /\ (Alone(p) \/ Resumes)
                          /\ \E node : node[1] # "native" /\ Saved(p, ledger', node)
  <2>1. GivesUp \/ Acknowledges =>
          /\ Turn("learning") /\ Alone("learning")
          /\ \E node : node[1] # "native" /\ Saved("learning", ledger', node)
    BY Heads DEF GivesUp, Acknowledges, Alone, Saved
  <2>2. Asks \/ Fails =>
          /\ Turn("foreground") /\ Alone("foreground")
          /\ \E node : node[1] # "native" /\ Saved("foreground", ledger', node)
    <3>1. At("accept_learning_ack")[1] # "native" /\ At("emit_request")[1] # "native"
      BY Heads
    <3>2. \A L, node : Saved("foreground", L, node) => Saved("foreground", ledger', node)
      BY DEF Saved
    <3>3. Asks => \E L : Saved("foreground", L, At("accept_learning_ack"))
      BY DEF Asks
    <3>4. Fails => \E L : Saved("foreground", L, At("emit_request"))
      BY DEF Fails
    <3>5. Asks \/ Fails => Turn("foreground") /\ Alone("foreground")
      BY DEF Asks, Fails, Alone
    <3> QED BY <3>1, <3>2, <3>3, <3>4, <3>5
  <2>3. ASSUME Resumes PROVE Turn("foreground") /\ \E node : node[1] # "native" /\ Saved("foreground", ledger', node)
    <3>1. Saved("foreground", ledger', Resumed(ledger).ackRoute) /\ ledger' = Resumed(ledger)
      BY <2>3 DEF Resumes, Saved
    <3>2. ledger'.ackRoute[1] # "native"
      BY <2>3, ResumesEffect, Heads
    <3> QED BY <2>3, <3>1, <3>2 DEF Resumes
  <2> QED BY <2>1, <2>2, <2>3 DEF Planes
<1>3. PICK node : node[1] # "native" /\ Saved(p, ledger', node)
  BY <1>2
<1> QED BY <1>1, <1>2, <1>3, PlaneEnds DEF Untouched

LEMMA PlaneGets ==
  ASSUME Inv, DispatchInv, Gets
  PROVE  PlaneInv("learning")' /\ Others("learning")
<1> DEFINE p == "learning"
<1>1. /\ p \in Planes /\ Turn(p) /\ Alone(p) /\ step[p] # "idle"
      /\ step'[p] = "received" /\ \A q \in Planes \ {p} : step'[q] = step[q]
      /\ UNCHANGED <<shown, ready, at, next, ran>>
  BY GotoOne DEF Gets, Keeping, files, counts, Alone, Planes
<1>2. ledger'.active = ledger.active
  BY GetsEffect DEF IsGot
<1>3. at[p][1] # "native"
  BY <1>1, HoldsNoRole
<1>4. PlaneInv(p)'
  BY <1>1, <1>3 DEF PlaneInv
<1>5. Others(p)
  BY <1>1, <1>2, OneTurn DEF Others, Elsewhere, Preparing
<1> QED BY <1>4, <1>5

LEMMA PlaneCurrent ==
  ASSUME Inv, DispatchInv, WriteCurrent
  PROVE  PlaneInv("learning")' /\ Others("learning")
<1> DEFINE p == "learning"
<1>1. /\ p \in Planes /\ step[p] # "idle"
      /\ step'[p] = "saved" /\ \A q \in Planes \ {p} : step'[q] = step[q]
      /\ UNCHANGED <<ledger, shown, ready, at, ran>>
  BY GotoOne DEF WriteCurrent, counts, Planes
<1>2. next'[p][1] # "native" /\ \A q \in Planes \ {p} : next'[q] = next[q]
  <2>1. \E node : node[1] # "native" /\ next' = [next EXCEPT ![p] = node]
    <3>1. Prepare("learning")[1] # "native" /\ At("emit_ack")[1] # "native"
      BY Heads
    <3> QED BY <3>1 DEF WriteCurrent
  <2> QED BY <1>1, <2>1 DEF Inv, Planar
<1>3. at[p][1] # "native"
  BY <1>1, HoldsNoRole
<1>4. PlaneInv(p)'
  BY <1>1, <1>2, <1>3 DEF PlaneInv
<1>5. Others(p)
  BY <1>1, <1>2 DEF Others, Elsewhere
<1> QED BY <1>4, <1>5

LEMMA PlaneRedirects ==
  ASSUME Inv, DispatchInv, NEW p \in Planes, Redirect(p)
  PROVE  PlaneInv(p)' /\ Others(p)
<1>1. /\ step[p] # "idle" /\ step'[p] = "idle" /\ \A q \in Planes \ {p} : step'[q] = step[q]
      /\ UNCHANGED <<ledger, shown, ready, next, ran>>
  BY GotoOne DEF Redirect, files
<1>2. PICK node \in Targets(p) : at' = [at EXCEPT ![p] = node]
  BY DEF Redirect
<1>3. at[p][1] # "native"
  BY <1>1, HoldsNoRole
<1>4. node[1] # "native"
  BY <1>2, <1>3, Heads DEF Targets
<1>5. at'[p][1] # "native" /\ \A q \in Planes \ {p} : at'[q] = at[q]
  BY <1>2, <1>4 DEF Inv, Planar
<1>6. PlaneInv(p)'
  BY <1>1, <1>5 DEF PlaneInv
<1>7. Others(p)
  BY <1>1, <1>5 DEF Others, Elsewhere
<1> QED BY <1>6, <1>7

LEMMA PlaneReplaced ==
  ASSUME Inv, DispatchInv, NEW o, RecordReplacement(o)
  PROVE  \A q \in Planes : Elsewhere(q)
<1>1. /\ Untouched(ledger', ledger)
      /\ UNCHANGED <<held, files, source, at, step, next, seams, counts>>
  BY RecordReplacementEffect
<1>2. step["foreground"] \notin Preparing /\ ledger.request = NoRequest
  BY DEF RecordReplacement, Preparing, AssertForeground
<1>3. step["learning"] \notin Preparing
  BY <1>2 DEF Inv, SeamInv, LearningInv, Holding
<1> QED BY <1>1, <1>2, <1>3 DEF Elsewhere, Untouched, files, counts, Planes, Preparing

LEMMA PlanesStep ==
  ASSUME Inv, DispatchInv, Next
  PROVE  \A q \in Planes : PlaneInv(q)'
<1>1. Grows /\ input \subseteq input'
  <2>1. \A p \in Planes : Projects(p) \/ (\E role : RunNative(p, role)) => input \subseteq input'
    BY DEF Projects, WriteInput, WriteActive, WriteReady, RunNative
  <2> QED BY <2>1, OccStep, WhoWrites
<1>2. ASSUME NEW p \in Planes, PlaneInv(p)' /\ Others(p) PROVE \A q \in Planes : PlaneInv(q)'
  BY <1>1, <1>2, ElsewhereKeeps DEF Others
<1>3. ASSUME NEW p \in Planes, ScriptEffect(p) PROVE PlaneInv(p)' /\ Others(p)
  <2>1. ASSUME NEW role \in Roles,
               \/ RunNative(p, role) /\ Plane(role) = p
               \/ Rematerializes(p, role) \/ Intends(p, role)
               \/ \E replacement \in BOOLEAN : Reserves(p, role, replacement)
        PROVE  PlaneInv(p)' /\ Others(p)
    BY <2>1, PlaneRuns, PlaneRematerializes, PlaneIntends, PlaneReserves
  <2> QED BY <1>3, <2>1, PlaneQuiet, PlaneEnded, PlaneEmit, PlaneProjects, PlaneAccepts DEF ScriptEffect, Projects
<1>4. ASSUME SeamEffect \/ Fails PROVE \E p \in Planes : PlaneInv(p)' /\ Others(p)
  BY <1>4, PlaneSeam, PlaneGets, PlaneCurrent DEF SeamEffect, Planes
<1>5. ASSUME NEW o, RecordReplacement(o) PROVE \A q \in Planes : PlaneInv(q)'
  BY <1>1, <1>5, PlaneReplaced, ElsewhereKeeps
<1> QED BY <1>2, <1>3, <1>4, <1>5, StepEffects, PlaneRedirects

\* The projections, results and runs are of what was reserved, and what ran was ready.
LEMMA FilesStep ==
  ASSUME Inv, DispatchInv, Next
  PROVE  FilesInv'
<1>1. Grows /\ FilesInv
  BY OccStep DEF DispatchInv
<1>2. 1..Len(ledger.occ) \subseteq 1..Len(ledger'.occ)
  BY <1>1 DEF Grows
<1>3. ASSUME NEW p \in Planes, Projects(p) PROVE FilesInv'
  <2> DEFINE o == ledger.active[p]
  <2>1. held[p].active[p] = o /\ o \in 1..Len(ledger.occ)
    BY <1>3, Projected
  <2>2. /\ input' \subseteq input \cup {o} /\ input \subseteq input'
        /\ ready \subseteq ready' /\ UNCHANGED <<wrote, ran>> /\ DOMAIN shown' = DOMAIN shown
        /\ ready' = ready \/ (ready' = ready \cup {o} /\ step[p] = "active")
    BY <1>3, <2>1 DEF Projects, WriteInput, WriteActive, WriteReady, counts
  <2>3. step[p] = "active" => o \in input
    BY DEF DispatchInv, PlaneInv
  <2> HIDE DEF o
  <2> QED BY <1>1, <1>2, <2>1, <2>2, <2>3 DEF FilesInv
<1>4. ASSUME NEW p \in Planes, NEW role, RunNative(p, role) PROVE FilesInv'
  <2>1. at[p] = Native(role) /\ at[p][1] = "native"
    BY <1>4, Heads DEF RunNative
  <2>2. Dispatched(p, at[p])
    BY <2>1 DEF DispatchInv, PlaneInv
  <2>3. shown[p] \in ready
    BY <2>2 DEF Dispatched
  <2>4. /\ DOMAIN ran' = DOMAIN ran \cup {shown[p]} /\ UNCHANGED <<input, shown, ready>>
        /\ DOMAIN wrote' \subseteq DOMAIN wrote \cup {shown[p]}
    BY <1>4 DEF RunNative, With
  <2> QED BY <1>1, <1>2, <2>3, <2>4 DEF FilesInv
<1>5. ASSUME UNCHANGED <<input, shown, ready, wrote, ran>> PROVE FilesInv'
  BY <1>1, <1>2, <1>5 DEF FilesInv
<1> QED BY <1>3, <1>4, <1>5, WhoWrites

\* What prepare and materialize reserve and write agrees with the ledger in every state: a
\* plane at the node of a native role has a READY projection of its active occurrence, of
\* that role, which has not run; and no file speaks of an occurrence that was not reserved.
THEOREM ReservationsKept == Spec => []DispatchInv
<1>1. Inv /\ DispatchInv /\ [Next]_vars => DispatchInv'
  <2>1. ASSUME Inv, DispatchInv, UNCHANGED vars PROVE DispatchInv'
    <3>1. UNCHANGED <<ledger, input, shown, ready, wrote, at, step, next, ran>>
      BY <2>1 DEF vars, files, counts
    <3>2. OccInv'
      BY <2>1, <3>1 DEF DispatchInv, OccInv, Remediations, Used
    <3>3. FilesInv'
      BY <2>1, <3>1 DEF DispatchInv, FilesInv
    <3>4. \A p \in Planes : PlaneInv(p)'
      BY <2>1, <3>1 DEF DispatchInv, PlaneInv, Dispatched, Asked, Old, Interrupted
    <3> QED BY <3>2, <3>3, <3>4 DEF DispatchInv
  <2>2. ASSUME Inv, DispatchInv, Next PROVE DispatchInv'
    BY <2>2, OccStep, FilesStep, PlanesStep DEF DispatchInv
  <2> QED BY <2>1, <2>2
<1> QED BY <1>1, OccInit, TurnsKept, PTL DEF Spec

\* A native role runs on the occurrence reserved for it and committed READY, and no
\* occurrence is run twice, however often its preparation dies and is redirected (prepare).
THEOREM DispatchedOnlyOnce == Spec => []DispatchedOnce
<1>1. DispatchInv => DispatchedOnce
  <2> SUFFICES ASSUME DispatchInv, NEW p \in Planes, NEW role \in Roles, at[p] = Native(role)
               PROVE  LET o == shown[p] IN
                      o = ledger.active[p] /\ o \in ready /\ o \notin DOMAIN ran /\ ledger.occ[o].role = role
    BY DEF DispatchedOnce
  <2>1. at[p][1] = "native" /\ at[p][2] = role
    BY Heads
  <2>2. Dispatched(p, at[p])
    BY <2>1 DEF DispatchInv, PlaneInv
  <2>3. at[p][2] = ledger.occ[shown[p]].role
    BY <2>2, Heads DEF Dispatched
  <2> QED BY <2>1, <2>2, <2>3 DEF Dispatched
<1> QED BY <1>1, ReservationsKept, PTL

-----------------------------------------------------------------------------
\* The counters stay in their bounds, and an acknowledgement is of a request that was spent.
BoundInv == source \in 0..MaxSource /\ crashes \in 0..MaxCrashes /\ redirects \in 0..MaxRedirects

LEMMA BoundStep ==
  ASSUME BoundInv, Next
  PROVE  BoundInv'
<1> USE LadSessionAssumption
<1> DEFINE Same == UNCHANGED <<source, crashes, redirects>>
<1>a. Same => BoundInv'
  BY DEF BoundInv
<1>b. \A p, L, node : Saved(p, L, node) \/ Refused(p) => Same
  BY DEF Saved, Refused, counts
<1>1. ASSUME NEW p \in Planes, Script(p) PROVE BoundInv'
  <2>1. Load(p) \/ Emit(p) \/ WriteInput(p) \/ WriteActive(p) \/ WriteReady(p) => Same
    BY <1>b DEF Load, Emit, WriteInput, WriteActive, WriteReady, counts
  <2>2. \A L, role, replacement : Reserving(p, L, role, replacement) => Same
    BY <1>b DEF Reserving, counts
  <2>3. \A L : Rematerialized(p, L) => Same
    BY <1>b DEF Rematerialized, counts
  <2>4. \A role, replacement : PrepareRole(p, role, replacement) => Same
    BY <1>b, <2>2, <2>3 DEF PrepareRole, counts
  <2>5. \A role : ReserveReplacement(p, role) => Same
    BY <2>2 DEF ReserveReplacement
  <2>6. \A role, outcome : AcceptRole(p, role, outcome) => Same
    BY <1>b DEF AcceptRole
  <2>7. ASSUME NEW role, RunNative(p, role) PROVE BoundInv'
    BY <2>7 DEF RunNative, BoundInv
  <2> QED BY <1>1, <1>a, <2>1, <2>4, <2>5, <2>6, <2>7 DEF Script
<1>2. Seam => Same
  <2>1. EmitRequest => Same
    BY <1>b DEF EmitRequest
  <2>2. Receive => Same
    BY <1>b DEF Receive, counts
  <2>3. WriteCurrent => Same
    BY DEF WriteCurrent, counts
  <2>4. EmitAck => Same
    BY <1>b DEF EmitAck
  <2>5. AcceptAck => Same
    BY <1>b DEF AcceptAck
  <2>6. AfterAck => Same
    BY <1>b DEF AfterAck
  <2> QED BY <2>1, <2>2, <2>3, <2>4, <2>5, <2>6 DEF Seam
<1>3. Decision => Same
  BY <1>b DEF Decision, HumanPause, TerminalFailure, Finalize, Boundary
<1>4. \A p \in Planes : Crash(p) => BoundInv'
  BY DEF Crash, BoundInv
<1>5. \A p \in Planes : Redirect(p) => BoundInv'
  BY DEF Redirect, BoundInv
<1>6. \A o : RecordReplacement(o) => Same
  BY DEF RecordReplacement, counts
<1> QED BY <1>a, <1>1, <1>2, <1>3, <1>4, <1>5, <1>6 DEF Next

\* Learning goes on from node to node as its acknowledgements are counted.
LEMMA CountSame ==
  ASSUME CountInv, UNCHANGED <<acks, got>>, at'["learning"][1] \in Busy => at["learning"][1] \in Busy,
         got \in Nat, Len(acks) \in Nat
  PROVE  CountInv'
  BY DEF CountInv

LEMMA CountEmit ==
  ASSUME Inv, CountInv, NEW p \in Planes, Emit(p)
  PROVE  CountInv'
<1>1. SeamInv /\ got \in Nat /\ Len(acks) \in Nat /\ step[p] = "saved" /\ IsSeq(acks)
  BY DEF Inv, SeamInv, Emit
<1>2. at'[p] = next[p] /\ \A q \in Planes \ {p} : at'[q] = at[q]
  BY DEF Emit, Inv, Planar
<1>3. /\ acks' = (IF at[p] = At("emit_ack") THEN Append(acks, ledger.request) ELSE acks)
      /\ got' = got + IF at[p] = At("receive_request") THEN 1 ELSE 0
  BY DEF Emit, Acked
<1>4. CASE p = "foreground"
  <2>1. at[p][1] \notin {"emit_ack", "receive_request"}
    BY <1>1, <1>4 DEF Inv, ForegroundInv
  <2>2. at[p] # At("emit_ack") /\ at[p] # At("receive_request")
    BY <2>1, Heads
  <2>3. at'["learning"] = at["learning"]
    BY <1>2, <1>4 DEF Planes
  <2> QED BY <1>1, <1>3, <2>2, <2>3, CountSame
<1>5. CASE p = "learning"
  <2>1. \/ at[p] = At("emit_ack") /\ next[p] = At("after_ack")
        \/ at[p] = At("after_ack") /\ next[p] \in {At("receive_request"), At("finished")}
        \/ at[p] # At("emit_ack") /\ at[p] # At("after_ack") /\ next[p][1] \in Busy /\ LearningHas
    BY <1>1, <1>5 DEF Inv, LearningInv
  <2>2. \A x \in {"after_ack", "receive_request", "finished"} : At(x)[1] \notin Busy
    BY Heads DEF Busy
  <2>3. At("emit_ack")[1] \in Busy
    BY Heads DEF Busy
  <2>4. CASE at[p] = At("emit_ack") /\ next[p] = At("after_ack")
    <3>1. acks' = Append(acks, ledger.request) /\ got' = got
      BY <1>1, <1>3, <2>2, <2>3, <2>4
    <3>2. Len(acks') = Len(acks) + 1
      BY <1>1, <3>1, AppendIsSeq
    <3> QED BY <1>1, <1>2, <1>5, <2>2, <2>3, <2>4, <3>1, <3>2 DEF CountInv
  <2>5. CASE at[p] = At("after_ack") /\ next[p] \in {At("receive_request"), At("finished")}
    <3>1. At("after_ack") # At("emit_ack") /\ At("after_ack") # At("receive_request")
      BY Heads
    <3> QED BY <1>1, <1>2, <1>3, <1>5, <2>2, <2>5, <3>1, CountSame
  <2>6. CASE at[p] # At("emit_ack") /\ at[p] # At("after_ack") /\ next[p][1] \in Busy /\ LearningHas
    <3>1. acks' = acks
      BY <1>3, <2>6
    <3>2. CASE at[p] = At("receive_request")
      BY <1>1, <1>2, <1>3, <1>5, <2>2, <2>6, <3>1, <3>2 DEF CountInv
    <3>3. CASE at[p] # At("receive_request")
      <4>1. at[p][1] \in Busy
        <5>1. at[p] \in Waiting \/ at[p][1] \in Busy
          BY <1>5 DEF Inv, LearningInv
        <5>2. at[p] # At("finished")
          BY <1>1, <1>5 DEF Inv, LearningInv
        <5> QED BY <2>6, <3>3, <5>1, <5>2 DEF Waiting
      <4> QED BY <1>1, <1>3, <1>5, <3>1, <3>3, <4>1, CountSame
    <3> QED BY <3>2, <3>3
  <2> QED BY <2>1, <2>4, <2>5, <2>6
<1> QED BY <1>4, <1>5 DEF Planes

LEMMA CountStep ==
  ASSUME Inv, CountInv, Next
  PROVE  CountInv'
<1> DEFINE Same == UNCHANGED <<acks, got, at>>
<1>1. got \in Nat /\ Len(acks) \in Nat
  BY DEF Inv, SeamInv
<1>2. Same => CountInv'
  BY <1>1, CountSame
<1>3. ASSUME NEW p \in Planes, ScriptEffect(p) PROVE CountInv'
  <2>1. Quiet(p) \/ Ended(p) \/ WriteInput(p) \/ WriteActive(p) \/ WriteReady(p) => Same
    BY DEF Quiet, Ended, Saved, WriteInput, WriteActive, WriteReady, seams
  <2>2. \A role : Rematerializes(p, role) \/ Intends(p, role) => Same
    BY DEF Rematerializes, Intends, Keeping, seams
  <2>3. \A role, replacement : Reserves(p, role, replacement) => Same
    BY DEF Reserves, Keeping, seams
  <2>4. \A o, outcome : Accepts(p, o, outcome) => Same
    BY DEF Accepts, Saved, seams
  <2>5. ASSUME NEW role, RunNative(p, role) PROVE CountInv'
    <3>1. at[p][1] \in Busy /\ UNCHANGED <<acks, got>>
      BY <2>5, Heads DEF RunNative, Busy, seams
    <3>2. \A q \in Planes \ {p} : at'[q] = at[q]
      <4>1. \E node : at' = [at EXCEPT ![p] = node]
        BY <2>5 DEF RunNative
      <4> QED BY <4>1 DEF Inv, Planar
    <3> QED BY <1>1, <3>1, <3>2, CountSame DEF Planes
  <2> QED BY <1>2, <1>3, <2>1, <2>2, <2>3, <2>4, <2>5, CountEmit DEF ScriptEffect
<1>4. SeamEffect \/ Fails => Same
  BY DEF SeamEffect, GivesUp, Asks, Gets, WriteCurrent, Acknowledges, Resumes, Fails, Saved, Keeping, seams
<1>5. ASSUME NEW p \in Planes, Redirect(p) PROVE CountInv'
  <2>1. UNCHANGED <<acks, got>>
    BY <1>5 DEF Redirect, seams
  <2>2. at'["learning"] = at["learning"]
    <3>1. PICK node \in Targets(p) : at' = [at EXCEPT ![p] = node]
      BY <1>5 DEF Redirect
    <3>2. p = "learning" => node = at["learning"]
      BY <3>1 DEF Targets
    <3> QED BY <3>1, <3>2 DEF Inv, Planar, Planes
  <2> QED BY <1>1, <2>1, <2>2, CountSame
<1>6. \A o : RecordReplacement(o) => Same
  BY RecordReplacementEffect DEF seams
<1> QED BY <1>2, <1>3, <1>4, <1>5, <1>6, StepEffects

\* Every variable keeps its type, and no acknowledgement is sent (emit_ack) for which no
\* request was.
THEOREM Typing == Spec => []TypeOK
<1> DEFINE Counted == BoundInv /\ CountInv
<1>1. Init => Counted
  <2>1. Init => BoundInv
    BY LadSessionAssumption DEF Init, BoundInv
  <2>2. Init => CountInv
    BY Heads DEF Init, CountInv, Busy
  <2> QED BY <2>1, <2>2
<1>2. Inv /\ Counted /\ [Next]_vars => Counted'
  <2>1. ASSUME Counted, UNCHANGED vars PROVE Counted'
    BY <2>1 DEF vars, seams, counts, BoundInv, CountInv
  <2> QED BY <2>1, BoundStep, CountStep
<1>3. Inv /\ DispatchInv /\ Counted => TypeOK
  <2> SUFFICES ASSUME Inv, DispatchInv, Counted PROVE TypeOK
    OBVIOUS
  <2>1. DOMAIN ledger = DOMAIN NewState
    BY DEF Inv, LedgerInv, IsLedger, NewState
  <2>2. DOMAIN ledger.occ = 1..Len(ledger.occ)
    BY DEF Inv, LedgerInv, IsSeq
  <2>3. /\ DOMAIN ledger.accepted \cup DOMAIN ledger.intents \subseteq DOMAIN ledger.occ
        /\ \A o \in DOMAIN ledger.occ : ledger.occ[o].role \in Roles /\ ledger.occ[o].of \in 0..(o - 1)
    BY <2>2 DEF Inv, LedgerInv, DispatchInv, OccInv
  <2>4. input \cup ready \cup DOMAIN wrote \cup DOMAIN ran \subseteq DOMAIN ledger.occ
    BY <2>2 DEF DispatchInv, FilesInv
  <2>5. got \in 0..Len(sent) /\ heard \in 0..Len(acks) /\ Len(acks) <= Len(sent)
    BY DEF Inv, SeamInv, CountInv
  <2>6. step \in [Planes -> Steps]
    BY DEF Inv, Planar
  <2> QED BY <2>1, <2>3, <2>4, <2>5, <2>6 DEF TypeOK, BoundInv
<1> QED BY <1>1, <1>2, <1>3, TurnsKept, ReservationsKept, PTL DEF Spec

-----------------------------------------------------------------------------
\* What every step keeps of a decision: results are not lost, and what Learning has received
\* was received later.
Carries ==
  /\ \A k \in DOMAIN ledger.accepted : k \in DOMAIN ledger'.accepted /\ ledger'.accepted[k] = ledger.accepted[k]
  /\ ledger.seen <= ledger'.seen /\ got <= got' /\ got' \in Nat
  /\ Underway(ledger') => ledger.seen < ledger'.seen \/ (Underway(ledger) /\ ledger'.seen = ledger.seen)

\* The continuation that is saved is not one that a reservation was made of.
Unasked ==
  ledger'.cont.node[1] = "prepare" =>
    \A o \in Fresh : ledger.occ[o].asked # <<ledger'.cont, ledger'.seen>>

LEMMA AskedKept ==
  ASSUME Inv, DecisionInv, SeenInv', Carries, Unasked, NEW o \in Fresh, ledger'.occ[o] = ledger.occ[o]
  PROVE  AskedInv(o)'
<1> DEFINE role == ledger.occ[o].role
           c == ledger.occ[o].asked[1]
           s == ledger.occ[o].asked[2]
<1>1. AskedInv(o) /\ ledger.seen \in Nat /\ ledger'.seen \in Nat /\ got \in Nat
  BY DEF DecisionInv, SeenInv, Inv, SeamInv
<1>2. s \in Nat /\ s <= ledger'.seen /\ (role = "learning" => s <= got')
  BY <1>1 DEF AskedInv, Carries
<1>3. IF o = 1 THEN c.node[1] # "prepare" ELSE c.node = Prepare(role)
  BY <1>1 DEF AskedInv
<1>4. o # 1 /\ (c.occ # 0 \/ role = "learning") =>
        c.occ \in DOMAIN ledger'.accepted /\ (role # "learning" => ledger'.accepted[c.occ] = Prepare(role))
  BY <1>1 DEF AskedInv, Carries
<1>5. o # 1 /\ c.occ = 0 /\ role # "learning" /\ Underway(ledger') => s # ledger'.seen
  BY <1>1 DEF AskedInv, Carries
<1>6. ledger'.cont.node[1] = "prepare" => ledger.occ[o].asked # <<ledger'.cont, ledger'.seen>>
  BY DEF Unasked
<1> QED BY <1>2, <1>3, <1>4, <1>5, <1>6 DEF AskedInv, Underway

LEMMA DecisionsKept ==
  ASSUME Inv, DecisionInv, SeenInv', RouteInv', Carries, Unasked, ledger'.occ = ledger.occ
  PROVE  DecisionInv'
<1>1. Fresh' = Fresh
  BY DEF Fresh
<1>2. \A o \in Fresh : AskedInv(o)'
  BY AskedKept
<1> QED BY <1>1, <1>2 DEF DecisionInv

\* Where the continuation stays, or is no preparation, nothing is asked for anew.
LEMMA UnaskedKept ==
  ASSUME DecisionInv, ledger'.seen \in Nat,
         \/ ledger'.cont.node[1] # "prepare"
         \/ ledger'.cont = ledger.cont /\ ledger.seen <= ledger'.seen
  PROVE  Unasked
<1> SUFFICES ASSUME NEW o \in Fresh, ledger'.cont = ledger.cont, ledger.seen <= ledger'.seen,
                    ledger'.cont.node[1] = "prepare", ledger.occ[o].asked = <<ledger'.cont, ledger'.seen>>
             PROVE  FALSE
  BY DEF Unasked
<1>1. AskedInv(o) /\ ledger.seen \in Nat
  BY DEF DecisionInv, SeenInv
<1>2. ledger.occ[o].asked[2] = ledger'.seen /\ ledger.occ[o].asked # <<ledger.cont, ledger.seen>>
  BY <1>1 DEF AskedInv
<1> QED BY <1>1, <1>2 DEF AskedInv

\* A save that changes neither the history, nor the request, nor what was received.
SameRequest ==
  /\ ledger'.request = ledger.request /\ ledger'.seen = ledger.seen
  /\ UNCHANGED <<got, at>>
  /\ step'["learning"] # "received" \/ step["learning"] = "received"
  /\ step'["learning"] = "saved" /\ at["learning"] = At("receive_request") =>
       step["learning"] \in {"saved", "received"}

LEMMA SeenSame ==
  ASSUME SeenInv, SameRequest
  PROVE  SeenInv'
  BY DEF SeenInv, SameRequest, Underway

LEMMA CarriesSame ==
  ASSUME Inv, SeenInv, ledger'.request = ledger.request, ledger'.seen = ledger.seen, got' = got,
         ledger'.accepted = ledger.accepted
  PROVE  Carries
  BY DEF Carries, SeenInv, Inv, SeamInv, Underway

LEMMA RouteSame ==
  ASSUME RouteInv, ledger'.occ = ledger.occ, ledger'.accepted = ledger.accepted,
         ledger'.cont = ledger.cont \/ ledger'.cont.node[1] # "prepare",
         ledger'.pending = ledger.pending \/ ledger'.pending.kind # "learning_gate"
  PROVE  RouteInv'
  BY DEF RouteInv

\* A step that does not touch the ledger.
LEMMA DecisionsIdle ==
  ASSUME Inv, DecisionInv, ledger' = ledger, SeenInv', got' \in {got, got + 1}
  PROVE  DecisionInv'
<1>1. Carries
  BY DEF Carries, DecisionInv, SeenInv, Inv, SeamInv, Underway
<1>2. Unasked
  BY UnaskedKept DEF DecisionInv, SeenInv
<1>3. RouteInv'
  BY RouteSame DEF DecisionInv
<1> QED BY <1>1, <1>2, <1>3, DecisionsKept

LEMMA DecisionInit == Init => DecisionInv
<1> SUFFICES ASSUME Init PROVE DecisionInv
  OBVIOUS
<1> USE DEF Init, NewState
<1>1. /\ ledger.occ = <<>> /\ Len(ledger.occ) = 0 /\ ledger.request = NoRequest /\ ledger.seen = 0
      /\ ledger.pending = NoPending /\ ledger.cont.node = At("none") /\ got = 0
  OBVIOUS
<1>2. Fresh = {}
  BY <1>1 DEF Fresh
<1>3. SeenInv
  BY <1>1 DEF SeenInv, Underway
<1>4. RouteInv
  <2>1. At("none")[1] # "prepare" /\ NoPending.kind # "learning_gate"
    BY Heads DEF NoPending
  <2> QED BY <1>1, <2>1 DEF RouteInv
<1> QED BY <1>2, <1>3, <1>4 DEF DecisionInv

LEMMA LearningStep ==
  ASSUME Inv, NEW p \in Planes, NEW s, Goto(p, s)
  PROVE  step'["learning"] = IF p = "learning" THEN s ELSE step["learning"]
  BY GotoOne DEF Planes

\* Learning's plane goes on to another node.
LEMMA SeenMoves ==
  ASSUME Inv, SeenInv, ledger' = ledger, got' = got, step'["learning"] \notin {"received", "saved"},
         \/ at'["learning"] = at["learning"]
         \/ at["learning"][1] \in Busy /\ at["learning"] # At("receive_request") /\ at'["learning"] # At("receive_request")
  PROVE  SeenInv'
  BY DEF SeenInv, Underway

LEMMA SeenEmit ==
  ASSUME Inv, SeenInv, NEW p \in Planes, Emit(p)
  PROVE  SeenInv' /\ got' \in {got, got + 1} /\ ledger' = ledger
<1>1. step[p] = "saved" /\ ledger' = ledger /\ got \in Nat
      /\ got' = got + IF at[p] = At("receive_request") THEN 1 ELSE 0
  BY DEF Emit, Inv, SeamInv
<1>2. at'[p] = next[p] /\ \A q \in Planes \ {p} : at'[q] = at[q]
  BY DEF Emit, Inv, Planar
<1>3. step'[p] \in {"idle", "finished", "hold"}
  <2>1. Goto(p, IF next[p] \in {At("finished"), At("hold")} THEN next[p][1] ELSE "idle")
    BY DEF Emit
  <2>2. step'[p] = IF next[p] \in {At("finished"), At("hold")} THEN next[p][1] ELSE "idle"
    BY <2>1, GotoOne
  <2> QED BY <2>2, Heads
<1>4. \A q \in Planes \ {p} : step'[q] = step[q]
  BY GotoOne DEF Emit
<1>5. CASE p = "foreground"
  <2>1. at[p] # At("receive_request")
    BY <1>1, <1>5, Heads DEF Inv, ForegroundInv
  <2>2. got' = got /\ at'["learning"] = at["learning"] /\ step'["learning"] = step["learning"]
    BY <1>1, <1>2, <1>4, <1>5, <2>1 DEF Planes
  <2> QED BY <1>1, <2>2 DEF SeenInv, Underway
<1>6. CASE p = "learning"
  <2>1. \A x \in {"after_ack", "receive_request", "finished"} : At(x)[1] \notin Busy
    BY Heads DEF Busy
  <2>2. At("emit_ack")[1] \in Busy
    BY Heads DEF Busy
  <2>3. /\ at[p] \in Waiting \/ at[p][1] \in Busy
        /\ \/ at[p] = At("emit_ack") /\ next[p] = At("after_ack")
           \/ at[p] = At("after_ack") /\ next[p] \in {At("receive_request"), At("finished")}
           \/ at[p] # At("emit_ack") /\ at[p] # At("after_ack") /\ next[p][1] \in Busy
    BY <1>1, <1>6 DEF Inv, LearningInv
  <2>4. At("after_ack") # At("receive_request") /\ at[p] # At("finished")
    BY <1>1, <1>6, Heads DEF Inv, LearningInv
  <2>5. CASE at[p] = At("receive_request")
    <3>1. at'[p][1] \in Busy /\ got' = got + 1 /\ at'[p] # At("receive_request")
      BY <1>1, <1>2, <2>1, <2>2, <2>3, <2>4, <2>5
    <3> QED BY <1>1, <1>3, <1>6, <2>5, <3>1 DEF SeenInv, Underway
  <2>6. CASE at[p] # At("receive_request")
    <3>1. got' = got /\ ledger.seen <= got
      BY <1>1, <1>6, <2>6 DEF SeenInv
    <3>2. at'[p][1] \in Busy => at[p][1] \in Busy
      BY <1>2, <2>1, <2>3, <2>4, <2>6 DEF Waiting
    <3> QED BY <1>1, <1>3, <1>6, <3>1, <3>2 DEF SeenInv, Underway
  <2> QED BY <1>1, <2>5, <2>6
<1> QED BY <1>1, <1>5, <1>6 DEF Planes

\* A script that does not save.
LEMMA DecisionsUnsaved ==
  ASSUME Inv, DecisionInv, NEW p \in Planes,
         \/ Quiet(p) \/ Ended(p) \/ Emit(p) \/ Projects(p)
         \/ \E role : RunNative(p, role) \/ Rematerializes(p, role)
         \/ Redirect(p) \/ (p = "learning" /\ WriteCurrent)
  PROVE  DecisionInv'
<1>1. SeenInv
  BY DEF DecisionInv
<1>2. CASE Quiet(p)
  <2>1. ledger' = ledger /\ got' = got /\ at' = at
    BY <1>2 DEF Quiet, seams
  <2>2. step'["learning"] \notin {"received", "saved"} \/ step'["learning"] = step["learning"]
    BY <1>2, LearningStep DEF Quiet
  <2> QED BY <1>1, <2>1, <2>2, SeenSame, DecisionsIdle DEF SameRequest
<1>3. CASE Ended(p)
  <2>1. ledger' = ledger /\ got' = got /\ at' = at /\ Goto(p, "saved")
        /\ (p = "learning" => at[p] # At("receive_request"))
    BY <1>3 DEF Ended, Saved, seams
  <2>2. step'["learning"] = IF p = "learning" THEN "saved" ELSE step["learning"]
    BY <2>1, LearningStep
  <2> QED BY <1>1, <2>1, <2>2, SeenSame, DecisionsIdle DEF SameRequest
<1>4. CASE Emit(p)
  BY <1>1, <1>4, SeenEmit, DecisionsIdle
<1>5. CASE Projects(p)
  <2>1. ledger' = ledger /\ got' = got /\ at' = at
    BY <1>5 DEF Projects, WriteInput, WriteActive, WriteReady, seams
  <2>2. PICK s \in {"input", "active", "saved"} : Goto(p, s)
    BY <1>5 DEF Projects, WriteInput, WriteActive, WriteReady
  <2>3. at[p] # At("receive_request")
    <3>1. step[p] \in Preparing
      BY <1>5 DEF Projects, WriteInput, WriteActive, WriteReady, Preparing
    <3> QED BY <3>1, Prepares, Heads
  <2>4. step'["learning"] = IF p = "learning" THEN s ELSE step["learning"]
    BY <2>2, LearningStep
  <2> QED BY <1>1, <2>1, <2>3, <2>4, SeenSame, DecisionsIdle DEF SameRequest
<1>6. ASSUME NEW role, RunNative(p, role) PROVE DecisionInv'
  <2>1. ledger' = ledger /\ got' = got /\ step' = step /\ step[p] = "idle" /\ at[p] = Native(role)
    BY <1>6 DEF RunNative, seams
  <2>2. at[p][1] \in Busy /\ at[p] # At("receive_request")
    BY <2>1, Heads DEF Busy
  <2>3. PICK node : node[1] \in Busy /\ node # At("receive_request") /\ at' = [at EXCEPT ![p] = node]
    <3>1. \A outcome : Accept(role, outcome)[1] = "accept"
      BY AcceptHead
    <3>2. Replace(role)[1] = "replace" /\ At("receive_request")[1] = "receive_request"
      BY Heads
    <3>3. PICK node : /\ node = Replace(role) \/ \E outcome : node = Accept(role, outcome)
                      /\ at' = [at EXCEPT ![p] = node]
      BY <1>6 DEF RunNative
    <3>4. node[1] = "accept" \/ node[1] = "replace"
      BY <3>1, <3>2, <3>3
    <3>5. node[1] \in Busy /\ node # At("receive_request")
      BY <3>2, <3>4 DEF Busy
    <3> QED BY <3>3, <3>5
  <2>4. at'[p] = node /\ \A q \in Planes \ {p} : at'[q] = at[q]
    BY <2>3 DEF Inv, Planar
  <2>5. SeenInv'
    <3>1. CASE p = "learning"
      BY <1>1, <2>1, <2>2, <2>3, <2>4, <3>1, SeenMoves
    <3>2. CASE p = "foreground"
      <4>1. at'["learning"] = at["learning"]
        BY <2>4, <3>2 DEF Planes
      <4> QED BY <1>1, <2>1, <4>1 DEF SeenInv, Underway
    <3> QED BY <3>1, <3>2 DEF Planes
  <2> QED BY <2>1, <2>5, DecisionsIdle
<1>7. ASSUME NEW role, Rematerializes(p, role) PROVE DecisionInv'
  <2>1. ledger' = ledger /\ got' = got /\ at' = at /\ Goto(p, "reserved")
    BY <1>7 DEF Rematerializes, Keeping, seams
  <2>2. step'["learning"] = IF p = "learning" THEN "reserved" ELSE step["learning"]
    BY <2>1, LearningStep
  <2> QED BY <1>1, <2>1, <2>2, SeenSame, DecisionsIdle DEF SameRequest
<1>8. CASE Redirect(p)
  <2>1. ledger' = ledger /\ got' = got /\ Goto(p, "idle")
    BY <1>8 DEF Redirect, seams
  <2>2. at'["learning"] = at["learning"]
    <3>1. PICK node \in Targets(p) : at' = [at EXCEPT ![p] = node]
      BY <1>8 DEF Redirect
    <3>2. p = "learning" => node = at["learning"]
      BY <3>1 DEF Targets
    <3> QED BY <3>1, <3>2 DEF Inv, Planar, Planes
  <2>3. step'["learning"] = IF p = "learning" THEN "idle" ELSE step["learning"]
    BY <2>1, LearningStep
  <2>4. SeenInv'
    BY <1>1, <2>1, <2>2, <2>3 DEF SeenInv, Underway
  <2> QED BY <2>1, <2>4, DecisionsIdle
<1>9. CASE p = "learning" /\ WriteCurrent
  <2>1. ledger' = ledger /\ got' = got /\ at' = at /\ Goto(p, "saved") /\ step["learning"] = "received"
    BY <1>9 DEF WriteCurrent, seams
  <2>2. step'["learning"] = "saved"
    BY <1>9, <2>1, LearningStep
  <2> QED BY <1>1, <2>1, <2>2, SeenSame, DecisionsIdle DEF SameRequest
<1> QED BY <1>2, <1>3, <1>4, <1>5, <1>6, <1>7, <1>8, <1>9

\* A save that keeps the request: of a preparation, of a result, of a decision.
LEMMA SeenSaved ==
  ASSUME Inv, SeenInv, NEW p \in Planes, ledger'.request = ledger.request, ledger'.seen = ledger.seen,
         UNCHANGED <<got, at>>, NEW s \in {"intended", "reserved", "saved"}, Goto(p, s),
         p = "learning" => at[p] # At("receive_request")
  PROVE  SeenInv'
<1>1. step'["learning"] = IF p = "learning" THEN s ELSE step["learning"]
  BY LearningStep
<1> QED BY <1>1, SeenSame DEF SameRequest

LEMMA DecisionsIntend ==
  ASSUME Inv, DecisionInv, NEW p \in Planes, NEW role, Intends(p, role)
  PROVE  DecisionInv'
<1>1. /\ ledger'.occ = ledger.occ /\ ledger'.accepted = ledger.accepted /\ ledger'.cont = ledger.cont
      /\ ledger'.request = ledger.request /\ ledger'.seen = ledger.seen /\ ledger'.pending = ledger.pending
  BY IntendedEffect DEF Intends, Inv, LedgerInv
<1>2. SeenInv /\ RouteInv /\ got' = got /\ at' = at /\ Goto(p, "intended") /\ at[p] # At("receive_request")
  BY Heads DEF Intends, Keeping, seams, DecisionInv
<1>3. SeenInv'
  BY <1>1, <1>2, SeenSaved
<1>4. Carries /\ RouteInv'
  BY <1>1, <1>2, CarriesSame, RouteSame
<1>5. Unasked
  BY <1>1, <1>2, UnaskedKept DEF SeenInv
<1> QED BY <1>1, <1>3, <1>4, <1>5, DecisionsKept

LEMMA DecisionsFail ==
  ASSUME Inv, DecisionInv, GivesUp \/ Fails
  PROVE  DecisionInv'
<1>1. /\ \E route : route[1] # "prepare" /\ IsMarked(ledger', ledger, route)
      /\ ledger'.request = ledger.request
  <2>1. At("emit_ack")[1] # "prepare" /\ At("emit_request")[1] # "prepare"
    BY Heads
  <2> QED BY <2>1, GivesUpEffect, FailsEffect
<1>2. /\ ledger'.occ = ledger.occ /\ ledger'.accepted = ledger.accepted /\ ledger'.cont.node[1] # "prepare"
      /\ ledger'.seen = ledger.seen /\ ledger'.pending = ledger.pending
  BY <1>1 DEF IsMarked, Untouched
<1>3. SeenInv /\ RouteInv /\ got' = got /\ at' = at
  BY DEF GivesUp, Fails, Saved, seams, DecisionInv
<1>4. SeenInv'
  <2>1. \E p \in Planes : Goto(p, "saved") /\ (p = "learning" => at[p] # At("receive_request"))
    BY Heads DEF GivesUp, Fails, Saved, Planes
  <2> QED BY <1>1, <1>2, <1>3, <2>1, SeenSaved
<1>5. Carries /\ RouteInv'
  BY <1>1, <1>2, <1>3, CarriesSame, RouteSame
<1>6. Unasked
  BY <1>2, <1>3, UnaskedKept DEF SeenInv
<1> QED BY <1>2, <1>4, <1>5, <1>6, DecisionsKept

LEMMA DecisionsReplace ==
  ASSUME Inv, DecisionInv, NEW o, RecordReplacement(o)
  PROVE  DecisionInv'
<1>1. /\ Untouched(ledger', ledger) /\ ledger'.request = ledger.request
      /\ ledger'.pending = Pending("operator_replacement", ledger.occ[o].role, ledger.occ[o].lineage, o)
      /\ ledger'.cont.node = Replace(ledger.occ[o].role)
      /\ UNCHANGED <<held, files, source, at, step, next, seams, counts>>
  BY RecordReplacementEffect
<1>2. /\ ledger'.occ = ledger.occ /\ ledger'.accepted = ledger.accepted /\ ledger'.cont.node[1] # "prepare"
      /\ ledger'.seen = ledger.seen /\ ledger'.pending.kind # "learning_gate"
  BY <1>1, Heads DEF Untouched, Pending
<1>3. SeenInv /\ RouteInv /\ got' = got /\ at' = at /\ step' = step
  BY <1>1 DEF seams, DecisionInv
<1>4. SeenInv'
  BY <1>1, <1>2, <1>3, SeenSame DEF SameRequest
<1>5. Carries /\ RouteInv'
  BY <1>1, <1>2, <1>3, CarriesSame, RouteSame
<1>6. Unasked
  BY <1>2, <1>3, UnaskedKept DEF SeenInv
<1> QED BY <1>2, <1>4, <1>5, <1>6, DecisionsKept

\* The request is published while Learning waits.
LEMMA DecisionsAsk ==
  ASSUME Inv, DecisionInv, Asks
  PROVE  DecisionInv'
<1>1. IsMarked(ledger', ledger, At("accept_learning_ack")) /\ IsAsked(ledger'.request)
  BY AsksEffect
<1>2. /\ ledger'.occ = ledger.occ /\ ledger'.accepted = ledger.accepted /\ ledger'.cont.node[1] # "prepare"
      /\ ledger'.seen = ledger.seen /\ ledger'.pending = ledger.pending /\ ledger'.request.stage = "published"
  BY <1>1, Heads DEF IsMarked, Untouched, IsAsked
<1>3. SeenInv /\ RouteInv /\ got' = got /\ at' = at /\ Goto("foreground", "saved") /\ ledger.request = NoRequest
  BY DEF Asks, Saved, seams, DecisionInv
<1>4. step'["learning"] = step["learning"]
  BY <1>3, LearningStep DEF Planes
<1>5. ~LearningHas
  BY <1>3 DEF Inv, SeamInv
<1>6. /\ at["learning"][1] \notin Busy /\ step["learning"] # "received"
      /\ ~(step["learning"] = "saved" /\ at["learning"] = At("receive_request"))
  <2>1. At("receive_request") # At("emit_ack") /\ At("receive_request") # At("after_ack")
    BY Heads
  <2> QED BY <1>5, <2>1 DEF Inv, LearningInv, LearningHas, Holding
<1>7. ~Underway(ledger')
  BY <1>2 DEF Underway
<1>8. SeenInv'
  BY <1>2, <1>3, <1>4, <1>6, <1>7 DEF SeenInv, Underway
<1>9. Carries
  BY <1>2, <1>3, <1>7 DEF Carries, SeenInv, Inv, SeamInv
<1>10. RouteInv'
  BY <1>2, <1>3, RouteSame
<1>11. Unasked
  BY <1>2, <1>3, UnaskedKept DEF SeenInv
<1> QED BY <1>2, <1>8, <1>9, <1>10, <1>11, DecisionsKept

LEMMA DecisionsAcknowledge ==
  ASSUME Inv, DecisionInv, Acknowledges
  PROVE  DecisionInv'
<1>1. /\ IsMarked(ledger', ledger, ledger.cont.node) /\ ledger'.cont = ledger.cont
      /\ ledger'.request.stage = "ack_ready"
      /\ ledger'.request.core = ledger.request.core /\ ledger.request # NoRequest
  BY AcknowledgesEffect DEF IsStaged
<1>2. /\ ledger'.occ = ledger.occ /\ ledger'.accepted = ledger.accepted
      /\ ledger'.seen = ledger.seen /\ ledger'.pending = ledger.pending
  BY <1>1 DEF IsMarked, Untouched
<1>3. SeenInv /\ RouteInv /\ got' = got /\ at' = at /\ at["learning"] = At("emit_ack")
  BY DEF Acknowledges, Saved, seams, DecisionInv
<1>4. Underway(ledger)
  <2>1. at["learning"][1] \in Busy
    BY <1>3, Heads DEF Busy
  <2> QED BY <1>1, <1>3, <2>1 DEF SeenInv
<1>5. ledger'.request # NoRequest
  BY <1>1, AcknowledgesEffect DEF IsStaged
<1>6. SeenInv'
  BY <1>1, <1>2, <1>3, <1>4, <1>5 DEF SeenInv, Underway
<1>7. Carries
  BY <1>2, <1>3, <1>4 DEF Carries, SeenInv, Inv, SeamInv
<1>8. RouteInv'
  BY <1>1, <1>2, <1>3, RouteSame
<1>9. Unasked
  BY <1>1, <1>2, <1>3, UnaskedKept DEF SeenInv
<1> QED BY <1>2, <1>6, <1>7, <1>8, <1>9, DecisionsKept

\* A request is received under a number that is greater than every one received before.
LEMMA DecisionsGet ==
  ASSUME Inv, DecisionInv, Gets
  PROVE  DecisionInv'
<1> DEFINE n == got + 1
<1>1. /\ IsGot(ledger', ledger, n) /\ IsStaged(ledger'.request, ledger.request, "received")
      /\ ledger.request # NoRequest
  BY GetsEffect
<1>2. /\ ledger'.occ = ledger.occ /\ ledger'.accepted = ledger.accepted /\ ledger'.pending = ledger.pending
      /\ ledger'.seen = n /\ ledger'.request.core = n /\ ledger'.request # NoRequest
      /\ ledger'.request.stage = "received"
      /\ ledger'.cont = IF ledger.request.kind = "ASSESS"
                          THEN [node |-> Prepare("learning"), occ |-> ledger.request.pending.occ] ELSE ledger.cont
  BY <1>1 DEF IsGot, IsStaged
<1>3. /\ SeenInv /\ RouteInv /\ got' = got /\ at' = at /\ at["learning"] = At("receive_request")
      /\ ledger.request.core \in {0, n} /\ (ledger.request.stage = "published" => n = ledger.seen + 1)
      /\ got \in Nat /\ ledger.seen \in Nat
  BY DEF Gets, Keeping, seams, DecisionInv, Inv, SeamInv, SeenInv
<1>4. Underway(ledger')
  BY <1>2 DEF Underway
<1>5. SeenInv'
  BY <1>2, <1>3, <1>4 DEF SeenInv, Underway
<1>6. ledger.seen <= n /\ (ledger.seen < n \/ (Underway(ledger) /\ ledger.seen = n))
  BY <1>1, <1>3 DEF SeenInv
<1>7. Carries
  BY <1>2, <1>3, <1>6 DEF Carries
<1>8. CASE ledger.request.kind = "ASSESS"
  <2>1. /\ ledger.pending.kind = "learning_gate" /\ ledger.request.pending = ledger.pending
    BY <1>1, <1>8 DEF Inv, LedgerInv
  <2>2. ledger.pending.occ \in DOMAIN ledger.accepted
    BY <1>3, <2>1 DEF RouteInv
  <2>3. ledger'.cont.node = Prepare("learning") /\ ledger'.cont.occ = ledger.pending.occ
    BY <1>2, <1>8, <2>1
  <2>4. Len(ledger.occ) # 0
    <3>1. DOMAIN ledger.accepted \subseteq 1..Len(ledger.occ)
      BY DEF Inv, LedgerInv
    <3> QED BY <2>2, <3>1
  <2>5. RouteInv'
    BY <1>2, <1>3, <2>2, <2>3, <2>4 DEF RouteInv
  <2>6. Unasked
    <3> SUFFICES ASSUME NEW o \in Fresh, ledger.occ[o].asked = <<ledger'.cont, n>> PROVE FALSE
      BY <1>2 DEF Unasked
    <3>1. AskedInv(o)
      BY DEF DecisionInv
    <3>2. ledger.occ[o].asked[1].node = Prepare("learning") /\ ledger.occ[o].asked[2] = n
      BY <2>3
    <3>3. Prepare("learning")[1] = "prepare" /\ Prepare("learning")[2] = "learning"
      BY Heads
    <3>4. o # 1 /\ Prepare(ledger.occ[o].role) = Prepare("learning")
      BY <3>1, <3>2, <3>3 DEF AskedInv
    <3>5. ledger.occ[o].role = "learning"
      BY <3>3, <3>4, Heads
    <3> QED BY <1>3, <3>1, <3>2, <3>5 DEF AskedInv
  <2> QED BY <1>2, <1>5, <1>7, <2>5, <2>6, DecisionsKept
<1>9. CASE ledger.request.kind # "ASSESS"
  <2>1. ledger'.cont = ledger.cont
    BY <1>2, <1>9
  <2>2. RouteInv' /\ Unasked
    BY <1>2, <1>3, <1>6, <2>1, RouteSame, UnaskedKept
  <2> QED BY <1>2, <1>5, <1>7, <2>2, DecisionsKept
<1> QED BY <1>8, <1>9

\* An acknowledgement asks for its route once: what was asked before, was before it was received.
LEMMA DecisionsResume ==
  ASSUME Inv, DispatchInv, DecisionInv, Resumes
  PROVE  DecisionInv'
<1>1. /\ Untouched(ledger', ledger)
      /\ ledger'.request = NoRequest /\ ledger'.cont = [node |-> ledger'.ackRoute, occ |-> 0]
      /\ ledger'.ackRoute = (IF ledger.request.kind = "CLOSE" THEN At("finalize")
                                                              ELSE Prepare(ledger.pending.target))
      /\ \/ ledger'.pending = NoPending
         \/ ledger'.pending = Pending("review", "doublechecker", ledger.pending.lineage, ledger.pending.occ)
  BY ResumesEffect
<1>2. /\ ledger'.occ = ledger.occ /\ ledger'.accepted = ledger.accepted /\ ledger'.seen = ledger.seen
      /\ ledger'.cont.node = ledger'.ackRoute /\ ledger'.cont.occ = 0
      /\ ledger'.pending.kind # "learning_gate"
  BY <1>1 DEF Untouched, Pending, NoPending
<1>3. /\ SeenInv /\ RouteInv /\ got' = got /\ at' = at /\ Goto("foreground", "saved")
      /\ ledger.request # NoRequest /\ ledger.request.stage = "ack_ready"
      /\ (ledger.request.kind = "ASSESS" => ledger.pending.target \in {"updater", "troubleshooter"})
      /\ ledger.request.kind \in {"ASSESS", "CLOSE"}
  BY DEF Resumes, Saved, seams, DecisionInv, Inv, LedgerInv, IsRequest
<1>4. ~Underway(ledger') /\ Underway(ledger)
  BY <1>1, <1>3 DEF Underway
<1>5. SeenInv'
  BY <1>1, <1>2, <1>3, <1>4 DEF SeenInv
<1>6. Carries
  BY <1>2, <1>3, <1>4 DEF Carries, SeenInv, Inv, SeamInv
<1>7. CASE ledger.request.kind = "CLOSE"
  <2>1. ledger'.cont.node[1] # "prepare"
    BY <1>1, <1>2, <1>7, Heads
  <2>2. RouteInv' /\ Unasked
    BY <1>2, <1>3, <2>1, RouteSame, UnaskedKept DEF SeenInv
  <2> QED BY <1>2, <1>5, <1>6, <2>2, DecisionsKept
<1>8. CASE ledger.request.kind = "ASSESS"
  <2>1. ledger'.cont.node = Prepare(ledger.pending.target) /\ ledger.pending.target # "learning"
    BY <1>1, <1>2, <1>3, <1>8
  <2>2. ledger'.cont.node # Prepare("learning")
    BY <2>1, Heads
  <2>3. Len(ledger.occ) # 0
    <3>1. ledger.pending # NoPending
      BY <1>3, <1>8, Assessing
    <3> QED BY <3>1 DEF DispatchInv, OccInv
  <2>4. RouteInv'
    BY <1>2, <2>2, <2>3 DEF RouteInv
  <2>5. Unasked
    <3> SUFFICES ASSUME NEW o \in Fresh, ledger.occ[o].asked = <<ledger'.cont, ledger.seen>> PROVE FALSE
      BY <1>2 DEF Unasked
    <3>1. AskedInv(o)
      BY DEF DecisionInv
    <3>2. /\ ledger.occ[o].asked[1].node = Prepare(ledger.pending.target)
          /\ ledger.occ[o].asked[1].occ = 0 /\ ledger.occ[o].asked[2] = ledger.seen
      BY <1>2, <2>1
    <3>3. o # 1 /\ Prepare(ledger.occ[o].role) = Prepare(ledger.pending.target)
      BY <3>1, <3>2, Heads DEF AskedInv
    <3>4. ledger.occ[o].role # "learning"
      BY <2>1, <3>3, Heads
    <3> QED BY <1>4, <3>1, <3>2, <3>3, <3>4 DEF AskedInv
  <2> QED BY <1>2, <1>5, <1>6, <2>4, <2>5, DecisionsKept
<1> QED BY <1>3, <1>7, <1>8

\* A result names its own occurrence, which no reservation can have answered yet.
LEMMA DecisionsAccept ==
  ASSUME Inv, DispatchInv, DecisionInv, NEW p \in Planes, NEW o, NEW outcome, Accepts(p, o, outcome)
  PROVE  DecisionInv'
<1>1. PICK r \in Accepted(ledger, o, outcome, source) : Saved(p, r.ledger, r.route)
  BY DEF Accepts
<1>2. IsAcceptance(r, ledger, o)
  BY <1>1, AcceptedEffect DEF Inv, LedgerInv
<1>3. Results(r.ledger, ledger, o)
  BY <1>1, AcceptedResults DEF Inv, LedgerInv, DispatchInv, OccInv
<1>4. /\ ledger'.occ = ledger.occ /\ ledger'.accepted = With(ledger.accepted, o, r.route)
      /\ ledger'.cont = [node |-> r.route, occ |-> o] /\ ledger'.request = ledger.request
      /\ ledger'.seen = ledger.seen
  BY <1>1, <1>2 DEF IsAcceptance, Saved
<1>5. /\ SeenInv /\ RouteInv /\ got' = got /\ at' = at /\ Goto(p, "saved")
      /\ o \in 1..Len(ledger.occ) /\ o \notin DOMAIN ledger.accepted /\ at[p] # At("receive_request")
  BY <1>1, Heads DEF Accepts, Saved, seams, DecisionInv
<1>6. SeenInv'
  BY <1>4, <1>5, SeenSaved
<1>7. /\ DOMAIN ledger'.accepted = DOMAIN ledger.accepted \cup {o} /\ ledger'.accepted[o] = r.route
      /\ \A k \in DOMAIN ledger.accepted : ledger'.accepted[k] = ledger.accepted[k]
  BY <1>4, <1>5 DEF With
<1>8. Carries
  BY <1>4, <1>5, <1>7 DEF Carries, SeenInv, Inv, SeamInv, Underway
<1>9. ledger'.pending.kind = "learning_gate" => ledger'.pending.occ \in DOMAIN ledger.accepted \cup {o}
  <2>1. ledger' = r.ledger
    BY <1>1 DEF Saved
  <2>2. \A kind, target, lineage : Pending(kind, target, lineage, o).occ = o
    BY DEF Pending
  <2>3. ledger'.pending \in {ledger.pending, NoPending} \/ ledger'.pending.occ = o
    BY <1>3, <2>1, <2>2 DEF Results, IsPlain, IsReplan, IsCompletion, IsRemediation, PlainPending
  <2> QED BY <1>5, <2>3 DEF RouteInv, NoPending
<1>10. Len(ledger.occ) # 0
  BY <1>5 DEF Inv, LedgerInv
<1>11. RouteInv'
  BY <1>4, <1>7, <1>9, <1>10 DEF RouteInv
<1>12. Unasked
  <2> SUFFICES ASSUME NEW q \in Fresh, ledger'.cont.node[1] = "prepare",
                      ledger.occ[q].asked = <<ledger'.cont, ledger'.seen>>
               PROVE  FALSE
    BY DEF Unasked
  <2>1. AskedInv(q)
    BY DEF DecisionInv
  <2>2. ledger.occ[q].asked[1] = ledger'.cont /\ ledger'.cont.occ = o /\ o # 0
    BY <1>4, <1>5 DEF Inv, LedgerInv
  <2>3. q # 1
    BY <2>1, <2>2 DEF AskedInv
  <2> QED BY <1>5, <2>1, <2>2, <2>3 DEF AskedInv
<1> QED BY <1>4, <1>6, <1>8, <1>11, <1>12, DecisionsKept

\* A reservation answers the continuation, which is then its native role.
LEMMA DecisionsReserve ==
  ASSUME Inv, DispatchInv, DecisionInv, NEW p \in Planes, NEW role \in Roles, NEW replacement \in BOOLEAN,
         Reserves(p, role, replacement)
  PROVE  DecisionInv'
<1>0. PICK new : new = Len(ledger.occ) + 1
  OBVIOUS
<1>1. LedgerInv /\ IsLedger(ledger) /\ SeenInv /\ RouteInv
  BY DEF Inv, LedgerInv, DecisionInv
<1>2. IsReservation(ledger', ledger, role, replacement, source)
  BY <1>1, ReservedEffect DEF Reserves
<1>3. PICK e : ledger'.occ = Append(ledger.occ, e) /\ IsReserved(e, ledger, role, replacement, source)
  BY <1>2 DEF IsReservation
<1>4. /\ Len(ledger.occ) \in Nat /\ Len(ledger'.occ) = new /\ ledger'.occ[new] = e
      /\ \A o \in 1..Len(ledger.occ) : ledger'.occ[o] = ledger.occ[o]
  BY <1>0, <1>1, <1>3, AppendIsSeq DEF LedgerInv
<1>5. /\ e.role = role /\ e.asked = <<ledger.cont, ledger.seen>>
      /\ e.of = (IF replacement THEN Old(ledger, role) ELSE 0)
  BY <1>3 DEF IsReserved
<1>6. /\ ledger'.accepted = ledger.accepted /\ ledger'.request = ledger.request /\ ledger'.seen = ledger.seen
      /\ ledger'.cont = [node |-> Native(role), occ |-> new]
      /\ ledger'.pending = IF replacement /\ ledger.pending = NoPending
                             THEN Pending("replacement", role, ReservedFor(ledger, role, replacement), Old(ledger, role))
                             ELSE ledger.pending
  BY <1>0, <1>2 DEF IsReservation
<1>7. /\ got' = got /\ at' = at /\ Goto(p, "reserved") /\ Plane(role) = p
      /\ at[p] = IF replacement THEN Replace(role) ELSE Prepare(role)
  BY DEF Reserves, Keeping, seams
<1>8. SeenInv'
  <2>1. at[p] # At("receive_request")
    BY <1>7, Heads
  <2> QED BY <1>1, <1>6, <1>7, <2>1, SeenSaved
<1>9. ledger'.cont.node[1] # "prepare"
  BY <1>6, Heads
<1>10. RouteInv'
  <2>1. ledger'.pending = ledger.pending \/ ledger'.pending.kind # "learning_gate"
    BY <1>6 DEF Pending
  <2> QED BY <1>1, <1>6, <1>9, <2>1 DEF RouteInv
<1>11. Carries
  BY <1>1, <1>6, <1>7, CarriesSame
<1>12. Unasked
  BY <1>9 DEF Unasked
<1>13. \A o \in Fresh : AskedInv(o)'
  <2> SUFFICES ASSUME NEW o \in Fresh PROVE AskedInv(o)'
    OBVIOUS
  <2>1. ledger'.occ[o] = ledger.occ[o]
    BY <1>4 DEF Fresh
  <2> QED BY <1>8, <1>11, <1>12, <2>1, AskedKept
<1>14. CASE replacement
  <2>1. e.of # 0
    BY <1>5, <1>7, <1>14, ReplacementReserved
  <2>2. Fresh' = Fresh
    BY <1>0, <1>4, <2>1 DEF Fresh
  <2>3. \A o, q \in Fresh : o # q => ledger'.occ[o].asked # ledger'.occ[q].asked
    BY <1>4 DEF Fresh, DecisionInv
  <2> QED BY <1>8, <1>10, <1>13, <2>2, <2>3 DEF DecisionInv
<1>15. CASE ~replacement
  <2>1. Fresh' = Fresh \cup {new}
    BY <1>0, <1>4, <1>5, <1>15 DEF Fresh
  <2>2. Asked(ledger, role, FALSE, Greenfield)
    BY <1>15 DEF Reserves
  <2>3. new # 1 => ledger.cont.node = Prepare(role)
    <3>1. ledger.occ = <<>> => Len(ledger.occ) = 0
      OBVIOUS
    <3> QED BY <1>0, <1>4, <2>2, <3>1 DEF Asked
  <2>4. new = 1 => ledger.cont.node[1] # "prepare" /\ role # "learning"
    <3>1. new = 1 => ledger.cont.node[1] # "prepare"
      BY <1>0, <1>1, <1>4 DEF RouteInv
    <3>2. ledger.cont.node = Prepare(role) => ledger.cont.node[1] = "prepare"
      BY Heads
    <3> QED BY <2>2, <3>1, <3>2 DEF Asked
  <2>5. role # "learning" => ~Underway(ledger')
    BY <1>6, <1>7 DEF Reserves, Alone, Plane, Underway
  <2>6. role = "learning" => ledger.seen <= got
    <3>1. at[p] # At("receive_request")
      BY <1>7, Heads
    <3>2. role = "learning" => at["learning"] # At("receive_request")
      BY <1>7, <3>1 DEF Plane
    <3> QED BY <1>1, <3>2 DEF SeenInv, Inv, SeamInv
  <2>7. AskedInv(new)'
    <3> DEFINE c == ledger.cont
    <3>1. ledger'.occ[new].asked[1] = c /\ ledger'.occ[new].asked[2] = ledger.seen /\ ledger'.occ[new].role = role
      BY <1>4, <1>5
    <3>2. new # 1 /\ (c.occ # 0 \/ role = "learning") =>
            c.occ \in DOMAIN ledger.accepted /\ (role # "learning" => ledger.accepted[c.occ] = Prepare(role))
      <4>1. c.node = Prepare(role) => c.node[1] = "prepare" /\ (role # "learning" => c.node # Prepare("learning"))
        BY Heads
      <4> QED BY <1>1, <2>3, <4>1 DEF RouteInv
    <3>3. ledger.seen \in Nat
      BY <1>1 DEF SeenInv
    <3> HIDE DEF c
    <3>4. /\ ledger.seen \in Nat /\ ledger.seen <= ledger'.seen
          /\ IF new = 1 THEN c.node[1] # "prepare" ELSE c.node = Prepare(role)
          /\ new # 1 /\ (c.occ # 0 \/ role = "learning") =>
               c.occ \in DOMAIN ledger'.accepted /\ (role # "learning" => ledger'.accepted[c.occ] = Prepare(role))
          /\ role = "learning" => ledger.seen <= got'
      BY <1>6, <1>7, <2>3, <2>4, <2>6, <3>2, <3>3 DEF c
    <3>5. role # "learning" /\ Underway(ledger') => ledger.seen # ledger'.seen
      BY <2>5
    <3> QED BY <1>9, <3>1, <3>4, <3>5 DEF AskedInv, Underway
  <2>8. \A o \in Fresh : ledger'.occ[o].asked # ledger'.occ[new].asked
    <3> SUFFICES ASSUME NEW o \in Fresh, ledger.occ[o].asked = <<ledger.cont, ledger.seen>> PROVE FALSE
      BY <1>4, <1>5 DEF Fresh
    <3>1. AskedInv(o) /\ o \in 1..Len(ledger.occ)
      BY DEF DecisionInv, Fresh
    <3>2. new # 1
      BY <1>0, <1>4, <3>1
    <3>3. ledger.cont.node[1] = "prepare"
      BY <2>3, <3>2, Heads
    <3> QED BY <3>1, <3>3 DEF AskedInv
  <2>9. \A o, q \in Fresh : o # q => ledger'.occ[o].asked # ledger'.occ[q].asked
    BY <1>4 DEF Fresh, DecisionInv
  <2>10. \A o, q \in Fresh' : o # q => ledger'.occ[o].asked # ledger'.occ[q].asked
    BY <2>1, <2>8, <2>9
  <2>11. \A o \in Fresh' : AskedInv(o)'
    BY <1>13, <2>1, <2>7
  <2> QED BY <1>8, <1>10, <2>10, <2>11 DEF DecisionInv
<1> QED BY <1>14, <1>15

LEMMA DecisionStep ==
  ASSUME Inv, DispatchInv, DecisionInv, Next
  PROVE  DecisionInv'
<1>1. ASSUME NEW p \in Planes, ScriptEffect(p) PROVE DecisionInv'
  <2>1. ASSUME NEW role \in Roles,
               \/ RunNative(p, role) /\ Plane(role) = p
               \/ Rematerializes(p, role) \/ Intends(p, role)
               \/ \E replacement \in BOOLEAN : Reserves(p, role, replacement)
        PROVE  DecisionInv'
    BY <2>1, DecisionsUnsaved, DecisionsIntend, DecisionsReserve
  <2>2. ASSUME NEW o, NEW outcome, Accepts(p, o, outcome) PROVE DecisionInv'
    BY <2>2, DecisionsAccept
  <2> QED BY <1>1, <2>1, <2>2, DecisionsUnsaved DEF ScriptEffect, Projects
<1>2. ASSUME SeamEffect \/ Fails PROVE DecisionInv'
  BY <1>2, DecisionsFail, DecisionsAsk, DecisionsGet, DecisionsUnsaved, DecisionsAcknowledge, DecisionsResume
  DEF SeamEffect, Planes
<1>3. ASSUME NEW p \in Planes, Redirect(p) PROVE DecisionInv'
  BY <1>3, DecisionsUnsaved
<1> QED BY <1>1, <1>2, <1>3, DecisionsReplace, StepEffects

\* Every reservation but a replacement answers a decision that was made, the route of an
\* accepted result or of an acknowledgement, and no two answer the same one (prepare).
THEOREM DecisionsOnce == Spec => []EachDecisionOnce
<1>1. Inv /\ DispatchInv /\ DecisionInv /\ [Next]_vars => DecisionInv'
  <2>1. ASSUME DecisionInv, UNCHANGED vars PROVE DecisionInv'
    BY <2>1 DEF vars, seams, DecisionInv, SeenInv, RouteInv, AskedInv, Fresh, Underway
  <2> QED BY <2>1, DecisionStep
<1>2. Inv /\ DecisionInv => EachDecisionOnce
  <2> SUFFICES ASSUME Inv, DecisionInv PROVE EachDecisionOnce
    OBVIOUS
  <2>1. Fresh = {o \in DOMAIN ledger.occ : ledger.occ[o].of = 0}
    BY DEF Fresh, Inv, LedgerInv, IsSeq
  <2>2. ASSUME NEW o \in Fresh
        PROVE  LET c == ledger.occ[o].asked[1] IN
               /\ o > 1 /\ c.occ # 0 /\ ledger.occ[o].role # "learning" =>
                    c.occ \in DOMAIN ledger.accepted /\ ledger.accepted[c.occ] = Prepare(ledger.occ[o].role)
               /\ \A q \in Fresh \ {o} : ledger.occ[q].asked # ledger.occ[o].asked
    <3>1. AskedInv(o) /\ \A q \in Fresh \ {o} : ledger.occ[q].asked # ledger.occ[o].asked
      BY DEF DecisionInv
    <3> QED BY <3>1 DEF AskedInv
  <2> QED BY <2>1, <2>2 DEF EachDecisionOnce
<1> QED BY <1>1, <1>2, DecisionInit, TurnsKept, ReservationsKept, PTL DEF Spec

-----------------------------------------------------------------------------
\* The one remediation of a session, and the plan.
PlanInv ==
  /\ DOMAIN ledger.plan \subseteq DOMAIN Packets
  /\ \A n \in DOMAIN ledger.plan :
       ledger.plan[n] = [lineage |-> ledger.plan[n].lineage, accepted |-> ledger.plan[n].accepted]
  /\ Remediations(ledger) <= 1
  /\ ledger.pending.kind = "remediation" => Remediations(ledger) = 1

\* What an accepted packet is reopened for.
Reopens ==
  \A n \in DOMAIN ledger.plan :
    ledger.plan[n].accepted /\ ~ledger'.plan[n].accepted =>
      Used(ledger, <<"remediation">>) = 1 /\ ledger.pending.kind = "remediation"

LEMMA PlanSame ==
  ASSUME PlanInv, ledger'.plan = ledger.plan, Remediations(ledger') = Remediations(ledger),
         ledger'.pending = ledger.pending \/ ledger'.pending.kind # "remediation"
  PROVE  PlanInv' /\ Reopens
  BY DEF PlanInv, Reopens, Remediations, Used

LEMMA PlanPlain ==
  ASSUME PlanInv, NEW o, IsPlain(ledger', ledger, o)
  PROVE  PlanInv' /\ Reopens
<1>1. ledger'.plan = ledger.plan /\ Remediations(ledger') = Remediations(ledger)
  BY DEF IsPlain
<1>2. \A kind, target, lineage : Pending(kind, target, lineage, o).kind = kind
  BY DEF Pending
<1>3. ledger'.pending = ledger.pending \/ ledger'.pending.kind # "remediation"
  BY <1>2 DEF IsPlain, PlainPending, NoPending
<1> QED BY <1>1, <1>3, PlanSame

LEMMA PlanReplan ==
  ASSUME PlanInv, IsReplan(ledger', ledger)
  PROVE  PlanInv' /\ Reopens
<1> DEFINE P == ledger.plan
           Planned(affected) ==
             [n \in DOMAIN Packets |->
                [lineage |-> Packets[n], accepted |-> n \in DOMAIN P /\ P[n].accepted /\ n \notin affected]]
<1>1. PICK affected \in Reopened(ledger) : ledger'.plan = Planned(affected)
  BY DEF IsReplan
<1>2. DOMAIN ledger'.plan = DOMAIN Packets
  BY <1>1
<1>3. \A n \in DOMAIN Packets :
        ledger'.plan[n] = [lineage |-> Packets[n], accepted |-> n \in DOMAIN P /\ P[n].accepted /\ n \notin affected]
  BY <1>1
<1>4. \A n \in DOMAIN Packets : ledger'.plan[n] = [lineage |-> ledger'.plan[n].lineage, accepted |-> ledger'.plan[n].accepted]
  <2>1. \A n \in DOMAIN Packets : \E a : ledger'.plan[n] = [lineage |-> Packets[n], accepted |-> a]
    BY <1>3
  <2>2. ASSUME NEW n \in DOMAIN Packets
        PROVE  ledger'.plan[n] = [lineage |-> ledger'.plan[n].lineage, accepted |-> ledger'.plan[n].accepted]
    <3> DEFINE r == ledger'.plan[n]
    <3>1. PICK a : r = [lineage |-> Packets[n], accepted |-> a]
      BY <2>1
    <3> HIDE DEF r
    <3>2. r = [lineage |-> r.lineage, accepted |-> r.accepted]
      BY <3>1
    <3> QED BY <3>2 DEF r
  <2> QED BY <2>2
<1>5. ledger'.pending.kind # "remediation" /\ Remediations(ledger') = Remediations(ledger)
  BY DEF IsReplan, NoPending
<1>6. PlanInv'
  BY <1>2, <1>4, <1>5 DEF PlanInv, Remediations, Used
<1>7. Reopens
  <2> SUFFICES ASSUME NEW n \in DOMAIN P, P[n].accepted, ~ledger'.plan[n].accepted
               PROVE  Used(ledger, <<"remediation">>) = 1 /\ ledger.pending.kind = "remediation"
    BY DEF Reopens
  <2>1. n \in DOMAIN Packets
    BY DEF PlanInv
  <2>2. n \in affected
    <3> SUFFICES ASSUME n \notin affected PROVE FALSE
      OBVIOUS
    <3> DEFINE a == n \in DOMAIN P /\ P[n].accepted /\ n \notin affected
    <3>1. ledger'.plan[n] = [lineage |-> Packets[n], accepted |-> a]
      BY <1>3, <2>1
    <3>2. a = TRUE
      OBVIOUS
    <3> HIDE DEF a
    <3>3. ledger'.plan[n].accepted = TRUE
      BY <3>1, <3>2
    <3> QED BY <3>3
  <2>3. ledger.pending.kind = "remediation"
    BY <1>1, <2>2 DEF Reopened
  <2> QED BY <2>3 DEF PlanInv, Remediations
<1> QED BY <1>6, <1>7

LEMMA PacketAccepted ==
  ASSUME NEW l, NEW a, NEW b
  PROVE  [[lineage |-> l, accepted |-> a] EXCEPT !.accepted = b] = [lineage |-> l, accepted |-> b]
  OBVIOUS

LEMMA PlanCompletion ==
  ASSUME PlanInv, IsCompletion(ledger', ledger)
  PROVE  PlanInv' /\ Reopens
<1> DEFINE P == ledger.plan
           k == Cursor(ledger)
<1>1. /\ ledger'.plan = [P EXCEPT ![k].accepted = TRUE] /\ ledger'.pending = ledger.pending
      /\ Remediations(ledger') = Remediations(ledger)
  BY DEF IsCompletion
<1> HIDE DEF k
<1>2. DOMAIN ledger'.plan = DOMAIN P /\ \A n \in DOMAIN P \ {k} : ledger'.plan[n] = P[n]
  BY <1>1
<1>3. \A n \in DOMAIN P : P[n] = [lineage |-> P[n].lineage, accepted |-> P[n].accepted]
  BY DEF PlanInv
<1>4. k \in DOMAIN P => ledger'.plan[k] = [lineage |-> P[k].lineage, accepted |-> TRUE]
  <2> SUFFICES ASSUME k \in DOMAIN P PROVE ledger'.plan[k] = [lineage |-> P[k].lineage, accepted |-> TRUE]
    OBVIOUS
  <2> DEFINE r == P[k]
             l == P[k].lineage
             a == P[k].accepted
  <2>1. ledger'.plan[k] = [r EXCEPT !.accepted = TRUE]
    BY <1>1
  <2>2. r = [lineage |-> l, accepted |-> a]
    BY <1>3
  <2> HIDE DEF r, l, a
  <2>3. [r EXCEPT !.accepted = TRUE] = [lineage |-> l, accepted |-> TRUE]
    BY <2>2, PacketAccepted
  <2> QED BY <2>1, <2>3 DEF l
<1>5. \A n \in DOMAIN P : ledger'.plan[n] = [lineage |-> ledger'.plan[n].lineage, accepted |-> ledger'.plan[n].accepted]
  <2> SUFFICES ASSUME NEW n \in DOMAIN P
               PROVE  ledger'.plan[n] = [lineage |-> ledger'.plan[n].lineage, accepted |-> ledger'.plan[n].accepted]
    OBVIOUS
  <2>1. CASE n = k
    BY <1>4, <2>1
  <2>2. CASE n # k
    BY <1>2, <1>3, <2>2
  <2> QED BY <2>1, <2>2
<1>6. PlanInv'
  BY <1>1, <1>2, <1>5 DEF PlanInv, Remediations, Used
<1>7. Reopens
  <2> SUFFICES ASSUME NEW n \in DOMAIN P, P[n].accepted, ~ledger'.plan[n].accepted PROVE FALSE
    BY DEF Reopens
  <2>1. CASE n = k
    <3>1. ledger'.plan[n].accepted = TRUE
      BY <1>4, <2>1
    <3> QED BY <3>1
  <2>2. CASE n # k
    BY <1>2, <2>2
  <2> QED BY <2>1, <2>2
<1> QED BY <1>6, <1>7

LEMMA PlanRemediation ==
  ASSUME Caps["remediation"] = 1, PlanInv, NEW o, IsRemediation(ledger', ledger, o), Remediations(ledger) \in Nat
  PROVE  PlanInv' /\ Reopens
<1>1. ledger'.plan = ledger.plan /\ Remediations(ledger') = 1
  BY DEF IsRemediation
<1> QED BY <1>1 DEF PlanInv, Reopens, Remediations, Used

LEMMA PlanStep ==
  ASSUME Caps["remediation"] = 1, Inv, DispatchInv, PlanInv, Next
  PROVE  PlanInv' /\ Reopens
<1>1. IsLedger(ledger) /\ Remediations(ledger) \in Nat
  BY DEF Inv, LedgerInv, DispatchInv, OccInv
<1>2. ASSUME ledger' = ledger PROVE PlanInv' /\ Reopens
  BY <1>2, PlanSame
<1>3. ASSUME NEW p \in Planes, ScriptEffect(p) PROVE PlanInv' /\ Reopens
  <2>1. ASSUME Quiet(p) \/ Ended(p) \/ Emit(p) \/ WriteInput(p) \/ WriteActive(p) \/ WriteReady(p)
        PROVE  ledger' = ledger
    BY <2>1 DEF Quiet, Ended, Saved, Emit, WriteInput, WriteActive, WriteReady
  <2>2. ASSUME NEW role, RunNative(p, role) \/ Rematerializes(p, role) PROVE ledger' = ledger
    BY <2>2 DEF RunNative, Rematerializes
  <2>3. ASSUME NEW role, Intends(p, role) PROVE PlanInv' /\ Reopens
    <3>1. ledger'.plan = ledger.plan /\ ledger'.pending = ledger.pending
      BY <1>1, <2>3, IntendedEffect DEF Intends
    <3>2. ledger'.usage = ledger.usage
      BY <1>1, <2>3 DEF Intends, Intended, IsLedger
    <3> QED BY <3>1, <3>2, PlanSame DEF Remediations, Used
  <2>4. ASSUME NEW role \in Roles, NEW replacement \in BOOLEAN, Reserves(p, role, replacement)
        PROVE  PlanInv' /\ Reopens
    <3>1. IsReservation(ledger', ledger, role, replacement, source)
      BY <1>1, <2>4, ReservedEffect DEF Reserves
    <3>2. Remediations(ledger') = Remediations(ledger)
      BY <1>1, <2>4, ReservedRemediations DEF Reserves
    <3>3. ledger'.plan = ledger.plan /\ (ledger'.pending = ledger.pending \/ ledger'.pending.kind # "remediation")
      BY <3>1 DEF IsReservation, Pending
    <3> QED BY <3>2, <3>3, PlanSame
  <2>5. ASSUME NEW o, NEW outcome, Accepts(p, o, outcome) PROVE PlanInv' /\ Reopens
    <3>1. PICK r \in Accepted(ledger, o, outcome, source) : ledger' = r.ledger
      BY <2>5 DEF Accepts, Saved
    <3>2. Results(ledger', ledger, o)
      BY <1>1, <3>1, AcceptedResults
    <3> QED BY <1>1, <3>2, PlanPlain, PlanReplan, PlanCompletion, PlanRemediation DEF Results
  <2> QED BY <1>2, <1>3, <2>1, <2>2, <2>3, <2>4, <2>5 DEF ScriptEffect
<1>4. ASSUME SeamEffect \/ Fails PROVE PlanInv' /\ Reopens
  <2>1. ASSUME GivesUp \/ Asks \/ Acknowledges \/ Fails PROVE PlanInv' /\ Reopens
    <3>1. \E route : IsMarked(ledger', ledger, route)
      BY <2>1, GivesUpEffect, AsksEffect, AcknowledgesEffect, FailsEffect
    <3> QED BY <3>1, PlanSame DEF IsMarked, Remediations, Used
  <2>2. ASSUME Gets PROVE PlanInv' /\ Reopens
    <3>1. IsGot(ledger', ledger, got + 1)
      BY <2>2, GetsEffect
    <3> QED BY <3>1, PlanSame DEF IsGot, Remediations, Used
  <2>3. WriteCurrent => ledger' = ledger
    BY DEF WriteCurrent
  <2>4. ASSUME Resumes PROVE PlanInv' /\ Reopens
    <3>1. /\ ledger'.plan = ledger.plan /\ ledger'.usage = ledger.usage
          /\ ledger'.pending.kind # "remediation"
      BY <2>4, ResumesEffect DEF NoPending, Pending
    <3> QED BY <3>1, PlanSame DEF Remediations, Used
  <2> QED BY <1>2, <1>4, <2>1, <2>2, <2>3, <2>4 DEF SeamEffect
<1>5. ASSUME NEW p \in Planes, Redirect(p) PROVE ledger' = ledger
  BY <1>5 DEF Redirect
<1>6. ASSUME NEW o, RecordReplacement(o) PROVE PlanInv' /\ Reopens
  <2>1. /\ ledger'.plan = ledger.plan /\ ledger'.usage = ledger.usage
        /\ ledger'.pending = Pending("operator_replacement", ledger.occ[o].role, ledger.occ[o].lineage, o)
    BY <1>6, RecordReplacementEffect
  <2>2. ledger'.pending.kind # "remediation"
    BY <2>1 DEF Pending
  <2> QED BY <2>1, <2>2, PlanSame DEF Remediations, Used
<1> QED BY <1>2, <1>3, <1>4, <1>5, <1>6, StepEffects

\* A new plan (_plan) takes an accepted packet up again only in the one remediation of the
\* session; the hypothesis is the cap of lad_state.CAPS.
THEOREM ReopenedOnlyByRemediation ==
  ASSUME Caps["remediation"] = 1
  PROVE  Spec => ReopenedByRemediation
<1>1. Init => PlanInv
  BY DEF Init, NewState, PlanInv, Remediations, Used, NoPending
<1>2. Inv /\ DispatchInv /\ PlanInv /\ [Next]_vars => PlanInv'
  <2>1. ASSUME PlanInv, UNCHANGED vars PROVE PlanInv'
    BY <2>1 DEF vars, PlanInv, Remediations, Used
  <2> QED BY <2>1, PlanStep
<1>3. Inv /\ DispatchInv /\ PlanInv /\ [Next]_vars =>
        [\A n \in DOMAIN ledger.plan :
           ledger.plan[n].accepted /\ ~ledger'.plan[n].accepted =>
             /\ Used(ledger, <<"remediation">>) = 1
             /\ ledger.pending.kind = "remediation"]_vars
  BY PlanStep DEF Reopens
<1> QED BY <1>1, <1>2, <1>3, TurnsKept, ReservationsKept, PTL DEF Spec, ReopenedByRemediation

-----------------------------------------------------------------------------
\* What a result costs, and whether it asks for Learning: a role pays at most for one repair
\* of the plan, and only a review that completes a pair asks.
Spent(M, L) ==
  \/ M.usage = L.usage
  \/ \E k \in {<<"planning_repair">>, <<"remediation">>} : \E N \in Debit(L, {k}) : M.usage = N.usage
Calm(M, L) ==
  /\ IsLedger(M) /\ M.pairs = L.pairs /\ M.learned = L.learned
  /\ M.pending.kind = "learning_gate" => M.pending = L.pending
Free(M, L) == Calm(M, L) /\ M.usage = L.usage
Gated(r, L, o) ==
  LET c == L.occ[o]
      M == r.ledger IN
  /\ IsLedger(M) /\ M.usage = L.usage /\ M.learned = L.learned
  /\ M.pairs = L.pairs \cup {<<c.lineage, c.fixer>>}
  /\ IF Due(M, c.lineage)
       THEN r.route = At("emit_request")
            /\ \E target \in {"updater", "fixer", "troubleshooter"} :
                 M.pending = Pending("learning_gate", target, c.lineage, o)
       ELSE M.pending.kind = "learning_gate" => M.pending = L.pending
Learns(M, L, o) ==
  /\ IsLedger(M) /\ M.usage = L.usage /\ M.pairs = L.pairs /\ M.pending = L.pending
  /\ M.learned = L.learned \cup {L.occ[o].lineage}
Answers(r, L, o) ==
  \/ Spent(r.ledger, L) /\ Calm(r.ledger, L)
  \/ L.occ[o].role = "doublechecker" /\ Gated(r, L, o)
  \/ L.occ[o].role = "learning" /\ Learns(r.ledger, L, o)

LEMMA FreeFields ==
  ASSUME NEW L, IsLedger(L), NEW x
  PROVE  /\ Free(L, L) /\ Free([L EXCEPT !.plan = x], L)
         /\ Free([L EXCEPT !.baselines = x], L) /\ Free([L EXCEPT !.reviews = x], L)
         /\ Free([L EXCEPT !.fixers = x], L) /\ Free([L EXCEPT !.terminal = x], L)
  BY DEF Free, Calm, IsLedger

LEMMA FreePending ==
  ASSUME NEW L, IsLedger(L), NEW x, x.kind # "learning_gate"
  PROVE  Free([L EXCEPT !.pending = x], L)
  BY DEF Free, Calm, IsLedger

LEMMA FreeOn ==
  ASSUME NEW L, NEW M, NEW N, Free(M, L), Free(N, M)
  PROVE  Free(N, L)
  BY DEF Free, Calm

LEMMA NoGate ==
  ASSUME NEW kind, NEW target, NEW lineage, NEW o
  PROVE  /\ Pending(kind, target, lineage, o).kind = kind
         /\ Pending(kind, target, lineage, o).target = target
         /\ Pending(kind, target, lineage, o).lineage = lineage
         /\ Pending(kind, target, lineage, o).occ = o
         /\ Pending(kind, target, lineage, o) # NoPending
         /\ NoPending.kind = "none"
  BY DEF Pending, NoPending

LEMMA FreeIsCalm ==
  ASSUME NEW L, NEW M, Free(M, L)
  PROVE  Spent(M, L) /\ Calm(M, L)
  BY DEF Free, Spent

LEMMA RecoverFree ==
  ASSUME NEW L, IsLedger(L), NEW o, NEW r \in Recover(L, o, "execution")
  PROVE  Free(r.ledger, L)
<1> DEFINE c == L.occ[o]
           x == Pending("execution", c.role, c.lineage, o)
           M == [L EXCEPT !.pending = x]
<1>1. r.ledger = L \/ r.ledger = M
  BY ToIs DEF Recover
<1>2. x.kind # "learning_gate"
  BY NoGate
<1> HIDE DEF x
<1>3. Free(M, L)
  BY <1>2, FreePending
<1> HIDE DEF M
<1> QED BY <1>1, <1>3, FreeFields

LEMMA ConsultFree ==
  ASSUME NEW L, IsLedger(L), NEW o, NEW r \in Consult(L, o)
  PROVE  Free(r.ledger, L)
<1> DEFINE c == L.occ[o]
           x == Pending("contract", c.role, c.lineage, o)
           M == [L EXCEPT !.pending = x]
<1>1. r.ledger = L \/ r.ledger = M
  BY ToIs DEF Consult
<1>2. x.kind # "learning_gate"
  BY NoGate
<1> HIDE DEF x
<1>3. Free(M, L)
  BY <1>2, FreePending
<1> HIDE DEF M
<1> QED BY <1>1, <1>3, FreeFields

LEMMA PlanFree ==
  ASSUME NEW L, IsLedger(L), NEW r \in Plan(L)
  PROVE  Free(r.ledger, L)
<1> DEFINE Planned(affected) ==
             [n \in DOMAIN Packets |->
                [lineage |-> Packets[n],
                 accepted |-> n \in DOMAIN L.plan /\ L.plan[n].accepted /\ n \notin affected]]
<1>a. PICK a \in Reopened(L) : r \in Onward([L EXCEPT !.plan = Planned(a), !.pending = NoPending])
  BY DEF Plan
<1> DEFINE x == Planned(a)
<1>1. r.ledger = [L EXCEPT !.plan = x, !.pending = NoPending]
  BY <1>a, ToIs DEF Onward
<1> HIDE DEF x
<1> DEFINE M == [L EXCEPT !.plan = x]
           N == [M EXCEPT !.pending = NoPending]
<1>2. r.ledger = N
  BY <1>1
<1>3. Free(M, L)
  BY FreeFields
<1>4. IsLedger(M)
  BY <1>3 DEF Free, Calm
<1>5. Free(N, M)
  BY <1>4, NoGate, FreePending
<1> HIDE DEF M, N
<1> QED BY <1>2, <1>3, <1>5, FreeOn

LEMMA ReviewFree ==
  ASSUME NEW L, IsLedger(L), NEW o, NEW passed, NEW version
  PROVE  Free(Review(L, o, passed, version), L) /\ Review(L, o, passed, version).occ = L.occ
<1> DEFINE c == L.occ[o]
           base == [L EXCEPT !.baselines = @ \cup {c.lineage}]
           clear == [base EXCEPT !.pending = NoPending]
           checked == IF c.role = "checker"
                        THEN [L EXCEPT !.baselines = @ \cup {c.lineage}, !.pending = NoPending]
                        ELSE L
<1>1. Free(base, L) /\ Free(L, L) /\ base.occ = L.occ
  BY FreeFields DEF IsLedger
<1>2. IsLedger(base)
  BY <1>1 DEF Free, Calm
<1>3. Free(clear, base) /\ clear.occ = base.occ
  BY <1>2, NoGate, FreePending DEF IsLedger
<1>4. Free(clear, L) /\ clear.occ = L.occ
  <2> HIDE DEF clear, base
  <2> QED BY <1>1, <1>3, FreeOn
<1>5. checked = clear \/ checked = L
  OBVIOUS
<1>6. Free(checked, L) /\ checked.occ = L.occ
  <2> HIDE DEF checked, clear
  <2> QED BY <1>1, <1>4, <1>5
<1>7. Review(L, o, passed, version) \in
        {[checked EXCEPT !.reviews = With(checked.reviews, c.lineage, version)],
         [checked EXCEPT !.reviews = Without(checked.reviews, c.lineage)]}
  BY DEF Review
<1> HIDE DEF checked
<1>8. IsLedger(checked)
  BY <1>6 DEF Free, Calm
<1>9. \A x : Free([checked EXCEPT !.reviews = x], checked) /\ [checked EXCEPT !.reviews = x].occ = checked.occ
  BY <1>8, FreeFields DEF IsLedger
<1>10. Free(Review(L, o, passed, version), checked) /\ Review(L, o, passed, version).occ = checked.occ
  BY <1>7, <1>9
<1> QED BY <1>6, <1>10, FreeOn

LEMMA GateGated ==
  ASSUME NEW L, IsLedger(L), NEW o, NEW passed, NEW r \in Gate(L, o, passed)
  PROVE  (Free(r.ledger, L) \/ Gated(r, L, o))
<1> DEFINE c == L.occ[o]
           M == [L EXCEPT !.pairs = @ \cup {<<c.lineage, c.fixer>>}]
           paired == Cardinality({p \in M.pairs : p[1] = c.lineage})
           target == IF passed THEN "updater" ELSE IF paired < 2 THEN "fixer" ELSE "troubleshooter"
           review == Pending("review", c.role, c.lineage, o)
           gate == Pending("learning_gate", target, c.lineage, o)
           N == IF target = "troubleshooter" THEN [M EXCEPT !.pending = review] ELSE M
           G == [N EXCEPT !.pending = gate]
<1>a. \/ r \in To(Prepare(IF passed THEN "updater" ELSE "fixer"), L)
      \/ Due(M, c.lineage) /\ r \in To(At("emit_request"), G)
      \/ ~Due(M, c.lineage) /\ r \in To(Prepare(target), N)
  <2>1. CASE c.fixer = 0
    BY <2>1 DEF Gate
  <2>2. CASE c.fixer # 0 /\ c.fixer \notin DOMAIN L.accepted
    BY <2>2 DEF Gate
  <2>3. CASE c.fixer # 0 /\ c.fixer \in DOMAIN L.accepted /\ Due(M, c.lineage)
    BY <2>3 DEF Gate
  <2>4. CASE c.fixer # 0 /\ c.fixer \in DOMAIN L.accepted /\ ~Due(M, c.lineage)
    BY <2>4 DEF Gate
  <2> QED BY <2>1, <2>2, <2>3, <2>4
<1>1. \/ r.ledger = L
      \/ Due(M, c.lineage) /\ r.route = At("emit_request") /\ r.ledger = G
      \/ ~Due(M, c.lineage) /\ r.ledger = N
  <2> HIDE DEF M, N, G, target
  <2>1. CASE r \in To(Prepare(IF passed THEN "updater" ELSE "fixer"), L)
    <3> DEFINE route == Prepare(IF passed THEN "updater" ELSE "fixer")
    <3>1. r \in To(route, L)
      BY <2>1
    <3> HIDE DEF route
    <3> QED BY <3>1, ToIs
  <2>2. CASE Due(M, c.lineage) /\ r \in To(At("emit_request"), G)
    BY <2>2 DEF To
  <2>3. CASE ~Due(M, c.lineage) /\ r \in To(Prepare(target), N)
    BY <2>3, ToIs
  <2> QED BY <1>a, <2>1, <2>2, <2>3
<1>2. target \in {"updater", "fixer", "troubleshooter"}
  OBVIOUS
<1>3. gate = Pending("learning_gate", target, c.lineage, o) /\ review.kind # "learning_gate"
  BY NoGate
<1> HIDE DEF target, gate, review
<1>4. /\ IsLedger(M) /\ M.usage = L.usage /\ M.learned = L.learned /\ M.pending = L.pending
      /\ M.pairs = L.pairs \cup {<<c.lineage, c.fixer>>}
  BY DEF IsLedger
<1> HIDE DEF M
<1>5. [M EXCEPT !.pending = review].pending = review /\ IsLedger([M EXCEPT !.pending = review])
      /\ [M EXCEPT !.pending = review].usage = M.usage /\ [M EXCEPT !.pending = review].learned = M.learned
      /\ [M EXCEPT !.pending = review].pairs = M.pairs
  BY <1>4 DEF IsLedger
<1>6. /\ IsLedger(N) /\ N.usage = L.usage /\ N.learned = L.learned /\ N.pairs = M.pairs
      /\ N.pending.kind = "learning_gate" => N.pending = L.pending
  BY <1>3, <1>4, <1>5
<1> HIDE DEF N
<1>7. /\ IsLedger(G) /\ G.usage = N.usage /\ G.learned = N.learned /\ G.pairs = N.pairs /\ G.pending = gate
  BY <1>6 DEF IsLedger
<1> HIDE DEF G
<1>8. CASE r.ledger = L
  BY <1>8, FreeFields
<1>9. CASE Due(M, c.lineage) /\ r.route = At("emit_request") /\ r.ledger = G
  <2>1. Due(G, c.lineage)
    BY <1>4, <1>6, <1>7, <1>9 DEF Due
  <2> QED BY <1>2, <1>3, <1>4, <1>6, <1>7, <1>9, <2>1 DEF Gated
<1>10. CASE ~Due(M, c.lineage) /\ r.ledger = N
  <2>1. ~Due(N, c.lineage)
    BY <1>4, <1>6, <1>10 DEF Due
  <2> QED BY <1>4, <1>6, <1>10, <2>1 DEF Gated
<1> QED BY <1>1, <1>8, <1>9, <1>10

LEMMA GatedOn ==
  ASSUME NEW L, NEW M, NEW o, NEW r, Free(M, L), M.occ = L.occ, Gated(r, M, o)
  PROVE  Gated(r, L, o)
<1> DEFINE K == r.ledger
           c == L.occ[o]
<1>1. /\ IsLedger(K) /\ K.usage = L.usage /\ K.learned = L.learned
      /\ K.pairs = L.pairs \cup {<<c.lineage, c.fixer>>}
  BY DEF Free, Calm, Gated
<1>2. ASSUME Due(K, c.lineage)
      PROVE  r.route = At("emit_request")
             /\ \E target \in {"updater", "fixer", "troubleshooter"} :
                  K.pending = Pending("learning_gate", target, c.lineage, o)
  BY <1>2 DEF Gated
<1>3. ASSUME ~Due(K, c.lineage) PROVE K.pending.kind = "learning_gate" => K.pending = L.pending
  BY <1>3 DEF Gated, Free, Calm
<1> QED BY <1>1, <1>2, <1>3 DEF Gated

LEMMA UpdatedFree ==
  ASSUME NEW L, IsLedger(L), NEW o, NEW outcome, NEW version, NEW r \in Updated(L, o, outcome, version)
  PROVE  Free(r.ledger, L)
<1> DEFINE c == L.occ[o]
           x == Pending("new_baseline", "checker", c.lineage, o)
           y == [L.plan EXCEPT ![Cursor(L)].accepted = TRUE]
           unreviewed == [L EXCEPT !.reviews = Without(@, c.lineage)]
           baseless == [unreviewed EXCEPT !.pending = x]
           done == [L EXCEPT !.plan = y]
<1>1. r.ledger \in {baseless, unreviewed, [L EXCEPT !.plan[Cursor(L)].accepted = TRUE]}
  BY ToIs DEF Updated, Onward
<1>2. [L EXCEPT !.plan[Cursor(L)].accepted = TRUE] = done
  BY DEF IsLedger
<1>3. x.kind # "learning_gate"
  BY NoGate
<1> HIDE DEF x, y
<1>4. Free(unreviewed, L) /\ Free(done, L)
  BY FreeFields
<1>5. IsLedger(unreviewed)
  BY <1>4 DEF Free, Calm
<1>6. Free(baseless, unreviewed)
  <2> HIDE DEF unreviewed
  <2> QED BY <1>3, <1>5, FreePending
<1> HIDE DEF unreviewed, baseless, done
<1>7. Free(baseless, L)
  BY <1>4, <1>6, FreeOn
<1> QED BY <1>1, <1>2, <1>4, <1>7

LEMMA DebitCalm ==
  ASSUME NEW L, IsLedger(L), NEW keys, NEW M \in Debit(L, keys)
  PROVE  Calm(M, L) /\ M.pending = L.pending
<1>1. PICK u : M = [L EXCEPT !.usage = u]
  <2> DEFINE u == [k \in DOMAIN L.usage \cup keys |-> Used(L, k) + IF k \in keys THEN 1 ELSE 0]
  <2>1. M = [L EXCEPT !.usage = u]
    BY DEF Debit
  <2> HIDE DEF u
  <2> QED BY <2>1
<1> QED BY <1>1 DEF Calm, IsLedger

LEMMA VerdictSpends ==
  ASSUME NEW L, IsLedger(L), NEW o, NEW outcome, NEW r \in Verdict(L, o, outcome)
  PROVE  Spent(r.ledger, L) /\ Calm(r.ledger, L)
<1>1. CASE outcome = "PASS"
  <2> DEFINE M == [L EXCEPT !.terminal = "succeeded"]
             N == [M EXCEPT !.pending = NoPending]
  <2>1. r.ledger = N
    BY <1>1, ToIs DEF Verdict
  <2>2. Free(M, L)
    BY FreeFields
  <2>3. IsLedger(M)
    BY <2>2 DEF Free, Calm
  <2>4. Free(N, M)
    BY <2>3, NoGate, FreePending
  <2> HIDE DEF M, N
  <2> QED BY <2>1, <2>2, <2>4, FreeOn, FreeIsCalm
<1>2. CASE outcome # "PASS"
  <2> DEFINE x == Pending("remediation", "manager", "unpacketized", o)
  <2>1. PICK M \in Debit(L, {<<"remediation">>}) : r \in To(Prepare("manager"), [M EXCEPT !.pending = x])
    BY <1>2 DEF Verdict
  <2>2. r.ledger = [M EXCEPT !.pending = x]
    BY <2>1, ToIs
  <2>3. x.kind # "learning_gate"
    BY NoGate
  <2> HIDE DEF x
  <2>4. Calm(M, L)
    BY <2>1, DebitCalm
  <2> DEFINE N == [M EXCEPT !.pending = x]
  <2>5. Free(N, M)
    BY <2>3, <2>4, FreePending DEF Calm
  <2> HIDE DEF N
  <2>6. Calm(N, L) /\ N.usage = M.usage
    BY <2>4, <2>5 DEF Calm, Free
  <2>7. Spent(N, L)
    BY <2>1, <2>6 DEF Spent
  <2> QED BY <2>2, <2>6, <2>7 DEF N
<1> QED BY <1>1, <1>2

LEMMA ChosenAnswers ==
  ASSUME NEW L, IsLedger(L), NEW o, NEW outcome, NEW version, NEW r \in Chosen(L, o, outcome, version)
  PROVE  Answers(r, L, o)
<1> DEFINE c == L.occ[o]
           passed == outcome = "PASS"
           fixed == [L EXCEPT !.fixers = With(@, c.lineage, o)]
           reviewed == Review(L, o, passed, version)
<1>1. Free(L, L) /\ Free(fixed, L)
  BY FreeFields
<1>2. Free(reviewed, L) /\ reviewed.occ = L.occ
  BY ReviewFree
<1>3. \/ r.ledger \in {L, fixed, reviewed}
      \/ r \in Consult(L, o) \/ r \in Plan(L)
      \/ c.role = "doublechecker" /\ r \in Gate(reviewed, o, passed)
      \/ r \in Updated(L, o, outcome, version)
      \/ r \in Recover(L, o, "execution")
      \/ r.ledger \in Debit(L, {<<"planning_repair">>})
      \/ r \in Verdict(L, o, outcome)
  BY ToIs DEF Chosen, Repaired
<1> HIDE DEF fixed, reviewed, passed
<1>4. ASSUME c.role = "doublechecker", r \in Gate(reviewed, o, passed) PROVE Free(r.ledger, L) \/ Gated(r, L, o)
  <2>1. IsLedger(reviewed)
    BY <1>2 DEF Free, Calm
  <2>2. Free(r.ledger, reviewed) \/ Gated(r, reviewed, o)
    BY <1>4, <2>1, GateGated
  <2> QED BY <1>2, <2>2, FreeOn, GatedOn
<1>5. ASSUME r.ledger \in Debit(L, {<<"planning_repair">>}) PROVE Spent(r.ledger, L) /\ Calm(r.ledger, L)
  BY <1>5, DebitCalm DEF Spent
<1>6. ASSUME r \in Consult(L, o) \/ r \in Recover(L, o, "execution") \/ r \in Plan(L)
             \/ r \in Updated(L, o, outcome, version) \/ r.ledger \in {L, fixed, reviewed}
      PROVE  Free(r.ledger, L)
  BY <1>1, <1>2, <1>6, ConsultFree, RecoverFree, PlanFree, UpdatedFree
<1>7. ASSUME r \in Verdict(L, o, outcome) PROVE Spent(r.ledger, L) /\ Calm(r.ledger, L)
  BY <1>7, VerdictSpends
<1> QED BY <1>3, <1>4, <1>5, <1>6, <1>7, FreeIsCalm DEF Answers

LEMMA ChooseAnswers ==
  ASSUME NEW L, IsLedger(L), NEW o, NEW outcome, NEW version, NEW r \in Choose(L, o, outcome, version)
  PROVE  Answers(r, L, o)
<1> DEFINE c == L.occ[o]
           x == Pending("human", c.role, c.lineage, o)
           human == [L EXCEPT !.pending = x]
           learnt == [L EXCEPT !.learned = @ \cup {c.lineage}]
<1>1. x.kind # "learning_gate"
  BY NoGate
<1>2. Free(L, L) /\ Free(human, L)
  <2> HIDE DEF x
  <2> QED BY <1>1, FreePending, FreeFields
<1>3. Learns(learnt, L, o)
  BY DEF Learns, IsLedger
<1>4. \/ r.ledger \in {L, human}
      \/ c.role = "learning" /\ r.ledger = learnt
      \/ r \in Recover(L, o, "execution")
      \/ r \in Chosen(L, o, outcome, version)
  BY ToIs DEF Choose, Learnt
<1> HIDE DEF human, learnt
<1>5. ASSUME r.ledger \in {L, human} \/ r \in Recover(L, o, "execution") PROVE Answers(r, L, o)
  BY <1>2, <1>5, RecoverFree, FreeIsCalm DEF Answers
<1>6. ASSUME c.role = "learning", r.ledger = learnt PROVE Answers(r, L, o)
  BY <1>3, <1>6 DEF Answers
<1> QED BY <1>4, <1>5, <1>6, ChosenAnswers

LEMMA AcceptedAnswers ==
  ASSUME NEW L, IsLedger(L), NEW o, NEW outcome, NEW version, NEW r \in Accepted(L, o, outcome, version)
  PROVE  Answers(r, L, o)
<1>1. PICK s \in Choose(L, o, outcome, version) :
        r = [route |-> s.route,
             ledger |-> Mark([s.ledger EXCEPT !.accepted = With(@, o, s.route)], s.route, o)]
  BY DEF Accepted
<1> DEFINE N == s.ledger
           A == [N EXCEPT !.accepted = With(N.accepted, o, s.route)]
<1>2. Answers(s, L, o)
  BY <1>1, ChooseAnswers
<1>3. IsLedger(N)
  BY <1>2 DEF Answers, Calm, Gated, Learns
<1>4. r.ledger = [A EXCEPT !.cont = [node |-> s.route, occ |-> o]] /\ r.route = s.route
  BY <1>1 DEF Mark
<1> HIDE DEF N
<1>5. IsLedger(A) /\ A.usage = N.usage /\ A.pending = N.pending /\ A.pairs = N.pairs /\ A.learned = N.learned
  BY <1>3 DEF IsLedger
<1> HIDE DEF A
<1> DEFINE M == r.ledger
<1>6. IsLedger(M) /\ M.usage = N.usage /\ M.pending = N.pending /\ M.pairs = N.pairs /\ M.learned = N.learned
  BY <1>4, <1>5 DEF IsLedger
<1> HIDE DEF M
<1>7. CASE Spent(N, L) /\ Calm(N, L)
  <2>1. Spent(M, L) /\ Calm(M, L)
    BY <1>6, <1>7 DEF Spent, Calm
  <2> QED BY <2>1 DEF Answers, M
<1>8. CASE L.occ[o].role = "doublechecker" /\ Gated(s, L, o)
  <2> DEFINE l == L.occ[o].lineage
  <2>1. Due(M, l) <=> Due(N, l)
    BY <1>6 DEF Due
  <2>2. Gated(r, L, o)
    BY <1>4, <1>6, <1>8, <2>1 DEF Gated, M, N
  <2> QED BY <1>8, <2>2 DEF Answers
<1>9. CASE L.occ[o].role = "learning" /\ Learns(N, L, o)
  BY <1>6, <1>9 DEF Answers, Learns, M
<1> QED BY <1>2, <1>7, <1>8, <1>9 DEF Answers, N

-----------------------------------------------------------------------------
\* LearningGate: from the second evaluated repair of a packet to Learning's disposal of it,
\* the foreground's occurrence is accepted and nothing asks for another.
GateInv ==
  LET P == ledger.pending IN
  P.kind = "learning_gate" =>
    /\ ledger.active["foreground"] \in DOMAIN ledger.accepted
    /\ P.target \in {"updater", "fixer", "troubleshooter"}
    /\ ledger.occ[P.occ].role = "doublechecker"
    /\ ledger.request = NoRequest => ledger.cont.node = At("emit_request")
AckInv ==
  ledger.request # NoRequest /\ ledger.request.kind = "ASSESS" =>
    /\ ledger.request.lineage = ledger.pending.lineage
    /\ ledger.request.stage = "ack_ready" => ledger.request.lineage \in ledger.learned
Asking(node) == node[1] \in {"prepare", "replace"} /\ node[2] # "learning"
UnseenInv ==
  LET a == ledger.active["foreground"] IN
  \A l : Due(ledger, l) /\ ~Overruled(l) =>
    /\ a \in DOMAIN ledger.accepted
    /\ ledger.occ[a].role = "doublechecker" /\ ledger.occ[a].lineage = l
    /\ \/ ledger.pending.kind = "learning_gate" /\ ledger.pending.lineage = l
       \/ ledger.pending = NoPending /\ ~Asking(ledger.cont.node)
Gates == GateInv /\ AckInv /\ UnseenInv

LEMMA NothingAsked ==
  ASSUME Inv, DispatchInv, GateInv, NEW role \in Roles, NEW replacement \in BOOLEAN,
         ledger.active["foreground"] \in DOMAIN ledger.accepted,
         \/ ledger.pending.kind = "learning_gate"
         \/ ledger.pending = NoPending /\ ~Asking(ledger.cont.node)
  PROVE  ~Reserves("foreground", role, replacement)
<1> SUFFICES ASSUME Reserves("foreground", role, replacement) PROVE FALSE
  OBVIOUS
<1>1. ledger.request = NoRequest /\ Plane(role) = "foreground" /\ "foreground" \in Planes
  BY DEF Reserves, Alone, Planes
<1>2. role # "learning"
  BY <1>1 DEF Plane
<1>3. ~Asking(ledger.cont.node)
  BY <1>1, Heads DEF GateInv, Asking
<1>4. ledger.occ # <<>>
  <2>1. DOMAIN ledger.accepted \subseteq 1..Len(ledger.occ)
    BY DEF Inv, LedgerInv
  <2> QED BY <2>1
<1>5. CASE ~replacement
  <2>1. ledger.cont.node = Prepare(role)
    BY <1>4, <1>5 DEF Reserves, Asked
  <2> QED BY <1>2, <1>3, <2>1, Heads DEF Asking
<1>6. CASE replacement
  <2>1. Asked(ledger, role, TRUE, Greenfield)
    BY <1>1, <1>6, ReplacementReserved
  <2>2. ledger.occ[Old(ledger, role)].role = role /\ Old(ledger, role) \notin DOMAIN ledger.accepted
    BY <1>2, <1>3, <2>1, Heads DEF Asked, Asking
  <2>3. Old(ledger, role) # ledger.active["foreground"]
    BY <2>2
  <2>4. ledger.pending # NoPending /\ ledger.pending.target = role /\ Old(ledger, role) = ledger.pending.occ
    BY <1>1, <2>3 DEF Old
  <2>5. role = "doublechecker" /\ role \in {"updater", "fixer", "troubleshooter"}
    BY <2>2, <2>4 DEF GateInv
  <2> QED BY <2>5
<1> QED BY <1>5, <1>6

\* No intent is taken back, nor what the operator overruled.
IntentsKept ==
  \A o \in DOMAIN ledger.intents : o \in DOMAIN ledger'.intents /\ ledger'.intents[o] = ledger.intents[o]

LEMMA OverruledKept ==
  ASSUME OccInv, Grows, IntentsKept, NEW l, Overruled(l)
  PROVE  Overruled(l)'
<1>1. PICK o \in DOMAIN ledger.intents :
        /\ ledger.intents[o][1] = "operator"
        /\ ledger.occ[o].role = "doublechecker" /\ ledger.occ[o].lineage = l
  BY DEF Overruled
<1>2. o \in DOMAIN ledger'.intents /\ ledger'.intents[o] = ledger.intents[o]
  BY DEF IntentsKept
<1>3. ledger'.occ[o] = ledger.occ[o]
  BY DEF OccInv, Grows
<1> QED BY <1>1, <1>2, <1>3 DEF Overruled

\* A save that keeps what is pending.
LEMMA GatesKept ==
  ASSUME Inv, OccInv, Grows, GateInv, UnseenInv, AckInv',
         ledger'.pairs = ledger.pairs, ledger.learned \subseteq ledger'.learned,
         ledger'.pending = ledger.pending,
         ledger'.active["foreground"] = ledger.active["foreground"],
         DOMAIN ledger.accepted \subseteq DOMAIN ledger'.accepted,
         IntentsKept,
         ledger.pending.kind = "learning_gate" /\ ledger'.request = NoRequest => ledger'.cont.node = At("emit_request"),
         ~Asking(ledger.cont.node) => ~Asking(ledger'.cont.node)
  PROVE  Gates'
<1>1. GateInv'
  <2>1. ledger.pending.kind = "learning_gate" => ledger'.occ[ledger.pending.occ] = ledger.occ[ledger.pending.occ]
    BY DEF OccInv, Grows, NoPending
  <2> QED BY <2>1 DEF GateInv
<1>2. \A l : Due(ledger', l) => Due(ledger, l)
  BY DEF Due
<1>3. UnseenInv'
  <2> SUFFICES ASSUME NEW l, Due(ledger', l), ~Overruled(l)'
               PROVE  LET a == ledger'.active["foreground"] IN
                      /\ a \in DOMAIN ledger'.accepted
                      /\ ledger'.occ[a].role = "doublechecker" /\ ledger'.occ[a].lineage = l
                      /\ \/ ledger'.pending.kind = "learning_gate" /\ ledger'.pending.lineage = l
                         \/ ledger'.pending = NoPending /\ ~Asking(ledger'.cont.node)
    BY DEF UnseenInv
  <2> DEFINE a == ledger.active["foreground"]
  <2>1. Due(ledger, l) /\ ~Overruled(l)
    BY <1>2, OverruledKept
  <2>2. /\ a \in DOMAIN ledger.accepted
        /\ ledger.occ[a].role = "doublechecker" /\ ledger.occ[a].lineage = l
        /\ \/ ledger.pending.kind = "learning_gate" /\ ledger.pending.lineage = l
           \/ ledger.pending = NoPending /\ ~Asking(ledger.cont.node)
    BY <2>1 DEF UnseenInv
  <2>3. ledger'.occ[a] = ledger.occ[a]
    BY <2>2 DEF Inv, LedgerInv, Grows
  <2> QED BY <2>2, <2>3
<1> QED BY <1>1, <1>3 DEF Gates

LEMMA GatesSame ==
  ASSUME Gates, UNCHANGED ledger
  PROVE  Gates'
  BY DEF Gates, GateInv, AckInv, UnseenInv, Overruled

LEMMA GatesIntend ==
  ASSUME Inv, DispatchInv, Gates, NEW p \in Planes, NEW role \in Roles, Intends(p, role)
  PROVE  Gates'
<1>1. ledger' = Intended(ledger, role, source) /\ IsLedger(ledger)
  BY DEF Intends, Inv, LedgerInv
<1>2. /\ IsLedger(ledger') /\ ledger'.occ = ledger.occ /\ ledger'.active = ledger.active
      /\ ledger'.accepted = ledger.accepted /\ ledger'.cont = ledger.cont /\ ledger'.request = ledger.request
      /\ ledger'.pending = ledger.pending /\ ledger'.pairs = ledger.pairs /\ ledger'.learned = ledger.learned
  BY <1>1, IntendedEffect
<1>3. IntentsKept
  <2>1. \/ ledger'.intents = ledger.intents
        \/ /\ ledger'.intents = With(ledger.intents, Old(ledger, role), <<"graph", source>>)
           /\ Old(ledger, role) \notin DOMAIN ledger.intents
    BY <1>1 DEF Intended, IsLedger
  <2> QED BY <2>1 DEF IntentsKept, With
<1>4. Grows /\ OccInv
  BY OccIntends DEF DispatchInv
<1>5. AckInv'
  BY <1>2 DEF Gates, AckInv
<1>6. ledger.pending.kind = "learning_gate" /\ ledger'.request = NoRequest => ledger'.cont.node = At("emit_request")
  BY <1>2 DEF Gates, GateInv
<1> QED BY <1>2, <1>3, <1>4, <1>5, <1>6, GatesKept DEF Gates

\* A plane that prepares for Learning has its request.
LEMMA LearningAssesses ==
  ASSUME Inv, Turn("learning")
  PROVE  /\ ledger.request # NoRequest /\ IsRequest(ledger.request)
         /\ ledger.request.kind = "ASSESS" => ledger.pending.kind = "learning_gate"
         /\ step["learning"] \in Preparing => ledger.request.kind = "ASSESS"
         /\ ledger.pending = NoPending => ledger.request.kind # "ASSESS"
<1>1. LearningHas /\ ledger.request # NoRequest
  BY DEF Turn, Inv, LearningInv, SeamInv
<1> QED BY <1>1 DEF Inv, LedgerInv, LearningInv, NoPending

LEMMA GatesReserve ==
  ASSUME Inv, DispatchInv, Gates, NEW p \in Planes, NEW role \in Roles, NEW replacement \in BOOLEAN,
         Reserves(p, role, replacement)
  PROVE  Gates'
<1>1. IsLedger(ledger) /\ Plane(role) = p /\ DOMAIN ledger.active = Planes
  BY DEF Inv, LedgerInv, Reserves
<1>2. IsReservation(ledger', ledger, role, replacement, source)
  BY <1>1, ReservedEffect DEF Reserves
<1>3. Grows /\ OccInv
  BY OccReserves DEF DispatchInv
<1>4. /\ ledger'.active = [ledger.active EXCEPT ![p] = Len(ledger.occ) + 1]
      /\ ledger'.accepted = ledger.accepted /\ ledger'.cont.node = Native(role)
      /\ ledger'.request = ledger.request /\ ledger'.pairs = ledger.pairs
      /\ ledger'.learned = ledger.learned
      /\ ledger'.pending = IF replacement /\ ledger.pending = NoPending
                             THEN Pending("replacement", role, ReservedFor(ledger, role, replacement),
                                          Old(ledger, role))
                             ELSE ledger.pending
  BY <1>1, <1>2 DEF IsReservation
<1>5. IntentsKept
  BY <1>2 DEF IsReservation, IntentsKept
<1>6. ~Asking(ledger'.cont.node)
  BY <1>4, Heads DEF Asking
<1>7. CASE p = "learning"
  <2>1. ledger.request # NoRequest
    BY <1>7, LearningAssesses DEF Reserves
  <2>2. ledger'.pending = ledger.pending
    <3>1. CASE replacement
      <4>1. step["learning"] \in Preparing /\ Turn("learning")
        BY <1>7, <3>1 DEF Reserves, Preparing
      <4>2. ledger.pending # NoPending
        BY <4>1, LearningAssesses
      <4> QED BY <1>4, <4>2
    <3> QED BY <1>4, <3>1
  <2>3. ledger'.active["foreground"] = ledger.active["foreground"]
    BY <1>1, <1>4, <1>7 DEF Planes
  <2>4. AckInv'
    BY <1>4, <2>2 DEF Gates, AckInv
  <2> QED BY <1>3, <1>4, <1>5, <1>6, <2>1, <2>2, <2>3, <2>4, GatesKept DEF Gates
<1>8. CASE p = "foreground"
  <2>1. ledger.request = NoRequest
    BY <1>8 DEF Reserves, Alone
  <2>2. ledger.pending.kind # "learning_gate"
    BY <1>8, NothingAsked DEF Gates, GateInv
  <2>3. \A l : Due(ledger, l) => Overruled(l)'
    BY <1>3, <1>5, <1>8, NothingAsked, OverruledKept DEF Gates, UnseenInv
  <2>4. ledger'.pending.kind # "learning_gate"
    BY <1>4, <2>2, NoGate
  <2>5. \A l : Due(ledger', l) <=> Due(ledger, l)
    BY <1>4 DEF Due
  <2> QED BY <1>4, <1>5, <2>1, <2>3, <2>4, <2>5 DEF Gates, GateInv, AckInv, UnseenInv
<1> QED BY <1>7, <1>8 DEF Planes

\* Who reserves, and what.
LEMMA ReservesOne ==
  ASSUME Inv, NEW p \in Planes, NEW role \in Roles, NEW replacement \in BOOLEAN,
         Reserves(p, role, replacement), NEW o \in DOMAIN ledger'.occ \ DOMAIN ledger.occ
  PROVE  ledger'.occ[o].role = role
<1>1. IsLedger(ledger) /\ LedgerInv /\ IsSeq(ledger.occ)
  BY DEF Inv, LedgerInv
<1>2. IsReservation(ledger', ledger, role, replacement, source)
  BY <1>1, ReservedEffect DEF Reserves
<1>3. PICK c : ledger'.occ = Append(ledger.occ, c) /\ c.role = role
  BY <1>2 DEF IsReservation, IsReserved
<1>4. /\ IsSeq(ledger'.occ) /\ Len(ledger.occ) \in Nat /\ Len(ledger'.occ) = Len(ledger.occ) + 1
      /\ ledger'.occ[Len(ledger.occ) + 1] = c
  BY <1>1, <1>3, AppendIsSeq
<1>5. DOMAIN ledger'.occ = 1..Len(ledger'.occ) /\ DOMAIN ledger.occ = 1..Len(ledger.occ)
  BY <1>1, <1>4 DEF IsSeq
<1>6. o = Len(ledger.occ) + 1
  BY <1>4, <1>5
<1> QED BY <1>3, <1>4, <1>6

\* What a step does to the occurrences: nothing, or it reserves one, or accepts one.
SameOccs(M, L) ==
  M.occ = L.occ /\ M.active = L.active /\ M.accepted = L.accepted /\ M.usage = L.usage
\* Nothing new is pending, and nothing new is asked of the foreground.
Idles(M, L) ==
  /\ SameOccs(M, L) /\ M.pending = L.pending
  /\ M.cont.node = L.cont.node \/ (~Asking(M.cont.node) /\ M.cont.node # Nowhere)

LEMMA SeamIdles ==
  ASSUME Inv, GivesUp \/ Asks \/ Gets \/ Acknowledges \/ Fails
  PROVE  Idles(ledger', ledger)
<1>1. SameOccs(ledger', ledger) /\ ledger'.pending = ledger.pending
  BY GivesUpEffect, AsksEffect, GetsEffect, AcknowledgesEffect, FailsEffect
  DEF IsMarked, Untouched, IsGot, SameOccs
<1>2. \/ ledger'.cont.node = ledger.cont.node
      \/ ledger'.cont.node \in {At("emit_ack"), At("accept_learning_ack"), At("emit_request"), Prepare("learning")}
  BY GivesUpEffect, AsksEffect, GetsEffect, AcknowledgesEffect, FailsEffect DEF IsMarked, IsGot
<1>3. \A node \in {At("emit_ack"), At("accept_learning_ack"), At("emit_request"), Prepare("learning")} :
        ~Asking(node) /\ node # Nowhere
  BY Heads DEF Asking, Nowhere
<1> QED BY <1>1, <1>2, <1>3 DEF Idles

LEMMA Moves ==
  ASSUME Inv, Next
  PROVE  \/ Idles(ledger', ledger) \/ Resumes \/ \E o \in DOMAIN ledger.occ : RecordReplacement(o)
         \/ \E p \in Planes, role \in Roles, replacement \in BOOLEAN : Reserves(p, role, replacement)
         \/ \E p \in Planes : \E o, outcome : Accepts(p, o, outcome)
<1>0. ledger' = ledger => Idles(ledger', ledger)
  BY DEF Idles, SameOccs
<1>1. ASSUME NEW p \in Planes, ScriptEffect(p)
      PROVE  \/ Idles(ledger', ledger)
             \/ \E role \in Roles, replacement \in BOOLEAN : Reserves(p, role, replacement)
             \/ \E o, outcome : Accepts(p, o, outcome)
  <2>1. ASSUME Quiet(p) \/ Ended(p) \/ Emit(p) \/ WriteInput(p) \/ WriteActive(p) \/ WriteReady(p)
        PROVE  ledger' = ledger
    BY <2>1 DEF Quiet, Ended, Saved, Emit, WriteInput, WriteActive, WriteReady
  <2>2. ASSUME NEW role, RunNative(p, role) \/ Rematerializes(p, role) PROVE ledger' = ledger
    BY <2>2 DEF RunNative, Rematerializes
  <2>3. ASSUME NEW role, Intends(p, role) PROVE Idles(ledger', ledger)
    <3>1. IsLedger(ledger) /\ ledger' = Intended(ledger, role, source)
      BY <2>3 DEF Intends, Inv, LedgerInv
    <3>2. ledger'.usage = ledger.usage
      BY <3>1 DEF Intended, IsLedger
    <3> QED BY <3>1, <3>2, IntendedEffect DEF Idles, SameOccs
  <2> QED BY <1>0, <1>1, <2>1, <2>2, <2>3 DEF ScriptEffect
<1>2. SeamEffect \/ Fails => Idles(ledger', ledger) \/ Resumes
  <2>1. WriteCurrent => ledger' = ledger
    BY DEF WriteCurrent
  <2> QED BY <1>0, <2>1, SeamIdles DEF SeamEffect
<1>3. \A p \in Planes : Redirect(p) => ledger' = ledger
  BY DEF Redirect
<1> QED BY <1>0, <1>1, <1>2, <1>3, StepEffects

LEMMA OthersSameOccs ==
  ASSUME Inv, Resumes \/ \E o : RecordReplacement(o)
  PROVE  SameOccs(ledger', ledger)
  BY ResumesEffect, RecordReplacementEffect DEF Untouched, SameOccs

LEMMA AcceptsOne ==
  ASSUME Inv, NEW p \in Planes, NEW o, NEW outcome, Accepts(p, o, outcome)
  PROVE  \E r \in Accepted(ledger, o, outcome, source) :
           /\ ledger' = r.ledger /\ IsAcceptance(r, ledger, o) /\ Answers(r, ledger, o)
           /\ UNCHANGED <<files, at, source>> /\ o \in 1..Len(ledger.occ) /\ o \in DOMAIN wrote
           /\ o = ledger.active[p] /\ Plane(ledger.occ[o].role) = p
<1>1. PICK r \in Accepted(ledger, o, outcome, source) : ledger' = r.ledger /\ UNCHANGED <<files, at, source>>
  BY DEF Accepts, Saved
<1>2. IsLedger(ledger) /\ o \in 1..Len(ledger.occ)
  BY DEF Inv, LedgerInv, Accepts
<1>3. IsAcceptance(r, ledger, o) /\ Answers(r, ledger, o)
  BY <1>2, AcceptedEffect, AcceptedAnswers
<1> QED BY <1>1, <1>2, <1>3 DEF Accepts

LEMMA WhoReserves ==
  ASSUME Inv, Next, ledger'.occ # ledger.occ
  PROVE  \E p \in Planes, role \in Roles, replacement \in BOOLEAN : Reserves(p, role, replacement)
<1>1. \A p \in Planes : \A o, outcome : ~Accepts(p, o, outcome)
  BY AcceptsOne DEF IsAcceptance
<1> QED BY <1>1, Moves, OthersSameOccs DEF Idles, SameOccs

LEMMA GatesAccept ==
  ASSUME Inv, DispatchInv, Gates, NEW p \in Planes, NEW o, NEW outcome, Accepts(p, o, outcome)
  PROVE  Gates'
<1> DEFINE c == ledger.occ[o]
<1>1. PICK r \in Accepted(ledger, o, outcome, source) :
        ledger' = r.ledger /\ IsAcceptance(r, ledger, o) /\ Answers(r, ledger, o)
  BY AcceptsOne
<1>2. Plane(c.role) = p /\ o = ledger.active[p] /\ o \notin DOMAIN ledger.accepted
  BY DEF Accepts
<1>3. IsAcceptance(r, ledger, o) /\ Answers(r, ledger, o)
  BY <1>1
<1>4. Grows /\ OccInv
  BY OccAccepts DEF DispatchInv
<1>5. /\ ledger'.active = ledger.active /\ ledger'.intents = ledger.intents
      /\ DOMAIN ledger'.accepted = DOMAIN ledger.accepted \cup {o}
      /\ ledger'.cont.node = r.route /\ ledger'.request = ledger.request /\ ledger'.occ = ledger.occ
      /\ c.role = "learning" => ledger'.pending = ledger.pending
  BY <1>1, <1>3 DEF IsAcceptance, With
<1>6. IntentsKept
  BY <1>5 DEF IntentsKept
<1>7. CASE p = "learning"
  <2>1. c.role = "learning" /\ ledger'.pending = ledger.pending
    BY <1>2, <1>5, <1>7 DEF Plane
  <2>2. ledger.request # NoRequest
    BY <1>7, LearningAssesses DEF Accepts
  <2>3. ledger'.pairs = ledger.pairs /\ ledger.learned \subseteq ledger'.learned
    BY <1>1, <1>3, <2>1 DEF Answers, Calm, Learns
  <2>4. ~Asking(ledger'.cont.node)
    <3>1. r.route \in {Replace("learning"), At("emit_ack")}
      BY <1>3, <2>1 DEF IsAcceptance, RouteOf
    <3> QED BY <1>5, <3>1, Heads DEF Asking
  <2>5. AckInv'
    BY <1>5, <2>1, <2>3 DEF Gates, AckInv
  <2> QED BY <1>4, <1>5, <1>6, <2>1, <2>2, <2>3, <2>4, <2>5, GatesKept DEF Gates
<1>8. CASE p = "foreground"
  <2>1. ledger.request = NoRequest
    BY <1>8 DEF Accepts, Alone
  <2>2. ledger.pending.kind # "learning_gate"
    BY <1>2, <1>8 DEF Gates, GateInv
  <2>3. \A l : Due(ledger, l) => Overruled(l)'
    BY <1>2, <1>4, <1>6, <1>8, OverruledKept DEF Gates, UnseenInv
  <2>4. AckInv'
    BY <1>5, <2>1 DEF AckInv
  <2>5. c.role # "learning"
    BY <1>2, <1>8 DEF Plane
  <2>6. CASE Calm(r.ledger, ledger)
    <3>1. ledger'.pending.kind # "learning_gate" /\ \A l : Due(ledger', l) <=> Due(ledger, l)
      BY <1>1, <2>2, <2>6 DEF Calm, Due
    <3> QED BY <2>3, <2>4, <3>1 DEF Gates, GateInv, UnseenInv
  <2>7. CASE c.role = "doublechecker" /\ Gated(r, ledger, o)
    <3>1. /\ ledger'.learned = ledger.learned
          /\ ledger'.pairs = ledger.pairs \cup {<<c.lineage, c.fixer>>}
          /\ IF Due(ledger', c.lineage)
               THEN r.route = At("emit_request")
                    /\ \E target \in {"updater", "fixer", "troubleshooter"} :
                         ledger'.pending = Pending("learning_gate", target, c.lineage, o)
               ELSE ledger'.pending.kind = "learning_gate" => ledger'.pending = ledger.pending
      BY <1>1, <2>7 DEF Gated
    <3>2. \A l : l # c.lineage /\ Due(ledger', l) => Due(ledger, l)
      <4> SUFFICES ASSUME NEW l, l # c.lineage, Due(ledger', l) PROVE Due(ledger, l)
        OBVIOUS
      <4>1. {pair \in ledger'.pairs : pair[1] = l} = {pair \in ledger.pairs : pair[1] = l}
        BY <3>1
      <4> QED BY <3>1, <4>1 DEF Due
    <3>3. CASE Due(ledger', c.lineage)
      <4>1. PICK target \in {"updater", "fixer", "troubleshooter"} :
              ledger'.pending = Pending("learning_gate", target, c.lineage, o)
        BY <3>1, <3>3
      <4>2. /\ ledger'.pending.kind = "learning_gate" /\ ledger'.pending.lineage = c.lineage
            /\ ledger'.pending.target = target /\ ledger'.pending.occ = o
        BY <4>1, NoGate
      <4>3. ledger'.active["foreground"] \in DOMAIN ledger'.accepted
        BY <1>2, <1>5, <1>8
      <4>4. ledger'.cont.node = At("emit_request")
        BY <1>5, <3>1, <3>3
      <4>5. GateInv'
        BY <1>5, <2>7, <4>2, <4>3, <4>4 DEF GateInv
      <4>6. UnseenInv'
        <5>1. ledger'.occ[ledger'.active["foreground"]] = c
          BY <1>2, <1>5, <1>8
        <5> QED BY <2>3, <2>7, <3>2, <4>2, <4>3, <5>1 DEF UnseenInv
      <4> QED BY <2>4, <4>5, <4>6 DEF Gates
    <3>4. CASE ~Due(ledger', c.lineage)
      <4>1. ledger'.pending.kind # "learning_gate"
        BY <2>2, <3>1, <3>4
      <4>2. \A l : Due(ledger', l) => Overruled(l)'
        BY <2>3, <3>2, <3>4
      <4> QED BY <2>4, <4>1, <4>2 DEF Gates, GateInv, UnseenInv
    <3> QED BY <3>3, <3>4
  <2> QED BY <1>3, <2>5, <2>6, <2>7 DEF Answers
<1> QED BY <1>7, <1>8 DEF Planes

LEMMA GatesResume ==
  ASSUME Inv, Gates, Resumes
  PROVE  Gates'
<1>1. /\ ledger'.active = ledger.active /\ ledger'.accepted = ledger.accepted
      /\ ledger'.pairs = ledger.pairs /\ ledger.learned \subseteq ledger'.learned
      /\ ledger'.intents = ledger.intents /\ ledger'.request = NoRequest /\ ledger'.occ = ledger.occ
      /\ ledger'.cont.node = (IF ledger.request.kind = "CLOSE" THEN At("finalize")
                                                               ELSE Prepare(ledger.pending.target))
      /\ \/ ledger'.pending = NoPending
         \/ ledger'.pending = Pending("review", "doublechecker", ledger.pending.lineage, ledger.pending.occ)
            /\ ledger.request.kind = "ASSESS"
  BY ResumesEffect DEF Untouched
<1>2. ledger'.pending.kind # "learning_gate"
  BY <1>1, NoGate
<1>3. /\ ledger.request # NoRequest /\ ledger.request.stage = "ack_ready"
      /\ ledger.request.kind \in {"ASSESS", "CLOSE"}
      /\ ledger.request.kind = "ASSESS" => ledger.pending.kind = "learning_gate"
  BY DEF Resumes, Inv, LedgerInv, IsRequest
<1>4. UnseenInv'
  <2> SUFFICES ASSUME NEW l, Due(ledger', l), ~Overruled(l)'
               PROVE  LET a == ledger'.active["foreground"] IN
                      /\ a \in DOMAIN ledger'.accepted
                      /\ ledger'.occ[a].role = "doublechecker" /\ ledger'.occ[a].lineage = l
                      /\ ledger'.pending = NoPending /\ ~Asking(ledger'.cont.node)
    BY DEF UnseenInv
  <2>1. Due(ledger, l) /\ ~Overruled(l)
    BY <1>1 DEF Due, Overruled
  <2>2. LET a == ledger.active["foreground"] IN
        /\ a \in DOMAIN ledger.accepted
        /\ ledger.occ[a].role = "doublechecker" /\ ledger.occ[a].lineage = l
        /\ \/ ledger.pending.kind = "learning_gate" /\ ledger.pending.lineage = l
           \/ ledger.pending = NoPending
    BY <2>1 DEF Gates, UnseenInv
  <2>3. ledger.request.kind # "ASSESS"
    <3> SUFFICES ASSUME ledger.request.kind = "ASSESS" PROVE FALSE
      OBVIOUS
    <3>1. ledger.pending.lineage = l
      BY <1>3, <2>2, NoGate
    <3>2. l \in ledger.learned
      BY <1>3, <3>1 DEF Gates, AckInv
    <3> QED BY <2>1, <3>2 DEF Due
  <2>4. ledger'.cont.node = At("finalize") /\ ledger'.pending = NoPending
    BY <1>1, <1>3, <2>3
  <2> QED BY <1>1, <2>2, <2>4, Heads DEF Asking
<1> QED BY <1>1, <1>2, <1>4 DEF Gates, GateInv, AckInv

LEMMA GatesSeam ==
  ASSUME Inv, DispatchInv, Gates, Grows, GivesUp \/ Asks \/ Gets \/ Acknowledges \/ Fails
  PROVE  Gates'
<1>1. /\ ledger'.pairs = ledger.pairs /\ ledger.learned \subseteq ledger'.learned
      /\ ledger'.pending = ledger.pending /\ ledger'.active = ledger.active
      /\ ledger'.accepted = ledger.accepted /\ ledger'.intents = ledger.intents
  BY GivesUpEffect, AsksEffect, GetsEffect, AcknowledgesEffect, FailsEffect DEF IsMarked, Untouched, IsGot
<1>2. \/ GivesUp /\ ledger'.cont.node = At("emit_ack") /\ ledger'.request = ledger.request
      \/ Asks /\ ledger'.cont.node = At("accept_learning_ack") /\ IsAsked(ledger'.request)
         /\ (ledger'.request.kind = "ASSESS" => ledger'.request.lineage = ledger.pending.lineage)
      \/ Gets /\ (ledger'.cont = ledger.cont \/ ledger'.cont.node = Prepare("learning"))
         /\ IsStaged(ledger'.request, ledger.request, "received") /\ ledger.request # NoRequest
      \/ Acknowledges /\ ledger'.cont = ledger.cont
         /\ IsStaged(ledger'.request, ledger.request, "ack_ready") /\ ledger.request # NoRequest
      \/ Fails /\ ledger'.cont.node = At("emit_request") /\ ledger'.request = ledger.request
  BY GivesUpEffect, AsksEffect, GetsEffect, AcknowledgesEffect, FailsEffect DEF IsMarked, IsGot
<1>3. GivesUp => ledger.request # NoRequest
  BY LearningAssesses DEF GivesUp
<1>4. ~Asking(ledger.cont.node) => ~Asking(ledger'.cont.node)
  BY <1>2, Heads DEF Asking
<1>5. ledger.pending.kind = "learning_gate" /\ ledger'.request = NoRequest => ledger'.cont.node = At("emit_request")
  BY <1>2, <1>3 DEF IsAsked, IsStaged
<1>6. AckInv'
  <2>1. ledger'.request = ledger.request => AckInv'
    BY <1>1 DEF Gates, AckInv
  <2>2. Asks /\ IsAsked(ledger'.request)
        /\ (ledger'.request.kind = "ASSESS" => ledger'.request.lineage = ledger.pending.lineage) => AckInv'
    BY <1>1 DEF AckInv, IsAsked
  <2>3. IsStaged(ledger'.request, ledger.request, "received") /\ ledger.request # NoRequest => AckInv'
    BY <1>1 DEF Gates, AckInv, IsStaged
  <2>4. Acknowledges /\ IsStaged(ledger'.request, ledger.request, "ack_ready") /\ ledger.request # NoRequest => AckInv'
    BY <1>1 DEF Gates, AckInv, IsStaged, Acknowledges
  <2> QED BY <1>2, <2>1, <2>2, <2>3, <2>4
<1>7. IntentsKept
  BY <1>1 DEF IntentsKept
<1> QED BY <1>1, <1>4, <1>5, <1>6, <1>7, GatesKept DEF Gates, DispatchInv

\* The operator's replacement of the very review is what overrules the gate.
LEMMA GatesReplace ==
  ASSUME Inv, DispatchInv, Gates, NEW o \in DOMAIN ledger.occ, RecordReplacement(o), AnyOccurrence = FALSE
  PROVE  Gates'
<1>1. /\ ledger'.intents = With(ledger.intents, o, <<"operator", source>>)
      /\ ledger'.pending = Pending("operator_replacement", ledger.occ[o].role, ledger.occ[o].lineage, o)
      /\ ledger'.request = ledger.request
      /\ Untouched(ledger', ledger)
  BY RecordReplacementEffect
<1>2. ledger.request = NoRequest /\ o = ledger.active["foreground"]
  BY DEF RecordReplacement, AssertForeground
<1>3. IntentsKept
  <2>1. o \in DOMAIN ledger.intents => ledger.intents[o] = <<"operator", source>>
    BY DEF RecordReplacement
  <2> QED BY <1>1, <2>1 DEF IntentsKept, With
<1>4. ledger'.pending.kind # "learning_gate"
  BY <1>1, NoGate
<1>5. Grows /\ OccInv
  BY OccStep DEF DispatchInv, Next
<1>6. UnseenInv'
  <2> SUFFICES ASSUME NEW l, Due(ledger', l), ~Overruled(l)' PROVE FALSE
    BY DEF UnseenInv
  <2>1. Due(ledger, l) /\ ~Overruled(l)
    BY <1>1, <1>3, <1>5, OverruledKept DEF Due, Untouched
  <2>2. ledger.occ[o].role = "doublechecker" /\ ledger.occ[o].lineage = l
    BY <1>2, <2>1 DEF Gates, UnseenInv
  <2>3. ledger'.occ = ledger.occ /\ o \in DOMAIN ledger'.intents /\ ledger'.intents[o] = <<"operator", source>>
    BY <1>1 DEF With, Untouched
  <2> QED BY <2>2, <2>3 DEF Overruled
<1> QED BY <1>1, <1>2, <1>4, <1>6 DEF Gates, GateInv, AckInv

LEMMA GatesStep ==
  ASSUME AnyOccurrence = FALSE, Inv, DispatchInv, Gates, Next
  PROVE  Gates'
<1>1. ASSUME NEW p \in Planes, ScriptEffect(p) PROVE Gates'
  <2>1. ASSUME Quiet(p) \/ Ended(p) \/ Emit(p) \/ WriteInput(p) \/ WriteActive(p) \/ WriteReady(p)
        PROVE  ledger' = ledger
    BY <2>1 DEF Quiet, Ended, Saved, Emit, WriteInput, WriteActive, WriteReady
  <2>2. ASSUME NEW role, RunNative(p, role) \/ Rematerializes(p, role) PROVE ledger' = ledger
    BY <2>2 DEF RunNative, Rematerializes
  <2> QED BY <1>1, <2>1, <2>2, GatesSame, GatesIntend, GatesReserve, GatesAccept DEF ScriptEffect
<1>2. ASSUME SeamEffect \/ Fails PROVE Gates'
  <2>1. WriteCurrent => ledger' = ledger
    BY DEF WriteCurrent
  <2>2. Grows
    BY OccStep
  <2> QED BY <1>2, <2>1, <2>2, GatesSame, GatesSeam, GatesResume DEF SeamEffect
<1>3. ASSUME NEW p \in Planes, Redirect(p) PROVE ledger' = ledger
  BY <1>3 DEF Redirect
<1> QED BY <1>1, <1>2, <1>3, GatesSame, GatesReplace, StepEffects

LEMMA GatesInit == Init => Gates
<1> SUFFICES ASSUME Init PROVE Gates
  OBVIOUS
<1>1. ledger.pending.kind # "learning_gate" /\ ledger.request = NoRequest /\ ledger.pairs = {}
  BY NoGate DEF Init, NewState
<1>2. \A l : ~Due(ledger, l)
  <2> SUFFICES ASSUME NEW l PROVE ~Due(ledger, l)
    OBVIOUS
  <2>1. {pair \in ledger.pairs : pair[1] = l} = {}
    BY <1>1
  <2>2. Cardinality({pair \in ledger.pairs : pair[1] = l}) = 0
    BY <2>1, FS_EmptySet
  <2> QED BY <2>2 DEF Due
<1> QED BY <1>1, <1>2 DEF Gates, GateInv, AckInv, UnseenInv

\* After the second evaluated repair of a packet nothing is reserved for its repair or its
\* completion before Learning has disposed of it, whatever dies, fails or is redirected
\* (_gate, emit_request, accept_learning_ack), unless the operator has recorded a replacement
\* of a review of that packet. The operator replaces the active occurrence.
THEOREM GateHolds ==
  ASSUME AnyOccurrence = FALSE
  PROVE  Spec => LearningGate
<1>1. Inv /\ DispatchInv /\ Gates /\ [Next]_vars => Gates'
  <2>1. UNCHANGED vars => UNCHANGED ledger
    BY DEF vars
  <2> QED BY <2>1, GatesStep, GatesSame
<1>2. Inv /\ DispatchInv /\ Gates /\ [Next]_vars =>
        [\A o \in DOMAIN ledger'.occ \ DOMAIN ledger.occ :
           LET c == ledger'.occ[o] IN
           /\ c.role \in {"fixer", "updater"}
           /\ Cardinality({pair \in ledger.pairs : pair[1] = c.lineage}) >= 2
           => c.lineage \in ledger.learned \/ Overruled(c.lineage)]_vars
  <2> SUFFICES ASSUME Inv, DispatchInv, Gates, Next,
                      NEW o \in DOMAIN ledger'.occ \ DOMAIN ledger.occ,
                      ledger'.occ[o].role \in {"fixer", "updater"},
                      Cardinality({pair \in ledger.pairs : pair[1] = ledger'.occ[o].lineage}) >= 2,
                      ledger'.occ[o].lineage \notin ledger.learned,
                      ~Overruled(ledger'.occ[o].lineage)
               PROVE  FALSE
    OBVIOUS
  <2>1. Due(ledger, ledger'.occ[o].lineage)
    BY DEF Due
  <2>2. /\ ledger.active["foreground"] \in DOMAIN ledger.accepted
        /\ \/ ledger.pending.kind = "learning_gate"
           \/ ledger.pending = NoPending /\ ~Asking(ledger.cont.node)
    BY <2>1 DEF Gates, UnseenInv
  <2>3. PICK p \in Planes, role \in Roles, replacement \in BOOLEAN : Reserves(p, role, replacement)
    BY WhoReserves
  <2>4. ledger'.occ[o].role = role
    BY <2>3, ReservesOne
  <2>5. p = "foreground"
    BY <2>3, <2>4 DEF Reserves, Plane
  <2> QED BY <2>2, <2>3, <2>5, NothingAsked DEF Gates
<1> QED BY <1>1, <1>2, GatesInit, TurnsKept, ReservationsKept, PTL DEF Spec, LearningGate

-----------------------------------------------------------------------------
\* Loadable: the limits are kept, and the projections beside the ledger fit it.
UsageOK(L) == \A k \in DOMAIN L.usage : L.usage[k] \in Nat /\ L.usage[k] <= Caps[k[1]]

LEMMA UsedIsNat ==
  ASSUME NEW L, UsageOK(L), NEW k
  PROVE  Used(L, k) \in Nat
  BY DEF UsageOK, Used

LEMMA DebitUsage ==
  ASSUME NEW L, IsLedger(L), UsageOK(L), NEW keys, \A k \in keys : k[1] \in DOMAIN Caps, NEW N \in Debit(L, keys)
  PROVE  /\ UsageOK(N)
         /\ \A k : Used(N, k) >= Used(L, k)
         /\ \A k \in keys : Used(N, k) >= 1 /\ Used(L, k) < Caps[k[1]]
<1>1. /\ N.usage = [k \in DOMAIN L.usage \cup keys |-> Used(L, k) + IF k \in keys THEN 1 ELSE 0]
      /\ \A k \in keys : ~(Used(L, k) >= Caps[k[1]])
  BY DEF Debit, IsLedger
<1>2. \A k \in keys : Caps[k[1]] \in Nat
  BY LadLedgerAssumption
<1>3. \A k : Used(L, k) \in Nat
  BY UsedIsNat
<1>4. \A k \in DOMAIN L.usage : Used(L, k) = L.usage[k]
  BY DEF Used
<1>5. \A k \in DOMAIN N.usage : N.usage[k] = Used(L, k) + IF k \in keys THEN 1 ELSE 0
  BY <1>1
<1>6. DOMAIN N.usage = DOMAIN L.usage \cup keys
  BY <1>1
<1>7. UsageOK(N)
  <2> SUFFICES ASSUME NEW k \in DOMAIN N.usage PROVE N.usage[k] \in Nat /\ N.usage[k] <= Caps[k[1]]
    BY DEF UsageOK
  <2>1. CASE k \in keys
    BY <1>1, <1>2, <1>3, <1>5, <2>1
  <2>2. CASE k \notin keys
    <3>1. k \in DOMAIN L.usage /\ N.usage[k] = L.usage[k]
      BY <1>3, <1>4, <1>5, <1>6, <2>2
    <3> QED BY <3>1 DEF UsageOK
  <2> QED BY <2>1, <2>2
<1>8. ASSUME NEW k PROVE Used(N, k) >= Used(L, k)
  <2>1. CASE k \in DOMAIN N.usage
    BY <1>3, <1>5, <2>1 DEF Used
  <2>2. CASE k \notin DOMAIN N.usage
    <3>1. Used(L, k) = 0 /\ Used(N, k) = 0
      BY <1>6, <2>2 DEF Used
    <3> QED BY <3>1
  <2> QED BY <2>1, <2>2
<1>9. ASSUME NEW k \in keys PROVE Used(N, k) >= 1 /\ Used(L, k) < Caps[k[1]]
  <2>1. Used(N, k) = Used(L, k) + 1
    BY <1>5, <1>6 DEF Used
  <2> QED BY <1>1, <1>2, <1>3, <2>1
<1> QED BY <1>7, <1>8, <1>9

LEMMA ReservedNames ==
  ASSUME NEW L, NEW role \in Roles, NEW replacement
  PROVE  \A k \in ReservedKeys(L, role, replacement) : k[1] \in DOMAIN Caps
<1>1. Roles \cup {"all", "replacement", "local_repair"} \subseteq DOMAIN Caps
  BY LadLedgerAssumption
<1>2. \A lineage : RoleKey(role, lineage)[1] = role
  BY DEF RoleKey
<1> QED BY <1>1, <1>2 DEF ReservedKeys

\* No step takes back what was used, nor uses more than the caps.
Uses(M, L) == UsageOK(M) /\ \A k : Used(M, k) >= Used(L, k)

LEMMA UsesSame ==
  ASSUME NEW L, UsageOK(L), NEW M, M.usage = L.usage
  PROVE  Uses(M, L)
  BY UsedIsNat DEF Uses, UsageOK, Used

LEMMA UsesReserved ==
  ASSUME Inv, UsageOK(ledger), NEW p \in Planes, NEW role \in Roles, NEW replacement \in BOOLEAN,
         Reserves(p, role, replacement)
  PROVE  /\ Uses(ledger', ledger)
         /\ \A k \in ReservedKeys(ledger, role, replacement) : Used(ledger', k) >= 1 /\ Used(ledger, k) < Caps[k[1]]
<1> DEFINE keys == ReservedKeys(ledger, role, replacement)
<1>1. IsLedger(ledger)
  BY DEF Inv, LedgerInv
<1>2. PICK N \in Debit(ledger, keys) : ledger'.usage = N.usage
  BY <1>1, ReservedUsage DEF Reserves
<1>3. \A k \in keys : k[1] \in DOMAIN Caps
  BY ReservedNames
<1> HIDE DEF keys
<1>4. /\ UsageOK(N) /\ \A k : Used(N, k) >= Used(ledger, k)
      /\ \A k \in keys : Used(N, k) >= 1 /\ Used(ledger, k) < Caps[k[1]]
  BY <1>1, <1>2, <1>3, DebitUsage
<1>5. \A k : Used(ledger', k) = Used(N, k)
  BY <1>2 DEF Used
<1> QED BY <1>2, <1>4, <1>5 DEF Uses, UsageOK, keys

LEMMA UsesAccepted ==
  ASSUME Inv, UsageOK(ledger), NEW p \in Planes, NEW o, NEW outcome, Accepts(p, o, outcome)
  PROVE  Uses(ledger', ledger)
<1>1. PICK r \in Accepted(ledger, o, outcome, source) : ledger' = r.ledger /\ Answers(r, ledger, o)
  BY AcceptsOne
<1>2. IsLedger(ledger)
  BY DEF Inv, LedgerInv
<1>3. CASE Spent(r.ledger, ledger)
  <2>1. CASE ledger'.usage = ledger.usage
    BY <2>1, UsesSame
  <2>2. ASSUME NEW k \in {<<"planning_repair">>, <<"remediation">>},
               NEW N \in Debit(ledger, {k}), ledger'.usage = N.usage
        PROVE  Uses(ledger', ledger)
    <3>1. \A j \in {k} : j[1] \in DOMAIN Caps
      BY LadLedgerAssumption
    <3>2. UsageOK(N) /\ \A j : Used(N, j) >= Used(ledger, j)
      BY <1>2, <3>1, DebitUsage
    <3> QED BY <2>2, <3>2 DEF Uses, UsageOK, Used
  <2> QED BY <1>1, <1>3, <2>1, <2>2 DEF Spent
<1>4. CASE Gated(r, ledger, o) \/ Learns(r.ledger, ledger, o)
  BY <1>1, <1>4, UsesSame DEF Gated, Learns
<1> QED BY <1>1, <1>3, <1>4 DEF Answers

LEMMA UsageStep ==
  ASSUME Inv, UsageOK(ledger), Next
  PROVE  Uses(ledger', ledger)
<1>1. SameOccs(ledger', ledger) => Uses(ledger', ledger)
  BY UsesSame DEF SameOccs
<1> QED BY <1>1, Moves, OthersSameOccs, UsesReserved, UsesAccepted DEF Idles

\* Whatever a role is shown is its active occurrence, or one that was accepted or that the
\* active one replaces; a replacement is paid for; while the foreground's occurrence is not
\* accepted, nothing but its own replacement is asked for; and what is pending is about an
\* occurrence that is accepted, active or replaced.
ShownInv(p) ==
  LET o == ledger.active[p]
      s == shown[p] IN
  /\ o = 0 => s = 0
  /\ o \in ready => s = o
  /\ s \notin {0, o} => s \in DOMAIN ledger.accepted \/ ledger.occ[o].of = s
Replaces(L, x, k) == L.occ[x].of = k
RepInv ==
  \A x \in 1..Len(ledger.occ) :
    LET c == ledger.occ[x]
        k == c.of IN
    k # 0 => /\ ledger.occ[k].role = c.role /\ ledger.occ[k].lineage = c.lineage
             /\ Used(ledger, <<"replacement", c.role, c.lineage>>) >= 1
Settled(o) == o = 0 \/ o \in DOMAIN ledger.accepted
LapsedInv ==
  LET a == ledger.active["foreground"]
      node == ledger.cont.node IN
  ~Settled(a) /\ Asking(node) =>
    node[1] = "replace" /\ ledger.pending # NoPending /\ ledger.pending.occ = a
PendInv ==
  LET k == ledger.pending.occ IN
  ledger.pending # NoPending =>
    \/ k \in DOMAIN ledger.accepted \/ k = ledger.active["foreground"]
    \/ \E x \in 1..Len(ledger.occ) : Replaces(ledger, x, k)
ContInv == ledger.occ # <<>> => ledger.cont.node # Nowhere
AcceptedInv == DOMAIN ledger.accepted \subseteq DOMAIN wrote
LoadInv ==
  /\ UsageOK(ledger) /\ AcceptedInv /\ (\A p \in Planes : ShownInv(p))
  /\ RepInv /\ LapsedInv /\ PendInv /\ ContInv

LEMMA LoadInit == Init => LoadInv
<1> SUFFICES ASSUME Init PROVE LoadInv
  OBVIOUS
<1> USE DEF Init, NewState
<1>1. ledger.occ = <<>> /\ Len(ledger.occ) = 0 /\ \A p \in Planes : ledger.active[p] = 0 /\ shown[p] = 0
  BY DEF Planes
<1>2. UsageOK(ledger) /\ AcceptedInv /\ ledger.pending = NoPending
  BY DEF UsageOK, AcceptedInv
<1>3. (\A p \in Planes : ShownInv(p)) /\ LapsedInv
  BY <1>1 DEF ShownInv, LapsedInv, Settled, Planes, FilesInv
<1> QED BY <1>1, <1>2, <1>3 DEF LoadInv, RepInv, PendInv, ContInv

\* The files change by a projection, or by the run of a role, and the ledger does not.
LEMMA ShownKept ==
  ASSUME NEW p, ShownInv(p), UNCHANGED <<shown, ready>>, ledger'.active[p] = ledger.active[p],
         ledger.active[p] # 0 => ledger'.occ[ledger.active[p]] = ledger.occ[ledger.active[p]],
         DOMAIN ledger.accepted \subseteq DOMAIN ledger'.accepted
  PROVE  ShownInv(p)'
  BY DEF ShownInv

LEMMA LedgerSame ==
  ASSUME LoadInv, ledger' = ledger, DOMAIN wrote \subseteq DOMAIN wrote', \A p \in Planes : ShownInv(p)'
  PROVE  LoadInv'
<1>1. AcceptedInv' /\ UsageOK(ledger)'
  BY DEF LoadInv, AcceptedInv, UsageOK
<1>2. RepInv' /\ LapsedInv' /\ PendInv' /\ ContInv'
  BY DEF LoadInv, RepInv, LapsedInv, Settled, PendInv, Replaces, ContInv, Used
<1> QED BY <1>1, <1>2 DEF LoadInv

LEMMA ShownProjects ==
  ASSUME Inv, DispatchInv, LoadInv, NEW p \in Planes, Projects(p)
  PROVE  LoadInv'
<1> DEFINE o == ledger.active[p]
<1>1. held[p].active[p] = o /\ o \in 1..Len(ledger.occ) /\ \A q \in Planes \ {p} : ledger.active[q] # o
  BY Projected
<1>2. UNCHANGED <<ledger, wrote>> /\ o # 0
  BY <1>1 DEF Projects, WriteInput, WriteActive, WriteReady, Inv, LedgerInv
<1>3. \A q \in Planes : ShownInv(q)'
  <2> SUFFICES ASSUME NEW q \in Planes PROVE ShownInv(q)'
    OBVIOUS
  <2>1. ShownInv(q) /\ DOMAIN shown = Planes
    BY DEF LoadInv, DispatchInv, FilesInv
  <2>2. CASE WriteInput(p)
    BY <1>2, <2>1, <2>2, ShownKept DEF WriteInput
  <2>3. CASE WriteActive(p)
    <3>1. ready' = ready /\ shown' = [shown EXCEPT ![p] = o]
      BY <1>1, <2>3 DEF WriteActive
    <3> QED BY <1>2, <2>1, <3>1 DEF ShownInv
  <2>4. CASE WriteReady(p)
    <3>1. shown' = shown /\ ready' = ready \cup {o} /\ shown[p] = o
      BY <1>1, <2>4 DEF WriteReady, DispatchInv, PlaneInv
    <3> QED BY <1>1, <1>2, <2>1, <3>1 DEF ShownInv
  <2> QED BY <2>2, <2>3, <2>4 DEF Projects
<1> QED BY <1>2, <1>3, LedgerSame

LEMMA ShownRuns ==
  ASSUME LoadInv, NEW p \in Planes, NEW role, RunNative(p, role)
  PROVE  LoadInv'
<1>1. UNCHANGED <<ledger, shown, ready>> /\ DOMAIN wrote \subseteq DOMAIN wrote'
  BY DEF RunNative, With
<1>2. \A q \in Planes : ShownInv(q)'
  BY <1>1, ShownKept DEF LoadInv
<1> QED BY <1>1, <1>2, LedgerSame

LEMMA LoadIdles ==
  ASSUME LoadInv, UNCHANGED <<shown, ready, wrote>>, Idles(ledger', ledger)
  PROVE  LoadInv'
<1>1. \A p \in Planes : ShownInv(p)'
  BY ShownKept DEF LoadInv, Idles, SameOccs
<1>2. UsageOK(ledger)' /\ AcceptedInv' /\ RepInv'
  BY DEF LoadInv, Idles, SameOccs, UsageOK, AcceptedInv, RepInv, Used
<1>3. LapsedInv' /\ PendInv'
  BY DEF LoadInv, Idles, SameOccs, LapsedInv, Settled, PendInv, Replaces, Asking
<1>4. ContInv'
  BY DEF LoadInv, Idles, SameOccs, ContInv
<1> QED BY <1>1, <1>2, <1>3, <1>4 DEF LoadInv

LEMMA LoadSameOccs ==
  ASSUME LoadInv, UNCHANGED <<shown, ready, wrote>>, SameOccs(ledger', ledger),
         LapsedInv', PendInv', ledger'.cont.node # Nowhere
  PROVE  LoadInv'
<1>1. \A p \in Planes : ShownInv(p)'
  BY ShownKept DEF LoadInv, SameOccs
<1>2. UsageOK(ledger)' /\ AcceptedInv' /\ RepInv'
  BY DEF LoadInv, SameOccs, UsageOK, AcceptedInv, RepInv, Used
<1> QED BY <1>1, <1>2 DEF LoadInv, ContInv

LEMMA LoadResumes ==
  ASSUME Inv, Gates, LoadInv, UNCHANGED <<shown, ready, wrote>>, Resumes
  PROVE  LoadInv'
<1>1. /\ ledger'.cont.node = (IF ledger.request.kind = "CLOSE" THEN At("finalize")
                                                               ELSE Prepare(ledger.pending.target))
      /\ \/ ledger'.pending = NoPending
         \/ ledger'.pending = Pending("review", "doublechecker", ledger.pending.lineage, ledger.pending.occ)
            /\ ledger.request.kind = "ASSESS"
  BY ResumesEffect
<1>2. SameOccs(ledger', ledger)
  BY OthersSameOccs
<1>3. /\ ledger.request.kind \in {"ASSESS", "CLOSE"}
      /\ ledger.request.kind = "ASSESS" => ledger.pending.kind = "learning_gate"
  BY DEF Resumes, Inv, LedgerInv, IsRequest
<1>4. ledger.request.kind = "ASSESS" => Settled(ledger.active["foreground"]) /\ ledger.pending # NoPending
  BY <1>3, NoGate DEF Gates, GateInv, Settled
<1>5. LapsedInv'
  <2>1. ledger.request.kind = "CLOSE" => ~Asking(ledger'.cont.node)
    BY <1>1, Heads DEF Asking
  <2> QED BY <1>2, <1>3, <1>4, <2>1 DEF LapsedInv, Settled, SameOccs
<1>6. PendInv'
  <2>1. ledger'.pending # NoPending => ledger'.pending.occ = ledger.pending.occ /\ ledger.pending # NoPending
    BY <1>1, <1>4, NoGate
  <2> QED BY <1>2, <2>1 DEF LoadInv, PendInv, SameOccs, Replaces
<1>7. ledger'.cont.node # Nowhere
  BY <1>1, Heads DEF Nowhere
<1> QED BY <1>2, <1>5, <1>6, <1>7, LoadSameOccs

LEMMA LoadReplace ==
  ASSUME Inv, LoadInv, UNCHANGED <<shown, ready, wrote>>, NEW o, RecordReplacement(o),
         o = ledger.active["foreground"]
  PROVE  LoadInv'
<1>1. /\ ledger'.pending = Pending("operator_replacement", ledger.occ[o].role, ledger.occ[o].lineage, o)
      /\ ledger'.cont.node = Replace(ledger.occ[o].role)
  BY RecordReplacementEffect
<1>2. SameOccs(ledger', ledger)
  BY OthersSameOccs
<1>3. ledger'.pending # NoPending /\ ledger'.pending.occ = ledger'.active["foreground"]
  BY <1>1, <1>2, NoGate DEF SameOccs
<1>4. ledger'.cont.node[1] = "replace" /\ ledger'.cont.node # Nowhere
  BY <1>1, Heads DEF Nowhere
<1>5. LapsedInv' /\ PendInv'
  BY <1>3, <1>4 DEF LapsedInv, PendInv
<1> QED BY <1>2, <1>4, <1>5, LoadSameOccs

LEMMA LoadAccepts ==
  ASSUME Inv, DispatchInv, LoadInv, UNCHANGED <<shown, ready, wrote>>,
         NEW p \in Planes, NEW o, NEW outcome, Accepts(p, o, outcome)
  PROVE  LoadInv'
<1>1. PICK r \in Accepted(ledger, o, outcome, source) :
        /\ ledger' = r.ledger /\ IsAcceptance(r, ledger, o) /\ o \in 1..Len(ledger.occ) /\ o \in DOMAIN wrote
        /\ o = ledger.active[p] /\ Plane(ledger.occ[o].role) = p
  BY AcceptsOne
<1>2. /\ ledger'.occ = ledger.occ /\ ledger'.active = ledger.active
      /\ DOMAIN ledger'.accepted = DOMAIN ledger.accepted \cup {o}
      /\ ledger'.cont.node = r.route /\ RouteOf(ledger.occ[o].role, r.route)
      /\ (ledger.occ[o].role = "learning" => ledger'.pending = ledger.pending)
  BY <1>1 DEF IsAcceptance, With
<1>3. Uses(ledger', ledger)
  BY UsesAccepted DEF LoadInv
<1>4. \A q \in Planes : ShownInv(q)'
  BY <1>2, ShownKept DEF LoadInv
<1>5. AcceptedInv' /\ UsageOK(ledger)'
  BY <1>1, <1>2, <1>3 DEF LoadInv, AcceptedInv, Uses, UsageOK
<1>6. RepInv'
  <2> SUFFICES ASSUME NEW x \in 1..Len(ledger.occ), ledger.occ[x].of # 0
               PROVE  LET c == ledger.occ[x] IN
                      /\ ledger.occ[c.of].role = c.role /\ ledger.occ[c.of].lineage = c.lineage
                      /\ Used(ledger', <<"replacement", c.role, c.lineage>>) >= 1
    BY <1>2 DEF RepInv
  <2> DEFINE key == <<"replacement", ledger.occ[x].role, ledger.occ[x].lineage>>
  <2>1. Used(ledger', key) >= Used(ledger, key) /\ Used(ledger, key) \in Nat /\ Used(ledger', key) \in Nat
    BY <1>3, UsedIsNat DEF Uses, LoadInv
  <2>2. Used(ledger, key) >= 1
    BY DEF LoadInv, RepInv
  <2>3. Used(ledger', key) >= 1
    <3> HIDE DEF key
    <3> QED BY <2>1, <2>2
  <2> QED BY <2>3 DEF LoadInv, RepInv
<1>7. LapsedInv'
  <2>1. CASE p = "foreground"
    BY <1>1, <1>2, <2>1 DEF LapsedInv, Settled
  <2>2. CASE p = "learning"
    <3>1. ledger.occ[o].role = "learning"
      BY <1>1, <2>2 DEF Plane
    <3>2. r.route \in {Replace("learning"), At("emit_ack")}
      BY <1>2, <3>1 DEF RouteOf
    <3> QED BY <1>2, <3>2, Heads DEF LapsedInv, Asking
  <2> QED BY <2>1, <2>2 DEF Planes
<1>8. PendInv'
  <2>1. ledger'.pending \in {ledger.pending, NoPending} \/ ledger'.pending.occ = o
    BY <1>1, AcceptedPending DEF DispatchInv
  <2> QED BY <1>2, <2>1 DEF LoadInv, PendInv, Replaces
<1>9. ContInv'
  BY <1>2, Heads DEF RouteOf, Routes, ContInv, Nowhere
<1> QED BY <1>4, <1>5, <1>6, <1>7, <1>8, <1>9 DEF LoadInv

\* A reservation, without what it saves for the exchange.
IsNew(c, role, replacement) ==
  LET new == Len(ledger.occ) + 1 IN
  /\ new \in Nat /\ Len(ledger'.occ) = new /\ ledger'.occ[new] = c /\ Len(ledger.occ) \in Nat
  /\ \A x \in 1..Len(ledger.occ) : ledger'.occ[x] = ledger.occ[x]
  /\ c.role = role /\ c.of = (IF replacement THEN Old(ledger, role) ELSE 0)
  /\ replacement => c.lineage = ledger.occ[Old(ledger, role)].lineage
  /\ ledger'.active = [ledger.active EXCEPT ![Plane(role)] = new]
  /\ ledger'.accepted = ledger.accepted /\ ledger'.cont.node = Native(role)
  /\ \/ ledger'.pending = ledger.pending
     \/ replacement /\ ledger.pending = NoPending /\ ledger'.pending.occ = Old(ledger, role)

LEMMA NewReserved ==
  ASSUME Inv, NEW p \in Planes, NEW role \in Roles, NEW replacement \in BOOLEAN, Reserves(p, role, replacement)
  PROVE  \E c : IsNew(c, role, replacement)
<1>1. IsLedger(ledger) /\ IsSeq(ledger.occ)
  BY DEF Inv, LedgerInv
<1>2. IsReservation(ledger', ledger, role, replacement, source)
  BY <1>1, ReservedEffect DEF Reserves
<1>3. PICK c : ledger'.occ = Append(ledger.occ, c) /\ IsReserved(c, ledger, role, replacement, source)
  BY <1>2 DEF IsReservation
<1>4. /\ Len(ledger.occ) \in Nat /\ Len(ledger'.occ) = Len(ledger.occ) + 1
      /\ ledger'.occ[Len(ledger.occ) + 1] = c
      /\ \A x \in 1..Len(ledger.occ) : ledger'.occ[x] = ledger.occ[x]
  BY <1>1, <1>3, AppendIsSeq
<1>5. /\ c.role = role /\ c.of = (IF replacement THEN Old(ledger, role) ELSE 0)
      /\ (replacement => c.lineage = ledger.occ[Old(ledger, role)].lineage)
  BY <1>3 DEF IsReserved, ReservedFor
<1>6. /\ ledger'.active = [ledger.active EXCEPT ![Plane(role)] = Len(ledger.occ) + 1]
      /\ ledger'.accepted = ledger.accepted /\ ledger'.cont.node = Native(role)
  BY <1>2 DEF IsReservation
<1>7. \/ ledger'.pending = ledger.pending
      \/ replacement /\ ledger.pending = NoPending /\ ledger'.pending.occ = Old(ledger, role)
  BY <1>2, NoGate DEF IsReservation
<1> QED BY <1>4, <1>5, <1>6, <1>7 DEF IsNew

\* Before a new reservation the plane has settled, or it replaces what the plane works on.
LEMMA SettledShown ==
  ASSUME DispatchInv, LoadInv, NEW p \in Planes, Settled(ledger.active[p])
  PROVE  shown[p] = 0 \/ shown[p] \in DOMAIN ledger.accepted
  BY DEF Settled, DispatchInv, FilesInv, LoadInv, AcceptedInv, ShownInv

LEMMA SettledFirst ==
  ASSUME Inv, DispatchInv, LoadInv, NEW p \in Planes, NEW role \in Roles, Reserves(p, role, FALSE)
  PROVE  Settled(ledger.active[p])
<1> DEFINE a == ledger.active[p]
<1>1. /\ Plane(role) = p /\ a \in 0..Len(ledger.occ) /\ Len(ledger.occ) \in Nat /\ IsSeq(ledger.occ)
      /\ Asked(ledger, role, FALSE, Greenfield) /\ ~Interrupted(p, ledger, role, FALSE)
      /\ (a # 0 => Plane(ledger.occ[a].role) = p)
  BY DEF Reserves, Inv, LedgerInv, DispatchInv, OccInv
<1>2. CASE p = "learning"
  <2>1. role = "learning" /\ (a # 0 => ledger.occ[a].role = "learning")
    BY <1>1, <1>2 DEF Plane
  <2> QED BY <1>1, <2>1 DEF Interrupted, Settled
<1>3. CASE p = "foreground"
  <2>1. CASE ledger.occ = <<>>
    BY <1>1, <2>1 DEF Settled
  <2>2. CASE ledger.cont.node = Prepare(role)
    <3>1. Asking(ledger.cont.node) /\ ledger.cont.node[1] # "replace"
      BY <1>1, <1>3, <2>2, Heads DEF Asking, Plane
    <3> QED BY <1>3, <3>1 DEF LoadInv, LapsedInv
  <2> QED BY <1>1, <2>1, <2>2 DEF Asked
<1> QED BY <1>2, <1>3 DEF Planes

LEMMA ReplacesOwn ==
  ASSUME Inv, DispatchInv, Gates, LoadInv, Caps["replacement"] = 1,
         NEW p \in Planes, NEW role \in Roles, Reserves(p, role, TRUE)
  PROVE  \/ Settled(ledger.active[p])
         \/ Old(ledger, role) = ledger.active[p]
<1> DEFINE a == ledger.active[p]
           k == Old(ledger, role)
<1>1. /\ Plane(role) = p /\ k # 0 /\ ledger.occ[k].role = role
      /\ (k \in DOMAIN ledger.accepted => ledger.cont.node = Replace(role))
  BY ReplacementReserved DEF Reserves, Asked
<1> SUFFICES ASSUME k # a, ~Settled(a) PROVE FALSE
  OBVIOUS
<1>2. ledger.pending # NoPending /\ ledger.pending.target = role /\ k = ledger.pending.occ
  BY <1>1 DEF Old
<1>3. p # "learning"
  <2> SUFFICES ASSUME p = "learning" PROVE FALSE
    OBVIOUS
  <2>1. Turn("learning") /\ step["learning"] \in Preparing /\ role = "learning"
    BY <1>1 DEF Reserves, Preparing, Plane
  <2>2. ledger.pending.kind = "learning_gate"
    BY <2>1, LearningAssesses
  <2> QED BY <1>2, <2>1, <2>2 DEF Gates, GateInv
<1>4. p = "foreground" /\ role # "learning"
  BY <1>1, <1>3 DEF Planes, Plane
<1>5. k \notin DOMAIN ledger.accepted
  <2> SUFFICES ASSUME k \in DOMAIN ledger.accepted PROVE FALSE
    OBVIOUS
  <2>1. Asking(ledger.cont.node)
    BY <1>1, <1>4, Heads DEF Asking
  <2> QED BY <1>2, <1>4, <2>1 DEF LoadInv, LapsedInv
<1>6. PICK x \in 1..Len(ledger.occ) : ledger.occ[x].of = k
  BY <1>2, <1>4, <1>5 DEF LoadInv, PendInv, Replaces
<1>7. Used(ledger, <<"replacement", role, ledger.occ[k].lineage>>) >= 1
  BY <1>1, <1>6 DEF LoadInv, RepInv
<1> DEFINE key == <<"replacement", role, ledger.occ[k].lineage>>
<1>8. key \in ReservedKeys(ledger, role, TRUE)
  BY DEF ReservedKeys, ReservedFor
<1>9. Used(ledger, key) < Caps[key[1]] /\ key[1] = "replacement"
  <2> HIDE DEF key
  <2>1. Used(ledger, key) < Caps[key[1]]
    BY <1>8, UsesReserved DEF LoadInv
  <2> QED BY <2>1 DEF key
<1>10. Used(ledger, key) \in Nat
  BY UsedIsNat DEF LoadInv
<1> QED BY <1>7, <1>9, <1>10

LEMMA LoadReserves ==
  ASSUME Inv, DispatchInv, Gates, LoadInv, Caps["replacement"] = 1, UNCHANGED <<shown, ready, wrote>>,
         NEW p \in Planes, NEW role \in Roles, NEW replacement \in BOOLEAN, Reserves(p, role, replacement)
  PROVE  LoadInv'
<1> DEFINE new == Len(ledger.occ) + 1
           old == Old(ledger, role)
           a == ledger.active[p]
<1>1. PICK c : IsNew(c, role, replacement)
  BY NewReserved
<1>2. /\ Plane(role) = p /\ (\A q \in Planes : ledger.active[q] \in 0..Len(ledger.occ)) /\ Len(ledger.occ) \in Nat
      /\ DOMAIN ledger.active = Planes /\ DOMAIN ledger.accepted \subseteq 1..Len(ledger.occ)
  BY DEF Reserves, Inv, LedgerInv
<1>3. ledger'.active[p] = new /\ \A q \in Planes \ {p} : ledger'.active[q] = ledger.active[q]
  BY <1>1, <1>2 DEF IsNew
<1>4. replacement => /\ old \in 1..Len(ledger.occ) /\ ledger.occ[old].role = role
                     /\ ~Interrupted(p, ledger, role, TRUE)
  <2>1. replacement => old # 0 /\ ledger.occ[old].role = role /\ ~Interrupted(p, ledger, role, TRUE)
    BY ReplacementReserved DEF Asked
  <2>2. old \in 0..Len(ledger.occ)
    BY OldReserved DEF DispatchInv
  <2>3. old # 0 => old \in 1..Len(ledger.occ)
    <3> HIDE DEF old
    <3> QED BY <1>2, <2>2
  <2> QED BY <2>1, <2>3
<1>5. Settled(a) \/ (replacement /\ old = a)
  BY SettledFirst, ReplacesOwn
<1>6. Uses(ledger', ledger)
  BY UsesReserved DEF LoadInv
<1>7. c.of = (IF replacement THEN old ELSE 0) /\ ledger'.accepted = ledger.accepted
  BY <1>1 DEF IsNew
<1>8. ShownInv(p)'
  <2>1. new # 0 /\ new \notin ready /\ ledger'.occ[new] = c
    BY <1>1, <1>2 DEF IsNew, DispatchInv, FilesInv
  <2>2. ASSUME shown[p] # 0 PROVE shown[p] \in DOMAIN ledger.accepted \/ c.of = shown[p]
    <3>1. CASE Settled(a)
      BY <2>2, <3>1, SettledShown
    <3>2. CASE ~Settled(a)
      <4>1. replacement /\ old = a /\ c.of = a /\ a # 0 /\ a \notin DOMAIN ledger.accepted
        BY <1>5, <1>7, <3>2 DEF Settled
      <4>2. CASE shown[p] = a
        BY <4>1, <4>2
      <4>3. CASE shown[p] # a
        <5>1. a \notin ready /\ (shown[p] \in DOMAIN ledger.accepted \/ ledger.occ[a].of = shown[p])
          BY <2>2, <4>3 DEF LoadInv, ShownInv
        <5>2. ledger.occ[a].of = 0
          BY <1>4, <4>1, <5>1 DEF Interrupted
        <5> QED BY <2>2, <5>1, <5>2
      <4> QED BY <4>2, <4>3
    <3> QED BY <3>1, <3>2
  <2> QED BY <1>3, <1>7, <2>1, <2>2 DEF ShownInv
<1>9. \A q \in Planes \ {p} : ShownInv(q)'
  <2> SUFFICES ASSUME NEW q \in Planes \ {p} PROVE ShownInv(q)'
    OBVIOUS
  <2>1. ledger.active[q] # 0 => ledger'.occ[ledger.active[q]] = ledger.occ[ledger.active[q]]
    BY <1>1, <1>2 DEF IsNew
  <2> QED BY <1>3, <1>7, <2>1, ShownKept DEF LoadInv
<1>10. AcceptedInv' /\ UsageOK(ledger)' /\ ContInv'
  BY <1>1, <1>6, Heads DEF LoadInv, AcceptedInv, Uses, UsageOK, IsNew, ContInv, Nowhere
<1>11. RepInv'
  <2> SUFFICES ASSUME NEW x \in 1..Len(ledger'.occ), ledger'.occ[x].of # 0
               PROVE  LET d == ledger'.occ[x] IN
                      /\ ledger'.occ[d.of].role = d.role /\ ledger'.occ[d.of].lineage = d.lineage
                      /\ Used(ledger', <<"replacement", d.role, d.lineage>>) >= 1
    BY DEF RepInv
  <2>1. CASE x = new
    <3>1. ledger'.occ[x] = c /\ replacement /\ c.of = old /\ c.role = role /\ c.lineage = ledger.occ[old].lineage
      BY <1>1, <1>7, <2>1 DEF IsNew
    <3>2. ledger'.occ[old] = ledger.occ[old]
      BY <1>1, <1>4, <3>1 DEF IsNew
    <3>3. <<"replacement", role, ledger.occ[old].lineage>> \in ReservedKeys(ledger, role, replacement)
      BY <3>1 DEF ReservedKeys, ReservedFor
    <3>4. Used(ledger', <<"replacement", role, ledger.occ[old].lineage>>) >= 1
      BY <3>3, UsesReserved DEF LoadInv
    <3> QED BY <1>4, <3>1, <3>2, <3>4
  <2>2. CASE x # new
    <3>1. x \in 1..Len(ledger.occ) /\ ledger'.occ[x] = ledger.occ[x]
      BY <1>1, <1>2, <2>2 DEF IsNew
    <3> DEFINE d == ledger.occ[x]
               key == <<"replacement", d.role, d.lineage>>
    <3>2. ledger.occ[d.of].role = d.role /\ ledger.occ[d.of].lineage = d.lineage /\ Used(ledger, key) >= 1
      BY <3>1 DEF LoadInv, RepInv
    <3>3. d.of \in 1..Len(ledger.occ)
      <4>1. d.of \in 0..(x - 1) /\ d.of # 0
        BY <3>1 DEF DispatchInv, OccInv
      <4> QED BY <1>2, <3>1, <4>1
    <3>4. ledger'.occ[d.of] = ledger.occ[d.of]
      BY <1>1, <3>3 DEF IsNew
    <3>5. Used(ledger', key) >= 1
      <4>1. Used(ledger', key) >= Used(ledger, key) /\ Used(ledger, key) \in Nat /\ Used(ledger', key) \in Nat
        BY <1>6, UsedIsNat DEF Uses, LoadInv
      <4> HIDE DEF key
      <4> QED BY <3>2, <4>1
    <3> QED BY <3>1, <3>2, <3>4, <3>5
  <2> QED BY <2>1, <2>2
<1>12. LapsedInv'
  <2>1. ~Asking(ledger'.cont.node)
    BY <1>1, Heads DEF IsNew, Asking
  <2> QED BY <2>1 DEF LapsedInv
<1>13. PendInv'
  <2> SUFFICES ASSUME ledger'.pending # NoPending
               PROVE  LET k == ledger'.pending.occ IN
                      \/ k \in DOMAIN ledger'.accepted \/ k = ledger'.active["foreground"]
                      \/ \E x \in 1..Len(ledger'.occ) : Replaces(ledger', x, k)
    BY DEF PendInv
  <2> DEFINE k == ledger'.pending.occ
  <2>1. new \in 1..Len(ledger'.occ) /\ ledger'.occ[new] = c
    BY <1>1 DEF IsNew
  <2>2. replacement => Replaces(ledger', new, old)
    BY <1>7, <2>1 DEF Replaces
  <2>3. CASE ledger'.pending = ledger.pending
    <3>1. \A x \in 1..Len(ledger.occ) : x \in 1..Len(ledger'.occ) /\ (Replaces(ledger, x, k) => Replaces(ledger', x, k))
      BY <1>1 DEF IsNew, Replaces
    <3>2. ASSUME k = ledger.active["foreground"], p = "foreground", k \notin DOMAIN ledger.accepted PROVE replacement /\ k = old
      <4>1. k # 0
        <5>1. ledger.pending.occ \in 1..Len(ledger.occ)
          BY <2>3 DEF DispatchInv, OccInv
        <5> QED BY <1>2, <2>3, <5>1
      <4> QED BY <1>5, <3>2, <4>1 DEF Settled
    <3>3. \/ k \in DOMAIN ledger.accepted \/ k = ledger.active["foreground"]
          \/ \E x \in 1..Len(ledger.occ) : Replaces(ledger, x, k)
      BY <2>3 DEF LoadInv, PendInv
    <3>4. p # "foreground" => ledger'.active["foreground"] = ledger.active["foreground"]
      BY <1>3 DEF Planes
    <3> QED BY <1>7, <2>1, <2>2, <3>1, <3>2, <3>3, <3>4
  <2>4. CASE replacement /\ ledger'.pending.occ = old
    BY <2>1, <2>2, <2>4
  <2> QED BY <1>1, <2>3, <2>4 DEF IsNew
<1> QED BY <1>8, <1>9, <1>10, <1>11, <1>12, <1>13 DEF LoadInv

LEMMA LoadStep ==
  ASSUME AnyOccurrence = FALSE, Caps["replacement"] = 1, Inv, DispatchInv, Gates, LoadInv, Next
  PROVE  LoadInv'
<1>1. \/ UNCHANGED <<shown, ready, wrote>>
      \/ \E p \in Planes : Projects(p) \/ \E role : RunNative(p, role)
  BY WhoWrites
<1>2. ASSUME UNCHANGED <<shown, ready, wrote>> PROVE LoadInv'
  <2>1. ASSUME NEW o \in DOMAIN ledger.occ, RecordReplacement(o) PROVE o = ledger.active["foreground"]
    BY <2>1 DEF RecordReplacement
  <2> QED BY <1>2, <2>1, Moves, LoadIdles, LoadResumes, LoadReplace, LoadAccepts, LoadReserves
<1> QED BY <1>1, <1>2, ShownProjects, ShownRuns

\* Wherever a script dies, between any two of its saves and projections, the next one can load
\* the ledger and what lies beside it (lad_state.load), as long as a role and a lineage have one
\* replacement (lad_state.CAPS) and the operator replaces the active occurrence.
THEOREM NeverLockedOut ==
  ASSUME AnyOccurrence = FALSE, Caps["replacement"] = 1
  PROVE  Spec => []Loadable
<1>1. Inv /\ DispatchInv /\ Gates /\ LoadInv /\ [Next]_vars => LoadInv'
  <2>1. ASSUME LoadInv, UNCHANGED vars PROVE LoadInv'
    <3>1. UNCHANGED <<ledger, shown, ready, wrote>>
      BY <2>1 DEF vars, files
    <3>2. \A p \in Planes : ShownInv(p)'
      BY <2>1, <3>1, ShownKept DEF LoadInv
    <3> QED BY <2>1, <3>1, <3>2, LedgerSame
  <2> QED BY <2>1, LoadStep
<1>2. Inv /\ DispatchInv /\ Gates /\ [Next]_vars => Gates'
  <2>1. UNCHANGED vars => UNCHANGED ledger
    BY DEF vars
  <2> QED BY <2>1, GatesStep, GatesSame
<1>3. DispatchInv /\ LoadInv => Loadable
  <2> SUFFICES ASSUME DispatchInv, LoadInv PROVE CanLoad(ledger)
    BY DEF Loadable
  <2>1. \A o \in DOMAIN ledger.occ : /\ o \in ready => o \in input
                                     /\ o \in DOMAIN ledger.accepted => o \in ready /\ o \in DOMAIN wrote
    BY DEF DispatchInv, FilesInv, LoadInv, AcceptedInv
  <2>2. \A p \in Planes : ShownInv(p)
    BY DEF LoadInv
  <2>3. \A k \in DOMAIN ledger.usage : ledger.usage[k] <= Caps[k[1]]
    BY DEF LoadInv, UsageOK
  <2>4. ledger.occ # <<>> => ledger.cont.node # Nowhere
    BY DEF LoadInv, ContInv
  <2> QED BY <2>1, <2>2, <2>3, <2>4 DEF CanLoad, ShownInv
<1> QED BY <1>1, <1>2, <1>3, LoadInit, GatesInit, TurnsKept, ReservationsKept, PTL DEF Spec
=============================================================================
