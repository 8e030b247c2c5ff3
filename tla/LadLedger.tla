----------------------------- MODULE LadLedger -----------------------------
(***************************************************************************)
(* The retained ledger of a LAD session (workflows/lad/scripts): one       *)
(* record, saved whole, and the functions the scripts compute on it:       *)
(* lad_state.debit, packet, scope and mark, boundaries.choose with its     *)
(* helpers, and the reservations of prepare_role.prepare.                  *)
(*                                                                         *)
(* An occurrence is one attempt of a role, numbered as it is reserved.  A  *)
(* route is the node of the graph it leads to.  Results, criteria and      *)
(* texts are abstracted: where the code compares them and may refuse, the  *)
(* session (module LadSession) may refuse; the source under work is a      *)
(* version number.                                                         *)
(***************************************************************************)
EXTENDS Integers, Sequences, FiniteSets

CONSTANTS
  Caps,       \* the limits by name: all, each role, replacement, ...
  Packets     \* the lineages of a complete plan, in order

SessionRoles == {"recon", "planner", "manager", "consultant", "arbiter"}
PacketRoles == {"builder", "checker", "fixer", "doublechecker", "updater"}
Roles == SessionRoles \cup PacketRoles \cup {"troubleshooter", "learning"}

ASSUME LadLedgerAssumption ==
  /\ Caps \in [DOMAIN Caps -> Nat]
  /\ Roles \cup {"all", "replacement", "local_repair", "planning_repair", "remediation"} \subseteq DOMAIN Caps
  /\ Packets \in Seq(STRING)

\* The nodes of the graph, by their script and its arguments.
Prepare(role) == <<"prepare", role>>
Replace(role) == <<"replace", role>>
Native(role) == <<"native", role>>
Accept(role, outcome) == <<"accept", role, outcome>>
At(name) == <<name>>

NoPending == [kind |-> "none"]
NoRequest == [kind |-> "none"]
Pending(kind, target, lineage, o) ==
  [kind |-> kind, target |-> target, lineage |-> lineage, occ |-> o]

NewState ==
  [occ |-> <<>>, accepted |-> <<>>, active |-> [foreground |-> 0, learning |-> 0],
   usage |-> [k \in {} |-> 0], intents |-> [o \in {} |-> <<>>],
   plan |-> <<>>, baselines |-> {}, reviews |-> [l \in {} |-> 0],
   fixers |-> [l \in {} |-> 0], pairs |-> {}, learned |-> {},
   pending |-> NoPending, request |-> NoRequest, seen |-> 0, acked |-> 0, ackRoute |-> At("none"),
   cont |-> [node |-> At("none"), occ |-> 0], terminal |-> "none"]

Plane(role) == IF role = "learning" THEN "learning" ELSE "foreground"

\* f with f[x] = y, defined there or not; f without x.
With(f, x, y) == [z \in DOMAIN f \cup {x} |-> IF z = x THEN y ELSE f[z]]
Without(f, x) == [z \in DOMAIN f \ {x} |-> f[z]]

Used(L, k) == IF k \in DOMAIN L.usage THEN L.usage[k] ELSE 0
RoleKey(role, lineage) == IF role \in SessionRoles THEN <<role>> ELSE <<role, lineage>>

\* debit: all the keys, or none.
DebitUnchecked(L, keys) ==
  {[L EXCEPT !.usage = [k \in DOMAIN L.usage \cup keys |->
                          Used(L, k) + IF k \in keys THEN 1 ELSE 0]]}
Debit(L, keys) ==
  IF \E k \in keys : Used(L, k) >= Caps[k[1]] THEN {}
  ELSE {[L EXCEPT !.usage = [k \in DOMAIN L.usage \cup keys |->
                               Used(L, k) + IF k \in keys THEN 1 ELSE 0]]}

\* packet, scope: the first packet of the plan that is not accepted.
Open(L) == {n \in DOMAIN L.plan : ~L.plan[n].accepted}
Cursor(L) == CHOOSE n \in Open(L) : \A k \in Open(L) : n <= k
Scope(L) == IF Open(L) = {} THEN "unpacketized" ELSE L.plan[Cursor(L)].lineage

Mark(L, node, o) == [L EXCEPT !.cont = [node |-> node, occ |-> o]]

-----------------------------------------------------------------------------
\* What a role's result may lead to: a set of [route, ledger], empty when refused.
To(route, L) == {[route |-> route, ledger |-> L]}

Recover(L, o, kind) ==
  LET c == L.occ[o] IN
  IF c.role \notin {"troubleshooter", "consultant"}
    THEN To(Prepare("troubleshooter"),
            [L EXCEPT !.pending = Pending(kind, c.role, c.lineage, o)])
  ELSE IF L.pending = NoPending THEN {}
  ELSE To(Prepare("troubleshooter"), L)

Consult(L, o) ==
  LET c == L.occ[o] IN
  To(Prepare("consultant"),
     IF L.pending # NoPending THEN L
     ELSE [L EXCEPT !.pending = Pending("contract", c.role, c.lineage, o)])

Onward(L) == To(IF Open(L) = {} THEN Prepare("arbiter") ELSE Prepare("builder"), L)

\* The packets a new plan may reopen.
ReopenedAlways(L) == SUBSET DOMAIN L.plan
Reopened(L) == IF L.pending.kind = "remediation" THEN SUBSET DOMAIN L.plan ELSE {{}}

\* _plan: accepted packets stay accepted, unless a remediation reopens them.
Plan(L) ==
  LET Planned(affected) ==
        [n \in DOMAIN Packets |->
           [lineage |-> Packets[n],
            accepted |-> n \in DOMAIN L.plan /\ L.plan[n].accepted /\ n \notin affected]]
  IN UNION {Onward([L EXCEPT !.plan = Planned(a), !.pending = NoPending]) : a \in Reopened(L)}

\* _review: a checker freezes the baseline and clears what was pending.
Review(L, o, passed, source) ==
  LET c == L.occ[o]
      checked == IF c.role = "checker"
                   THEN [L EXCEPT !.baselines = @ \cup {c.lineage}, !.pending = NoPending]
                   ELSE L
  IN IF passed THEN [checked EXCEPT !.reviews = With(@, c.lineage, source)]
               ELSE [checked EXCEPT !.reviews = Without(@, c.lineage)]

\* Two evaluated repairs of a packet that Learning has not seen.
DueLate(L, lineage) ==
  Cardinality({p \in L.pairs : p[1] = lineage}) >= 3 /\ lineage \notin L.learned
Due(L, lineage) ==
  Cardinality({p \in L.pairs : p[1] = lineage}) >= 2 /\ lineage \notin L.learned

\* _gate: a repair and its evaluation are a pair, counted once; the second pair
\* goes to Learning, once for each lineage.
Gate(L, o, passed) ==
  LET c == L.occ[o]
      M == [L EXCEPT !.pairs = @ \cup {<<c.lineage, c.fixer>>}]
      paired == Cardinality({p \in M.pairs : p[1] = c.lineage})
      target == IF passed THEN "updater" ELSE IF paired < 2 THEN "fixer" ELSE "troubleshooter"
      N == IF target = "troubleshooter"
             THEN [M EXCEPT !.pending = Pending("review", c.role, c.lineage, o)] ELSE M
  IN CASE c.fixer = 0 -> To(Prepare(IF passed THEN "updater" ELSE "fixer"), L)
       [] c.fixer # 0 /\ c.fixer \notin DOMAIN L.accepted -> {}
       [] c.fixer # 0 /\ c.fixer \in DOMAIN L.accepted /\ Due(M, c.lineage) ->
            To(At("emit_request"),
               [N EXCEPT !.pending = Pending("learning_gate", target, c.lineage, o)])
       [] OTHER -> To(Prepare(target), N)

\* The roles a repair may resume: not another troubleshooter's, nor Learning's.
Resumable(L) == L.pending # NoPending /\ L.pending.target \in SessionRoles \cup PacketRoles

Repaired(L, o, outcome) ==
  LET c == L.occ[o] IN
  CASE ~Resumable(L) \/ ~c.repair -> {}
    [] Resumable(L) /\ c.repair /\ outcome = "PASS_REVIEW_REPAIRED" ->
         IF c.lineage \in DOMAIN L.fixers THEN To(Prepare("doublechecker"), L) ELSE {}
    [] OTHER -> To(Replace(L.pending.target), L)

\* An updater's acceptance of a packet needs a review of the source as it is.
Updated(L, o, outcome, source) ==
  LET c == L.occ[o]
      unreviewed == [L EXCEPT !.reviews = Without(@, c.lineage)] IN
  CASE outcome = "REVIEW_INVALIDATED_NEW_BASELINE" ->
         To(Prepare("checker"),
            [unreviewed EXCEPT !.pending = Pending("new_baseline", "checker", c.lineage, o)])
    [] outcome = "REVIEW_INVALIDATED_SAME_BASELINE" -> To(Prepare("doublechecker"), unreviewed)
    [] OTHER -> IF c.lineage \notin DOMAIN L.reviews \/ Open(L) = {} THEN {}
                ELSE IF L.reviews[c.lineage] # source THEN {}
                ELSE Onward([L EXCEPT !.plan[Cursor(L)].accepted = TRUE])

Verdict(L, o, outcome) ==
  IF outcome = "PASS"
    THEN IF Open(L) # {} THEN {}
         ELSE To(At("emit_request"), [L EXCEPT !.terminal = "succeeded", !.pending = NoPending])
    ELSE UNION {To(Prepare("manager"),
                   [M EXCEPT !.pending = Pending("remediation", "manager", "unpacketized", o)]) :
                  M \in Debit(L, {<<"remediation">>})}

Learnt(L, o, outcome) ==
  LET lineage == L.occ[o].lineage IN
  IF L.request = NoRequest THEN {}
  ELSE IF outcome = "ERROR_TRANSIENT_RESOLVED" /\ Used(L, <<"learning", lineage>>) < 2
    THEN To(Replace("learning"), L)
  ELSE To(At("emit_ack"), [L EXCEPT !.learned = @ \cup {lineage}])

\* The outcomes of a role's own.
Chosen(L, o, outcome, source) ==
  LET c == L.occ[o]
      role == c.role
      passed == outcome = "PASS" IN
  CASE role = "recon" -> IF passed THEN To(Prepare("planner"), L) ELSE Consult(L, o)
    [] role = "planner" -> IF passed THEN To(Prepare("manager"), L) ELSE Consult(L, o)
    [] role = "manager" -> IF passed THEN Plan(L) ELSE Consult(L, o)
    [] role = "builder" -> To(Prepare("checker"), L)
    [] role = "fixer" -> To(Prepare("doublechecker"), [L EXCEPT !.fixers = With(@, c.lineage, o)])
    [] role \in {"checker", "doublechecker", "updater"} /\ outcome = "FINDINGS_CONTRACT" ->
         Consult(L, o)
    [] role = "checker" /\ outcome # "FINDINGS_CONTRACT" ->
         To(Prepare(IF passed THEN "updater" ELSE "fixer"), Review(L, o, passed, source))
    [] role = "doublechecker" /\ outcome # "FINDINGS_CONTRACT" ->
         Gate(Review(L, o, passed, source), o, passed)
    [] role = "updater" /\ outcome # "FINDINGS_CONTRACT" -> Updated(L, o, outcome, source)
    [] role = "troubleshooter" ->
         IF outcome = "FINDINGS" THEN To(Prepare("consultant"), L) ELSE Repaired(L, o, outcome)
    [] role = "consultant" ->
         IF outcome = "REPAIR_EXECUTION" THEN Recover(L, o, "execution")
         ELSE UNION {To(Prepare(IF outcome = "REPAIR_SPEC" THEN "planner" ELSE "manager"), M) :
                       M \in Debit(L, {<<"planning_repair">>})}
    [] role = "arbiter" -> Verdict(L, o, outcome)
    [] OTHER -> {}

\* choose: the outcomes every role may have, then those of its own.
Choose(L, o, outcome, source) ==
  LET c == L.occ[o]
      role == c.role IN
  CASE role = "learning" -> Learnt(L, o, outcome)
    [] role # "learning" /\ outcome \in {"HUMAN_BLOCKED", "NO_SAFE_ROUTE"} ->
         To(At("human_pause"),
            IF L.pending # NoPending THEN L
            ELSE [L EXCEPT !.pending = Pending("human", role, c.lineage, o)])
    [] role # "learning" /\ outcome = "ERROR_REPLACEMENT" -> To(Replace(role), L)
    [] role # "learning" /\ outcome \in {"ERROR", "ERROR_REPAIRABLE", "FINDINGS_UNINSPECTABLE"} ->
         IF role = "troubleshooter" THEN To(Prepare("consultant"), L)
                                    ELSE Recover(L, o, "execution")
    [] OTHER -> Chosen(L, o, outcome, source)

\* accept: the result, its route and the continuation in one save.
Accepted(L, o, outcome, source) ==
  {[route |-> r.route,
    ledger |-> Mark([r.ledger EXCEPT !.accepted = With(@, o, r.route)], r.route, o)] :
     r \in Choose(L, o, outcome, source)}

-----------------------------------------------------------------------------
\* The occurrence a replacement replaces.
Old(L, role) ==
  IF L.pending # NoPending /\ L.pending.target = role
    THEN L.pending.occ ELSE L.active[Plane(role)]

Lineage(L, role) ==
  CASE role = "learning" -> L.request.lineage
    [] role \in {"troubleshooter", "consultant"} /\ L.pending # NoPending -> L.pending.lineage
    [] OTHER -> Scope(L)

\* Nothing is prepared that the continuation, or a replacement edge, did not ask for.
AskedAlways(L, role, replacement, greenfield) ==
  ~replacement \/ (Old(L, role) # 0 /\ L.occ[Old(L, role)].role = role)
Asked(L, role, replacement, greenfield) ==
  IF replacement
    THEN /\ Old(L, role) # 0 /\ L.occ[Old(L, role)].role = role
         /\ Old(L, role) \in DOMAIN L.accepted => L.cont.node = Replace(role)
    ELSE \/ L.occ = <<>> /\ role = (IF greenfield THEN "planner" ELSE "recon")
         \/ L.cont.node = Prepare(role)

\* The intent of a replacement, saved before anything is debited.
IntendedPending(L, role, source) ==
  [L EXCEPT !.intents = With(@, Old(L, role), <<"graph", source>>),
            !.pending = Pending("replacement", role, Lineage(L, role), Old(L, role))]
Intended(L, role, source) ==
  IF Old(L, role) \in DOMAIN L.intents THEN L
  ELSE [L EXCEPT !.intents = With(@, Old(L, role), <<"graph", source>>)]

\* A reservation: every debit, the occurrence and the continuation in one save.
Reserved(L, role, replacement, source) ==
  LET old == Old(L, role)
      lineage == IF replacement THEN L.occ[old].lineage ELSE Lineage(L, role)
      repair == role = "troubleshooter" /\ Used(L, <<"local_repair", Lineage(L, role)>>) < 1
      keys == {<<"all">>, RoleKey(role, lineage)}
              \cup (IF repair THEN {<<"local_repair", lineage>>} ELSE {})
              \cup (IF replacement THEN {<<"replacement", role, lineage>>} ELSE {})
      ready == /\ role \in PacketRoles => Open(L) # {}
               /\ role \in {"fixer", "doublechecker"} => lineage \in L.baselines
               /\ role = "updater" => lineage \in DOMAIN L.reviews
      occurrence ==
        [role |-> role, lineage |-> lineage, of |-> IF replacement THEN old ELSE 0,
         repair |-> repair, source |-> source,
         fixer |-> IF lineage \in DOMAIN L.fixers THEN L.fixers[lineage] ELSE 0,
         asked |-> <<L.cont, L.seen>>]
      o == Len(L.occ) + 1
  IN IF ~ready THEN {}
     ELSE {Mark([M EXCEPT !.occ = Append(@, occurrence), !.active[Plane(role)] = o,
                          !.pending = IF replacement /\ @ = NoPending
                                        THEN Pending("replacement", role, lineage, old) ELSE @],
                Native(role), o) : M \in Debit(L, keys)}
=============================================================================
