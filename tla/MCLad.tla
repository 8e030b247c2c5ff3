------------------------------- MODULE MCLad -------------------------------
(***************************************************************************)
(* Sessions small enough for TLC, each of which takes another stretch of   *)
(* the graph with budgets, outcomes, deaths and redirects of its own.      *)
(***************************************************************************)
EXTENDS LadSession

CONSTANT Kinds   \* the sessions that are checked
VARIABLE kind    \* which of them it is

\* The caps of lad_state.CAPS, with the total cut down.
Cut(all) ==
  [all |-> all, recon |-> 3, planner |-> 3, manager |-> 3, builder |-> 4, checker |-> 4,
   doublechecker |-> 4, updater |-> 4, fixer |-> 3, consultant |-> 2, troubleshooter |-> 2,
   learning |-> 2, arbiter |-> 3, planning_repair |-> 1, local_repair |-> 1, remediation |-> 1,
   replacement |-> 1]

CapsOf4 == Cut(4)
CapsOf11 == Cut(11)
CapsOf13 == Cut(13)
CapsOf14 == Cut(14)

OnePacket == <<"p">>
TwoPackets == <<"p", "q">>

PlanningOutcomes ==
  [recon |-> {"PASS", "FINDINGS", "ERROR", "HUMAN_BLOCKED"}, planner |-> {"PASS", "FINDINGS"},
   consultant |-> {"REPAIR_SPEC", "REPAIR_EXECUTION", "ERROR_REPLACEMENT"},
   troubleshooter |-> {"PASS_PREREQUISITE_REPAIRED", "FINDINGS"}, manager |-> {"PASS"}]

\* A packet repaired once in each of two episodes.
ClosingOutcomes ==
  [planner |-> {"PASS"}, manager |-> {"PASS"}, builder |-> {"PASS"},
   checker |-> {"FINDINGS_ACTIONABLE"}, fixer |-> {"PASS"}, doublechecker |-> {"PASS"},
   learning |-> {"PASS"}, updater |-> {"PASS"}, arbiter |-> {"PASS", "FINDINGS"}]

\* Packets that pass, are invalidated, repaired, replanned and reopened.
RepairOutcomes ==
  [planner |-> {"PASS"}, manager |-> {"PASS"}, builder |-> {"PASS", "FINDINGS_UNINSPECTABLE"},
   checker |-> {"PASS", "FINDINGS_CONTRACT"}, doublechecker |-> {"PASS", "FINDINGS_ACTIONABLE"},
   fixer |-> {"PASS"},
   troubleshooter |-> {"PASS_PREREQUISITE_REPAIRED", "FINDINGS", "ERROR"},
   consultant |-> {"REPAIR_PACKETS", "REPAIR_EXECUTION", "ERROR_REPAIRABLE"},
   updater |-> {"PASS", "REVIEW_INVALIDATED_NEW_BASELINE", "REVIEW_INVALIDATED_SAME_BASELINE"},
   arbiter |-> {"PASS", "FINDINGS", "ERROR_REPAIRABLE", "ERROR_REPLACEMENT"}]

\* A packet whose first review finds something: repair, evaluate, assess.
SeamOutcomes ==
  [planner |-> {"PASS"}, manager |-> {"PASS"}, builder |-> {"PASS"},
   checker |-> {"FINDINGS_ACTIONABLE"}, fixer |-> {"PASS"},
   doublechecker |-> {"PASS", "FINDINGS_ACTIONABLE"},
   learning |-> {"PASS", "ERROR_TRANSIENT_RESOLVED"},
   troubleshooter |-> {"PASS_REVIEW_REPAIRED"}, updater |-> {"PASS"}, arbiter |-> {"PASS"}]

-----------------------------------------------------------------------------
Planning == INSTANCE LadSession WITH
  Caps <- CapsOf4, Packets <- OnePacket, Outcomes <- PlanningOutcomes, Greenfield <- FALSE,
  Writers <- {}, Failing <- {"planner"}, MaxCrashes <- 1, MaxRedirects <- 2, MaxSource <- 0
HandedOver == INSTANCE LadSession WITH
  Caps <- CapsOf11, Packets <- OnePacket, Outcomes <- SeamOutcomes, Greenfield <- TRUE,
  Writers <- {}, Failing <- {"fixer", "doublechecker", "learning"}, MaxCrashes <- 1, MaxRedirects <- 1, MaxSource <- 0
Edited == INSTANCE LadSession WITH
  Caps <- CapsOf11, Packets <- OnePacket, Outcomes <- SeamOutcomes, Greenfield <- TRUE,
  Writers <- {"fixer", "updater"}, Failing <- Roles, MaxCrashes <- 1, MaxRedirects <- 0,
  MaxSource <- 1
Repairing == INSTANCE LadSession WITH
  Caps <- CapsOf13, Packets <- TwoPackets, Outcomes <- RepairOutcomes, Greenfield <- TRUE,
  Writers <- {"updater"}, Failing <- {}, MaxCrashes <- 0, MaxRedirects <- 0, MaxSource <- 1

\* The initial ledger is the same but for the plan.
SessionInit ==
  /\ kind \in Kinds
  /\ IF kind = "planning" THEN Planning!Init ELSE HandedOver!Init

ScriptRuns(p) ==
  /\ UNCHANGED kind
  /\ \/ kind = "planning" /\ Planning!Script(p)
     \/ kind = "handed over" /\ HandedOver!Script(p)
     \/ kind = "edited" /\ Edited!Script(p)
     \/ kind = "repairing" /\ Repairing!Script(p)
SeamRuns ==
  /\ UNCHANGED kind
  /\ \/ kind = "planning" /\ Planning!Seam
     \/ kind = "handed over" /\ HandedOver!Seam
     \/ kind = "edited" /\ Edited!Seam
     \/ kind = "repairing" /\ Repairing!Seam
DecisionRuns == Decision /\ UNCHANGED kind
Disturbed ==
  /\ UNCHANGED kind
  /\ \E p \in Planes :
       \/ kind = "planning" /\ (Planning!Crash(p) \/ Planning!Redirect(p))
       \/ kind = "handed over" /\ (HandedOver!Crash(p) \/ HandedOver!Redirect(p))
       \/ kind = "edited" /\ (Edited!Crash(p) \/ Edited!Redirect(p))
       \/ kind = "repairing" /\ (Repairing!Crash(p) \/ Repairing!Redirect(p))
Replaced ==
  /\ UNCHANGED kind
  /\ \E o \in DOMAIN ledger.occ :
       \/ kind = "planning" /\ Planning!RecordReplacement(o)
       \/ kind = "handed over" /\ HandedOver!RecordReplacement(o)
       \/ kind = "edited" /\ Edited!RecordReplacement(o)
       \/ kind = "repairing" /\ Repairing!RecordReplacement(o)

SessionNext ==
  (\E p \in Planes : ScriptRuns(p)) \/ SeamRuns \/ DecisionRuns \/ Disturbed \/ Replaced

sessionVars == <<vars, kind>>

\* The fairness of LadSession, for each of the sessions.
Sessions ==
  /\ SessionInit /\ [][SessionNext]_sessionVars
  /\ \A p \in Planes : WF_sessionVars(ScriptRuns(p))
  /\ WF_sessionVars(SeamRuns) /\ WF_sessionVars(DecisionRuns)

\* A session of its own, with the constants as the configuration gives them.
Alone == Init /\ kind = "alone" /\ [][Next /\ UNCHANGED kind]_sessionVars

\* LadSession!StopsLegally, for the session that has every outcome its route asks for.
EachStopsLegally == kind = "edited" => StopsLegally
=============================================================================
