SPECIFICATION Sessions
CONSTANTS
  Kinds = {"planning", "handed over", "edited", "repairing"}
  Caps <- CapsOf13
  Packets <- TwoPackets
  Outcomes <- RepairOutcomes
  Greenfield = TRUE
  Writers = {}
  Failing = {}
  AnyOccurrence = FALSE
  MaxCrashes = 1
  MaxRedirects = 2
  MaxSource = 1
INVARIANTS
  TypeOK
  Loadable
  DispatchedOnce
  EachDecisionOnce
  RouteKept
PROPERTIES
  LearningGate
  NoLostSave
  ReopenedByRemediation
  EachStopsLegally
CHECK_DEADLOCK FALSE
