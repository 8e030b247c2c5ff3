SPECIFICATION Alone
CONSTANTS
  Kinds = {}
  Caps <- CapsOf4
  Packets <- OnePacket
  Outcomes <- PlanningOutcomes
  Greenfield = FALSE
  Writers = {}
  Failing = {}
  AnyOccurrence = TRUE
  MaxCrashes = 2
  MaxRedirects = 2
  MaxSource = 0
INVARIANT InterruptedLoads
CHECK_DEADLOCK FALSE
