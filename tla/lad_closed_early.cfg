SPECIFICATION Alone
CONSTANTS
  Kinds = {}
  Caps <- CapsOf14
  Packets <- OnePacket
  Outcomes <- ClosingOutcomes
  Greenfield = TRUE
  Writers = {}
  Failing = {}
  AnyOccurrence = FALSE
  MaxCrashes = 1
  MaxRedirects = 1
  MaxSource = 0
INVARIANT SucceededIsDrained
CHECK_DEADLOCK FALSE
