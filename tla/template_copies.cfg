SPECIFICATION Copies
CONSTANTS
  c1 = c1
  c2 = c2
  Copiers = {c1, c2}
  Files = {"workflow.json", "prompt.md"}
  Graph = "workflow.json"
  Contents = {0, 1}
  MaxEdits = 2
  MaxErrors = 2
  MaxKills = 1
  MCVersions = {0, 1, 2}
  MCCrashes = 3
  MCChanges = 3
  MCLosses = 2
CHECK_DEADLOCK FALSE
INVARIANTS
  CopiedIsWhole
  FailedLeavesNothing
  PublishedWhole
  OneRequest
PROPERTY MarkedIsNotReset
