SPECIFICATION Spec
CONSTANTS
  r1 = r1
  r2 = r2
  h1 = h1
  h2 = h2
  h3 = h3
  Revision = {r1, r2}
  Issue = {"issue"}
  IssueOf <- OneIssue
  Helper = {h1, h2}
  RevisionOf <- OneEach
  Endings = {"succeeded"}
  Faults = {"signal", "refusal"}
  MaxCrashes = 1
SYMMETRY PairSymmetry
CHECK_DEADLOCK FALSE
PROPERTY IssueSpec
