SPECIFICATION Spec
CONSTANTS
  r1 = r1
  r2 = r2
  h1 = h1
  h2 = h2
  h3 = h3
  Revision = {r1}
  Issue = {"issue"}
  IssueOf <- OneIssue
  Helper = {h1, h3}
  RevisionOf <- OneEach
  Endings = {"succeeded"}
  Faults = {}
  MaxCrashes = 0
CHECK_DEADLOCK FALSE
INVARIANT DuplicateIsNotRefused
