SPECIFICATION Spec
CONSTANTS
  Grace = 1
  Limit = 2
  SlowAt <- AnyTime
INVARIANTS
  TypeOK
  CompletedIsWhole
  Accepted
  RaisedIsKilled
  KilledBeforeGivenUp
  NothingRunsOn
  PassedOnWhole
  AbortIsHeard
PROPERTIES
  ContractSpec
  Returns
CHECK_DEADLOCK FALSE
