SPECIFICATION Spec
CONSTANTS
  c1 = c1
  c2 = c2
  c3 = c3
  c4 = c4
  obs = obs
  can = can
  rec = rec
  Controller = {c1, c2, c3}
  Observer = obs
  Canceller = {}
  Reconciler = {}
  NoController = none
  Endings = {"succeeded", "cancelled"}
  Faults = {"refusal","limit","launch","pid_reuse"}
  MaxCrashes = 1
SYMMETRY ControllerSymmetry
INVARIANT TypeOK
INVARIANT AtMostOneStart
INVARIANT JournalIsValid
INVARIANT ReplayAgrees
INVARIANT NoSenderSurvives
PROPERTY ContractSpec
CONSTRAINT WaitIsOpen
CHECK_DEADLOCK FALSE
