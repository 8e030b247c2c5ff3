SPECIFICATION Spec
CONSTANTS
  c1 = c1
  c2 = c2
  c3 = c3
  c4 = c4
  obs = obs
  can = can
  rec = rec
  Controller = {c1, c2, c3}
  Observer = obs
  Canceller = {can}
  Reconciler = {}
  NoController = none
  Endings = {"succeeded"}
  Faults = {}
  MaxCrashes = 1
SYMMETRY ControllerSymmetry
PROPERTY TerminalResultIsFinal
CHECK_DEADLOCK FALSE
