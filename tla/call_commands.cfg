SPECIFICATION Spec
CONSTANTS
  c1 = c1
  c2 = c2
  c3 = c3
  c4 = c4
  obs = obs
  can = can
  rec = rec
  Controller = {c1, c2, c3}
  Observer = obs
  Canceller = {can}
  Reconciler = {rec}
  NoController = none
  Endings = {"cancelled"}
  Faults = {}
  MaxCrashes = 0
SYMMETRY ControllerSymmetry
INVARIANT TerminalIsTrue
INVARIANT PreventedIsFinal
PROPERTY IntentPreventsStart
CONSTRAINT ReconcilesTwoRows
CONSTRAINT WaitIsOpen
CHECK_DEADLOCK FALSE
