---------------------------- MODULE MCSubworkflow ----------------------------
(***************************************************************************)
(* Small instances of SubworkflowCall: c1 .. c4 are the rows a journal has *)
(* room for, obs, can and rec the processes that run call, cancel and      *)
(* reconcile.  The rows are interchangeable.                               *)
(***************************************************************************)
EXTENDS SubworkflowCall, FiniteSets, TLC

CONSTANTS c1, c2, c3, c4, obs, can, rec

ControllerSymmetry == Permutations(Controller)

\* Bound: reconcile is at work on journals of at most two rows.
ReconcilesTwoRows ==
  Cardinality(Controller \ Unused) > 2 => \A p \in Reconciler : pc[p] = "idle"

\* Bound: the wait deadline is not recorded as passed.  For safety nothing is lost: that
\* it has passed only forbids InTime, and Intend, which it forces, is always possible.
WaitIsOpen == ~waitExpired
=============================================================================
