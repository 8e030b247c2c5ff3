------------------------------- MODULE CoreRun -------------------------------
(***************************************************************************)
(* A run of the millrace Core as the helpers of millrace-plus see it: its  *)
(* status, and whether it is quiescent with every writer stopped.  What    *)
(* the Core does with a run is external; that a terminal run with stopped  *)
(* writers stays so is the Core's promise.                                 *)
(***************************************************************************)

CONSTANT Endings        \* the terminal statuses a run may end in

TerminalStatus == {"succeeded", "failed", "cancelled"}

ASSUME EndingsAssumption == Endings \subseteq TerminalStatus

\* "ready", "running" and "waiting" are one status; "none" is no run.
RunStatus == {"none", "running", "paused"} \union TerminalStatus

Views == [status : RunStatus, stopped : BOOLEAN]
NoView == [status |-> "none", stopped |-> FALSE]

ClosedByStatus(view) == view.status \in TerminalStatus
Closed(view) == view.status \in TerminalStatus /\ view.stopped
ClosedForAttention(view) ==
    view.status \in TerminalStatus \union {"paused"} /\ view.stopped

\* The run, its writers and the operator move on; closure is final.
NextViews(v) ==
    CASE v.status = "running" ->
            [status : {"paused"} \union Endings, stopped : BOOLEAN]
      [] v.status = "paused" /\ v.stopped ->
            [status : {"running"}, stopped : {FALSE}]
               \union [status : Endings \intersect {"cancelled"}, stopped : {TRUE}]
      [] v.status = "paused" /\ ~v.stopped ->
            [status : {"paused"}, stopped : {TRUE}]
               \union [status : Endings \intersect {"cancelled"}, stopped : BOOLEAN]
      [] v.status \in TerminalStatus /\ ~v.stopped ->
            [status : {v.status}, stopped : {TRUE}]
      [] OTHER -> {}
=============================================================================
