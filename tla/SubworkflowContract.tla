------------------------- MODULE SubworkflowContract -------------------------
(***************************************************************************)
(* What a subworkflow call promises its parent, whatever happens to the    *)
(* processes that carry it out (docs/subworkflows.md): the child is        *)
(* started at most once, and never after a cancellation is known; success, *)
(* failure and cancellation of a started child are reported only of a run  *)
(* that is terminal with its writers stopped; a cancellation reported of a *)
(* child not started is final.                                             *)
(***************************************************************************)

CONSTANTS NoView, Views, Closed(_), OutcomeOf, Outcomes

VARIABLES
    intent,     \* a cancellation is known
    sent,       \* a start was handed to a sender
    run,        \* the child's run, in Core
    outcome     \* the outcome saved last

contractVars == <<intent, sent, run, outcome>>

Init == intent = FALSE /\ sent = FALSE /\ run = NoView /\ outcome = "none"

Intend ==
    /\ intent' = TRUE
    /\ UNCHANGED <<sent, run, outcome>>

Send ==
    /\ ~sent /\ ~intent /\ outcome # "CHILD_CANCELLED"
    /\ sent' = TRUE
    /\ UNCHANGED <<intent, run, outcome>>

RunMoves ==
    /\ sent /\ ~Closed(run)
    /\ run' \in Views \ {NoView}
    /\ UNCHANGED <<intent, sent, outcome>>

ReportClosed ==
    /\ Closed(run)
    /\ outcome' = OutcomeOf[run.status]
    /\ UNCHANGED <<intent, sent, run>>

ReportPrevented ==
    /\ intent /\ ~sent
    /\ outcome' = "CHILD_CANCELLED"
    /\ UNCHANGED <<intent, sent, run>>

ReportRefused ==
    /\ run = NoView
    /\ outcome' = "CHILD_REFUSED"
    /\ UNCHANGED <<intent, sent, run>>

ReportAttention ==
    /\ run # NoView
    /\ outcome' = "CHILD_ATTENTION"
    /\ UNCHANGED <<intent, sent, run>>

ReportUncertain ==
    /\ outcome' = "CHILD_UNCERTAIN"
    /\ UNCHANGED <<intent, sent, run>>

Next ==
    \/ Intend \/ Send \/ RunMoves \/ ReportClosed \/ ReportPrevented
    \/ ReportRefused \/ ReportAttention \/ ReportUncertain

Spec == Init /\ [][Next]_contractVars
=============================================================================
