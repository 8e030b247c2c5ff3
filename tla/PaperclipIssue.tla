--------------------------- MODULE PaperclipIssue ---------------------------
(***************************************************************************)
(* What the bridge promises of the issues it serves (docs/paperclip.md):   *)
(* an issue has at most one revision in hand; a new one is taken in hand   *)
(* only when every older one is over; what is over is over for good, and   *)
(* only a revision in hand has a run with a live writer.                   *)
(***************************************************************************)

CONSTANTS Revision, IssueOf

VARIABLES
    state,      \* of each revision: "new", "inHand" or "over"
    working     \* the revisions with a run that has not closed

issueVars == <<state, working>>

Init == state = [r \in Revision |-> "new"] /\ working = {}

Take(r) ==
    /\ state[r] = "new"
    /\ \A q \in Revision : IssueOf[q] = IssueOf[r] => state[q] # "inHand"
    /\ state' = [state EXCEPT ![r] = "inHand"]
    /\ UNCHANGED working

StartWork(r) ==
    /\ state[r] = "inHand" /\ r \notin working
    /\ working' = working \union {r}
    /\ UNCHANGED state

\* The run closes, and with it the revision.
EndWork(r) ==
    /\ r \in working
    /\ working' = working \ {r}
    /\ state' = [state EXCEPT ![r] = "over"]

\* A revision that never had a run is given up.
GiveUp(r) ==
    /\ state[r] = "inHand" /\ r \notin working
    /\ state' = [state EXCEPT ![r] = "over"]
    /\ UNCHANGED working

Next == \E r \in Revision : Take(r) \/ StartWork(r) \/ EndWork(r) \/ GiveUp(r)

Spec == Init /\ [][Next]_issueVars
=============================================================================
