-------------------------- MODULE NativeContract --------------------------
(***************************************************************************)
(* What Core may rely on when it invokes a native adapter: one group of    *)
(* processes at a time, one answer, and no writer called stopped while a   *)
(* process of the group lives or could be started again.  Core releases    *)
(* the project's hold on the strength of that word.                        *)
(***************************************************************************)
CONSTANTS
  Answers,   \* the answers [transport, writer] the adapter may give
  Nothing,   \* no answer yet
  Exceptions \* the exceptions the invocation may end in

VARIABLES
  alive,     \* a process of a group the adapter started lives
  said       \* the adapter's answer

Init == alive = FALSE /\ said = Nothing

\* The probe, or the invocation proper once the probe's group is gone.
Start == said = Nothing /\ ~alive /\ alive' = TRUE /\ UNCHANGED said

End == alive /\ alive' = FALSE /\ UNCHANGED said

Answer ==
  /\ said = Nothing
  /\ \E a \in Answers : (a.writer = "stopped" => ~alive) /\ said' = a
  /\ UNCHANGED alive

Raise == said = Nothing /\ said' \in Exceptions /\ UNCHANGED alive

Next == Start \/ End \/ Answer \/ Raise

Spec == Init /\ [][Next]_<<alive, said>>
=============================================================================
