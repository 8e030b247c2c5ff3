-------------------------- MODULE PaperclipAdapter --------------------------
(***************************************************************************)
(* integrations/paperclip/index.js: execute, one call of Paperclip.  It    *)
(* writes the assignment, starts the helper of module PaperclipBridge as a *)
(* child, and answers from what the child printed and how it ended.  One   *)
(* action is one turn of the event loop: a stretch of execute from await   *)
(* to await, or a callback (abort, data, a timer, error, close).           *)
(*                                                                         *)
(* The child is external.  Between its start and the end of run() it takes *)
(* TERM as a request to cancel; before and after, TERM ends it.            *)
(***************************************************************************)
EXTENDS Naturals

VARIABLES
  pc,        \* where execute awaits
  aborted,   \* Paperclip's signal
  timers,    \* 0 none, 1 both set, 2 the first has fired, 3 both have
  overflow,  \* the child printed more than is kept
  child,     \* none, starting, handling, printing, or ended
  end,       \* how it ended: "none", "exit" or "signal"
  printed,   \* its stdout: nothing, its report, or too much
  report,    \* the status it reports, and whether this adapter can use it
  sent,      \* the strongest signal sent: "none", "TERM", "KILL"
  ran,       \* run() of the bridge was entered
  answer

vars == <<pc, aborted, timers, overflow, child, end, printed, report, sent, ran, answer>>
process == <<child, end, printed, report, sent, ran>>

Statuses == {"succeeded", "failed", "cancelled", "attention_required", "refused", "uncertain"}
NoReport == [status |-> "none", whole |-> FALSE]
NoAnswer == [status |-> "none", from |-> "none"]
Awaits == {"ready", "configuring", "writing"}
Running == child \in {"starting", "handling", "printing"}

Init ==
  /\ pc = "ready" /\ aborted \in BOOLEAN /\ timers = 0 /\ overflow = FALSE
  /\ child = "none" /\ end = "none" /\ printed = "none" /\ report = NoReport
  /\ sent = "none" /\ ran = FALSE /\ answer = NoAnswer

Answered(status, from) ==
  pc' = "over" /\ answer' = [status |-> status, from |-> from]

\* child.kill
Kill(s) ==
  /\ sent' = IF sent = "KILL" \/ ~Running THEN sent ELSE s
  /\ UNCHANGED <<end, printed, report, ran>>
  /\ child' = child

\* abort, which is heard as long as execute has not answered.
Abort ==
  /\ pc # "over" /\ ~aborted /\ aborted' = TRUE /\ Kill("TERM")
  /\ UNCHANGED <<pc, timers, overflow, answer>>

\* From one await to the next; what throws, and a cancellation, end it.
Turn(from, to) ==
  /\ pc = from
  /\ \/ Answered("refused", "catch")
     \/ aborted /\ Answered("cancelled", "before_create")
     \/ ~aborted /\ pc' = to /\ UNCHANGED answer
  /\ UNCHANGED <<aborted, timers, overflow, process>>
Project == Turn("ready", "configuring")
Configure == Turn("configuring", "writing")

\* The last check and the spawn are one turn: no abort falls between them.
SpawnUnchecked ==
  /\ pc = "writing"
  /\ pc' = "waiting" /\ timers' = 1 /\ child' \in {"none", "starting"}
  /\ UNCHANGED <<aborted, overflow, end, printed, report, sent, ran, answer>>
Spawn ==
  /\ pc = "writing"
  /\ \/ Answered("refused", "catch") /\ UNCHANGED <<timers, child>>
     \/ aborted /\ Answered("cancelled", "before_create") /\ UNCHANGED <<timers, child>>
     \/ /\ ~aborted /\ pc' = "waiting" /\ timers' = 1 /\ child' \in {"none", "starting"}
        /\ UNCHANGED answer
  /\ UNCHANGED <<aborted, overflow, end, printed, report, sent, ran>>

-----------------------------------------------------------------------------
\* The callbacks while execute waits for the child.

Data ==
  /\ pc = "waiting" /\ printed = "too_much" /\ ~overflow /\ overflow' = TRUE /\ Kill("TERM")
  /\ UNCHANGED <<pc, aborted, timers, answer>>

TimerOnly ==
  /\ pc = "waiting" /\ timers = 1 /\ timers' = 2 /\ Kill("TERM")
  /\ UNCHANGED <<pc, aborted, overflow, answer>>
TimerAgain ==
  /\ pc = "waiting" /\ timers > 0 /\ timers < 4 /\ timers' = timers + 1
  /\ Kill(IF timers = 1 THEN "TERM" ELSE "KILL")
  /\ UNCHANGED <<pc, aborted, overflow, answer>>
Timer ==
  /\ pc = "waiting" /\ timers \in {1, 2} /\ timers' = timers + 1
  /\ Kill(IF timers = 1 THEN "TERM" ELSE "KILL")
  /\ UNCHANGED <<pc, aborted, overflow, answer>>

TimedOut == timers > 1

\* error: there is no child.
Error ==
  /\ pc = "waiting" /\ child = "none" /\ Answered("uncertain", "adapter")
  /\ UNCHANGED <<aborted, timers, overflow, process>>

\* Only a report of a child that ended by itself, in time, is passed on.
ReportedAnyway == IF report.whole THEN <<report.status, "helper">> ELSE <<"uncertain", "adapter">>
Reported ==
  IF overflow \/ end = "signal" \/ TimedOut \/ printed # "report" \/ ~report.whole
    THEN <<"uncertain", "adapter">>
    ELSE <<report.status, "helper">>

\* close: the child has ended and all it printed was read.
CloseWhenKilled ==
  /\ pc = "waiting" /\ (child = "ended" \/ sent = "KILL")
  /\ Answered(Reported[1], Reported[2])
  /\ UNCHANGED <<aborted, timers, overflow, process>>
Close ==
  /\ pc = "waiting" /\ child = "ended" /\ (printed = "too_much" => overflow)
  /\ Answered(Reported[1], Reported[2])
  /\ UNCHANGED <<aborted, timers, overflow, process>>

Execute == Project \/ Configure \/ Spawn
Callback == Data \/ Timer \/ Error \/ Close

-----------------------------------------------------------------------------
\* The child.

\* run() has installed its handlers.
Handles ==
  /\ child = "starting" /\ sent = "none" /\ child' = "handling" /\ ran' = TRUE
  /\ UNCHANGED <<end, printed, report, sent>>

\* run() has returned: a report, cancelled only when it was asked to.
Prints ==
  /\ child = "handling" /\ sent # "KILL" /\ child' = "printing"
  /\ \E s \in Statuses : report' = [status |-> s, whole |-> FALSE]
  /\ report'.status = "cancelled" => sent = "TERM"
  /\ UNCHANGED <<end, printed, sent, ran>>

Exits ==
  /\ child = "printing" /\ sent # "KILL" /\ child' = "ended" /\ end' = "exit"
  /\ \E w \in BOOLEAN : report' = [report EXCEPT !.whole = w]
  /\ printed' = IF printed = "none" THEN "report" ELSE printed
  /\ UNCHANGED <<sent, ran>>

\* It prints too much, or dies of a signal, at any time; its report may be out.
Floods ==
  /\ Running /\ printed = "none" /\ printed' = "too_much"
  /\ UNCHANGED <<child, end, report, sent, ran>>
Dies ==
  /\ Running /\ (sent = "TERM" => child # "handling")
  /\ child' = "ended" /\ end' = "signal"
  /\ \E w \in {FALSE, child = "printing"} : report' = [report EXCEPT !.whole = w]
  /\ printed' = IF report'.whole /\ printed = "none" THEN "report" ELSE printed
  /\ UNCHANGED <<sent, ran>>

Child == (Handles \/ Prints \/ Exits \/ Floods \/ Dies)
         /\ UNCHANGED <<pc, aborted, timers, overflow, answer>>

Next == Execute \/ Callback \/ Abort \/ Child

Spec == Init /\ [][Next]_vars

-----------------------------------------------------------------------------
TypeOK ==
  /\ pc \in Awaits \cup {"waiting", "over"} /\ {aborted, overflow, ran} \subseteq BOOLEAN
  /\ timers \in 0..3 /\ child \in {"none", "starting", "handling", "printing", "ended"}
  /\ end \in {"none", "exit", "signal"} /\ printed \in {"none", "report", "too_much"}
  /\ report \in [status : Statuses \cup {"none"}, whole : BOOLEAN]
  /\ sent \in {"none", "TERM", "KILL"}
  /\ answer \in [status : Statuses \cup {"none"},
                 from : {"none", "catch", "before_create", "adapter", "helper"}]

\* An answer of the adapter's own that says nothing was created, a refusal or a
\* cancellation, is given only when the bridge was never entered; and whatever is
\* answered, no helper of the call runs on.
NothingRunsOn ==
  /\ answer.status \in {"refused", "cancelled"} /\ answer.from # "helper" => ~ran
  /\ pc = "over" => ~Running

\* The helper's own status is passed on only when it ended by itself, before the
\* adapter's deadline and with its whole report: "Only verified graph success returns
\* zero" (docs/paperclip.md).
PassedOnWhole ==
  answer.from = "helper" =>
    /\ end = "exit" /\ printed = "report" /\ report.whole /\ timers < 2
    /\ answer.status = report.status

\* An abort reaches the helper whenever there is one: it is asked to cancel, unless it
\* has ended, however the abort falls between the awaits, the spawn and the callbacks.
AbortIsHeard == aborted /\ Running => sent # "none"
=============================================================================
