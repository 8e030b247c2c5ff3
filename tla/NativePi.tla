----------------------------- MODULE NativePi -----------------------------
(***************************************************************************)
(* router/pi.py: PiJsonAdapter.invoke checks the host, probes the version, *)
(* checks the prompt and runs the invocation; the child gets no stdin.     *)
(* Of the events on stdout it is known only whether they are settled, and  *)
(* on what.  The result is decided when the child has exited and its pipes *)
(* are closed; the writer is called stopped only when the run was settled  *)
(* besides.                                                                *)
(***************************************************************************)
EXTENDS NativeGroup

VARIABLES
  stage,     \* "probe" or "main"
  reason,    \* the classification, once made, or "none"
  failure,   \* the failure that goes with it, or "none"
  eof,       \* stdout and stderr are at their end
  output,    \* none yet, good (the version, a settled answer), ended (settled
             \* without one), or bad
  forced,    \* a signal was sent
  tried,     \* KILL was tried
  told,      \* some poll answered yes before the classification was made
  shown      \* on_started gave Core the pid of the invocation

loopVars == <<stage, reason, failure, eof, output, forced, tried>>
vars == <<pc, osVars, loopVars, told, shown, report>>

Codes ==
  {"host", "prompt_changed", "cancelled", "timeout", "launch", "limit", "events",
   "version_timeout", "version_mismatch", "nonzero_exit", "final_failure", "final_tool_call",
   "model_mismatch", "text_too_large", "invalid_text", "incomplete", "cleanup",
   "cleanup_unconfirmed"}
Writers == {"stopped", "may_live"}
Reports ==
  [said : {"result"}, phase : {"preflight", "invocation"},
   transport : {"completed"} \cup Failures, writer : Writers, failure : Codes \cup {"none"},
   protocol : {"not_started", "settled", "invalid", "incomplete"}, text : BOOLEAN]

-----------------------------------------------------------------------------
Classify(pairs) ==
  IF reason # "none" \/ pairs = {} THEN UNCHANGED <<reason, failure>>
  ELSE \E p \in pairs : reason' = p[1] /\ failure' = p[2]

Result(phase, transport, writer, why, protocol) ==
  [said |-> "result", phase |-> phase, transport |-> transport, writer |-> writer,
   failure |-> why, protocol |-> protocol,
   text |-> phase = "invocation" /\ transport = "completed"]

Over(r) == report' = r /\ pc' = "over"

Protocol ==
  CASE output' = "bad" -> "invalid"
    [] output' \in {"good", "ended"} -> "settled"
    [] OTHER -> "incomplete"

\* Only a completed probe whose group is gone lets the invocation go on.
ReturnedAsProbed(transport, writer, why) ==
  CASE stage = "main" -> Over(Result("invocation", transport, writer, why, Protocol))
    [] stage = "probe" /\ transport = "completed" /\ writer = "stopped" ->
         pc' = "between" /\ UNCHANGED report
    [] OTHER -> Over(Result("preflight", transport, writer, why, "not_started"))
Returned(transport, writer, why) ==
  CASE stage = "main" -> Over(Result("invocation", transport, writer, why, Protocol))
    [] stage = "probe" /\ transport = "completed" /\ writer = "stopped" ->
         pc' = "between" /\ UNCHANGED report
    [] stage = "probe" /\ transport = "completed" /\ writer # "stopped" ->
         Over(Result("preflight", "execution", writer, "cleanup", "not_started"))
    [] OTHER -> Over(Result("preflight", transport, writer, why, "not_started"))

-----------------------------------------------------------------------------
Init ==
  /\ GroupInit /\ pc = "preflight"
  /\ stage = "probe" /\ reason = "none" /\ failure = "none"
  /\ eof = FALSE /\ output = "none" /\ forced = FALSE /\ tried = FALSE
  /\ told = FALSE /\ shown = FALSE /\ report = Nothing

Preflight ==
  /\ pc = "preflight"
  /\ \/ pc' = "start" /\ UNCHANGED report
     \/ Over(Result("preflight", "execution", "stopped", "host", "not_started"))
  /\ UNCHANGED <<osVars, loopVars, told, shown>>

\* The prompt is read back before the invocation, with a poll at every chunk.
CheckPrompt ==
  /\ pc = "between"
  /\ \/ /\ ~wanted /\ ~late
        /\ pc' = "start" /\ stage' = "main" /\ UNCHANGED report
     \/ /\ \E p \in {<<"execution", "prompt_changed">>}
                      \cup {<<"cancelled", "cancelled">> : x \in {wanted} \ {FALSE}}
                      \cup {<<"timeout", "timeout">> : x \in {late} \ {FALSE}} :
             Over(Result("preflight", p[1], "stopped", p[2], "not_started"))
        /\ UNCHANGED stage
  /\ UNCHANGED <<osVars, reason, failure, eof, output, forced, tried, told, shown>>

Start ==
  /\ pc = "start"
  /\ reason' = "none" /\ failure' = "none" /\ eof' = FALSE /\ output' = "none"
  /\ forced' = FALSE /\ tried' = FALSE
  /\ told' = (told \/ wanted)
  /\ UNCHANGED <<stage, wanted, late, shown>>
  /\ \/ /\ \/ wanted /\ Returned("cancelled", "stopped", "cancelled")
           \/ ~wanted /\ late /\ Returned("timeout", "stopped", "timeout")
           \/ ~wanted /\ ~late /\ Returned("execution", "stopped", "launch")
        /\ UNCHANGED <<groupVars, age>>
     \/ ~wanted /\ ~late /\ Spawned /\ pc' = "started" /\ UNCHANGED report

\* The pipes may fail to be registered, and on_started, which is Core's, may raise.
CallStarted ==
  /\ pc = "started"
  /\ \/ pc' = "control" /\ shown' = (shown \/ stage = "main")
     \/ pc' = "raise" /\ UNCHANGED shown
  /\ UNCHANGED <<osVars, loopVars, told, report>>

\* TERM to a group that is there, and KILL two seconds into the cleanup.
SignalOneAtATime ==
  LET begins == reason' \in Failures /\ ~Started("cleanup")
      kills == forced /\ Since("cleanup") >= Grace /\ ~tried /\ Group
  IN  /\ age' = IF begins THEN Stamp("cleanup", 0) ELSE age
      /\ forced' = (forced \/ ((begins \/ Started("cleanup")) /\ Group))
      /\ tried' = (tried \/ kills)
      /\ IF kills THEN Kill ELSE UNCHANGED killed
Signal ==
  LET begins == reason' \in Failures /\ ~Started("cleanup")
      cleaning == begins \/ Started("cleanup")
      kills == Since("cleanup") >= Grace /\ ~tried /\ Group
  IN  /\ age' = IF begins THEN Stamp("cleanup", 0) ELSE age
      /\ forced' = (forced \/ (cleaning /\ Group))
      /\ tried' = (tried \/ kills)
      /\ IF kills THEN Kill ELSE UNCHANGED killed

\* The probe has a deadline of its own, five seconds off at the most.
Control ==
  /\ pc = "control" /\ pc' = "drain"
  /\ told' = (told \/ (wanted /\ reason = "none"))
  /\ \E p \in CASE wanted -> {{<<"cancelled", "cancelled">>}}
              [] ~wanted /\ late -> {{<<"timeout", "timeout">>}}
              [] OTHER -> {{}} \cup {{<<"execution", "version_timeout">>} :
                                      x \in {stage} \cap {"probe"}} :
       Classify(p)
  /\ Signal
  /\ UNCHANGED <<root, code, kids, held, callerVars, stage, eof, output, shown, report>>

\* What the exception leaves behind: the locals of the loop are gone.
PollRaises ==
  /\ pc = "control" /\ pc' = "raise"
  /\ reason' = "none" /\ failure' = "none"
  /\ eof' = FALSE /\ output' = "none" /\ forced' = FALSE /\ tried' = FALSE
  /\ age' = [c \in Clocks |-> Unset]
  /\ UNCHANGED <<groupVars, callerVars, stage, told, shown, report>>

\* What stdout amounts to after a chunk: nothing may follow the settlement.
Reads ==
  CASE output = "none" -> IF stage = "probe" THEN {"none", "good", "bad"}
                                             ELSE {"none", "good", "ended", "bad"}
    [] output = "good" /\ stage = "probe" -> {"none", "good", "bad"}
    [] output = "bad" -> {"bad"}
    [] OTHER -> {output, "bad"}

\* The stream is fed only until the classification is made.
Drain ==
  /\ pc = "drain" /\ pc' = "look"
  /\ \E o \in (IF eof \/ reason # "none" THEN {output} ELSE Reads) :
       /\ output' = o
       /\ Classify({IF stage = "probe" THEN <<"execution", "limit">> ELSE <<"protocol", "events">> :
                     x \in {o} \cap {"bad"}})
  /\ eof' \in {eof, eof \/ ~held}
  /\ UNCHANGED <<osVars, stage, forced, tried, told, shown, report>>

Look ==
  /\ pc = "look" /\ pc' = "close"
  /\ Reaped
  /\ UNCHANGED <<code, kids, held, killed, callerVars, age, loopVars, told, shown, report>>

-----------------------------------------------------------------------------
\* stream.final may be unable to encode the answer; the stream is then marked invalid.
Finish ==
  output' \in IF /\ stage = "main" /\ output = "ended" /\ reason = "none"
                /\ Exited /\ eof
               THEN {"ended", "bad"} ELSE {output}

\* What stream.final says of a settled stream without a usable answer.
Unusable ==
  IF output' = "bad" THEN {<<"protocol", "invalid_text">>}
  ELSE {<<"execution", "final_failure">>, <<"protocol", "final_tool_call">>,
        <<"protocol", "model_mismatch">>, <<"protocol", "text_too_large">>}

\* stream.final, or the version, once the child has exited and its pipes are closed.
DecidedByStream == IF output = "good" THEN {<<"completed", "none">>} ELSE Unusable
Decided ==
  CASE stage = "probe" ->
         IF code = "zero" /\ output = "good" THEN {<<"completed", "none">>}
                                             ELSE {<<"execution", "version_mismatch">>}
    [] stage = "main" /\ code # "zero" -> {<<"execution", "nonzero_exit">>}
    [] stage = "main" /\ code = "zero" /\ output = "good" -> {<<"completed", "none">>}
    [] stage = "main" /\ code = "zero" /\ output = "ended" -> Unusable
    [] OTHER -> {<<"protocol", "incomplete">>}

NaturalByRoot == Exited /\ eof
Natural == Exited /\ eof /\ ~Group

SpentOnEof == Started("cleanup") /\ Since("cleanup") >= Limit /\ eof
Spent == Started("cleanup") /\ Since("cleanup") >= Limit

\* The writer of a run that did not settle is never called stopped.
WriterUnknown == IF forced THEN "unknown" ELSE "stopped"
Writer ==
  IF forced \/ (stage = "main" /\ (code # "zero" \/ output \notin {"good", "ended"}
                                    \/ failure' \notin {"none", "final_failure", "model_mismatch",
                                                      "text_too_large"}))
    THEN "may_live" ELSE "stopped"

Close ==
  /\ pc = "close"
  /\ Finish
  /\ Classify(IF Exited /\ eof THEN Decided ELSE {})
  /\ LET said == IF reason' = "none" THEN "execution" ELSE reason'
     IN \/ Natural /\ Returned(said, Writer, failure') /\ UNCHANGED age
        \/ /\ ~Natural
           /\ age' = IF Exited /\ ~Started("cleanup") THEN Stamp("cleanup", 0) ELSE age
           /\ IF Spent
                THEN Returned(said, "may_live",
                              IF reason' = "none" THEN "cleanup_unconfirmed" ELSE failure')
                ELSE pc' = "control" /\ UNCHANGED report
  /\ UNCHANGED <<groupVars, callerVars, stage, eof, forced, tried, told, shown>>

\* The finally clause when a callback raised: only a child that still runs is
\* killed, with its group, and not waited for.
CleanUpByTerm ==
  /\ pc = "raise"
  /\ Reaped /\ Over(Raised)
  /\ UNCHANGED <<code, kids, held, killed, callerVars, age, loopVars, told, shown>>
CleanUp ==
  /\ pc = "raise"
  /\ IF root = "running" THEN Kill ELSE UNCHANGED killed
  /\ Reaped /\ Over(Raised)
  /\ UNCHANGED <<code, kids, held, callerVars, age, loopVars, told, shown>>

Adapter ==
  \/ Preflight \/ CheckPrompt \/ Start \/ CallStarted \/ Control \/ PollRaises \/ Drain
  \/ Look \/ Close \/ CleanUp

Around == Surroundings /\ UNCHANGED <<pc, loopVars, told, shown, report>>

Next == Adapter \/ Around

Spec == Init /\ [][Next]_vars

-----------------------------------------------------------------------------
TypeOK ==
  /\ GroupType
  /\ pc \in {"preflight", "between", "start", "started", "control", "drain", "look", "close",
             "raise", "over"}
  /\ stage \in {"probe", "main"}
  /\ reason \in {"none", "completed"} \cup Failures
  /\ failure \in Codes \cup {"none"}
  /\ output \in {"none", "bad", "good", "ended"}
  /\ eof \in BOOLEAN /\ forced \in BOOLEAN /\ tried \in BOOLEAN
  /\ told \in BOOLEAN /\ shown \in BOOLEAN
  /\ report \in Reports \cup {Nothing, Raised}

(* A completed invocation is whole: the child exited with zero, all its     *)
(* events were read and ended in a settled answer, and no poll answered    *)
(* that Core wants to cancel before that was established; its writer is    *)
(* uncertain exactly when the group had to be signalled or given up.       *)
CompletedIsWhole ==
  report.said = "result" /\ report.transport = "completed" =>
    /\ eof /\ code = "zero" /\ output = "good" /\ ~told
    /\ report.writer = "stopped" => ~forced /\ ~Members

(* validate_completion (configuration.py:504-594) accepts whatever invoke   *)
(* reports, so no invocation is left uncertain by its own evidence.        *)
Accepted ==
  report.said = "result" =>
    /\ IF report.phase = "preflight"
         THEN ~shown /\ ~report.text /\ report.protocol = "not_started"
         ELSE report.protocol # "not_started"
    /\ IF report.transport = "completed"
         THEN /\ report.phase = "invocation" /\ report.protocol = "settled"
              /\ report.failure = "none" /\ report.text
         ELSE ~report.text /\ report.failure # "none"

(* A group that is given up alive has been sent KILL: the clock is read     *)
(* after poll, so a slow answer cannot skip the signal.                    *)
KilledBeforeGivenUp ==
  report.said = "result" /\ report.writer = "may_live" /\ Members => tried
=============================================================================
