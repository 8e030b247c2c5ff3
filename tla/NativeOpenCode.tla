-------------------------- MODULE NativeOpenCode --------------------------
(***************************************************************************)
(* router/opencode.py: OpenCodeRunAdapter.invoke, its probe and its        *)
(* invocation through the loop of _process.  Of the events on stdout it is *)
(* known only whether they stopped properly, and whether they were found   *)
(* invalid.                                                                *)
(* The steps of a round are those of NativeClaude.                         *)
(***************************************************************************)
EXTENDS NativeGroup

VARIABLES
  stage,     \* "probe" or "main"
  reading,   \* what the clock said when last read: the deadline has passed, and
             \* the age of the cleanup
  reason,    \* the transport of the first failure, or "none"
  failure,   \* its code, or "none"
  stdin,     \* the prompt: open (bytes left), sent, closed, broken (closed early)
  eof,       \* stdout and stderr are at their end
  output,    \* none yet, good (the version, or a stream that stopped), or bad
  tried,     \* KILL was tried
  told,      \* some poll() of the invocation answered yes
  shown      \* on_started gave Core the pid of the invocation

loopVars == <<stage, reading, reason, failure, stdin, eof, output, tried>>
vars == <<pc, osVars, loopVars, told, shown, report>>

NoReading == [late |-> FALSE, cleanup |-> Unset]

Codes ==
  {"cancelled", "timeout", "spawn", "stdin", "limit", "events", "version_timeout",
   "version_mismatch", "nonzero_exit", "cleanup"}
Reports ==
  [said : {"result"}, phase : {"preflight", "invocation"},
   transport : {"completed"} \cup Failures,
   writer : {"stopped", "may_live"}, failure : Codes \cup {"none"},
   protocol : {"not_started", "settled", "invalid", "incomplete"},
   code : {"none", "zero", "nonzero"}, final : BOOLEAN]

-----------------------------------------------------------------------------
\* fail(): the first reason wins.
Fails(pairs) ==
  IF reason # "none" \/ pairs = {} THEN UNCHANGED <<reason, failure>>
  ELSE \E p \in pairs : reason' = p[1] /\ failure' = p[2]

ResultByStream(phase, transport, writer, why, protocol) ==
  [said |-> "result", phase |-> phase, transport |-> transport, writer |-> writer,
   failure |-> why, protocol |-> protocol,
   code |-> IF pc = "close" /\ Exited THEN code ELSE "none",
   final |-> phase = "invocation" /\ output = "good"]
Result(phase, transport, writer, why, protocol) ==
  [said |-> "result", phase |-> phase, transport |-> transport, writer |-> writer,
   failure |-> why, protocol |-> protocol,
   code |-> IF pc = "close" /\ Exited THEN code ELSE "none",
   final |-> phase = "invocation" /\ transport = "completed"]

Over(r) == report' = r /\ pc' = "over"

Protocol(transport) ==
  CASE output' = "bad" -> "invalid"
    [] transport = "completed" -> "settled"
    [] OTHER -> "incomplete"

\* Only a completed probe whose group is gone lets the invocation start.
Returned(transport, writer, why) ==
  IF stage = "probe"
    THEN IF transport = "completed" /\ writer = "stopped"
           THEN stage' = "main" /\ pc' = "start" /\ UNCHANGED report
           ELSE /\ Over(Result("preflight",
                               IF transport = "completed" THEN "execution" ELSE transport,
                               writer, IF why = "none" THEN "cleanup" ELSE why, "not_started"))
                /\ UNCHANGED stage
    ELSE /\ Over(Result("invocation", transport, writer, why, Protocol(transport)))
         /\ UNCHANGED stage

-----------------------------------------------------------------------------
Init ==
  /\ GroupInit /\ pc = "start"
  /\ stage = "probe" /\ reading = NoReading
  /\ reason = "none" /\ failure = "none" /\ stdin = "closed"
  /\ eof = FALSE /\ output = "none" /\ tried = FALSE
  /\ told = FALSE /\ shown = FALSE /\ report = Nothing

Start ==
  /\ pc = "start"
  /\ reading' = NoReading /\ reason' = "none" /\ failure' = "none" /\ eof' = FALSE
  /\ output' = "none" /\ tried' = FALSE
  /\ told' = (told \/ wanted)
  /\ UNCHANGED <<wanted, late, shown>>
  /\ \/ /\ wanted /\ Returned("cancelled", "stopped", "cancelled")
        /\ UNCHANGED <<groupVars, age, stdin>>
     \/ /\ ~wanted /\ late /\ Returned("timeout", "stopped", "timeout")
        /\ UNCHANGED <<groupVars, age, stdin>>
     \/ /\ ~wanted /\ ~late /\ Returned("execution", "stopped", "spawn")
        /\ UNCHANGED <<groupVars, age, stdin>>
     \/ /\ ~wanted /\ ~late /\ Spawned
        /\ stdin' = (IF stage = "probe" THEN "sent" ELSE "open")
        /\ pc' = "started" /\ UNCHANGED <<stage, report>>

\* selectors.DefaultSelector() may fail after Popen and before the try whose finally
\* clause ends the child: the exception leaves it running.
SelectorFails ==
  /\ pc = "started"
  /\ Over(Orphaned)
  /\ UNCHANGED <<osVars, loopVars, told, shown>>

\* The pipes may fail to be registered, and on_started, which is Core's, may raise.
CallStarted ==
  /\ pc = "started"
  /\ \/ pc' = "clock" /\ shown' = (shown \/ stage = "main")
     \/ pc' = "raise" /\ UNCHANGED shown
  /\ UNCHANGED <<osVars, loopVars, told, report>>

ReadClock ==
  /\ pc = "clock" /\ pc' = "control"
  /\ age' = Stamp("now", 0)
  /\ reading' = [late |-> late, cleanup |-> Since("cleanup")]
  /\ UNCHANGED <<groupVars, callerVars, stage, reason, failure, stdin, eof, output, tried,
                 told, shown, report>>

\* The signals go by the clock as read before poll() was called.
Signal ==
  LET begins == reason' # "none" /\ ~Started("cleanup")
      kills  == reading.cleanup >= Grace /\ ~tried
  IN  /\ age' = [age EXCEPT !["now"] = Unset,
                           !["cleanup"] = IF begins THEN Since("now") ELSE @]
      /\ reading' = NoReading
      /\ tried' = (tried \/ kills)
      /\ IF kills THEN Kill ELSE UNCHANGED killed

\* The probe has a deadline of its own, five seconds off at the most.
Control ==
  /\ pc = "control" /\ pc' = "drain"
  /\ told' = (told \/ wanted)
  /\ \/ wanted /\ Fails({<<"cancelled", "cancelled">>})
     \/ ~wanted /\ Fails(IF reading.late THEN {<<"timeout", "timeout">>} ELSE {})
     \/ /\ ~wanted /\ ~reading.late /\ stage = "probe"
        /\ Fails({<<"execution", "version_timeout">>})
  /\ Signal
  /\ UNCHANGED <<root, code, kids, held, callerVars, stage, stdin, eof, output,
                 shown, report>>

\* What the exception leaves behind: the locals of the loop are gone.
PollRaises ==
  /\ pc = "control" /\ pc' = "raise"
  /\ reading' = NoReading /\ reason' = "none" /\ failure' = "none" /\ stdin' = "closed"
  /\ eof' = FALSE /\ output' = "none" /\ tried' = FALSE
  /\ age' = [c \in Clocks |-> Unset]
  /\ UNCHANGED <<groupVars, callerVars, stage, told, shown, report>>

\* What stdout amounts to after a read: an invalid stream stays invalid.
Reads ==
  CASE output = "none" -> {"none", "good", "bad"}
    [] output = "good" -> IF stage = "probe" THEN {"good", "none"} ELSE {"good", "bad"}
    [] output = "bad" -> {"bad"}

\* One select: some of the ready pipes are written, read or found closed.
Drain ==
  /\ pc = "drain" /\ pc' = "look"
  /\ \E s \in CASE stdin = "open" -> {"open", "broken"} \cup
                                      (IF reason = "none" THEN {"sent"} ELSE {})
              [] stdin = "sent" -> {"sent", "closed"}
              [] OTHER -> {stdin},
        full \in (IF eof THEN {FALSE} ELSE BOOLEAN),
        o \in (IF eof THEN {output} ELSE Reads) :
       /\ stdin' = s /\ output' = o
       /\ Fails({<<"execution", "stdin">> : x \in {s} \ {"open", "sent", "closed", stdin}}
                \cup (IF full THEN {<<IF stage = "probe" THEN "execution" ELSE "protocol",
                                     "limit">>} ELSE {})
                \cup {<<"protocol", "events">> : x \in {o} \ {"none", "good", output}})
  /\ eof' \in {eof, eof \/ ~held}
  /\ UNCHANGED <<osVars, stage, reading, tried, told, shown, report>>

Look ==
  /\ pc = "look" /\ pc' = "close"
  /\ Reaped
  /\ Fails(IF root' = "reaped" /\ stdin \in {"open", "broken"}
             THEN {<<"execution", "stdin">>} ELSE {})
  /\ UNCHANGED <<code, kids, held, killed, callerVars, age, stage, reading, stdin, eof,
                 output, tried, told, shown, report>>

Closed == eof /\ stdin \in {"closed", "broken"}
NaturalByRoot == Exited /\ Closed
Natural == Exited /\ Closed /\ ~Group
SpentOnEof == Started("cleanup") /\ Since("cleanup") >= Limit /\ eof
Spent == Started("cleanup") /\ Since("cleanup") >= Limit

\* stream.finish(), called after a zero exit without a failure, may find that the rest of
\* its buffer is no event; it marks the stream invalid.
Finish ==
  output' \in IF stage = "main" /\ reason = "none" /\ code = "zero" THEN {output, "bad"}
                                                                 ELSE {output}

\* What the end of a loop without a failure amounts to.
DecidedByExit == IF code # "zero" THEN {<<"execution", "nonzero_exit">>} ELSE {}
Decided ==
  IF code # "zero" THEN {<<"execution", "nonzero_exit">>}
  ELSE IF output' = "good" THEN {}
  ELSE {IF stage = "probe" THEN <<"execution", "version_mismatch">>
                           ELSE <<"protocol", "events">>}

Close ==
  /\ pc = "close"
  /\ IF Natural \/ Spent
       THEN /\ Finish
            /\ Fails(Decided)
            /\ Returned(IF reason' = "none" THEN "completed" ELSE reason',
                        IF Started("cleanup") THEN "may_live" ELSE "stopped", failure')
       ELSE pc' = "clock" /\ UNCHANGED <<stage, reason, failure, output, report>>
  /\ UNCHANGED <<osVars, reading, stdin, eof, tried, told, shown>>

\* The finally clause when a callback raised: TERM, then KILL to a group that is
\* still there after two seconds.
CleanUp ==
  /\ pc = "raise" /\ pc' = "wait"
  /\ age' = [c \in Clocks |-> IF c = "term" THEN 0 ELSE Unset]
  /\ UNCHANGED <<groupVars, callerVars, loopVars, told, shown, report>>

WaitChildOnly ==
  /\ pc = "wait"
  /\ Reaped /\ Over(Raised)
  /\ UNCHANGED <<code, kids, held, killed, callerVars, age, loopVars, told, shown>>
WaitChild ==
  /\ pc = "wait"
  /\ ~Members \/ Since("term") >= Grace
  /\ IF Members THEN Kill ELSE UNCHANGED killed
  /\ Reaped /\ Over(Raised)
  /\ UNCHANGED <<code, kids, held, callerVars, age, loopVars, told, shown>>

Adapter ==
  \/ Start \/ SelectorFails \/ CallStarted \/ ReadClock \/ Control \/ PollRaises \/ Drain
  \/ Look \/ Close \/ CleanUp \/ WaitChild

Around == Surroundings /\ UNCHANGED <<pc, loopVars, told, shown, report>>

Next == Adapter \/ Around

Spec == Init /\ [][Next]_vars

-----------------------------------------------------------------------------
TypeOK ==
  /\ GroupType
  /\ pc \in {"start", "started", "clock", "control", "drain", "look", "close", "raise",
             "wait", "over"}
  /\ stage \in {"probe", "main"}
  /\ reading \in [late : BOOLEAN, cleanup : Unset .. Limit]
  /\ reason \in Failures \cup {"none"} /\ failure \in Codes \cup {"none"}
  /\ stdin \in {"open", "sent", "closed", "broken"}
  /\ output \in {"none", "bad", "good"}
  /\ eof \in BOOLEAN /\ tried \in BOOLEAN /\ told \in BOOLEAN /\ shown \in BOOLEAN
  /\ report \in Reports \cup {Nothing, Raised, Orphaned}

(* A completed invocation is whole: the child took the prompt to its last  *)
(* byte, exited with zero, all its events were read and ended in a stop;   *)
(* and no poll() ever answered that Core wants to cancel.                  *)
CompletedIsWhole ==
  report.said = "result" /\ report.transport = "completed" =>
    /\ report.writer = "stopped" /\ ~Members
    /\ stdin = "closed" /\ eof /\ code = "zero" /\ output = "good" /\ ~told

(* validate_completion (opencode_configuration.py:312-401) accepts whatever *)
(* invoke reports, so no invocation is left uncertain by its own evidence. *)
Accepted ==
  report.said = "result" =>
    /\ IF report.phase = "preflight"
         THEN ~shown /\ ~report.final /\ report.protocol = "not_started"
         ELSE report.protocol # "not_started"
    /\ IF report.transport = "completed"
         THEN /\ report.phase = "invocation" /\ shown /\ report.code = "zero"
              /\ report.writer = "stopped" /\ report.protocol = "settled"
              /\ report.failure = "none" /\ report.final
         ELSE ~report.final /\ report.failure # "none"

(* "Callback exceptions cannot orphan a process this invocation owns"       *)
(* (opencode.py:411): what is left of the group was killed before the      *)
(* exception leaves invoke.                                                *)
RaisedIsKilled == report = Raised => killed \/ ~Members
=============================================================================
