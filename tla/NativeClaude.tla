--------------------------- MODULE NativeClaude ---------------------------
(***************************************************************************)
(* router/claude.py: ClaudePrintAdapter.invoke runs the child twice, as a  *)
(* version probe and as the invocation, each time through the loop of      *)
(* _process, and reports one AdapterResult, whose evidence                 *)
(* validate_completion must accept.                                        *)
(*                                                                         *)
(* One round of the loop is five steps, and the group, Core and the clock  *)
(* may move between any two of them: the clock is read; poll() is called   *)
(* and signals are sent, by the reading; the pipes are read; the child is  *)
(* polled; the invocation ends or the next round begins.                   *)
(***************************************************************************)
EXTENDS NativeGroup

VARIABLES
  stage,     \* "probe" or "main"
  reading,   \* what the clock said when last read: the deadline has passed, and
             \* the age of the cleanup
  reason,    \* the transport of the first failure, or "none"
  failure,   \* its code, or "none"
  stdin,     \* the prompt: open (bytes left), sent, closed, broken (closed early)
  eof,       \* stdout and stderr are at their end
  output,    \* what stdout parses as so far
  tried,     \* KILL was tried
  told,      \* some poll() of the invocation answered yes
  shown      \* on_started gave Core the pid of the invocation

loopVars == <<stage, reading, reason, failure, stdin, eof, output, tried>>
vars == <<pc, osVars, loopVars, told, shown, report>>

Codes ==
  {"cancelled", "timeout", "spawn", "stdin", "limit", "version", "envelope", "native_exit"}
\* The fields of an AdapterResult and of its evidence that depend on the run.
Reports ==
  [said : {"result"}, phase : {"probe", "main"},
   transport : {"completed"} \cup Failures,
   writer : {"stopped", "may_live"}, failure : Codes \cup {"none"},
   terminal : {"success", "error", "invalid"},
   code : {"none", "zero", "nonzero"}, semantic : BOOLEAN]

-----------------------------------------------------------------------------
\* fail(): the first reason wins.
FailsWhileRunning(pairs) ==
  IF reason # "none" \/ pairs = {} \/ Exited THEN UNCHANGED <<reason, failure>>
  ELSE \E p \in pairs : reason' = p[1] /\ failure' = p[2]
Fails(pairs) ==
  IF reason # "none" \/ pairs = {} THEN UNCHANGED <<reason, failure>>
  ELSE \E p \in pairs : reason' = p[1] /\ failure' = p[2]

NoReading == [late |-> FALSE, cleanup |-> Unset]

TerminalByExit(t) == IF code = "zero" THEN "success" ELSE "error"
Terminal(t) ==
  CASE t = "completed" -> "success" [] t = "protocol" -> "invalid" [] OTHER -> "error"

Result(phase, transport, writer, why) ==
  [said |-> "result", phase |-> phase, transport |-> transport, writer |-> writer,
   failure |-> why, terminal |-> IF phase = "probe" THEN "error" ELSE Terminal(transport),
   code |-> IF pc = "close" /\ Exited THEN code ELSE "none", semantic |-> transport = "completed"]

Over(r) == report' = r /\ pc' = "over"

\* A probe that does not show the pinned version ends the invocation.
ProbeResult(transport, writer, why) ==
  LET stop == transport \in {"cancelled", "timeout"} IN
  Result("probe", IF stop THEN transport ELSE "execution", writer,
         IF stop \/ why = "spawn" THEN why ELSE "version")

\* invoke, after _terminal has read the envelope of a completed child.
MainResult(transport, writer, why) ==
  IF transport = "completed" /\ output # "good"
    THEN Result("main", "protocol", writer, "envelope")
    ELSE Result("main", transport, writer, why)

Returned(transport, writer, why) ==
  IF stage = "probe"
    THEN IF transport = "completed" /\ output = "good"
           THEN stage' = "main" /\ pc' = "start" /\ UNCHANGED report
           ELSE Over(ProbeResult(transport, writer, why)) /\ UNCHANGED stage
    ELSE Over(MainResult(transport, writer, why)) /\ UNCHANGED stage

-----------------------------------------------------------------------------
Init ==
  /\ GroupInit /\ pc = "start"
  /\ stage = "probe" /\ reading = NoReading
  /\ reason = "none" /\ failure = "none" /\ stdin = "closed"
  /\ eof = FALSE /\ output = "none" /\ tried = FALSE
  /\ told = FALSE /\ shown = FALSE /\ report = Nothing

\* Nothing is started once the deadline has passed or Core wants to cancel.
Start ==
  /\ pc = "start"
  /\ reading' = NoReading /\ reason' = "none" /\ failure' = "none" /\ eof' = FALSE
  /\ output' = "none" /\ tried' = FALSE
  /\ told' = (told \/ (wanted /\ ~late))
  /\ UNCHANGED <<wanted, late, shown>>
  /\ \/ /\ late /\ Returned("timeout", "stopped", "timeout")
        /\ UNCHANGED <<groupVars, age, stdin>>
     \/ /\ ~late /\ wanted /\ Returned("cancelled", "stopped", "cancelled")
        /\ UNCHANGED <<groupVars, age, stdin>>
     \/ /\ ~late /\ ~wanted /\ Returned("execution", "stopped", "spawn")
        /\ UNCHANGED <<groupVars, age, stdin>>
     \/ /\ ~late /\ ~wanted /\ Spawned
        /\ stdin' = (IF stage = "probe" THEN "sent" ELSE "open")
        /\ pc' = "started" /\ UNCHANGED <<stage, report>>

\* selectors.DefaultSelector() may fail after Popen and before the try whose finally
\* clause ends the child: the exception leaves it running.
SelectorFails ==
  /\ pc = "started"
  /\ Over(Orphaned)
  /\ UNCHANGED <<osVars, loopVars, told, shown>>

\* The pipes may fail to be registered, and on_started, which is Core's, may raise.
CallStarted ==
  /\ pc = "started"
  /\ \/ pc' = "clock" /\ shown' = (shown \/ stage = "main")
     \/ pc' = "raise" /\ UNCHANGED shown
  /\ UNCHANGED <<osVars, loopVars, told, report>>

\* The probe has a deadline of its own, five seconds off at the most.
ReadClock ==
  /\ pc = "clock" /\ pc' = "control"
  /\ age' = Stamp("now", 0)
  /\ \E l \in {late, late \/ stage = "probe"} :
       reading' = [late |-> l, cleanup |-> Since("cleanup")]
  /\ UNCHANGED <<groupVars, callerVars, stage, reason, failure, stdin, eof, output, tried,
                 told, shown, report>>

\* The signals go by the clock as read before poll() was called.
Signal ==
  LET begins == reason' # "none" /\ ~Started("cleanup")
      kills  == reading.cleanup >= Grace /\ ~tried
  IN  /\ age' = [age EXCEPT !["now"] = Unset,
                           !["cleanup"] = IF begins THEN Since("now") ELSE @]
      /\ reading' = NoReading
      /\ tried' = (tried \/ kills)
      /\ IF kills THEN Kill ELSE UNCHANGED killed

Control ==
  /\ pc = "control" /\ pc' = "drain"
  /\ told' = (told \/ wanted)
  /\ IF wanted THEN Fails({<<"cancelled", "cancelled">>})
               ELSE Fails(IF reading.late THEN {<<"timeout", "timeout">>} ELSE {})
  /\ Signal
  /\ UNCHANGED <<root, code, kids, held, callerVars, stage, stdin, eof, output,
                 shown, report>>

\* What the exception leaves behind: the locals of the loop are gone.
PollRaises ==
  /\ pc = "control" /\ pc' = "raise"
  /\ reading' = NoReading /\ reason' = "none" /\ failure' = "none" /\ stdin' = "closed"
  /\ eof' = FALSE /\ output' = "none" /\ tried' = FALSE
  /\ age' = [c \in Clocks |-> Unset]
  /\ UNCHANGED <<groupVars, callerVars, stage, told, shown, report>>

\* One select: some of the ready pipes are written, read or found closed.
Drain ==
  /\ pc = "drain" /\ pc' = "look"
  /\ \E s \in CASE stdin = "open" -> {"open"} \cup
                     (IF reason = "none" THEN {"sent", "broken"} ELSE {"broken"})
              [] stdin = "sent" -> {"sent", "closed"}
              [] OTHER -> {stdin} :
     \E full \in BOOLEAN :
       LET breaks == s = "broken" /\ stdin = "open" /\ reason = "none" IN
       /\ stdin' = s
       /\ full => ~eof
       /\ Fails((IF breaks THEN {<<"execution", "stdin">>} ELSE {})
                \cup (IF full THEN {<<"protocol", "limit">>} ELSE {}))
  /\ IF eof THEN UNCHANGED <<eof, output>>
            ELSE eof' \in {FALSE, ~held} /\ output' \in {"none", "bad", "good"}
  /\ UNCHANGED <<osVars, stage, reading, tried, told, shown, report>>

Look ==
  /\ pc = "look" /\ pc' = "close"
  /\ Reaped
  /\ Fails(IF root' = "reaped" /\ stdin \in {"open", "broken"}
             THEN {<<"execution", "stdin">>} ELSE {})
  /\ UNCHANGED <<code, kids, held, killed, callerVars, age, stage, reading, stdin, eof,
                 output, tried, told, shown, report>>

Closed == eof /\ stdin \in {"closed", "broken"}
Natural == Exited /\ Closed /\ ~Group
SpentOnExit == Started("cleanup") /\ Since("cleanup") >= Limit /\ Exited
Spent == Started("cleanup") /\ Since("cleanup") >= Limit

WriterUnknown == IF Started("cleanup") THEN "unknown" ELSE "stopped"
WriterByExit == IF Started("cleanup") /\ ~Exited THEN "may_live" ELSE "stopped"
Writer == IF Started("cleanup") THEN "may_live" ELSE "stopped"

Close ==
  /\ pc = "close"
  /\ IF Natural \/ Spent
       THEN IF reason # "none" THEN Returned(reason, Writer, failure)
            ELSE IF code = "zero" THEN Returned("completed", Writer, "none")
            ELSE Returned("execution", Writer, "native_exit")
       ELSE pc' = "clock" /\ UNCHANGED <<stage, report>>
  /\ UNCHANGED <<osVars, reading, reason, failure, stdin, eof, output, tried, told, shown>>

\* The finally clause when a callback raised.
CleanUpByTerm ==
  /\ pc = "raise" /\ pc' = "wait"
  /\ UNCHANGED <<osVars, loopVars, told, shown, report>>
CleanUp ==
  /\ pc = "raise"
  /\ Kill /\ pc' = "wait"
  /\ UNCHANGED <<root, code, kids, held, callerVars, age, loopVars, told, shown, report>>

\* wait(timeout=5) ends with or without the child.
WaitChild ==
  /\ pc = "wait"
  /\ Reaped /\ Over(Raised)
  /\ UNCHANGED <<code, kids, held, killed, callerVars, age, loopVars, told, shown>>

Adapter ==
  \/ Start \/ SelectorFails \/ CallStarted \/ ReadClock \/ Control \/ PollRaises \/ Drain
  \/ Look \/ Close \/ CleanUp \/ WaitChild

Around == Surroundings /\ UNCHANGED <<pc, loopVars, told, shown, report>>

Next == Adapter \/ Around

Spec == Init /\ [][Next]_vars

-----------------------------------------------------------------------------
TypeOK ==
  /\ GroupType
  /\ pc \in {"start", "started", "clock", "control", "drain", "look", "close", "raise",
             "wait", "over"}
  /\ stage \in {"probe", "main"}
  /\ reading \in [late : BOOLEAN, cleanup : Unset .. Limit]
  /\ reason \in Failures \cup {"none"} /\ failure \in Codes \cup {"none"}
  /\ stdin \in {"open", "sent", "closed", "broken"}
  /\ output \in {"none", "bad", "good"}
  /\ eof \in BOOLEAN /\ tried \in BOOLEAN /\ told \in BOOLEAN /\ shown \in BOOLEAN
  /\ report \in Reports \cup {Nothing, Raised, Orphaned}

(* A completed invocation is whole: the child took the prompt to its last  *)
(* byte, exited with zero, and all it wrote was read; and no poll() ever   *)
(* answered that Core wants to cancel, however late the answer came.       *)
CompletedIsWhole ==
  report.said = "result" /\ report.transport = "completed" =>
    /\ report.writer = "stopped" /\ ~Members
    /\ stdin = "closed" /\ eof /\ code = "zero" /\ ~told

(* validate_completion accepts whatever invoke reports, so no invocation    *)
(* is left uncertain by its own adapter's evidence (claude.py:815-919).    *)
Accepted ==
  report.said = "result" =>
    /\ report.phase = "main" /\ ~shown =>
         report.failure \in {"spawn", "timeout", "cancelled"}
    /\ report.phase = "probe" => ~shown
    /\ IF report.transport = "completed"
         THEN /\ report.phase = "main" /\ shown /\ report.code = "zero"
              /\ report.writer = "stopped" /\ report.terminal = "success"
              /\ report.failure = "none" /\ report.semantic
         ELSE /\ ~report.semantic /\ report.terminal # "success"
              /\ report.failure # "none"

(* Whatever raises once the child is guarded by the finally clause, the     *)
(* group does not outlive the adapter unnoticed: when the exception leaves *)
(* invoke, what is left of the group was killed.                           *)
RaisedIsKilled == report = Raised => killed \/ ~Members
=============================================================================
