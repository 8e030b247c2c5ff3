---------------------------- MODULE NativeCodex ----------------------------
(***************************************************************************)
(* router/codex.py: CodexExecAdapter.invoke checks the host, probes the    *)
(* version and runs the invocation, the last two through the loop of       *)
(* _process.  Unlike the other adapters it decides the transport when the  *)
(* child has exited and its pipes are closed, from a snapshot of the final *)
(* file, and only then waits for the group; and an exited child starts the *)
(* clock of the cleanup.                                                   *)
(*                                                                         *)
(* One round of the loop is four steps: poll() and the deadline; reading,  *)
(* with a poll() after every chunk; polling the child and reading again;   *)
(* deciding, signalling and returning.                                     *)
(***************************************************************************)
EXTENDS NativeGroup

VARIABLES
  stage,     \* "probe" or "main"
  reason,    \* the transport, once decided, or "none"
  failure,   \* the code of the first failure, or "none"
  stdin,     \* the prompt: none (probe), open (bytes left), closed, broken (closed early)
  eof,       \* stdout and stderr are at their end
  output,    \* none yet, good (the version, a settled turn), failed (turn), bad
  forced,    \* TERM was sent
  tried,     \* KILL was tried
  told,      \* some poll() answered yes before the transport was decided
  shown      \* on_started gave Core the pid of the invocation

loopVars == <<stage, reason, failure, stdin, eof, output, forced, tried>>
vars == <<pc, osVars, loopVars, told, shown, report>>

Codes ==
  {"host", "cancelled", "timeout", "final_exists", "launch", "stdin", "limit", "events",
   "turn_failed", "version_timeout", "version_mismatch", "nonzero_exit", "final",
   "close_timeout", "cleanup"}
Writers == {"stopped", "may_live", "unknown"}
Reports ==
  [said : {"result"}, phase : {"preflight", "invocation"},
   transport : {"completed"} \cup Failures, writer : Writers, failure : Codes \cup {"none"},
   protocol : {"not_started", "settled", "invalid", "incomplete"},
   code : {"none", "zero", "nonzero"}, final : BOOLEAN]

-----------------------------------------------------------------------------
\* fail(): the first failure decides the transport; any starts the cleanup.
Fails(pairs) ==
  IF reason # "none" \/ pairs = {} THEN UNCHANGED <<reason, failure>>
  ELSE \E p \in pairs : reason' = p[1] /\ failure' = p[2]

Begins(now) == age' = IF now /\ ~Started("cleanup") THEN Stamp("cleanup", 0) ELSE age

ResultByStream(phase, transport, writer, why, protocol) ==
  [said |-> "result", phase |-> phase, transport |-> transport, writer |-> writer,
   failure |-> why, protocol |-> protocol,
   code |-> IF pc \in {"close", "between"} /\ Exited THEN code ELSE "none",
   final |-> phase = "invocation" /\ output = "good"]
Result(phase, transport, writer, why, protocol) ==
  [said |-> "result", phase |-> phase, transport |-> transport, writer |-> writer,
   failure |-> why, protocol |-> protocol,
   code |-> IF pc \in {"close", "between"} /\ Exited THEN code ELSE "none",
   final |-> phase = "invocation" /\ transport = "completed"]

Over(r) == report' = r /\ pc' = "over"

Protocol ==
  CASE pc = "close" /\ output = "bad" -> "invalid"
    [] pc = "close" /\ output = "good" -> "settled"
    [] OTHER -> "incomplete"

\* Only a completed probe whose group is gone lets the invocation start.
Returned(transport, writer, why) ==
  CASE stage = "main" -> Over(Result("invocation", transport, writer, why, Protocol))
    [] stage = "probe" /\ transport = "completed" /\ writer = "stopped" ->
         pc' = "between" /\ UNCHANGED report
    [] OTHER ->
         Over(Result("preflight", IF transport = "completed" THEN "execution" ELSE transport,
                     writer, IF why = "none" THEN "cleanup" ELSE why, "not_started"))

-----------------------------------------------------------------------------
Init ==
  /\ GroupInit /\ pc = "preflight"
  /\ stage = "probe" /\ reason = "none" /\ failure = "none" /\ stdin = "none"
  /\ eof = FALSE /\ output = "none" /\ forced = FALSE /\ tried = FALSE
  /\ told = FALSE /\ shown = FALSE /\ report = Nothing

\* _preflight: nothing runs unless the host, the credentials and the controls are there.
Preflight ==
  /\ pc = "preflight"
  /\ \/ ~wanted /\ ~late /\ pc' = "start" /\ UNCHANGED report
     \/ \E p \in {<<"execution", "host">>}
                   \cup {<<"cancelled", "cancelled">> : x \in {wanted} \ {FALSE}}
                   \cup {<<"timeout", "timeout">> : x \in {late} \ {FALSE}} :
          Over(Result("preflight", p[1], "stopped", p[2], "not_started"))
  /\ UNCHANGED <<osVars, loopVars, told, shown>>

\* The final file may not be there before the invocation runs.
Between ==
  /\ pc = "between"
  /\ \/ pc' = "start" /\ stage' = "main" /\ UNCHANGED report
     \/ /\ Over(Result("preflight", "execution", "stopped", "final_exists", "not_started"))
        /\ UNCHANGED stage
  /\ UNCHANGED <<osVars, reason, failure, stdin, eof, output, forced, tried, told, shown>>

Start ==
  /\ pc = "start"
  /\ reason' = "none" /\ failure' = "none" /\ eof' = FALSE /\ output' = "none"
  /\ forced' = FALSE /\ tried' = FALSE
  /\ told' = (told \/ wanted)
  /\ UNCHANGED <<stage, wanted, late, shown>>
  /\ \/ /\ \/ wanted /\ Returned("cancelled", "stopped", "cancelled")
           \/ ~wanted /\ late /\ Returned("timeout", "stopped", "timeout")
           \/ ~wanted /\ ~late /\ Returned("execution", "stopped", "launch")
        /\ UNCHANGED <<groupVars, age, stdin>>
     \/ /\ ~wanted /\ ~late /\ Spawned
        /\ stdin' = (IF stage = "probe" THEN "none" ELSE "open")
        /\ pc' = "started" /\ UNCHANGED report

\* The pipes may fail to be registered, and on_started, which is Core's, may raise.
CallStarted ==
  /\ pc = "started"
  /\ \/ pc' = "control" /\ shown' = (shown \/ stage = "main")
     \/ pc' = "raise" /\ UNCHANGED shown
  /\ UNCHANGED <<osVars, loopVars, told, report>>

\* The probe has a deadline of its own, five seconds off at the most.
Control ==
  /\ pc = "control" /\ pc' = "drain"
  /\ told' = (told \/ (wanted /\ reason = "none"))
  /\ \E p \in CASE wanted -> {{<<"cancelled", "cancelled">>}}
              [] ~wanted /\ late -> {{<<"timeout", "timeout">>}}
              [] OTHER -> {{}} \cup {{<<"execution", "version_timeout">>} :
                                      x \in {stage} \cap {"probe"}} :
       Fails(p) /\ Begins(p # {})
  /\ UNCHANGED <<groupVars, callerVars, stage, stdin, eof, output, forced, tried,
                 shown, report>>

\* What the exception leaves behind: the locals of the loop are gone.
PollRaises ==
  /\ pc \in {"control", "drain", "look"} /\ pc' = "raise"
  /\ reason' = "none" /\ failure' = "none" /\ stdin' = "none"
  /\ eof' = FALSE /\ output' = "none" /\ forced' = FALSE /\ tried' = FALSE
  /\ age' = [c \in Clocks |-> Unset]
  /\ UNCHANGED <<groupVars, callerVars, stage, told, shown, report>>

\* What the stream amounts to after a chunk: nothing may follow a turn's end.
Reads ==
  CASE output = "bad" -> {"bad"}
    [] stage = "probe" /\ output # "bad" -> {"good", "none", "bad"}
    [] stage = "main" /\ output = "none" -> {"none", "good", "failed", "bad"}
    [] OTHER -> {output, "bad"}

\* Chunks are read, with a poll() and a look at the clock after each, until none is
\* left or a failure asks for the cleanup.  turn.failed decides the transport without
\* asking: the child is left to end by itself.
ReadChunks(others, exited) ==
  \/ /\ eof' = (eof \/ ~held)
     /\ Fails(others) /\ Begins(exited \/ others # {})
     /\ UNCHANGED <<output, told>>
  \/ /\ ~eof
     /\ output' \in Reads
     /\ told' = (told \/ (wanted /\ reason = "none"))
     /\ LET asking == others
              \cup {IF stage = "probe" THEN <<"execution", "limit">> ELSE <<"protocol", "events">> :
                      x \in {output'} \cap {"bad"}}
              \cup {<<"cancelled", "cancelled">> : x \in {wanted} \ {FALSE}}
              \cup {<<"timeout", "timeout">> : x \in {late} \ {FALSE}}
        IN /\ Fails(asking \cup {<<"execution", "turn_failed">> : x \in {output'} \cap {"failed"}})
           /\ Begins(exited \/ asking # {})
           /\ eof' \in IF asking = {} /\ reason = "none" THEN {~held} ELSE {FALSE, ~held}

Drain ==
  /\ pc = "drain" /\ pc' = "look"
  /\ \E s \in (IF stdin = "open" THEN {"open", "closed", "broken"} ELSE {stdin}) :
       /\ stdin' = s
       /\ ReadChunks({<<"execution", "stdin">> : x \in {s} \ {"open", "closed", stdin}}, FALSE)
  /\ UNCHANGED <<groupVars, callerVars, stage, forced, tried, shown, report>>

\* The child exited: what it left in the pipes is read, and a prompt that nobody
\* took to the end is a failure.  Its exit starts the clock of the cleanup.
Look ==
  /\ pc = "look" /\ pc' = "close"
  /\ Reaped
  /\ IF root' = "reaped"
       THEN /\ \E s \in CASE stdin = "open" /\ held -> {"broken", "closed"}
                         [] stdin = "open" /\ ~held -> {"broken"}
                         [] OTHER -> {stdin} :
                 /\ stdin' = s
                 /\ ReadChunks({<<"execution", "stdin">> : x \in {s} \ {"none", "closed", stdin}},
                               TRUE)
            /\ UNCHANGED <<stage, forced, tried>>
       ELSE UNCHANGED <<loopVars, told, age>>
  /\ UNCHANGED <<code, kids, held, killed, callerVars, shown, report>>

-----------------------------------------------------------------------------
Closed == eof /\ stdin \in {"none", "closed", "broken"}

\* What can be made of a child that exited with its pipes closed.  The snapshot of
\* the final file asks poll() and the clock, and the file may be missing or change.
CandidatesByExit ==
  IF code = "zero" THEN {<<"completed", "none">>} ELSE {<<"execution", "nonzero_exit">>}
Candidates ==
  CASE stage = "probe" ->
         IF code = "zero" /\ output = "good" THEN {<<"completed", "none">>}
                                             ELSE {<<"execution", "version_mismatch">>}
    [] stage = "main" /\ code # "zero" -> {<<"execution", "nonzero_exit">>}
    [] stage = "main" /\ code = "zero" /\ output # "good" ->
         {<<"protocol", "events">>, <<"execution", "turn_failed">>}
    [] OTHER ->
         {<<"protocol", "final">>,
          CASE wanted -> <<"cancelled", "cancelled">>
            [] ~wanted /\ late -> <<"timeout", "timeout">>
            [] OTHER -> <<"completed", "none">>}

Decide ==
  IF Exited /\ Closed /\ reason = "none" /\ ~forced
    THEN \E p \in Candidates :
           /\ reason' = p[1] /\ failure' = p[2]
           /\ told' = (told \/ p[1] = "cancelled")
    ELSE UNCHANGED <<reason, failure, told>>

NaturalByRoot == Exited /\ Closed
Natural == Exited /\ Closed /\ ~Group
Spent == Started("cleanup") /\ Since("cleanup") >= Limit

AnswerUndecided(writer) == Returned(reason', writer, failure')
Answer(writer) ==
  Returned(IF reason' = "none" THEN "execution" ELSE reason', writer,
           IF reason' = "none" THEN "close_timeout" ELSE failure')

\* TERM as soon as the cleanup has begun and the group is there, KILL later.
Signal ==
  /\ forced' = (forced \/ Group)
  /\ LET kills == Group /\ Started("term") /\ Since("term") >= Grace /\ ~tried IN
       tried' = (tried \/ kills) /\ IF kills THEN Kill ELSE UNCHANGED killed
  /\ age' = IF Group /\ ~Started("term") THEN Stamp("term", 0) ELSE age

Close ==
  /\ pc = "close"
  /\ Decide
  /\ \/ /\ Natural
        /\ Answer(IF forced THEN "may_live" ELSE "stopped")
        /\ UNCHANGED <<forced, tried, killed, age>>
     \/ /\ ~Natural /\ Started("cleanup")
        /\ Signal
        /\ IF Spent THEN Answer(IF forced' THEN "may_live" ELSE "unknown")
                    ELSE pc' = "control" /\ UNCHANGED report
     \/ /\ ~Natural /\ ~Started("cleanup")
        /\ pc' = "control" /\ UNCHANGED <<forced, tried, killed, age, report>>
  /\ UNCHANGED <<root, code, kids, held, callerVars, stage, stdin, eof, output, shown>>

\* The finally clause when a callback raised: TERM, then KILL to a group that is
\* still there after two seconds.
CleanUp ==
  /\ pc = "raise" /\ pc' = "wait"
  /\ age' = [c \in Clocks |-> IF c = "term" THEN 0 ELSE Unset]
  /\ UNCHANGED <<groupVars, callerVars, loopVars, told, shown, report>>

WaitChildOnly ==
  /\ pc = "wait"
  /\ Reaped /\ Over(Raised)
  /\ UNCHANGED <<code, kids, held, killed, callerVars, age, loopVars, told, shown>>
WaitChild ==
  /\ pc = "wait"
  /\ ~Members \/ Since("term") >= Grace
  /\ IF Members THEN Kill ELSE UNCHANGED killed
  /\ Reaped /\ Over(Raised)
  /\ UNCHANGED <<code, kids, held, callerVars, age, loopVars, told, shown>>

Adapter ==
  \/ Preflight \/ Between \/ Start \/ CallStarted \/ Control \/ PollRaises \/ Drain \/ Look
  \/ Close \/ CleanUp \/ WaitChild

Around == Surroundings /\ UNCHANGED <<pc, loopVars, told, shown, report>>

Next == Adapter \/ Around

Spec == Init /\ [][Next]_vars

-----------------------------------------------------------------------------
TypeOK ==
  /\ GroupType
  /\ pc \in {"preflight", "between", "start", "started", "control", "drain", "look", "close",
             "raise", "wait", "over"}
  /\ stage \in {"probe", "main"}
  /\ reason \in {"none", "completed"} \cup Failures
  /\ failure \in Codes \cup {"none"}
  /\ stdin \in {"none", "open", "closed", "broken"}
  /\ output \in {"none", "bad", "good", "failed"}
  /\ eof \in BOOLEAN /\ forced \in BOOLEAN /\ tried \in BOOLEAN
  /\ told \in BOOLEAN /\ shown \in BOOLEAN
  /\ report \in Reports \cup {Nothing, Raised}

(* A completed invocation is whole: the child took the prompt to its last  *)
(* byte, exited with zero, and all its events were read and ended in a     *)
(* settled turn; no poll() answered that Core wants to cancel before the   *)
(* final file was taken.  What is left of the group may yet make the       *)
(* writer uncertain, but no longer the result.                             *)
CompletedIsWhole ==
  report.said = "result" /\ report.transport = "completed" =>
    /\ stdin = "closed" /\ eof /\ code = "zero" /\ output = "good" /\ ~told
    /\ report.writer = "may_live" <=> forced

(* validate_completion (codex_configuration.py:394-471) accepts whatever    *)
(* invoke reports, so no invocation is left uncertain by its own evidence. *)
Accepted ==
  report.said = "result" =>
    /\ IF report.phase = "preflight"
         THEN ~shown /\ ~report.final /\ report.protocol = "not_started"
         ELSE report.protocol # "not_started"
    /\ IF report.transport = "completed"
         THEN /\ report.phase = "invocation" /\ shown /\ report.code = "zero"
              /\ report.protocol = "settled" /\ report.failure = "none" /\ report.final
         ELSE ~report.final /\ report.failure # "none"

(* "ownership survives the callback" (codex.py:636): what is left of the    *)
(* group was killed before the exception leaves invoke.                    *)
RaisedIsKilled == report = Raised => killed \/ ~Members
=============================================================================
