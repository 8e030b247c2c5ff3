--------------------------- MODULE OpenCodeProofs ---------------------------
(***************************************************************************)
(* NativeOpenCode implements NativeContract, and its invariants hold, for  *)
(* every Grace and Limit and with time passing at any step.                *)
(***************************************************************************)
EXTENDS NativeOpenCode

\* The steps of a round.
Loop == {"clock", "control", "drain", "look", "close"}

\* What TypeOK says of the adapter's own variables.
LoopType ==
  /\ pc \in Loop \cup {"start", "started", "raise", "wait", "over"}
  /\ stage \in {"probe", "main"}
  /\ reading \in [late : BOOLEAN, cleanup : Unset .. Limit]
  /\ reason \in Failures \cup {"none"} /\ failure \in Codes \cup {"none"}
  /\ stdin \in {"open", "sent", "closed", "broken"}
  /\ output \in {"none", "bad", "good"}
  /\ eof \in BOOLEAN /\ tried \in BOOLEAN /\ told \in BOOLEAN /\ shown \in BOOLEAN

\* Nothing is started beside a group; the answer comes last; Core has the pid of the
\* invocation and not of the probe.
Flow ==
  /\ pc = "start" => ~Members /\ ~told
  /\ pc = "started" => ~told
  /\ pc = "over" <=> report # Nothing
  /\ stage = "probe" => ~shown
  /\ stage = "main" /\ pc \in Loop => shown

\* A cleanup, a cancellation seen and a prompt refused each have become the reason, or
\* came after it.
Why ==
  /\ reason = "none" <=> failure = "none"
  /\ pc \in Loop \cup {"started"} /\ reason = "none" =>
       ~Started("cleanup") /\ ~told /\ stdin # "broken"

IInv == GroupType /\ LoopType /\ Flow /\ Why
        /\ report \in Reports \cup {Nothing, Raised, Orphaned}
        /\ CompletedIsWhole /\ Accepted /\ RaisedIsKilled

LEMMA TypeOKParts ==
  TypeOK <=> GroupType /\ LoopType /\ report \in Reports \cup {Nothing, Raised, Orphaned}
  BY DEF TypeOK, LoopType, Loop

LEMMA SaidApart ==
  /\ Nothing # Raised /\ Nothing # Orphaned /\ Raised # Orphaned
  /\ Nothing.said = "nothing" /\ Raised.said = "raised" /\ Orphaned.said = "orphaned"
<1>1. Nothing.said = "nothing" /\ Raised.said = "raised" /\ Orphaned.said = "orphaned"
  BY SMT DEF Nothing, Raised, Orphaned
<1> QED
  BY <1>1

\* As long as there is no answer, nothing is claimed of it.
LEMMA Unanswered ==
  ASSUME report = Nothing
  PROVE  CompletedIsWhole /\ Accepted /\ RaisedIsKilled
  BY SaidApart DEF CompletedIsWhole, Accepted, RaisedIsKilled

LEMMA InitInv == Init => IInv
<1> SUFFICES ASSUME Init PROVE IInv
  OBVIOUS
<1>1. GroupType /\ ~Members /\ ~Started("cleanup")
  BY GroupInitType DEF Init, Clocks
<1>2. NoReading \in [late : BOOLEAN, cleanup : Unset .. Limit]
  BY NativeGroupAssumption, SMT DEF NoReading, Unset
<1>3. LoopType
  BY <1>2 DEF Init, LoopType
<1>4. Flow /\ Why
  BY <1>1 DEF Init, Flow, Why, Loop
<1> QED
  BY <1>1, <1>3, <1>4, Unanswered DEF Init, IInv

\* finish() changes what stdout amounts to only to mark it invalid.
LEMMA FinishKeeps ==
  ASSUME Finish, output \in {"none", "bad", "good"}
  PROVE  output' \in {"none", "bad", "good"} /\ (output' = "good" => output = "good")
<1>1. output' \in {output, "bad"}
  BY DEF Finish
<1> QED
  BY <1>1

\* fail() keeps the reason and its code together, and the first of them.
LEMMA FailsKeeps ==
  ASSUME NEW pairs \in SUBSET (Failures \X Codes), Fails(pairs),
         reason \in Failures \cup {"none"}, failure \in Codes \cup {"none"},
         reason = "none" <=> failure = "none"
  PROVE  /\ reason' \in Failures \cup {"none"} /\ failure' \in Codes \cup {"none"}
         /\ reason' = "none" <=> failure' = "none"
         /\ reason # "none" => reason' # "none"
         /\ pairs # {} => reason' # "none"
<1>1. \A p \in pairs : /\ p[1] \in Failures /\ p[2] \in Codes
                       /\ p[1] # "none" /\ p[2] # "none"
  BY SMT DEF Failures, Codes
<1> QED
  BY <1>1 DEF Fails

-----------------------------------------------------------------------------
(* Results *)

LEMMA ResultFields ==
  ASSUME NEW phase \in {"preflight", "invocation"}, NEW transport \in Failures \cup {"completed"},
         NEW writer \in {"stopped", "may_live"}, NEW why \in Codes \cup {"none"},
         NEW protocol \in {"not_started", "settled", "invalid", "incomplete"},
         code \in {"none", "zero", "nonzero"},
         NEW r, r = Result(phase, transport, writer, why, protocol)
  PROVE  /\ r.said = "result" /\ r.phase = phase /\ r.transport = transport
         /\ r.writer = writer /\ r.failure = why /\ r.protocol = protocol
         /\ (pc = "close" /\ Exited => r.code = code)
         /\ (r.final <=> phase = "invocation" /\ transport = "completed")
         /\ r \in Reports /\ r # Nothing /\ r # Raised
<1> DEFINE final == phase = "invocation" /\ transport = "completed"
<1> DEFINE c == IF pc = "close" /\ Exited THEN code ELSE "none"
<1>1. r = [said |-> "result", phase |-> phase, transport |-> transport, writer |-> writer,
           failure |-> why, protocol |-> protocol, code |-> c, final |-> final]
  BY DEF Result
<1>2. final \in BOOLEAN /\ c \in {"none", "zero", "nonzero"}
  OBVIOUS
<1> HIDE DEF final, c
<1>3. /\ r.said = "result" /\ r.phase = phase /\ r.transport = transport
      /\ r.writer = writer /\ r.failure = why /\ r.protocol = protocol
      /\ r.code = c /\ r.final = final
  BY <1>1
<1>4. r \in Reports
  BY <1>1, <1>2 DEF Reports
<1>5. r # Nothing /\ r # Raised
  BY <1>3, SaidApart
<1> QED
  BY <1>3, <1>4, <1>5 DEF final, c

LEMMA AnswerAtStart ==
  ASSUME IInv, pc = "start", NEW transport \in Failures, NEW why \in Codes,
         Returned(transport, "stopped", why), shown' = shown, output' = "none"
  PROVE  /\ pc' = "over" /\ stage' = stage
         /\ report' \in Reports /\ report' # Nothing /\ report' # Raised
         /\ report'.said = "result" /\ report'.transport = transport
         /\ report'.writer = "stopped" /\ Accepted'
<1>1. transport # "completed" /\ why # "none" /\ code \in {"none", "zero", "nonzero"}
      /\ stage \in {"probe", "main"} /\ (stage = "probe" => ~shown)
  BY DEF Failures, Codes, IInv, GroupType, LoopType, Flow
<1>2. CASE stage = "probe"
  <2>1. /\ report' = Result("preflight", transport, "stopped", why, "not_started")
        /\ pc' = "over" /\ stage' = stage
    BY <1>1, <1>2 DEF Returned, Over
  <2>2. /\ report'.said = "result" /\ report'.phase = "preflight"
        /\ report'.transport = transport /\ report'.writer = "stopped"
        /\ report'.failure = why /\ report'.protocol = "not_started" /\ ~report'.final
        /\ report' \in Reports /\ report' # Nothing /\ report' # Raised
    BY <1>1, <2>1, ResultFields
  <2> QED
    BY <1>1, <1>2, <2>1, <2>2 DEF Accepted
<1>3. CASE stage = "main"
  <2>1. /\ report' = Result("invocation", transport, "stopped", why, "incomplete")
        /\ pc' = "over" /\ stage' = stage
    BY <1>1, <1>3 DEF Returned, Over, Protocol
  <2>2. /\ report'.said = "result" /\ report'.phase = "invocation"
        /\ report'.transport = transport /\ report'.writer = "stopped"
        /\ report'.failure = why /\ report'.protocol = "incomplete" /\ ~report'.final
        /\ report' \in Reports /\ report' # Nothing /\ report' # Raised
    BY <1>1, <2>1, ResultFields
  <2> QED
    BY <1>1, <1>3, <2>1, <2>2 DEF Accepted
<1> QED
  BY <1>1, <1>2, <1>3

\* What the end of the loop reports: completed only after a natural end without a
\* failure, and stopped only after a natural end.
LEMMA AnswerAtClose ==
  ASSUME IInv, pc = "close", Natural \/ Spent, Close
  PROVE  \/ /\ stage = "probe" /\ stage' = "main" /\ pc' = "start" /\ report' = report
            /\ ~Members
         \/ /\ pc' = "over" /\ stage' = stage
            /\ report' \in Reports /\ report' # Nothing /\ report' # Raised
            /\ report'.said = "result" /\ Accepted'
            /\ report'.transport \in Failures \cup {"completed"}
            /\ report'.writer \in {"stopped", "may_live"}
            /\ report'.writer = "stopped" => ~Members
            /\ report'.transport = "completed" =>
                 /\ report'.writer = "stopped" /\ ~Members /\ ~told
                 /\ stdin = "closed" /\ eof /\ code = "zero" /\ output' = "good"
<1> DEFINE transport == IF reason' = "none" THEN "completed" ELSE reason'
           writer == IF Started("cleanup") THEN "may_live" ELSE "stopped"
<1>1. Finish /\ Fails(Decided) /\ Returned(transport, writer, failure')
      /\ UNCHANGED <<osVars, reading, stdin, eof, tried, told, shown>>
  BY DEF Close
<1>2. /\ reason \in Failures \cup {"none"} /\ failure \in Codes \cup {"none"}
      /\ (reason = "none" <=> failure = "none")
      /\ code \in {"none", "zero", "nonzero"} /\ stage \in {"probe", "main"}
      /\ (stage = "probe" => ~shown) /\ (stage = "main" => shown)
      /\ (reason = "none" => ~Started("cleanup") /\ ~told /\ stdin # "broken")
  BY DEF IInv, GroupType, LoopType, Flow, Why, Loop
<1>3. Decided \in SUBSET (Failures \X Codes)
      /\ (Decided = {} => code = "zero" /\ output' = "good")
  <2>1. /\ <<"execution", "nonzero_exit">> \in Failures \X Codes
        /\ <<"execution", "version_mismatch">> \in Failures \X Codes
        /\ <<"protocol", "events">> \in Failures \X Codes
    BY DEF Failures, Codes
  <2> QED
    BY <2>1 DEF Decided
<1>4. /\ reason' \in Failures \cup {"none"} /\ failure' \in Codes \cup {"none"}
      /\ (reason' = "none" <=> failure' = "none")
      /\ (reason # "none" => reason' # "none") /\ (Decided # {} => reason' # "none")
  BY <1>1, <1>2, <1>3, FailsKeeps
<1>5. /\ transport \in Failures \cup {"completed"} /\ writer \in {"stopped", "may_live"}
      /\ (transport = "completed" <=> reason' = "none")
  BY <1>4 DEF Failures
<1>6. writer = "stopped" => Natural /\ ~Members /\ Exited
  BY GoneHasNoMembers DEF Spent, Natural
<1>7. transport = "completed" =>
        /\ writer = "stopped" /\ ~told /\ failure' = "none"
        /\ stdin = "closed" /\ eof /\ code = "zero" /\ output' = "good"
  <2>1. SUFFICES ASSUME transport = "completed"
                 PROVE  /\ writer = "stopped" /\ ~told /\ failure' = "none"
                        /\ stdin = "closed" /\ eof /\ code = "zero" /\ output' = "good"
    OBVIOUS
  <2>2. reason = "none" /\ Decided = {} /\ failure' = "none"
    BY <1>4, <1>5, <2>1
  <2>3. ~Started("cleanup") /\ ~told /\ stdin # "broken"
    BY <1>2, <2>2
  <2>4. Natural
    BY <1>6, <2>3
  <2> QED
    BY <1>3, <2>2, <2>3, <2>4 DEF Natural, Closed
<1> HIDE DEF transport, writer
<1>8. CASE stage = "probe"
  <2>1. CASE transport = "completed" /\ writer = "stopped"
    BY <1>1, <1>6, <1>8, <2>1 DEF Returned
  <2>2. CASE ~(transport = "completed" /\ writer = "stopped")
    <3> DEFINE t == IF transport = "completed" THEN "execution" ELSE transport
               w == IF failure' = "none" THEN "cleanup" ELSE failure'
    <3>1. /\ report' = Result("preflight", t, writer, w, "not_started")
          /\ pc' = "over" /\ stage' = stage
      BY <1>1, <1>8, <2>2 DEF Returned, Over
    <3>2. t \in Failures /\ t # "completed" /\ w \in Codes /\ w # "none"
      BY <1>4, <1>5 DEF Failures, Codes
    <3> HIDE DEF t, w
    <3>3. /\ report'.said = "result" /\ report'.phase = "preflight"
          /\ report'.transport = t /\ report'.writer = writer
          /\ report'.failure = w /\ report'.protocol = "not_started" /\ ~report'.final
          /\ report' \in Reports /\ report' # Nothing /\ report' # Raised
      BY <1>2, <1>5, <3>1, <3>2, ResultFields
    <3>4. Accepted'
      BY <1>1, <1>2, <1>8, <3>2, <3>3 DEF Accepted
    <3> QED
      BY <1>5, <1>6, <3>1, <3>2, <3>3, <3>4
  <2> QED BY <2>1, <2>2
<1>9. CASE stage = "main"
  <2> DEFINE p == Protocol(transport)
  <2>1. /\ report' = Result("invocation", transport, writer, failure', p)
        /\ pc' = "over" /\ stage' = stage
    BY <1>1, <1>9 DEF Returned, Over
  <2>2. p \in {"settled", "invalid", "incomplete"} /\ p # "not_started"
    BY DEF Protocol
  <2>3. transport = "completed" => p = "settled"
    BY <1>7 DEF Protocol
  <2> HIDE DEF p
  <2>4. /\ report'.said = "result" /\ report'.phase = "invocation"
        /\ report'.transport = transport /\ report'.writer = writer
        /\ report'.failure = failure' /\ report'.protocol = p
        /\ (Exited => report'.code = code)
        /\ (report'.final <=> transport = "completed")
        /\ report' \in Reports /\ report' # Nothing /\ report' # Raised
    BY <1>2, <1>4, <1>5, <2>1, <2>2, ResultFields
  <2>5. transport # "completed" => failure' # "none"
    BY <1>4, <1>5
  <2>6. Accepted'
    BY <1>1, <1>2, <1>6, <1>7, <1>9, <2>2, <2>3, <2>4, <2>5 DEF Accepted
  <2> QED
    BY <1>5, <1>6, <1>7, <2>1, <2>4, <2>6
<1> QED
  BY <1>2, <1>8, <1>9

-----------------------------------------------------------------------------
(* The steps *)

\* A step of the loop that gives no answer.
LEMMA GoesOn ==
  ASSUME IInv, pc # "over", report' = report, pc' # "over",
         GroupType', LoopType', Why',
         pc' = "start" => ~Members' /\ ~told', pc' = "started" => ~told',
         stage' = "probe" => ~shown', stage' = "main" /\ pc' \in Loop => shown'
  PROVE  IInv'
<1>1. report' = Nothing
  BY DEF IInv, Flow
<1>2. CompletedIsWhole' /\ Accepted' /\ RaisedIsKilled'
  BY <1>1, SaidApart DEF CompletedIsWhole, Accepted, RaisedIsKilled
<1>3. Flow'
  BY <1>1 DEF Flow
<1> QED
  BY <1>1, <1>2, <1>3 DEF IInv

LEMMA AroundStep == IInv /\ Around => IInv'
<1> SUFFICES ASSUME IInv, Around PROVE IInv'
  OBVIOUS
<1>1. /\ GroupType' /\ (~Members => ~Members' /\ code' = code) /\ killed' = killed
      /\ (Started("cleanup")' <=> Started("cleanup"))
  BY SurroundingsKeep DEF IInv, Around, Clocks
<1>2. UNCHANGED <<pc, loopVars, told, shown, report>>
  BY DEF Around
<1>3. LoopType'
  BY <1>2 DEF IInv, LoopType, loopVars
<1>4. Flow' /\ Why'
  BY <1>1, <1>2 DEF IInv, Flow, Why, loopVars
<1>5. CompletedIsWhole' /\ Accepted' /\ RaisedIsKilled'
  BY <1>1, <1>2 DEF IInv, CompletedIsWhole, Accepted, RaisedIsKilled, loopVars
<1> QED
  BY <1>1, <1>2, <1>3, <1>4, <1>5 DEF IInv

LEMMA NoReadingType == NoReading \in [late : BOOLEAN, cleanup : Unset .. Limit]
  BY NativeGroupAssumption, SMT DEF NoReading, Unset

LEMMA StartStep == IInv /\ Start => IInv'
<1> SUFFICES ASSUME IInv, Start PROVE IInv'
  OBVIOUS
<1>1. /\ pc = "start" /\ ~Members /\ ~told
      /\ reading' = NoReading /\ reason' = "none" /\ failure' = "none" /\ eof' = FALSE
      /\ output' = "none" /\ tried' = FALSE /\ told' = (told \/ wanted)
      /\ wanted' = wanted /\ late' = late /\ shown' = shown
  BY DEF Start, IInv, Flow
<1>2. told' \in BOOLEAN /\ shown' \in BOOLEAN /\ wanted \in BOOLEAN
  BY <1>1 DEF IInv, LoopType, GroupType
<1>3. ASSUME NEW transport \in Failures, NEW why \in Codes,
             Returned(transport, "stopped", why), UNCHANGED <<groupVars, age, stdin>>
      PROVE  IInv'
  <2>1. /\ pc' = "over" /\ stage' = stage
        /\ report' \in Reports /\ report' # Nothing /\ report' # Raised
        /\ report'.transport = transport /\ Accepted'
    BY <1>1, <1>3, AnswerAtStart
  <2>2. GroupType'
    BY <1>1, <1>3 DEF IInv, GroupType, groupVars
  <2>3. LoopType'
    BY <1>1, <1>2, <1>3, <2>1, NoReadingType DEF IInv, LoopType
  <2>4. Flow' /\ Why'
    BY <1>1, <2>1 DEF IInv, Flow, Why, Loop
  <2>5. CompletedIsWhole' /\ RaisedIsKilled'
    BY <1>3, <2>1 DEF CompletedIsWhole, RaisedIsKilled, Failures
  <2> QED
    BY <2>1, <2>2, <2>3, <2>4, <2>5 DEF IInv
<1>4. CASE /\ ~wanted /\ ~late /\ Spawned
           /\ stdin' = (IF stage = "probe" THEN "sent" ELSE "open")
           /\ pc' = "started" /\ UNCHANGED <<stage, report>>
  <2>1. GroupType' /\ \A c \in Clocks : ~Started(c)'
    BY <1>1, <1>4, SpawnedType DEF IInv, callerVars
  <2>2. told' = FALSE /\ stdin' \in {"sent", "open"}
    BY <1>1, <1>2, <1>4 DEF IInv, LoopType
  <2>3. LoopType'
    BY <1>1, <1>2, <1>4, <2>2, NoReadingType DEF IInv, LoopType
  <2>4. Why'
    BY <1>1, <2>1, <2>2 DEF Why, Clocks
  <2> QED
    BY <1>1, <1>4, <2>1, <2>2, <2>3, <2>4, GoesOn DEF IInv, Flow, Loop
<1> QED
  BY <1>3, <1>4 DEF Start, Failures, Codes

LEMMA SelectorFailsStep == IInv /\ SelectorFails => IInv'
<1> SUFFICES ASSUME IInv, SelectorFails PROVE IInv'
  OBVIOUS
<1>1. /\ pc = "started" /\ pc' = "over" /\ report' = Orphaned
      /\ UNCHANGED <<osVars, loopVars, told, shown>>
  BY DEF SelectorFails, Over
<1>2. GroupType'
  BY <1>1 DEF IInv, GroupType, osVars, groupVars, callerVars
<1>3. LoopType' /\ Flow' /\ Why'
  BY <1>1, SaidApart DEF IInv, LoopType, Flow, Why, Loop, osVars, loopVars, Started
<1>4. CompletedIsWhole' /\ Accepted' /\ RaisedIsKilled'
  BY <1>1, SaidApart DEF CompletedIsWhole, Accepted, RaisedIsKilled
<1> QED
  BY <1>1, <1>2, <1>3, <1>4 DEF IInv

LEMMA CallStartedStep == IInv /\ CallStarted => IInv'
<1> SUFFICES ASSUME IInv, CallStarted PROVE IInv'
  OBVIOUS
<1>1. /\ pc = "started" /\ pc' \in {"clock", "raise"}
      /\ UNCHANGED <<osVars, loopVars, told, report>>
      /\ (pc' = "clock" => shown' = (shown \/ stage = "main"))
      /\ (pc' = "raise" => shown' = shown)
  BY DEF CallStarted
<1>2. shown' \in BOOLEAN /\ (stage = "probe" => ~shown') /\ (stage = "main" /\ pc' = "clock" => shown')
  <2>1. CASE pc' = "clock"
    BY <1>1, <2>1 DEF IInv, LoopType, Flow
  <2>2. CASE pc' = "raise" /\ shown' = shown
    BY <2>2 DEF IInv, LoopType, Flow
  <2> QED
    BY <1>1, <2>1, <2>2
<1>3. GroupType'
  BY <1>1 DEF IInv, GroupType, osVars, groupVars, callerVars
<1>4. LoopType'
  BY <1>1, <1>2 DEF IInv, LoopType, loopVars, Loop
<1>5. Why'
  BY <1>1 DEF IInv, Why, osVars, loopVars, Loop, Started
<1> QED
  BY <1>1, <1>2, <1>3, <1>4, <1>5, GoesOn DEF Loop, loopVars

LEMMA ReadClockStep == IInv /\ ReadClock => IInv'
<1> SUFFICES ASSUME IInv, ReadClock PROVE IInv'
  OBVIOUS
<1>1. /\ pc = "clock" /\ pc' = "control" /\ age' = Stamp("now", 0)
      /\ reading' = [late |-> late, cleanup |-> Since("cleanup")]
      /\ UNCHANGED <<groupVars, callerVars, stage, reason, failure, stdin, eof, output, tried,
                     told, shown, report>>
  BY DEF ReadClock
<1>2. /\ age' \in [Clocks -> Unset .. Limit]
      /\ age[("cleanup")] \in Unset .. Limit /\ age'["cleanup"] = age["cleanup"]
  BY <1>1, NativeGroupAssumption, SMT DEF IInv, GroupType, Stamp, Clocks, Unset
<1>3. GroupType'
  BY <1>1, <1>2 DEF IInv, GroupType, groupVars, callerVars
<1>4. reading' \in [late : BOOLEAN, cleanup : Unset .. Limit]
  BY <1>1, <1>2 DEF IInv, GroupType, Since
<1>5. LoopType'
  BY <1>1, <1>4 DEF IInv, LoopType, Loop
<1>6. Why'
  BY <1>1, <1>2 DEF IInv, Why, Loop, Started
<1> QED
  BY <1>1, <1>3, <1>5, <1>6, GoesOn DEF IInv, Flow, Loop

\* The signals of a round change only the cleanup's clock, and only once there is a reason.
LEMMA SignalKeeps ==
  ASSUME IInv, Signal, UNCHANGED <<root, code, kids, held, callerVars>>
  PROVE  /\ GroupType' /\ Members' = Members
         /\ reading' = NoReading /\ tried' \in BOOLEAN
         /\ reason' = "none" /\ ~Started("cleanup") => ~Started("cleanup")'
<1>1. /\ age \in [Clocks -> Unset .. Limit]
      /\ age["now"] \in Unset .. Limit /\ age["cleanup"] \in Unset .. Limit
      /\ Unset \in Unset .. Limit
  BY NativeGroupAssumption DEF IInv, GroupType, Clocks, Unset
<1>2. age' \in [Clocks -> Unset .. Limit]
  BY <1>1 DEF Signal, Since
<1>3. reason' = "none" => age'["cleanup"] = age["cleanup"]
  BY <1>1 DEF Signal, Clocks
<1>4. killed' \in BOOLEAN
  BY KillType, GroupTypeParts DEF IInv, Signal, GroupType
<1>5. tried' \in BOOLEAN /\ reading' = NoReading
  BY DEF Signal, IInv, LoopType
<1> QED
  BY <1>2, <1>3, <1>4, <1>5 DEF IInv, GroupType, callerVars, Members, Started

LEMMA ControlStep == IInv /\ Control => IInv'
<1> SUFFICES ASSUME IInv, Control PROVE IInv'
  OBVIOUS
<1>1. /\ pc = "control" /\ pc' = "drain" /\ told' = (told \/ wanted) /\ Signal
      /\ UNCHANGED <<root, code, kids, held, callerVars, stage, stdin, eof, output,
                     shown, report>>
  BY DEF Control
<1>2. /\ reason' \in Failures \cup {"none"} /\ failure' \in Codes \cup {"none"}
      /\ (reason' = "none" <=> failure' = "none")
      /\ (reason # "none" => reason' # "none") /\ (wanted => reason' # "none")
  <2>1. \E pairs \in SUBSET (Failures \X Codes) : Fails(pairs) /\ (wanted => pairs # {})
    <3>1. /\ <<"cancelled", "cancelled">> \in Failures \X Codes
          /\ <<"timeout", "timeout">> \in Failures \X Codes
          /\ <<"execution", "version_timeout">> \in Failures \X Codes
      BY DEF Failures, Codes
    <3>2. CASE wanted /\ Fails({<<"cancelled", "cancelled">>})
      BY <3>1, <3>2
    <3>3. CASE ~wanted /\ Fails(IF reading.late THEN {<<"timeout", "timeout">>} ELSE {})
      BY <3>1, <3>3
    <3>4. CASE ~wanted /\ Fails({<<"execution", "version_timeout">>})
      BY <3>1, <3>4
    <3> QED BY <3>2, <3>3, <3>4 DEF Control
  <2> QED
    BY <2>1, FailsKeeps DEF IInv, LoopType, Why
<1>3. /\ GroupType' /\ Members' = Members /\ reading' = NoReading /\ tried' \in BOOLEAN
      /\ (reason' = "none" /\ ~Started("cleanup") => ~Started("cleanup")')
  BY <1>1, SignalKeeps
<1>4. told' \in BOOLEAN /\ (reason' = "none" /\ ~told => ~told')
  BY <1>1, <1>2 DEF IInv, LoopType, GroupType
<1>5. LoopType'
  BY <1>1, <1>2, <1>3, <1>4, NoReadingType DEF IInv, LoopType, Loop
<1>6. Why'
  BY <1>1, <1>2, <1>3, <1>4 DEF IInv, Why, Loop
<1> QED
  BY <1>1, <1>3, <1>5, <1>6, GoesOn DEF IInv, Flow, Loop

LEMMA PollRaisesStep == IInv /\ PollRaises => IInv'
<1> SUFFICES ASSUME IInv, PollRaises PROVE IInv'
  OBVIOUS
<1>1. /\ pc = "control" /\ pc' = "raise" /\ age' = [c \in Clocks |-> Unset]
      /\ reading' = NoReading /\ reason' = "none" /\ failure' = "none" /\ stdin' = "closed"
      /\ eof' = FALSE /\ output' = "none" /\ tried' = FALSE
      /\ UNCHANGED <<groupVars, callerVars, stage, told, shown, report>>
  BY DEF PollRaises
<1>2. GroupType'
  <2>1. AgeType'
    BY <1>1, NativeGroupAssumption, SMT DEF AgeType, Unset
  <2> QED
    BY <1>1, <2>1 DEF IInv, GroupType, AgeType, groupVars, callerVars
<1>3. LoopType' /\ Why'
  BY <1>1, NoReadingType DEF IInv, LoopType, Why, Loop
<1> QED
  BY <1>1, <1>2, <1>3, GoesOn DEF IInv, Flow, Loop

LEMMA DrainStep == IInv /\ Drain => IInv'
<1> SUFFICES ASSUME IInv, Drain PROVE IInv'
  OBVIOUS
<1>1. /\ pc = "drain" /\ pc' = "look" /\ eof' \in {eof, eof \/ ~held}
      /\ UNCHANGED <<osVars, stage, reading, tried, told, shown, report>>
  BY DEF Drain
<1> DEFINE pipes == CASE stdin = "open" -> {"open", "broken"} \cup
                                      (IF reason = "none" THEN {"sent"} ELSE {})
                      [] stdin = "sent" -> {"sent", "closed"}
                      [] OTHER -> {stdin}
           reads == IF eof THEN {output} ELSE Reads
<1>a. pipes \subseteq {"open", "sent", "closed", "broken"} /\ reads \subseteq {"none", "bad", "good"}
  <2>1. pipes \subseteq {"open", "sent", "closed", "broken"}
    BY DEF IInv, LoopType
  <2>2. reads \subseteq {"none", "bad", "good"}
    BY DEF IInv, LoopType, Reads
  <2> QED BY <2>1, <2>2
<1>b. PICK s \in pipes, full \in (IF eof THEN {FALSE} ELSE BOOLEAN), o \in reads :
        /\ stdin' = s /\ output' = o
        /\ Fails({<<"execution", "stdin">> : x \in {s} \ {"open", "sent", "closed", stdin}}
                 \cup (IF full THEN {<<IF stage = "probe" THEN "execution" ELSE "protocol",
                                      "limit">>} ELSE {})
                 \cup {<<"protocol", "events">> : x \in {o} \ {"none", "good", output}})
  BY DEF Drain
<1>2. s \in {"open", "sent", "closed", "broken"} /\ o \in {"none", "bad", "good"}
      /\ stdin' = s /\ output' = o
  BY <1>a, <1>b
<1> HIDE DEF pipes, reads
<1> DEFINE broken == {<<"execution", "stdin">> : x \in {s} \ {"open", "sent", "closed", stdin}}
           over == IF full THEN {<<IF stage = "probe" THEN "execution" ELSE "protocol", "limit">>}
                           ELSE {}
           bad == {<<"protocol", "events">> : x \in {o} \ {"none", "good", output}}
<1>3. broken \cup over \cup bad \in SUBSET (Failures \X Codes)
  <2>1. /\ <<"execution", "stdin">> \in Failures \X Codes
        /\ <<"execution", "limit">> \in Failures \X Codes
        /\ <<"protocol", "limit">> \in Failures \X Codes
        /\ <<"protocol", "events">> \in Failures \X Codes
    BY DEF Failures, Codes
  <2> QED
    BY <2>1
<1>4. s = "broken" /\ stdin # "broken" => broken # {}
  OBVIOUS
<1> HIDE DEF broken, over, bad
<1>5. Fails(broken \cup over \cup bad)
  BY <1>b DEF broken, over, bad
<1>6. /\ reason' \in Failures \cup {"none"} /\ failure' \in Codes \cup {"none"}
      /\ (reason' = "none" <=> failure' = "none")
      /\ (reason # "none" => reason' # "none")
      /\ (broken \cup over \cup bad # {} => reason' # "none")
  BY <1>3, <1>5, FailsKeeps DEF IInv, LoopType, Why
<1>7. reason' = "none" => reason = "none" /\ (s = "broken" => stdin = "broken")
  BY <1>4, <1>6
<1>8. GroupType' /\ (Started("cleanup")' <=> Started("cleanup"))
  BY <1>1 DEF IInv, GroupType, osVars, groupVars, callerVars, Started
<1>9. eof' \in BOOLEAN
  BY <1>1 DEF IInv, LoopType, GroupType
<1>10. LoopType'
  BY <1>1, <1>2, <1>6, <1>9 DEF IInv, LoopType, Loop
<1>11. Why'
  BY <1>1, <1>2, <1>6, <1>7, <1>8 DEF IInv, Why, Loop
<1> QED
  BY <1>1, <1>8, <1>10, <1>11, GoesOn DEF IInv, Flow, Loop

LEMMA LookStep == IInv /\ Look => IInv'
<1> SUFFICES ASSUME IInv, Look PROVE IInv'
  OBVIOUS
<1>1. /\ pc = "look" /\ pc' = "close" /\ Reaped
      /\ Fails(IF root' = "reaped" /\ stdin \in {"open", "broken"}
                 THEN {<<"execution", "stdin">>} ELSE {})
      /\ UNCHANGED <<code, kids, held, killed, callerVars, age, stage, reading, stdin, eof,
                     output, tried, told, shown, report>>
  BY DEF Look
<1>2. GroupType'
  BY <1>1, ReapedKeeps, GroupTypeParts DEF IInv, GroupType, RootType, callerVars
<1>3. <<"execution", "stdin">> \in Failures \X Codes
  BY DEF Failures, Codes
<1>4. /\ reason' \in Failures \cup {"none"} /\ failure' \in Codes \cup {"none"}
      /\ (reason' = "none" <=> failure' = "none") /\ (reason # "none" => reason' # "none")
  BY <1>1, <1>3, FailsKeeps DEF IInv, LoopType, Why
<1>5. LoopType'
  BY <1>1, <1>4 DEF IInv, LoopType, Loop
<1>6. Why'
  BY <1>1, <1>4 DEF IInv, Why, Loop, Started
<1> QED
  BY <1>1, <1>2, <1>5, <1>6, GoesOn DEF IInv, Flow, Loop

LEMMA CloseStep == IInv /\ Close => IInv'
<1> SUFFICES ASSUME IInv, Close PROVE IInv'
  OBVIOUS
<1>1. /\ pc = "close" /\ UNCHANGED <<osVars, reading, stdin, eof, tried, told, shown>>
      /\ output \in {"none", "bad", "good"} /\ output' \in {"none", "bad", "good"}
  BY FinishKeeps DEF Close, IInv, LoopType
<1>2. GroupType' /\ (Members' <=> Members) /\ (Started("cleanup")' <=> Started("cleanup"))
  BY <1>1 DEF IInv, GroupType, osVars, groupVars, callerVars, Members, Started
<1>3. CASE ~(Natural \/ Spent)
  <2>1. pc' = "clock" /\ UNCHANGED <<stage, reason, failure, output, report>>
    BY <1>3 DEF Close
  <2>2. LoopType' /\ Why'
    BY <1>1, <1>2, <2>1 DEF IInv, LoopType, Why, Loop
  <2> QED
    BY <1>1, <1>2, <2>1, <2>2, GoesOn DEF IInv, Flow, Loop
<1>4. CASE Natural \/ Spent
  <2>1. /\ reason' \in Failures \cup {"none"} /\ failure' \in Codes \cup {"none"}
        /\ (reason' = "none" <=> failure' = "none") /\ (reason # "none" => reason' # "none")
    <3>1. /\ <<"execution", "nonzero_exit">> \in Failures \X Codes
          /\ <<"execution", "version_mismatch">> \in Failures \X Codes
          /\ <<"protocol", "events">> \in Failures \X Codes
      BY DEF Failures, Codes
    <3>2. Decided \in SUBSET (Failures \X Codes) /\ Fails(Decided)
      BY <1>4, <3>1 DEF Close, Decided
    <3> QED
      BY <3>2, FailsKeeps DEF IInv, LoopType, Why
  <2>2. CASE /\ stage = "probe" /\ stage' = "main" /\ pc' = "start" /\ report' = report
             /\ ~Members
    <3>1. ~told
      BY <1>4, <2>2, <2>1
      DEF Close, Returned, IInv, Why, Loop, Over, Failures
    <3>2. LoopType' /\ Why'
      BY <1>1, <1>2, <2>1, <2>2 DEF IInv, LoopType, Why, Loop
    <3> QED
      BY <1>1, <1>2, <2>2, <3>1, <3>2, GoesOn DEF Loop
  <2>3. CASE /\ pc' = "over" /\ stage' = stage
             /\ report' \in Reports /\ report' # Nothing /\ report' # Raised
             /\ report'.said = "result" /\ Accepted'
             /\ report'.transport \in Failures \cup {"completed"}
             /\ report'.writer \in {"stopped", "may_live"}
             /\ report'.writer = "stopped" => ~Members
             /\ report'.transport = "completed" =>
                  /\ report'.writer = "stopped" /\ ~Members /\ ~told
                  /\ stdin = "closed" /\ eof /\ code = "zero" /\ output' = "good"
    <3>1. LoopType'
      BY <1>1, <2>1, <2>3 DEF IInv, LoopType
    <3>2. Flow' /\ Why'
      BY <1>1, <1>2, <2>1, <2>3 DEF IInv, Flow, Why, Loop
    <3>3. code' = code
      BY <1>1 DEF osVars, groupVars
    <3>4. CompletedIsWhole' /\ RaisedIsKilled'
      BY <1>1, <1>2, <2>3, <3>3 DEF CompletedIsWhole, RaisedIsKilled
    <3> QED
      BY <1>2, <2>3, <3>1, <3>2, <3>4 DEF IInv
  <2> QED
    BY <1>1, <1>4, <2>2, <2>3, AnswerAtClose
<1> QED
  BY <1>3, <1>4

LEMMA CleanUpStep == IInv /\ CleanUp => IInv'
<1> SUFFICES ASSUME IInv, CleanUp PROVE IInv'
  OBVIOUS
<1>1. /\ pc = "raise" /\ pc' = "wait"
      /\ age' = [c \in Clocks |-> IF c = "term" THEN 0 ELSE Unset]
      /\ UNCHANGED <<groupVars, callerVars, loopVars, told, shown, report>>
  BY DEF CleanUp
<1>2. 0 \in Unset .. Limit /\ Unset \in Unset .. Limit
  BY NativeGroupAssumption, SMT DEF Unset
<1>3. GroupType' /\ LoopType' /\ Why'
  BY <1>1, <1>2 DEF IInv, GroupType, LoopType, Why, Loop, groupVars, callerVars, loopVars
<1> QED
  BY <1>1, <1>3, GoesOn DEF IInv, Flow, Loop, loopVars

LEMMA WaitChildStep == IInv /\ WaitChild => IInv'
<1> SUFFICES ASSUME IInv, WaitChild PROVE IInv'
  OBVIOUS
<1>1. /\ pc = "wait" /\ pc' = "over" /\ report' = Raised /\ Reaped
      /\ (Members => Kill) /\ (~Members => killed' = killed)
      /\ UNCHANGED <<code, kids, held, callerVars, age, loopVars, told, shown>>
  BY DEF WaitChild, Over
<1>2. RootType' /\ Members' = Members /\ killed' \in BOOLEAN /\ (Members => killed')
  BY <1>1, ReapedKeeps, KillType, GroupTypeParts DEF IInv, FlagType
<1>3. GroupType'
  BY <1>1, <1>2 DEF IInv, GroupType, RootType, callerVars
<1>4. LoopType' /\ Flow' /\ Why'
  BY <1>1, SaidApart DEF IInv, LoopType, Flow, Why, Loop, loopVars
<1>5. CompletedIsWhole' /\ Accepted' /\ RaisedIsKilled'
  BY <1>1, <1>2, SaidApart DEF CompletedIsWhole, Accepted, RaisedIsKilled
<1> QED
  BY <1>1, <1>3, <1>4, <1>5 DEF IInv

LEMMA StepInv == IInv /\ [Next]_vars => IInv'
<1>1. CASE UNCHANGED vars
  BY <1>1
  DEF IInv, GroupType, LoopType, Flow, Why, CompletedIsWhole, Accepted, RaisedIsKilled,
      Members, Started, vars, osVars, groupVars, callerVars, loopVars
<1> QED
  BY <1>1, AroundStep, StartStep, SelectorFailsStep, CallStartedStep, ReadClockStep,
     ControlStep, PollRaisesStep, DrainStep, LookStep, CloseStep, CleanUpStep, WaitChildStep DEF Next, Adapter

-----------------------------------------------------------------------------
\* The inductive invariant.
THEOREM Invariance == Spec => []IInv
<1>1. Init => IInv
  BY InitInv
<1>2. IInv /\ [Next]_vars => IInv'
  BY StepInv
<1> QED
  BY <1>1, <1>2, PTL DEF Spec

\* The adapter's variables, and those of its group, stay in their types.
THEOREM TypeCorrect == Spec => []TypeOK
<1>1. IInv => TypeOK
  BY TypeOKParts DEF IInv
<1> QED
  BY <1>1, Invariance, PTL

\* Whatever the group, Core, the clock and the callbacks do between any two steps: a
\* completed invocation took the whole prompt, exited with zero, was read to its end,
\* left no process of its group, and was never told to cancel.
THEOREM CompletionIsWhole == Spec => []CompletedIsWhole
<1>1. IInv => CompletedIsWhole
  BY DEF IInv
<1> QED
  BY <1>1, Invariance, PTL

\* The adapter's validator accepts the evidence of every result invoke reports.
THEOREM EvidenceIsAccepted == Spec => []Accepted
<1>1. IInv => Accepted
  BY DEF IInv
<1> QED
  BY <1>1, Invariance, PTL

\* An exception of a callback leaves no process of the group that was not sent KILL.
THEOREM ExceptionKills == Spec => []RaisedIsKilled
<1>1. IInv => RaisedIsKilled
  BY DEF IInv
<1> QED
  BY <1>1, Invariance, PTL

-----------------------------------------------------------------------------
(* The refinement *)

\* What NativeContract calls the answer.
Said ==
  IF report.said = "result"
    THEN [transport |-> report.transport, writer |-> report.writer] ELSE report

LEMMA SaidNothing == report = Nothing => Said = Nothing
  BY SaidApart DEF Said

LEMMA InitRefines == Init => Contract!Init
<1> SUFFICES ASSUME Init PROVE Contract!Init
  OBVIOUS
<1>1. ~Members /\ report = Nothing
  BY GroupInitType DEF Init
<1> QED
  BY <1>1, SaidNothing DEF Contract!Init, Said

\* A step that does not answer starts a group, ends one, or leaves both as they are.
LEMMA SilentRefines ==
  ASSUME IInv, report' = report, Members' => Members \/ report = Nothing
  PROVE  [Contract!Next]_<<Members, Said>>
<1>1. Said' = Said
  BY DEF Said
<1>2. CASE Members' <=> Members
  BY <1>1, <1>2
<1>3. CASE Members /\ ~Members'
  <2>1. Members' = FALSE
    BY <1>3 DEF Members
  <2>2. Contract!End
    BY <1>1, <1>3, <2>1 DEF Contract!End, Said
  <2> QED
    BY <2>2 DEF Contract!Next
<1>4. CASE ~Members /\ Members'
  BY <1>1, <1>4, SaidNothing DEF Contract!Next, Contract!Start, Said
<1> QED
  BY <1>2, <1>3, <1>4

\* An answer is one of those allowed, and calls no writer stopped beside a member.
LEMMA AnswerRefines ==
  ASSUME report = Nothing, Members' <=> Members, report'.said = "result",
         report'.transport \in Failures \cup {"completed"},
         report'.writer \in {"stopped", "may_live"},
         report'.transport = "completed" => report'.writer = "stopped",
         report'.writer = "stopped" => ~Members
  PROVE  [Contract!Next]_<<Members, Said>>
<1> DEFINE a == [transport |-> report'.transport, writer |-> report'.writer]
           Answers == [transport : {"completed"}, writer : {"stopped"}]
                      \cup [transport : Failures, writer : {"stopped", "may_live"}]
<1>1. Said = Nothing /\ Said' = a
  BY SaidNothing DEF Said
<1>2. a \in Answers
  BY DEF Failures
<1>3. a.writer = "stopped" => ~Members
  OBVIOUS
<1>4. Contract!Answer
  BY <1>1, <1>2, <1>3 DEF Contract!Answer, Said
<1> QED
  BY <1>4 DEF Contract!Next

LEMMA StepRefines == IInv /\ [Next]_vars => [Contract!Next]_<<Members, Said>>
<1> SUFFICES ASSUME IInv, [Next]_vars PROVE [Contract!Next]_<<Members, Said>>
  OBVIOUS
<1>1. CASE UNCHANGED vars
  BY <1>1, SilentRefines DEF vars, osVars, groupVars, Members
<1>2. CASE Around
  BY <1>2, SurroundingsKeep, SilentRefines DEF Around, IInv
<1>3. CASE Start
  <2>1. /\ pc = "start" /\ shown' = shown /\ ~Members /\ report = Nothing
        /\ output' = "none"
    BY <1>3 DEF Start, IInv, Flow
  <2>2. ASSUME NEW transport \in Failures, NEW why \in Codes,
               Returned(transport, "stopped", why), UNCHANGED <<groupVars, age, stdin>>
        PROVE  [Contract!Next]_<<Members, Said>>
    <3>1. /\ report'.said = "result" /\ report'.transport = transport
          /\ report'.writer = "stopped" /\ (Members' <=> Members)
      BY <2>1, <2>2, AnswerAtStart DEF groupVars, Members
    <3> QED
      BY <2>1, <3>1, AnswerRefines
  <2>3. CASE Spawned /\ UNCHANGED report
    BY <2>1, <2>3, SilentRefines
  <2> QED
    BY <1>3, <2>2, <2>3 DEF Start, Failures, Codes
<1>4. CASE CallStarted \/ ReadClock \/ PollRaises \/ Drain \/ CleanUp
  <2>1. UNCHANGED groupVars /\ report' = report
    BY <1>4 DEF CallStarted, ReadClock, PollRaises, Drain, CleanUp, osVars
  <2> QED
    BY <2>1, SilentRefines DEF groupVars, Members
<1>5. CASE Control
  BY <1>5, SilentRefines DEF Control, Members
<1>6. CASE Look
  BY <1>6, ReapedKeeps, SilentRefines DEF Look, IInv, GroupType, RootType
<1>7. CASE Close
  <2>1. Members' <=> Members
    BY <1>7 DEF Close, osVars, groupVars, Members
  <2>2. pc = "close" /\ report = Nothing
    BY <1>7 DEF Close, IInv, Flow
  <2>3. CASE ~(Natural \/ Spent)
    BY <1>7, <2>1, <2>3, SilentRefines DEF Close
  <2>4. CASE Natural \/ Spent
    BY <1>7, <2>1, <2>2, <2>4, AnswerAtClose, SilentRefines, AnswerRefines
  <2> QED BY <2>3, <2>4
<1>8. CASE WaitChild
  <2>1. /\ pc = "wait" /\ report' = Raised /\ (Members' <=> Members)
    BY <1>8, ReapedKeeps DEF WaitChild, Over, IInv, GroupType, RootType
  <2>2. Said = Nothing /\ Said' = Raised
    BY <2>1, SaidApart, SaidNothing DEF IInv, Flow, Said
  <2> QED
    BY <2>1, <2>2 DEF Contract!Next, Contract!Raise, Said
<1>9. CASE SelectorFails
  <2>1. /\ pc = "started" /\ report' = Orphaned /\ (Members' <=> Members)
    BY <1>9 DEF SelectorFails, Over, osVars, groupVars, Members
  <2>2. Said = Nothing /\ Said' = Orphaned
    BY <2>1, SaidApart, SaidNothing DEF IInv, Flow, Said
  <2> QED
    BY <2>1, <2>2 DEF Contract!Next, Contract!Raise, Said
<1> QED
  BY <1>1, <1>2, <1>3, <1>4, <1>5, <1>6, <1>7, <1>8, <1>9 DEF Next, Adapter

\* NativeOpenCode implements NativeContract: one group at a time, one answer, and no
\* writer called stopped while a process of the group lives.
THEOREM ImplementsContract == Spec => ContractSpec
<1>1. Init => Contract!Init
  BY InitRefines
<1>2. IInv /\ [Next]_vars => [Contract!Next]_<<Members, Said>>
  BY StepRefines
<1>3. Spec => Contract!Init /\ [][Contract!Next]_<<Members, Said>>
  BY <1>1, <1>2, Invariance, PTL DEF Spec
<1> QED
  BY <1>3 DEF ContractSpec, Contract!Spec, Said
=============================================================================
