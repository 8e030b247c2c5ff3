---------------------------- MODULE AdapterProofs ----------------------------
(***************************************************************************)
(* The theorems of MCAdapters: its invariants hold of whichever adapter is *)
(* invoked, and each native adapter implements NativeContract, for every   *)
(* Grace and Limit and, but for Pi, with time passing at any step.         *)
(*                                                                         *)
(* Paperclip, Codex and Pi are proved about here, each from an inductive   *)
(* invariant of its own; Claude and OpenCode in modules of their own,      *)
(* whose lemmas are carried over. At most one adapter moves, so the        *)
(* invariant of MCAdapters is that of the adapter invoked.                 *)
(***************************************************************************)
EXTENDS MCAdapters

-----------------------------------------------------------------------------
(* The Paperclip adapter *)

\* There is a child only after the spawn, and none runs after the answer; an answer that
\* came before the spawn came before run().
PaperclipStages ==
  /\ pc \in Paperclip!Awaits => child = "none" /\ ~ran /\ sent = "none"
  /\ pc \in Paperclip!Awaits \cup {"waiting"} <=> answer.from = "none"
  /\ child = "ended" => end # "none"
  /\ pc = "over" => child \in {"none", "ended"}
  /\ answer.from \in {"catch", "before_create"} => ~ran
  /\ answer.from = "adapter" => answer.status = "uncertain"
  /\ answer.from = "none" => answer.status = "none"

PaperclipIInv ==
  /\ Paperclip!TypeOK /\ PaperclipStages
  /\ Paperclip!PassedOnWhole /\ Paperclip!AbortIsHeard

LEMMA PaperclipInitInv == Paperclip!Init => PaperclipIInv
<1> SUFFICES ASSUME Paperclip!Init PROVE PaperclipIInv
  OBVIOUS
<1>1. /\ reported = [status |-> "none", whole |-> FALSE]
      /\ answer = [status |-> "none", from |-> "none"]
  BY DEF Paperclip!Init, Paperclip!NoReport, Paperclip!NoAnswer
<1>2. Paperclip!TypeOK
  <2>1. /\ reported \in [status : Paperclip!Statuses \cup {"none"}, whole : BOOLEAN]
        /\ answer \in [status : Paperclip!Statuses \cup {"none"},
                       from : {"none", "catch", "before_create", "adapter", "helper"}]
    BY <1>1
  <2>2. /\ pc \in Paperclip!Awaits /\ {aborted, overflow, ran} \subseteq BOOLEAN /\ timers = 0
        /\ child = "none" /\ end = "none" /\ printed = "none" /\ sent = "none"
    BY DEF Paperclip!Init, Paperclip!Awaits
  <2>3. timers \in 0..3
    BY <2>2
  <2> QED
    BY <2>1, <2>2, <2>3 DEF Paperclip!TypeOK
<1>3. PaperclipStages /\ Paperclip!PassedOnWhole /\ Paperclip!AbortIsHeard
  BY <1>1 DEF Paperclip!Init, PaperclipStages, Paperclip!PassedOnWhole,
     Paperclip!AbortIsHeard, Paperclip!Awaits, Paperclip!Running
<1> QED
  BY <1>2, <1>3 DEF PaperclipIInv

\* The answers of execute itself.
LEMMA PaperclipAnswerType ==
  ASSUME NEW status \in Paperclip!Statuses,
         NEW from \in {"catch", "before_create", "adapter", "helper"},
         Paperclip!Answered(status, from)
  PROVE  /\ pc' = "over" /\ answer'.status = status /\ answer'.from = from
         /\ answer' \in [status : Paperclip!Statuses \cup {"none"},
                         from : {"none", "catch", "before_create", "adapter", "helper"}]
  BY DEF Paperclip!Answered

LEMMA PaperclipTurnStep ==
  ASSUME PaperclipIInv, NEW from \in Paperclip!Awaits, NEW to \in Paperclip!Awaits,
         Paperclip!Turn(from, to)
  PROVE  PaperclipIInv'
<1>1. pc = from /\ UNCHANGED <<aborted, timers, overflow, Paperclip!process>>
      /\ child = "none" /\ ~ran /\ sent = "none"
  BY DEF Paperclip!Turn, PaperclipIInv, PaperclipStages
<1>2. CASE pc' = to /\ UNCHANGED answer
  BY <1>1, <1>2 DEF PaperclipIInv, Paperclip!TypeOK, PaperclipStages, Paperclip!PassedOnWhole,
     Paperclip!AbortIsHeard, Paperclip!Awaits, Paperclip!Running, Paperclip!process
<1>3. ASSUME NEW s \in {"refused", "cancelled"}, NEW f \in {"catch", "before_create"},
             Paperclip!Answered(s, f)
      PROVE  PaperclipIInv'
  <2>1. /\ pc' = "over" /\ answer'.status = s /\ answer'.from = f
        /\ answer' \in [status : Paperclip!Statuses \cup {"none"},
                        from : {"none", "catch", "before_create", "adapter", "helper"}]
    BY <1>3, PaperclipAnswerType DEF Paperclip!Statuses
  <2> QED
    BY <1>1, <2>1 DEF PaperclipIInv, Paperclip!TypeOK, PaperclipStages,
       Paperclip!PassedOnWhole, Paperclip!AbortIsHeard, Paperclip!Awaits, Paperclip!Running,
       Paperclip!process
<1> QED
  BY <1>2, <1>3 DEF Paperclip!Turn

LEMMA PaperclipSpawnStep == ASSUME PaperclipIInv, Paperclip!Spawn PROVE PaperclipIInv'
<1>1. /\ pc = "writing" /\ UNCHANGED <<aborted, overflow, end, printed, reported, sent, ran>>
      /\ child = "none" /\ ~ran /\ sent = "none"
  BY DEF Paperclip!Spawn, PaperclipIInv, PaperclipStages, Paperclip!Awaits
<1>2. CASE /\ ~aborted /\ pc' = "waiting" /\ timers' = 1 /\ child' \in {"none", "starting"}
           /\ UNCHANGED answer
  BY <1>1, <1>2 DEF PaperclipIInv, Paperclip!TypeOK, PaperclipStages, Paperclip!PassedOnWhole,
     Paperclip!AbortIsHeard, Paperclip!Awaits, Paperclip!Running
<1>3. ASSUME NEW s \in {"refused", "cancelled"}, NEW f \in {"catch", "before_create"},
             Paperclip!Answered(s, f), UNCHANGED <<timers, child>>
      PROVE  PaperclipIInv'
  <2>1. /\ pc' = "over" /\ answer'.status = s /\ answer'.from = f
        /\ answer' \in [status : Paperclip!Statuses \cup {"none"},
                        from : {"none", "catch", "before_create", "adapter", "helper"}]
    BY <1>3, PaperclipAnswerType DEF Paperclip!Statuses
  <2> QED
    BY <1>1, <1>3, <2>1 DEF PaperclipIInv, Paperclip!TypeOK, PaperclipStages,
       Paperclip!PassedOnWhole, Paperclip!AbortIsHeard, Paperclip!Awaits, Paperclip!Running
<1> QED
  BY <1>2, <1>3 DEF Paperclip!Spawn

LEMMA PaperclipExecuteStep == ASSUME PaperclipIInv, Paperclip!Execute PROVE PaperclipIInv'
  BY PaperclipTurnStep, PaperclipSpawnStep DEF Paperclip!Execute, Paperclip!Project,
     Paperclip!Configure, Paperclip!Awaits

\* A signal is sent to a child that runs, and KILL is not taken back.
LEMMA PaperclipKillKeeps ==
  ASSUME NEW s \in {"TERM", "KILL"}, Paperclip!Kill(s), sent \in {"none", "TERM", "KILL"}
  PROVE  /\ sent' \in {"none", "TERM", "KILL"} /\ (Paperclip!Running => sent' # "none")
         /\ (~Paperclip!Running => sent' = sent)
         /\ UNCHANGED <<child, end, printed, reported, ran>>
  BY DEF Paperclip!Kill, Paperclip!Running

LEMMA PaperclipSignalStep ==
  ASSUME PaperclipIInv, NEW s \in {"TERM", "KILL"}, Paperclip!Kill(s), UNCHANGED <<pc, answer>>,
         timers' \in 0..3, overflow' \in BOOLEAN, aborted' \in BOOLEAN,
         timers' = timers \/ answer.from = "none"
  PROVE  PaperclipIInv'
<1>1. sent \in {"none", "TERM", "KILL"}
  BY DEF PaperclipIInv, Paperclip!TypeOK
<1>2. /\ sent' \in {"none", "TERM", "KILL"} /\ (Paperclip!Running => sent' # "none")
      /\ (~Paperclip!Running => sent' = sent)
      /\ UNCHANGED <<child, end, printed, reported, ran>>
  BY <1>1, PaperclipKillKeeps
<1>3. Paperclip!TypeOK'
  BY <1>2 DEF PaperclipIInv, Paperclip!TypeOK
<1>4. PaperclipStages'
  BY <1>2 DEF PaperclipIInv, PaperclipStages, Paperclip!Awaits, Paperclip!Running
<1>5. Paperclip!PassedOnWhole' /\ Paperclip!AbortIsHeard'
  BY <1>2 DEF PaperclipIInv, Paperclip!PassedOnWhole, Paperclip!AbortIsHeard, Paperclip!Running
<1> QED
  BY <1>3, <1>4, <1>5 DEF PaperclipIInv

\* What is passed on is the whole report of a child that ended by itself, in time.
LEMMA PaperclipReportedIsWhole ==
  ASSUME PaperclipIInv, child = "ended"
  PROVE  \/ Paperclip!Reported = <<"uncertain", "adapter">>
         \/ /\ Paperclip!Reported = <<reported.status, "helper">>
            /\ end = "exit" /\ printed = "report" /\ reported.whole /\ timers < 2
  BY DEF Paperclip!Reported, Paperclip!TimedOut, PaperclipIInv, Paperclip!TypeOK,
     PaperclipStages

LEMMA PaperclipCallbackStep == ASSUME PaperclipIInv, Paperclip!Callback PROVE PaperclipIInv'
<1>1. CASE Paperclip!Data
  <2>1. Paperclip!Kill("TERM") /\ UNCHANGED <<pc, aborted, timers, answer>> /\ overflow' = TRUE
    BY <1>1 DEF Paperclip!Data
  <2> QED
    BY <2>1, PaperclipSignalStep DEF PaperclipIInv, Paperclip!TypeOK
<1>2. CASE Paperclip!Timer
  <2>1. /\ pc = "waiting" /\ timers' \in 0..3 /\ UNCHANGED <<pc, aborted, overflow, answer>>
        /\ (Paperclip!Kill("TERM") \/ Paperclip!Kill("KILL"))
    BY <1>2 DEF Paperclip!Timer
  <2>2. answer.from = "none"
    BY <2>1 DEF PaperclipIInv, PaperclipStages
  <2> QED
    BY <2>1, <2>2, PaperclipSignalStep DEF PaperclipIInv, Paperclip!TypeOK
<1>3. CASE Paperclip!Error
  <2>1. Paperclip!Answered("uncertain", "adapter") /\ child = "none"
        /\ UNCHANGED <<aborted, timers, overflow, Paperclip!process>>
    BY <1>3 DEF Paperclip!Error
  <2>2. /\ pc' = "over" /\ answer'.status = "uncertain" /\ answer'.from = "adapter"
        /\ answer' \in [status : Paperclip!Statuses \cup {"none"},
                        from : {"none", "catch", "before_create", "adapter", "helper"}]
    BY <2>1, PaperclipAnswerType DEF Paperclip!Statuses
  <2> QED
    BY <2>1, <2>2 DEF PaperclipIInv, Paperclip!TypeOK, PaperclipStages,
       Paperclip!PassedOnWhole, Paperclip!AbortIsHeard, Paperclip!Awaits, Paperclip!Running,
       Paperclip!process
<1>4. CASE Paperclip!Close
  <2>1. /\ child = "ended" /\ pc' = "over"
        /\ answer' = [status |-> Paperclip!Reported[1], from |-> Paperclip!Reported[2]]
        /\ UNCHANGED <<aborted, timers, overflow, Paperclip!process>>
    BY <1>4 DEF Paperclip!Close, Paperclip!Answered
  <2>2. reported.status \in Paperclip!Statuses \cup {"none"}
          /\ "uncertain" \in Paperclip!Statuses
    BY DEF PaperclipIInv, Paperclip!TypeOK, Paperclip!Statuses
  <2>3. /\ answer' \in [status : Paperclip!Statuses \cup {"none"},
                        from : {"none", "catch", "before_create", "adapter", "helper"}]
        /\ \/ answer'.from = "adapter" /\ answer'.status = "uncertain"
           \/ /\ answer'.from = "helper" /\ answer'.status = reported.status
              /\ end = "exit" /\ printed = "report" /\ reported.whole /\ timers < 2
    BY <2>1, <2>2, PaperclipReportedIsWhole
  <2> QED
    BY <2>1, <2>3 DEF PaperclipIInv, Paperclip!TypeOK, PaperclipStages,
       Paperclip!PassedOnWhole, Paperclip!AbortIsHeard, Paperclip!Awaits, Paperclip!Running,
       Paperclip!process
<1> QED
  BY <1>1, <1>2, <1>3, <1>4 DEF Paperclip!Callback

LEMMA PaperclipAbortStep == ASSUME PaperclipIInv, Paperclip!Abort PROVE PaperclipIInv'
<1>1. Paperclip!Kill("TERM") /\ aborted' = TRUE /\ UNCHANGED <<pc, timers, overflow, answer>>
  BY DEF Paperclip!Abort
<1> QED
  BY <1>1, PaperclipSignalStep DEF PaperclipIInv, Paperclip!TypeOK

\* What the child does, as long as it runs.
LEMMA PaperclipChildStep == ASSUME PaperclipIInv, Paperclip!Child PROVE PaperclipIInv'
<1>1. UNCHANGED <<pc, aborted, timers, overflow, answer>>
  BY DEF Paperclip!Child
<1>2. ASSUME Paperclip!Running, child' \in {"handling", "printing", "ended"} \/ child' = child,
             child' = "ended" => end' # "none", sent' = sent,
             end' \in {"none", "exit", "signal"}, printed' \in {"none", "report", "too_much"},
             reported' \in [status : Paperclip!Statuses \cup {"none"}, whole : BOOLEAN],
             ran' \in BOOLEAN
      PROVE  PaperclipIInv'
  <2>1. pc = "waiting" /\ answer.from = "none"
    BY <1>2 DEF PaperclipIInv, Paperclip!TypeOK, PaperclipStages, Paperclip!Running,
       Paperclip!Awaits
  <2>2. Paperclip!TypeOK'
    BY <1>1, <1>2 DEF PaperclipIInv, Paperclip!TypeOK
  <2>3. PaperclipStages' /\ Paperclip!PassedOnWhole' /\ Paperclip!AbortIsHeard'
    BY <1>1, <1>2, <2>1 DEF PaperclipIInv, PaperclipStages, Paperclip!PassedOnWhole,
       Paperclip!AbortIsHeard, Paperclip!Running, Paperclip!Awaits
  <2> QED
    BY <2>2, <2>3 DEF PaperclipIInv
<1>3. /\ end \in {"none", "exit", "signal"} /\ printed \in {"none", "report", "too_much"}
      /\ reported \in [status : Paperclip!Statuses \cup {"none"}, whole : BOOLEAN]
      /\ ran \in BOOLEAN
  BY DEF PaperclipIInv, Paperclip!TypeOK
<1>4. CASE Paperclip!Handles
  BY <1>2, <1>3, <1>4 DEF Paperclip!Handles, Paperclip!Running
<1>5. CASE Paperclip!Prints
  <2>1. reported' \in [status : Paperclip!Statuses \cup {"none"}, whole : BOOLEAN]
    BY <1>5 DEF Paperclip!Prints
  <2> QED
    BY <1>2, <1>3, <1>5, <2>1 DEF Paperclip!Prints, Paperclip!Running
<1>6. CASE Paperclip!Exits
  <2>1. reported' \in [status : Paperclip!Statuses \cup {"none"}, whole : BOOLEAN]
    BY <1>3, <1>6 DEF Paperclip!Exits
  <2> QED
    BY <1>2, <1>3, <1>6, <2>1 DEF Paperclip!Exits, Paperclip!Running
<1>7. CASE Paperclip!Floods
  BY <1>2, <1>3, <1>7, SMT DEF Paperclip!Floods, Paperclip!Running
<1>8. CASE Paperclip!Dies
  <2>1. reported' \in [status : Paperclip!Statuses \cup {"none"}, whole : BOOLEAN]
    BY <1>3, <1>8 DEF Paperclip!Dies
  <2> QED
    BY <1>2, <1>3, <1>8, <2>1 DEF Paperclip!Dies
<1> QED
  BY <1>4, <1>5, <1>6, <1>7, <1>8 DEF Paperclip!Child

LEMMA PaperclipStepInv == PaperclipIInv /\ [Paperclip!Next]_(Paperclip!vars) => PaperclipIInv'
<1>1. CASE UNCHANGED Paperclip!vars
  BY <1>1 DEF PaperclipIInv, Paperclip!TypeOK, PaperclipStages, Paperclip!PassedOnWhole,
     Paperclip!AbortIsHeard, Paperclip!Running, Paperclip!vars
<1> QED
  BY <1>1, PaperclipExecuteStep, PaperclipCallbackStep, PaperclipAbortStep, PaperclipChildStep
  DEF Paperclip!Next

LEMMA PaperclipEnds == PaperclipIInv => Paperclip!NothingRunsOn
  BY SMT DEF PaperclipIInv, Paperclip!TypeOK, PaperclipStages, Paperclip!NothingRunsOn,
     Paperclip!Running, Paperclip!Statuses, Paperclip!Awaits

-----------------------------------------------------------------------------
(* Codex *)

LEMMA CodexAssumption == Codex!NativeGroupAssumption
  BY NativeGroupAssumption DEF Codex!NativeGroupAssumption

\* The steps of a round.
CodexLoop == {"control", "drain", "look", "close"}

\* What TypeOK says of the adapter's own variables.
CodexLoopType ==
  /\ pc \in CodexLoop \cup {"preflight", "between", "start", "started", "raise", "wait", "over"}
  /\ stage \in {"probe", "main"}
  /\ reason \in {"none", "completed"} \cup Codex!Failures
  /\ failure \in Codex!Codes \cup {"none"}
  /\ stdin \in {"none", "open", "closed", "broken"}
  /\ output \in {"none", "bad", "good", "failed"}
  /\ eof \in BOOLEAN /\ forced \in BOOLEAN /\ tried \in BOOLEAN
  /\ told \in BOOLEAN /\ shown \in BOOLEAN

\* Nothing is started beside a group; the answer comes last; Core has the pid of the
\* invocation and not of the probe.
CodexFlow ==
  /\ pc \in {"preflight", "between", "start"} => ~Codex!Members /\ ~told
  /\ pc \in {"preflight", "between"} => stage = "probe"
  /\ pc = "started" => ~told
  /\ pc = "over" <=> report # Codex!Nothing
  /\ stage = "probe" => ~shown
  /\ stage = "main" /\ pc \in CodexLoop => shown

\* A transport goes with a failure unless it is completed; a cancellation seen and a prompt
\* refused have become the transport, or came after it was decided.
CodexWhy ==
  /\ reason \in {"none", "completed"} <=> failure = "none"
  /\ pc \in CodexLoop \cup {"started"} /\ reason = "none" => ~told /\ stdin # "broken"
  /\ pc \in CodexLoop \cup {"started"} /\ stage = "main" => stdin # "none"

\* What a decision to call the child completed was based on stays as it was.
CodexSound ==
  pc \in CodexLoop \cup {"started"} /\ reason = "completed" =>
    /\ Codex!Exited /\ eof /\ code = "zero" /\ output = "good" /\ ~told
    /\ stage = "main" => stdin = "closed"

\* So it is when the child is reported completed.
CodexReportedSound ==
  report.said = "result" /\ report.transport = "completed" => Codex!Exited

CodexIInv == Codex!GroupType /\ CodexLoopType /\ CodexFlow /\ CodexWhy /\ CodexSound
        /\ report \in Codex!Reports \cup {Codex!Nothing, Codex!Raised}
        /\ CodexReportedSound /\ Codex!CompletedIsWhole /\ Codex!Accepted
        /\ Codex!RaisedIsKilled

LEMMA CodexTypeOKParts ==
  Codex!TypeOK <=> Codex!GroupType /\ CodexLoopType
    /\ report \in Codex!Reports \cup {Codex!Nothing, Codex!Raised}
  BY DEF Codex!TypeOK, CodexLoopType, CodexLoop

LEMMA CodexSaidApart == Codex!Nothing # Codex!Raised /\ Codex!Nothing.said = "nothing"
                          /\ Codex!Raised.said = "raised"
  BY SMT DEF Codex!Nothing, Codex!Raised

LEMMA CodexInitInv == Codex!Init => CodexIInv
<1> SUFFICES ASSUME Codex!Init PROVE CodexIInv
  OBVIOUS
<1>1. Codex!GroupType /\ ~Codex!Members
  BY Codex!GroupInitType, CodexAssumption DEF Codex!Init
<1>2. CodexLoopType
  BY DEF Codex!Init, CodexLoopType
<1>3. CodexFlow /\ CodexWhy /\ CodexSound
  BY <1>1 DEF Codex!Init, CodexFlow, CodexWhy, CodexSound, CodexLoop
<1>4. CodexReportedSound /\ Codex!CompletedIsWhole /\ Codex!Accepted /\ Codex!RaisedIsKilled
  BY CodexSaidApart DEF Codex!Init, CodexReportedSound, Codex!CompletedIsWhole,
     Codex!Accepted, Codex!RaisedIsKilled
<1> QED
  BY <1>1, <1>2, <1>3, <1>4 DEF Codex!Init, CodexIInv

\* fail() keeps the transport and its code together, and the first of them.
LEMMA CodexFailsKeeps ==
  ASSUME NEW pairs \in SUBSET (Codex!Failures \X Codex!Codes), Codex!Fails(pairs), CodexIInv
  PROVE  /\ reason' \in {"none", "completed"} \cup Codex!Failures
         /\ failure' \in Codex!Codes \cup {"none"}
         /\ reason' \in {"none", "completed"} <=> failure' = "none"
         /\ reason # "none" => reason' = reason
         /\ reason' = "completed" => reason = "completed"
         /\ pairs # {} => reason' # "none"
<1>1. \A p \in pairs : p[1] \in Codex!Failures /\ p[2] \in Codex!Codes
  OBVIOUS
<1>2. \A p \in pairs : p[1] \notin {"none", "completed"} /\ p[2] # "none"
  BY <1>1 DEF Codex!Failures, Codex!Codes
<1>3. /\ reason \in {"none", "completed"} \cup Codex!Failures
      /\ failure \in Codex!Codes \cup {"none"}
      /\ reason \in {"none", "completed"} <=> failure = "none"
  BY DEF CodexIInv, CodexLoopType, CodexWhy
<1>4. CASE reason # "none" \/ pairs = {}
  BY <1>3, <1>4 DEF Codex!Fails
<1>5. CASE ~(reason # "none" \/ pairs = {})
  BY <1>1, <1>2, <1>3, <1>5 DEF Codex!Fails
<1> QED
  BY <1>4, <1>5

LEMMA CodexFailurePairs ==
  /\ <<"cancelled", "cancelled">> \in Codex!Failures \X Codex!Codes
  /\ <<"timeout", "timeout">> \in Codex!Failures \X Codex!Codes
  /\ <<"execution", "host">> \in Codex!Failures \X Codex!Codes
  /\ <<"execution", "stdin">> \in Codex!Failures \X Codex!Codes
  /\ <<"execution", "limit">> \in Codex!Failures \X Codex!Codes
  /\ <<"execution", "turn_failed">> \in Codex!Failures \X Codex!Codes
  /\ <<"execution", "version_timeout">> \in Codex!Failures \X Codex!Codes
  /\ <<"execution", "version_mismatch">> \in Codex!Failures \X Codex!Codes
  /\ <<"execution", "nonzero_exit">> \in Codex!Failures \X Codex!Codes
  /\ <<"protocol", "events">> \in Codex!Failures \X Codex!Codes
  /\ <<"protocol", "final">> \in Codex!Failures \X Codex!Codes
  BY DEF Codex!Failures, Codex!Codes

\* The cleanup's clock is set once.
LEMMA CodexBeginsType == ASSUME Codex!AgeType, NEW now, Codex!Begins(now) PROVE Codex!AgeType'
<1>1. 0 \in Codex!Unset .. Limit
  BY NativeGroupAssumption, SMT DEF Codex!Unset
<1> QED
  BY <1>1 DEF Codex!AgeType, Codex!Begins, Codex!Stamp, Codex!Clocks

-----------------------------------------------------------------------------
(* Codex: the results *)

LEMMA CodexResultFields ==
  ASSUME NEW phase \in {"preflight", "invocation"},
         NEW transport \in Codex!Failures \cup {"completed"},
         NEW writer \in Codex!Writers, NEW why \in Codex!Codes \cup {"none"},
         NEW protocol \in {"not_started", "settled", "invalid", "incomplete"},
         code \in {"none", "zero", "nonzero"},
         NEW r, r = Codex!Result(phase, transport, writer, why, protocol)
  PROVE  /\ r.said = "result" /\ r.phase = phase /\ r.transport = transport
         /\ r.writer = writer /\ r.failure = why /\ r.protocol = protocol
         /\ (pc = "close" /\ Codex!Exited => r.code = code)
         /\ (r.final <=> phase = "invocation" /\ transport = "completed")
         /\ r \in Codex!Reports /\ r # Codex!Nothing /\ r # Codex!Raised
<1> DEFINE final == phase = "invocation" /\ transport = "completed"
           c == IF pc \in {"close", "between"} /\ Codex!Exited THEN code ELSE "none"
<1>1. r = [said |-> "result", phase |-> phase, transport |-> transport, writer |-> writer,
           failure |-> why, protocol |-> protocol, code |-> c, final |-> final]
  BY DEF Codex!Result
<1>2. final \in BOOLEAN /\ c \in {"none", "zero", "nonzero"}
  OBVIOUS
<1> HIDE DEF final, c
<1>3. /\ r.said = "result" /\ r.phase = phase /\ r.transport = transport
      /\ r.writer = writer /\ r.failure = why /\ r.protocol = protocol
      /\ r.code = c /\ r.final = final
  BY <1>1
<1>4. r \in Codex!Reports
  BY <1>1, <1>2 DEF Codex!Reports
<1>5. r # Codex!Nothing /\ r # Codex!Raised
  BY <1>3, CodexSaidApart
<1> QED
  BY <1>3, <1>4, <1>5 DEF final, c

\* A result as the validator wants it, with the transport t and the writer w.
CodexReportedAs(t, w) ==
  /\ pc' = "over" /\ report' \in Codex!Reports /\ report' # Codex!Nothing
  /\ report' # Codex!Raised
  /\ report'.said = "result" /\ report'.transport = t /\ report'.writer = w /\ Codex!Accepted'

LEMMA CodexRefusedBefore ==
  ASSUME CodexIInv, stage = "probe", shown' = shown, NEW t \in Codex!Failures,
         NEW w \in Codex!Writers,
         NEW y \in Codex!Codes, Codex!Over(Codex!Result("preflight", t, w, y, "not_started"))
  PROVE  CodexReportedAs(t, w)
<1>1. /\ t \in Codex!Failures \cup {"completed"} /\ t # "completed" /\ y # "none"
      /\ y \in Codex!Codes \cup {"none"} /\ code \in {"none", "zero", "nonzero"} /\ ~shown
  BY DEF Codex!Failures, Codex!Codes, CodexIInv, Codex!GroupType, CodexFlow
<1>2. report' = Codex!Result("preflight", t, w, y, "not_started") /\ pc' = "over"
  BY DEF Codex!Over
<1>3. /\ report'.said = "result" /\ report'.phase = "preflight" /\ report'.transport = t
      /\ report'.writer = w /\ report'.failure = y /\ report'.protocol = "not_started"
      /\ ~report'.final /\ report' \in Codex!Reports /\ report' # Codex!Nothing
      /\ report' # Codex!Raised
  BY <1>1, <1>2, CodexResultFields
<1> QED
  BY <1>1, <1>2, <1>3 DEF CodexReportedAs, Codex!Accepted

\* What is made of the transport, the writer and the code with which the loop is left:
\* the probe's success is not an answer.
LEMMA CodexReturnedGives ==
  ASSUME CodexIInv, shown' = shown, NEW t \in Codex!Failures \cup {"completed"},
         NEW w \in Codex!Writers,
         NEW y \in Codex!Codes \cup {"none"}, t = "completed" <=> y = "none",
         t = "completed" /\ stage = "main" =>
           pc = "close" /\ Codex!Exited /\ code = "zero" /\ output = "good",
         Codex!Returned(t, w, y)
  PROVE  \/ /\ stage = "probe" /\ t = "completed" /\ w = "stopped"
            /\ pc' = "between" /\ report' = report
         \/ stage = "probe"
            /\ (\E f \in Codex!Failures : CodexReportedAs(f, w) /\ t \in {f, "completed"})
         \/ stage = "main" /\ CodexReportedAs(t, w)
<1>1. /\ code \in {"none", "zero", "nonzero"} /\ stage \in {"probe", "main"}
      /\ (stage = "main" /\ pc = "close" => shown)
  BY DEF CodexIInv, Codex!GroupType, CodexLoopType, CodexFlow, CodexLoop
<1>2. CASE stage = "main"
  <2> DEFINE p == Codex!Protocol
  <2>1. report' = Codex!Result("invocation", t, w, y, p) /\ pc' = "over"
    BY <1>2 DEF Codex!Returned, Codex!Over
  <2>2. /\ p \in {"settled", "invalid", "incomplete"} /\ p # "not_started"
        /\ (t = "completed" => p = "settled")
    BY <1>2 DEF Codex!Protocol
  <2> HIDE DEF p
  <2>3. p \in {"not_started", "settled", "invalid", "incomplete"}
    BY <2>2
  <2>4. /\ report'.said = "result" /\ report'.phase = "invocation"
        /\ report'.transport = t /\ report'.writer = w
        /\ report'.failure = y /\ report'.protocol = p
        /\ (pc = "close" /\ Codex!Exited => report'.code = code)
        /\ (report'.final <=> t = "completed")
        /\ report' \in Codex!Reports /\ report' # Codex!Nothing /\ report' # Codex!Raised
    BY <1>1, <2>1, <2>3, CodexResultFields
  <2> QED
    BY <1>1, <1>2, <2>1, <2>2, <2>4 DEF CodexReportedAs, Codex!Accepted
<1>3. CASE stage = "probe" /\ t = "completed" /\ w = "stopped"
  BY <1>3 DEF Codex!Returned
<1>4. CASE stage = "probe" /\ ~(t = "completed" /\ w = "stopped")
  <2> DEFINE f == IF t = "completed" THEN "execution" ELSE t
             z == IF y = "none" THEN "cleanup" ELSE y
  <2>1. f \in Codex!Failures /\ z \in Codex!Codes /\ t \in {f, "completed"}
    BY DEF Codex!Failures, Codex!Codes
  <2>2. Codex!Over(Codex!Result("preflight", f, w, z, "not_started"))
    BY <1>4 DEF Codex!Returned
  <2> HIDE DEF f, z
  <2> QED
    BY <1>4, <2>1, <2>2, CodexRefusedBefore
<1> QED
  BY <1>1, <1>2, <1>3, <1>4

-----------------------------------------------------------------------------
(* Codex: the steps *)

\* A step that gives no answer.
LEMMA CodexGoesOn ==
  ASSUME CodexIInv, report = Codex!Nothing, report' = report, pc' # "over",
         Codex!GroupType', CodexLoopType', CodexWhy', CodexSound',
         pc' \in {"preflight", "between", "start"} => ~Codex!Members' /\ ~told',
         pc' \in {"preflight", "between"} => stage' = "probe", pc' = "started" => ~told',
         stage' = "probe" => ~shown', stage' = "main" /\ pc' \in CodexLoop => shown'
  PROVE  CodexIInv'
<1>1. report' = Codex!Nothing
  OBVIOUS
<1>2. CodexReportedSound' /\ Codex!CompletedIsWhole' /\ Codex!Accepted' /\ Codex!RaisedIsKilled'
  BY <1>1, CodexSaidApart DEF CodexReportedSound, Codex!CompletedIsWhole, Codex!Accepted,
     Codex!RaisedIsKilled
<1>3. CodexFlow'
  BY <1>1 DEF CodexFlow
<1> QED
  BY <1>1, <1>2, <1>3 DEF CodexIInv

\* A step that answers.
LEMMA CodexAnswers ==
  ASSUME NEW t, NEW w, CodexReportedAs(t, w), Codex!GroupType', CodexLoopType', CodexWhy',
         stage' = "probe" => ~shown',
         t = "completed" =>
           /\ Codex!Exited' /\ stdin' = "closed" /\ eof' /\ code' = "zero" /\ output' = "good"
           /\ ~told' /\ (w = "may_live" <=> forced')
  PROVE  CodexIInv'
<1>1. /\ pc' = "over" /\ report' \in Codex!Reports /\ report' # Codex!Nothing
      /\ report' # Codex!Raised
      /\ report'.said = "result" /\ report'.transport = t /\ report'.writer = w
      /\ Codex!Accepted'
  BY DEF CodexReportedAs
<1>2. CodexFlow' /\ CodexSound'
  BY <1>1 DEF CodexFlow, CodexSound, CodexLoop
<1>3. CodexReportedSound' /\ Codex!CompletedIsWhole' /\ Codex!RaisedIsKilled'
  BY <1>1 DEF CodexReportedSound, Codex!CompletedIsWhole, Codex!RaisedIsKilled
<1> QED
  BY <1>1, <1>2, <1>3 DEF CodexIInv

LEMMA CodexAroundStep == CodexIInv /\ Codex!Around => CodexIInv'
<1> SUFFICES ASSUME CodexIInv, Codex!Around PROVE CodexIInv'
  OBVIOUS
<1>1. /\ Codex!GroupType' /\ (~Codex!Members => ~Codex!Members') /\ killed' = killed
      /\ (Codex!Exited' <=> Codex!Exited) /\ (Codex!Exited => code' = code)
  BY Codex!SurroundingsKeep, CodexAssumption DEF CodexIInv, Codex!Around, Codex!Exited
<1>2. UNCHANGED <<pc, Codex!loopVars, told, shown, report>>
  BY DEF Codex!Around
<1>3. CodexLoopType' /\ CodexWhy'
  BY <1>2 DEF CodexIInv, CodexLoopType, CodexWhy, Codex!loopVars
<1>4. CodexFlow' /\ CodexSound'
  BY <1>1, <1>2 DEF CodexIInv, CodexFlow, CodexSound, Codex!loopVars
<1>5. CodexReportedSound' /\ Codex!CompletedIsWhole' /\ Codex!Accepted' /\ Codex!RaisedIsKilled'
  BY <1>1, <1>2 DEF CodexIInv, CodexReportedSound, Codex!CompletedIsWhole, Codex!Accepted,
     Codex!RaisedIsKilled, Codex!loopVars
<1> QED
  BY <1>1, <1>2, <1>3, <1>4, <1>5 DEF CodexIInv

\* The results given before a child runs.
LEMMA CodexPreflightStep == CodexIInv /\ Codex!Preflight => CodexIInv'
<1> SUFFICES ASSUME CodexIInv, Codex!Preflight PROVE CodexIInv'
  OBVIOUS
<1>1. /\ pc = "preflight" /\ report = Codex!Nothing /\ ~Codex!Members /\ ~told
      /\ UNCHANGED <<Codex!osVars, Codex!loopVars, told, shown>>
  BY DEF Codex!Preflight, CodexIInv, CodexFlow
<1>2. Codex!GroupType'
  BY <1>1 DEF CodexIInv, Codex!GroupType, Codex!osVars, Codex!groupVars, Codex!callerVars
<1>3. CASE pc' = "start" /\ UNCHANGED report
  <2>1. CodexLoopType' /\ CodexWhy' /\ CodexSound'
    BY <1>1, <1>3 DEF CodexIInv, CodexLoopType, CodexWhy, CodexSound, CodexLoop, Codex!loopVars
  <2> QED
    BY <1>1, <1>2, <1>3, <2>1, CodexGoesOn DEF CodexIInv, CodexFlow, CodexLoop,
       Codex!loopVars, Codex!osVars, Codex!groupVars, Codex!Members
<1>4. ASSUME NEW p \in Codex!Failures \X Codex!Codes,
             Codex!Over(Codex!Result("preflight", p[1], "stopped", p[2], "not_started"))
      PROVE  CodexIInv'
  <2>1. CodexReportedAs(p[1], "stopped") /\ p[1] # "completed"
    BY <1>1, <1>4, CodexRefusedBefore DEF CodexIInv, CodexFlow, Codex!Failures, Codex!Writers,
       Codex!loopVars
  <2>2. CodexLoopType' /\ CodexWhy' /\ (stage' = "probe" => ~shown')
    BY <1>1, <2>1 DEF CodexIInv, CodexLoopType, CodexWhy, CodexFlow, CodexLoop,
       Codex!loopVars, CodexReportedAs
  <2> QED
    BY <1>2, <2>1, <2>2, CodexAnswers
<1> QED
  BY <1>1, <1>3, <1>4, CodexFailurePairs DEF Codex!Preflight

LEMMA CodexBetweenStep == CodexIInv /\ Codex!Between => CodexIInv'
<1> SUFFICES ASSUME CodexIInv, Codex!Between PROVE CodexIInv'
  OBVIOUS
<1>1. /\ pc = "between" /\ stage = "probe" /\ report = Codex!Nothing /\ ~Codex!Members
      /\ ~told /\ ~shown
      /\ UNCHANGED <<Codex!osVars, reason, failure, stdin, eof, output, forced, tried, told,
         shown>>
  BY DEF Codex!Between, CodexIInv, CodexFlow
<1>2. Codex!GroupType' /\ Codex!Members' = Codex!Members
  BY <1>1 DEF CodexIInv, Codex!GroupType, Codex!osVars, Codex!groupVars, Codex!callerVars,
     Codex!Members
<1>3. CASE pc' = "start" /\ stage' = "main" /\ UNCHANGED report
  <2>1. CodexLoopType' /\ CodexWhy' /\ CodexSound'
    BY <1>1, <1>3 DEF CodexIInv, CodexLoopType, CodexWhy, CodexSound, CodexLoop
  <2> QED
    BY <1>1, <1>2, <1>3, <2>1, CodexGoesOn DEF CodexLoop
<1>4. CASE /\ Codex!Over(Codex!Result("preflight", "execution", "stopped", "final_exists",
                                      "not_started"))
           /\ UNCHANGED stage
  <2>1. /\ "execution" \in Codex!Failures /\ "final_exists" \in Codex!Codes
        /\ "stopped" \in Codex!Writers
        /\ "execution" # "completed"
    BY DEF Codex!Failures, Codex!Codes, Codex!Writers
  <2>2. CodexReportedAs("execution", "stopped")
    BY <1>1, <1>4, <2>1, CodexRefusedBefore
  <2>3. CodexLoopType' /\ CodexWhy'
    BY <1>1, <1>4, <2>2 DEF CodexIInv, CodexLoopType, CodexWhy, CodexLoop, CodexReportedAs
  <2> QED
    BY <1>1, <1>2, <2>1, <2>2, <2>3, CodexAnswers
<1> QED
  BY <1>3, <1>4 DEF Codex!Between

LEMMA CodexStartStep == CodexIInv /\ Codex!Start => CodexIInv'
<1> SUFFICES ASSUME CodexIInv, Codex!Start PROVE CodexIInv'
  OBVIOUS
<1>1. /\ pc = "start" /\ report = Codex!Nothing /\ ~Codex!Members /\ ~told
      /\ reason' = "none" /\ failure' = "none" /\ eof' = FALSE /\ output' = "none"
      /\ forced' = FALSE /\ tried' = FALSE /\ told' = (told \/ wanted)
      /\ UNCHANGED <<stage, wanted, late, shown>>
  BY DEF Codex!Start, CodexIInv, CodexFlow
<1>2. /\ told' \in BOOLEAN /\ shown' \in BOOLEAN /\ (stage' = "probe" => ~shown')
      /\ stage' \in {"probe", "main"} /\ stdin \in {"none", "open", "closed", "broken"}
  BY <1>1 DEF CodexIInv, CodexLoopType, CodexFlow, Codex!GroupType
<1>3. ASSUME NEW t \in Codex!Failures, NEW y \in Codex!Codes, Codex!Returned(t, "stopped", y),
             UNCHANGED <<Codex!groupVars, age, stdin>>
      PROVE  CodexIInv'
  <2>1. /\ t \in Codex!Failures \cup {"completed"} /\ t # "completed"
        /\ "stopped" \in Codex!Writers
        /\ y \in Codex!Codes \cup {"none"} /\ y # "none"
    BY DEF Codex!Failures, Codex!Codes, Codex!Writers
  <2>2. PICK f \in Codex!Failures : CodexReportedAs(f, "stopped")
    BY <1>1, <1>3, <2>1, CodexReturnedGives
  <2>3. f # "completed"
    BY DEF Codex!Failures
  <2>4. Codex!GroupType'
    BY <1>1, <1>3 DEF CodexIInv, Codex!GroupType, Codex!groupVars
  <2>5. CodexLoopType' /\ CodexWhy'
    BY <1>1, <1>2, <1>3, <2>2 DEF CodexLoopType, CodexWhy, CodexLoop, CodexReportedAs
  <2> QED
    BY <1>2, <2>2, <2>3, <2>4, <2>5, CodexAnswers
<1>4. CASE /\ Codex!Spawned /\ stdin' = (IF stage = "probe" THEN "none" ELSE "open")
           /\ pc' = "started" /\ UNCHANGED report /\ ~wanted
  <2>1. Codex!GroupType'
    BY <1>1, <1>4, Codex!SpawnedType, CodexAssumption DEF CodexIInv, Codex!callerVars
  <2>2. told' = FALSE /\ stdin' \in {"none", "open"} /\ (stage' = "main" => stdin' = "open")
    BY <1>1, <1>2, <1>4
  <2>3. CodexLoopType' /\ CodexWhy' /\ CodexSound'
    BY <1>1, <1>2, <1>4, <2>2 DEF CodexLoopType, CodexWhy, CodexSound, CodexLoop
  <2> QED
    BY <1>1, <1>2, <1>4, <2>1, <2>2, <2>3, CodexGoesOn DEF CodexLoop
<1> QED
  BY <1>1, <1>3, <1>4 DEF Codex!Start, Codex!Failures, Codex!Codes

LEMMA CodexCallStartedStep == CodexIInv /\ Codex!CallStarted => CodexIInv'
<1> SUFFICES ASSUME CodexIInv, Codex!CallStarted PROVE CodexIInv'
  OBVIOUS
<1>1. /\ pc = "started" /\ pc' \in {"control", "raise"} /\ report = Codex!Nothing
      /\ UNCHANGED <<Codex!osVars, Codex!loopVars, told, report>>
      /\ (pc' = "control" => shown' = (shown \/ stage = "main"))
      /\ (pc' = "raise" => shown' = shown)
  BY DEF Codex!CallStarted, CodexIInv, CodexFlow
<1>2. /\ shown' \in BOOLEAN /\ (stage = "probe" => ~shown')
      /\ (stage = "main" /\ pc' = "control" => shown')
  <2>1. CASE pc' = "control"
    BY <1>1, <2>1 DEF CodexIInv, CodexLoopType, CodexFlow
  <2>2. CASE pc' = "raise" /\ shown' = shown
    BY <2>2 DEF CodexIInv, CodexLoopType, CodexFlow
  <2> QED
    BY <1>1, <2>1, <2>2
<1>3. Codex!GroupType'
  BY <1>1 DEF CodexIInv, Codex!GroupType, Codex!osVars, Codex!groupVars, Codex!callerVars
<1>4. CodexLoopType' /\ CodexWhy'
  BY <1>1, <1>2 DEF CodexIInv, CodexLoopType, CodexWhy, Codex!loopVars, CodexLoop
<1>5. CodexSound'
  BY <1>1 DEF CodexIInv, CodexSound, Codex!loopVars, Codex!osVars, Codex!groupVars, CodexLoop,
     Codex!Exited
<1> QED
  BY <1>1, <1>2, <1>3, <1>4, <1>5, CodexGoesOn DEF CodexLoop, Codex!loopVars

LEMMA CodexControlStep == CodexIInv /\ Codex!Control => CodexIInv'
<1> SUFFICES ASSUME CodexIInv, Codex!Control PROVE CodexIInv'
  OBVIOUS
<1>1. /\ pc = "control" /\ pc' = "drain" /\ told' = (told \/ (wanted /\ reason = "none"))
      /\ report = Codex!Nothing
      /\ UNCHANGED <<Codex!groupVars, Codex!callerVars, stage, stdin, eof, output, forced,
         tried,
                     shown, report>>
  BY DEF Codex!Control, CodexIInv, CodexFlow
<1>2. PICK p \in SUBSET (Codex!Failures \X Codex!Codes) :
        Codex!Fails(p) /\ Codex!Begins(p # {}) /\ (wanted => p # {})
  <2>1. CASE wanted
    BY <2>1, CodexFailurePairs DEF Codex!Control
  <2>2. CASE ~wanted /\ late
    BY <2>2, CodexFailurePairs DEF Codex!Control
  <2>3. CASE ~wanted /\ ~late
    <3>1. PICK p \in {{}} \cup {{<<"execution", "version_timeout">>} :
                 x \in {stage} \cap {"probe"}} :
            Codex!Fails(p) /\ Codex!Begins(p # {})
      BY <2>3 DEF Codex!Control
    <3> QED
      BY <2>3, <3>1, CodexFailurePairs
  <2> QED
    BY <2>1, <2>2, <2>3 DEF CodexIInv, Codex!GroupType
<1>3. /\ reason' \in {"none", "completed"} \cup Codex!Failures
      /\ failure' \in Codex!Codes \cup {"none"}
      /\ reason' \in {"none", "completed"} <=> failure' = "none"
      /\ (reason # "none" => reason' = reason)
      /\ (reason' = "completed" => reason = "completed")
      /\ (p # {} => reason' # "none")
  BY <1>2, CodexFailsKeeps
<1>4. Codex!GroupType'
  <2>1. Codex!AgeType'
    BY <1>2, CodexBeginsType, Codex!GroupTypeParts, CodexAssumption DEF CodexIInv
  <2> QED
    BY <1>1, <2>1 DEF CodexIInv, Codex!GroupType, Codex!AgeType, Codex!groupVars,
       Codex!callerVars
<1>5. /\ told' \in BOOLEAN /\ (reason # "none" => told' = told)
      /\ (reason' = "none" => reason = "none" /\ told' = told)
  BY <1>1, <1>2, <1>3 DEF CodexIInv, CodexLoopType, Codex!GroupType
<1>6. CodexLoopType'
  BY <1>1, <1>3, <1>5 DEF CodexIInv, CodexLoopType, CodexLoop
<1>7. CodexWhy'
  BY <1>1, <1>3, <1>5 DEF CodexIInv, CodexWhy, CodexLoop
<1>8. CodexSound'
  BY <1>1, <1>3, <1>5 DEF CodexIInv, CodexSound, CodexLoop, Codex!groupVars, Codex!Exited
<1> QED
  BY <1>1, <1>4, <1>6, <1>7, <1>8, CodexGoesOn DEF CodexIInv, CodexFlow, CodexLoop

LEMMA CodexPollRaisesStep == CodexIInv /\ Codex!PollRaises => CodexIInv'
<1> SUFFICES ASSUME CodexIInv, Codex!PollRaises PROVE CodexIInv'
  OBVIOUS
<1>1. /\ pc \in CodexLoop /\ pc' = "raise" /\ age' = [c \in Codex!Clocks |-> Codex!Unset]
      /\ reason' = "none" /\ failure' = "none" /\ stdin' = "none"
      /\ eof' = FALSE /\ output' = "none" /\ forced' = FALSE /\ tried' = FALSE
      /\ UNCHANGED <<Codex!groupVars, Codex!callerVars, stage, told, shown, report>>
      /\ report = Codex!Nothing
  BY DEF Codex!PollRaises, CodexLoop, CodexIInv, CodexFlow
<1>2. Codex!GroupType'
  <2>1. Codex!AgeType'
    BY <1>1, NativeGroupAssumption, SMT DEF Codex!AgeType, Codex!Unset
  <2> QED
    BY <1>1, <2>1 DEF CodexIInv, Codex!GroupType, Codex!AgeType, Codex!groupVars,
       Codex!callerVars
<1>3. CodexLoopType' /\ CodexWhy' /\ CodexSound'
  BY <1>1 DEF CodexIInv, CodexLoopType, CodexWhy, CodexSound, CodexLoop
<1> QED
  BY <1>1, <1>2, <1>3, CodexGoesOn DEF CodexIInv, CodexFlow, CodexLoop

\* What reading does to the transport, and to what a completed one rests on.
CodexReadAs ==
  /\ reason' \in {"none", "completed"} \cup Codex!Failures
  /\ failure' \in Codex!Codes \cup {"none"}
  /\ reason' \in {"none", "completed"} <=> failure' = "none"
  /\ reason # "none" => reason' = reason
  /\ reason' = "completed" => reason = "completed"
  /\ output' \in {"none", "bad", "good", "failed"} /\ eof' \in BOOLEAN /\ told' \in BOOLEAN
  /\ reason' = "none" => told' = told
  /\ reason = "completed" => eof' /\ output' = output /\ told' = told

LEMMA CodexReadChunksKeep ==
  ASSUME CodexIInv, pc \in CodexLoop, NEW others \in SUBSET (Codex!Failures \X Codex!Codes),
         NEW exited,
         Codex!ReadChunks(others, exited)
  PROVE  Codex!AgeType' /\ CodexReadAs /\ (others # {} => reason' # "none")
<1>1. /\ eof \in BOOLEAN /\ held \in BOOLEAN /\ told \in BOOLEAN /\ wanted \in BOOLEAN
      /\ output \in {"none", "bad", "good", "failed"} /\ stage \in {"probe", "main"}
      /\ (reason = "completed" => eof) /\ Codex!AgeType
  BY Codex!GroupTypeParts, CodexAssumption DEF CodexIInv, Codex!GroupType, CodexLoopType,
     CodexSound
<1>2. CASE /\ eof' = (eof \/ ~held) /\ Codex!Fails(others)
           /\ Codex!Begins(exited \/ others # {})
           /\ UNCHANGED <<output, told>>
  <2>1. Codex!AgeType'
    BY <1>1, <1>2, CodexBeginsType
  <2> QED
    BY <1>1, <1>2, <2>1, CodexFailsKeeps DEF CodexReadAs
<1>3. CASE /\ ~eof /\ output' \in Codex!Reads
           /\ told' = (told \/ (wanted /\ reason = "none"))
           /\ LET asking == others
                    \cup {IF stage = "probe" THEN <<"execution", "limit">>
                                             ELSE <<"protocol", "events">> :
                            x \in {output'} \cap {"bad"}}
                    \cup {<<"cancelled", "cancelled">> : x \in {wanted} \ {FALSE}}
                    \cup {<<"timeout", "timeout">> : x \in {late} \ {FALSE}}
              IN /\ Codex!Fails(asking \cup {<<"execution", "turn_failed">> :
                                         x \in {output'} \cap {"failed"}})
                 /\ Codex!Begins(exited \/ asking # {})
                 /\ eof' \in IF asking = {} /\ reason = "none" THEN {~held} ELSE {FALSE, ~held}
  <2> DEFINE asking == others
               \cup {IF stage = "probe" THEN <<"execution", "limit">>
                                        ELSE <<"protocol", "events">> :
                       x \in {output'} \cap {"bad"}}
               \cup {<<"cancelled", "cancelled">> : x \in {wanted} \ {FALSE}}
               \cup {<<"timeout", "timeout">> : x \in {late} \ {FALSE}}
             all == asking \cup {<<"execution", "turn_failed">> :
               x \in {output'} \cap {"failed"}}
  <2>1. all \in SUBSET (Codex!Failures \X Codex!Codes)
    BY CodexFailurePairs
  <2>2. (others # {} => all # {}) /\ (wanted => all # {})
    BY <1>1
  <2>3. Codex!Fails(all) /\ Codex!Begins(exited \/ asking # {}) /\ eof' \in {FALSE, ~held}
    BY <1>3
  <2> HIDE DEF all, asking
  <2>4. Codex!AgeType'
    BY <1>1, <2>3, CodexBeginsType
  <2>5. /\ reason' \in {"none", "completed"} \cup Codex!Failures
        /\ failure' \in Codex!Codes \cup {"none"}
        /\ reason' \in {"none", "completed"} <=> failure' = "none"
        /\ (reason # "none" => reason' = reason)
        /\ (reason' = "completed" => reason = "completed")
        /\ (all # {} => reason' # "none")
    BY <2>1, <2>3, CodexFailsKeeps
  <2>6. output' \in {"none", "bad", "good", "failed"}
    BY <1>1, <1>3 DEF Codex!Reads
  <2>7. eof' \in BOOLEAN /\ told' \in BOOLEAN /\ reason # "completed"
    BY <1>1, <1>3, <2>3
  <2>8. reason' = "none" => told' = told
    BY <1>1, <1>3, <2>2, <2>5
  <2> QED
    BY <2>2, <2>4, <2>5, <2>6, <2>7, <2>8 DEF CodexReadAs
<1> QED
  BY <1>2, <1>3 DEF Codex!ReadChunks

LEMMA CodexDrainStep == CodexIInv /\ Codex!Drain => CodexIInv'
<1> SUFFICES ASSUME CodexIInv, Codex!Drain PROVE CodexIInv'
  OBVIOUS
<1>1. /\ pc = "drain" /\ pc' = "look" /\ report = Codex!Nothing
      /\ UNCHANGED <<Codex!groupVars, Codex!callerVars, stage, forced, tried, shown, report>>
  BY DEF Codex!Drain, CodexIInv, CodexFlow
<1> DEFINE refused(s) == {<<"execution", "stdin">> : x \in {s} \ {"open", "closed", stdin}}
<1>2. PICK s \in (IF stdin = "open" THEN {"open", "closed", "broken"} ELSE {stdin}) :
        stdin' = s /\ Codex!ReadChunks(refused(s), FALSE)
  BY DEF Codex!Drain
<1>3. refused(s) \in SUBSET (Codex!Failures \X Codex!Codes)
  BY CodexFailurePairs
<1>4. s = "broken" /\ stdin # "broken" => refused(s) # {}
  OBVIOUS
<1> HIDE DEF refused
<1>5. Codex!AgeType' /\ CodexReadAs /\ (refused(s) # {} => reason' # "none")
  BY <1>1, <1>2, <1>3, CodexReadChunksKeep DEF CodexLoop
<1>6. /\ s \in {"none", "open", "closed", "broken"} /\ stdin' = s
      /\ (stdin # "none" => s # "none") /\ (stdin = "closed" => s = "closed")
  BY <1>2 DEF CodexIInv, CodexLoopType
<1>7. Codex!GroupType'
  BY <1>1, <1>5 DEF CodexIInv, Codex!GroupType, Codex!AgeType, Codex!groupVars, Codex!callerVars
<1>8. CodexLoopType' /\ CodexWhy'
  BY <1>1, <1>4, <1>5, <1>6 DEF CodexIInv, CodexLoopType, CodexWhy, CodexLoop, CodexReadAs
<1>9. CodexSound'
  BY <1>1, <1>5, <1>6 DEF CodexIInv, CodexSound, CodexLoop, CodexReadAs, Codex!groupVars,
     Codex!Exited
<1> QED
  BY <1>1, <1>7, <1>8, <1>9, CodexGoesOn DEF CodexIInv, CodexFlow, CodexLoop

LEMMA CodexLookStep == CodexIInv /\ Codex!Look => CodexIInv'
<1> SUFFICES ASSUME CodexIInv, Codex!Look PROVE CodexIInv'
  OBVIOUS
<1>1. /\ pc = "look" /\ pc' = "close" /\ report = Codex!Nothing /\ Codex!Reaped
      /\ UNCHANGED <<code, kids, held, killed, Codex!callerVars, stage, forced, tried, shown,
         report>>
  BY DEF Codex!Look, Codex!loopVars, CodexIInv, CodexFlow
<1>2. Codex!RootType' /\ Codex!FlagType' /\ (Codex!Exited => Codex!Exited')
  BY <1>1, Codex!ReapedKeeps, CodexAssumption, Codex!GroupTypeParts DEF CodexIInv,
     Codex!Reaped, Codex!Exited, Codex!FlagType, Codex!callerVars
<1>3. CASE root' # "reaped"
  <2>1. UNCHANGED <<Codex!loopVars, told, age>>
    BY <1>3 DEF Codex!Look
  <2>2. Codex!GroupType'
    BY <1>2, <2>1, Codex!GroupTypeParts, CodexAssumption DEF CodexIInv, Codex!AgeType,
       Codex!GroupType, Codex!RootType, Codex!FlagType
  <2>3. CodexLoopType' /\ CodexWhy' /\ CodexSound'
    BY <1>1, <1>2, <2>1 DEF CodexIInv, CodexLoopType, CodexWhy, CodexSound, CodexLoop,
       Codex!loopVars
  <2> QED
    BY <1>1, <2>1, <2>2, <2>3, CodexGoesOn DEF CodexIInv, CodexFlow, CodexLoop
<1>4. CASE root' = "reaped"
  <2> DEFINE pipes == CASE stdin = "open" /\ held -> {"broken", "closed"}
                        [] stdin = "open" /\ ~held -> {"broken"}
                        [] OTHER -> {stdin}
             refused(s) == {<<"execution", "stdin">> : x \in {s} \ {"none", "closed", stdin}}
  <2>1. PICK s \in pipes : stdin' = s /\ Codex!ReadChunks(refused(s), TRUE)
    BY <1>4 DEF Codex!Look
  <2>2. refused(s) \in SUBSET (Codex!Failures \X Codex!Codes)
    BY CodexFailurePairs
  <2>3. s = "broken" /\ stdin # "broken" => refused(s) # {}
    OBVIOUS
  <2>4. /\ s \in {"none", "open", "closed", "broken"} /\ stdin' = s
        /\ (stdin # "none" => s # "none") /\ (stdin = "closed" => s = "closed")
    <3>1. stdin \in {"none", "open", "closed", "broken"} /\ held \in BOOLEAN
      BY DEF CodexIInv, CodexLoopType, Codex!GroupType
    <3> QED
      BY <2>1, <3>1
  <2> HIDE DEF refused, pipes
  <2>5. Codex!AgeType' /\ CodexReadAs /\ (refused(s) # {} => reason' # "none")
    BY <1>1, <2>1, <2>2, CodexReadChunksKeep DEF CodexLoop
  <2>6. Codex!GroupType'
    BY <1>2, <2>5 DEF Codex!AgeType, Codex!GroupType, Codex!RootType, Codex!FlagType
  <2>7. CodexLoopType' /\ CodexWhy'
    BY <1>1, <2>3, <2>4, <2>5 DEF CodexIInv, CodexLoopType, CodexWhy, CodexLoop, CodexReadAs
  <2>8. CodexSound'
    BY <1>1, <1>2, <2>4, <2>5 DEF CodexIInv, CodexSound, CodexLoop, CodexReadAs
  <2> QED
    BY <1>1, <2>6, <2>7, <2>8, CodexGoesOn DEF CodexIInv, CodexFlow, CodexLoop
<1> QED
  BY <1>3, <1>4

\* A child is called completed on what it did, and by nobody who was told to cancel.
LEMMA CodexDecideKeeps ==
  ASSUME CodexIInv, pc = "close", Codex!Decide
  PROVE  /\ reason' \in {"none", "completed"} \cup Codex!Failures
         /\ failure' \in Codex!Codes \cup {"none"}
         /\ reason' \in {"none", "completed"} <=> failure' = "none"
         /\ told' \in BOOLEAN /\ (reason' = "none" => told' = told /\ reason = "none")
         /\ reason' = "completed" =>
              /\ Codex!Exited /\ eof /\ code = "zero" /\ output = "good" /\ ~told'
              /\ stage = "main" => stdin = "closed"
<1>1. /\ reason \in {"none", "completed"} \cup Codex!Failures
      /\ failure \in Codex!Codes \cup {"none"}
      /\ reason \in {"none", "completed"} <=> failure = "none"
      /\ told \in BOOLEAN /\ stage \in {"probe", "main"}
      /\ (reason = "none" => ~told /\ stdin # "broken") /\ (stage = "main" => stdin # "none")
      /\ (reason = "completed" =>
            /\ Codex!Exited /\ eof /\ code = "zero" /\ output = "good" /\ ~told
            /\ stage = "main" => stdin = "closed")
  BY DEF CodexIInv, CodexLoopType, CodexWhy, CodexSound, CodexLoop
<1>2. CASE Codex!Exited /\ Codex!Closed /\ reason = "none" /\ ~forced
  <2>1. PICK p \in Codex!Candidates :
          reason' = p[1] /\ failure' = p[2] /\ told' = (told \/ p[1] = "cancelled")
    BY <1>2 DEF Codex!Decide
  <2>2. \/ p \in Codex!Failures \X Codex!Codes
        \/ p = <<"completed", "none">> /\ code = "zero" /\ output = "good"
    <3>1. CASE stage = "probe"
      BY <2>1, <3>1, CodexFailurePairs DEF Codex!Candidates
    <3>2. CASE stage = "main" /\ code # "zero"
      BY <2>1, <3>2, CodexFailurePairs DEF Codex!Candidates
    <3>3. CASE stage = "main" /\ code = "zero" /\ output # "good"
      BY <2>1, <3>3, CodexFailurePairs DEF Codex!Candidates
    <3>4. CASE stage = "main" /\ code = "zero" /\ output = "good"
      <4>1. p \in {<<"protocol", "final">>, <<"cancelled", "cancelled">>,
                   <<"timeout", "timeout">>, <<"completed", "none">>}
        BY <2>1, <3>4 DEF Codex!Candidates
      <4> QED
        BY <3>4, <4>1, CodexFailurePairs
    <3> QED
      BY <1>1, <3>1, <3>2, <3>3, <3>4
  <2>3. CASE p \in Codex!Failures \X Codex!Codes
    <3>1. p[1] \in Codex!Failures /\ p[2] \in Codex!Codes
      BY <2>3
    <3>2. p[1] \notin {"none", "completed"} /\ p[2] # "none"
      BY <3>1 DEF Codex!Failures, Codex!Codes
    <3> QED
      BY <1>1, <2>1, <3>1, <3>2
  <2>4. CASE p = <<"completed", "none">> /\ code = "zero" /\ output = "good"
    <3>1. reason' = "completed" /\ failure' = "none" /\ told' = told
      BY <1>1, <2>1, <2>4
    <3> QED
      BY <1>1, <1>2, <2>4, <3>1 DEF Codex!Closed
  <2> QED
    BY <2>2, <2>3, <2>4
<1>3. CASE ~(Codex!Exited /\ Codex!Closed /\ reason = "none" /\ ~forced)
  <2>1. UNCHANGED <<reason, failure, told>>
    BY <1>3 DEF Codex!Decide
  <2> QED
    BY <1>1, <2>1
<1> QED
  BY <1>2, <1>3

\* What the end of a round leaves alone, and what its answer may say of the writer.
CodexCloses(w) ==
  /\ UNCHANGED <<root, code, kids, held, Codex!callerVars, stage, stdin, eof, output, shown>>
  /\ Codex!GroupType' /\ (Codex!Members' <=> Codex!Members) /\ forced' \in BOOLEAN
  /\ tried' \in BOOLEAN
  /\ w \in Codex!Writers /\ (w = "stopped" => ~Codex!Members) /\ (w = "may_live" <=> forced')

LEMMA CodexClosesTypes ==
  ASSUME CodexIInv, pc = "close", Codex!Decide,
         UNCHANGED <<code, stage, stdin, eof, output, shown>>,
         forced' \in BOOLEAN, tried' \in BOOLEAN,
         pc' \in {"control", "between", "over"}, root' = root
  PROVE  CodexLoopType' /\ CodexWhy' /\ CodexSound'
<1>1. CodexLoopType'
  BY CodexDecideKeeps DEF CodexIInv, CodexLoopType, CodexLoop
<1>2. CodexWhy'
  BY CodexDecideKeeps DEF CodexIInv, CodexWhy, CodexLoop
<1>3. CodexSound'
  BY CodexDecideKeeps DEF CodexSound, Codex!Exited
<1> QED
  BY <1>1, <1>2, <1>3

LEMMA CodexCloseAnswers ==
  ASSUME CodexIInv, pc = "close", Codex!Decide, NEW w, CodexCloses(w), Codex!Answer(w)
  PROVE  /\ CodexIInv'
         /\ \/ report' = report
            \/ \E t \in Codex!Failures \cup {"completed"} : CodexReportedAs(t, w)
<1> DEFINE t == IF reason' = "none" THEN "execution" ELSE reason'
           y == IF reason' = "none" THEN "close_timeout" ELSE failure'
<1>1. /\ reason' \in {"none", "completed"} \cup Codex!Failures
      /\ failure' \in Codex!Codes \cup {"none"}
      /\ reason' \in {"none", "completed"} <=> failure' = "none"
      /\ (reason' = "completed" =>
            /\ Codex!Exited /\ eof /\ code = "zero" /\ output = "good" /\ ~told'
            /\ stage = "main" => stdin = "closed")
  BY CodexDecideKeeps
<1>2. /\ t \in Codex!Failures \cup {"completed"} /\ y \in Codex!Codes \cup {"none"}
      /\ (t = "completed" <=> y = "none") /\ (t = "completed" => reason' = "completed")
  BY <1>1 DEF Codex!Failures, Codex!Codes
<1>3. Codex!Returned(t, w, y)
  BY DEF Codex!Answer
<1> HIDE DEF t, y
<1>4. /\ w \in Codex!Writers /\ report = Codex!Nothing /\ stage \in {"probe", "main"}
      /\ UNCHANGED <<root, code, kids, held, Codex!callerVars, stage, stdin, eof, output,
         shown>>
      /\ Codex!GroupType' /\ (Codex!Members' <=> Codex!Members) /\ forced' \in BOOLEAN
      /\ tried' \in BOOLEAN
      /\ (w = "stopped" => ~Codex!Members) /\ (w = "may_live" <=> forced')
      /\ (stage = "probe" => ~shown)
  BY DEF CodexCloses, CodexIInv, CodexFlow, CodexLoopType
<1>5. CASE stage = "probe" /\ t = "completed" /\ w = "stopped" /\ pc' = "between"
             /\ report' = report
  <2>1. CodexLoopType' /\ CodexWhy' /\ CodexSound'
    BY <1>4, <1>5, CodexClosesTypes
  <2> QED
    BY <1>1, <1>2, <1>4, <1>5, <2>1, CodexGoesOn DEF CodexLoop
<1>6. ASSUME stage = "probe", NEW f \in Codex!Failures, CodexReportedAs(f, w)
      PROVE  CodexIInv'
  <2>1. f # "completed" /\ pc' = "over"
    BY <1>6 DEF Codex!Failures, CodexReportedAs
  <2>2. CodexLoopType' /\ CodexWhy'
    BY <1>4, <2>1, CodexClosesTypes
  <2> QED
    BY <1>4, <1>6, <2>1, <2>2, CodexAnswers
<1>7. CASE stage = "main" /\ CodexReportedAs(t, w)
  <2>1. pc' = "over"
    BY <1>7 DEF CodexReportedAs
  <2>2. CodexLoopType' /\ CodexWhy'
    BY <1>4, <2>1, CodexClosesTypes
  <2>3. t = "completed" =>
          /\ Codex!Exited' /\ stdin' = "closed" /\ eof' /\ code' = "zero" /\ output' = "good"
          /\ ~told' /\ (w = "may_live" <=> forced')
    BY <1>1, <1>2, <1>4, <1>7 DEF Codex!Exited
  <2>4. Codex!GroupType' /\ (stage' = "probe" => ~shown') /\ CodexReportedAs(t, w)
    BY <1>4, <1>7
  <2>5. CodexIInv'
    BY <2>2, <2>3, <2>4, CodexAnswers
  <2> QED
    BY <1>2, <2>4, <2>5
<1>8. \/ stage = "probe" /\ t = "completed" /\ w = "stopped" /\ pc' = "between"
         /\ report' = report
      \/ stage = "probe" /\ (\E f \in Codex!Failures : CodexReportedAs(f, w))
      \/ stage = "main" /\ CodexReportedAs(t, w)
  BY <1>1, <1>2, <1>3, <1>4, CodexReturnedGives
<1> QED
  BY <1>2, <1>5, <1>6, <1>7, <1>8

\* TERM and KILL: the flags and the clock of the signals.
LEMMA CodexSignalKeeps ==
  ASSUME CodexIInv, Codex!Signal, UNCHANGED <<root, code, kids, held, Codex!callerVars>>
  PROVE  Codex!GroupType' /\ (Codex!Members' <=> Codex!Members) /\ forced' \in BOOLEAN
           /\ tried' \in BOOLEAN
<1>1. Codex!AgeType'
  <2>1. 0 \in Codex!Unset .. Limit
    BY NativeGroupAssumption, SMT DEF Codex!Unset
  <2> QED
    BY <2>1, Codex!GroupTypeParts, CodexAssumption DEF CodexIInv, Codex!AgeType, Codex!Signal,
       Codex!Stamp
<1>2. killed' \in BOOLEAN
  BY Codex!KillType, CodexAssumption, Codex!GroupTypeParts DEF CodexIInv, Codex!Signal,
     Codex!GroupType
<1>3. forced' \in BOOLEAN /\ tried' \in BOOLEAN
  BY DEF Codex!Signal, CodexIInv, CodexLoopType, Codex!Group, Codex!GroupType
<1> QED
  BY <1>1, <1>2, <1>3 DEF CodexIInv, Codex!GroupType, Codex!AgeType, Codex!callerVars,
     Codex!Members

LEMMA CodexCloseGives ==
  ASSUME CodexIInv, Codex!Close
  PROVE  /\ CodexIInv' /\ (Codex!Members' <=> Codex!Members) /\ report = Codex!Nothing
         /\ \/ report' = report
            \/ \E w \in Codex!Writers, t \in Codex!Failures \cup {"completed"} :
                 CodexReportedAs(t, w) /\ (w = "stopped" => ~Codex!Members)
<1>1. /\ pc = "close" /\ Codex!Decide /\ report = Codex!Nothing
      /\ UNCHANGED <<root, code, kids, held, Codex!callerVars, stage, stdin, eof, output,
         shown>>
      /\ forced \in BOOLEAN /\ tried \in BOOLEAN
      /\ {"stopped", "may_live", "unknown"} = Codex!Writers
  BY DEF Codex!Close, CodexIInv, CodexFlow, CodexLoopType, Codex!Writers
<1>2. CASE /\ Codex!Natural /\ Codex!Answer(IF forced THEN "may_live" ELSE "stopped")
           /\ UNCHANGED <<forced, tried, killed, age>>
  <2> DEFINE w == IF forced THEN "may_live" ELSE "stopped"
  <2>1. w \in Codex!Writers /\ (w = "may_live" <=> forced) /\ Codex!Answer(w)
    BY <1>1, <1>2
  <2>2. ~Codex!Members
    BY <1>2, Codex!GoneHasNoMembers, CodexAssumption DEF Codex!Natural
  <2>3. Codex!GroupType' /\ (Codex!Members' <=> Codex!Members)
    BY <1>1, <1>2 DEF CodexIInv, Codex!GroupType, Codex!callerVars, Codex!Members
  <2> HIDE DEF w
  <2>4. CodexCloses(w)
    BY <1>1, <1>2, <2>1, <2>2, <2>3 DEF CodexCloses
  <2> QED
    BY <1>1, <2>1, <2>2, <2>3, <2>4, CodexCloseAnswers
<1>3. CASE ~Codex!Natural /\ Codex!Started("cleanup") /\ Codex!Signal /\ Codex!Spent
           /\ Codex!Answer(IF forced' THEN "may_live" ELSE "unknown")
  <2> DEFINE w == IF forced' THEN "may_live" ELSE "unknown"
  <2>1. w \in Codex!Writers /\ (w = "may_live" <=> forced') /\ w # "stopped" /\ Codex!Answer(w)
    BY <1>1, <1>3
  <2>2. Codex!GroupType' /\ (Codex!Members' <=> Codex!Members) /\ forced' \in BOOLEAN
          /\ tried' \in BOOLEAN
    BY <1>1, <1>3, CodexSignalKeeps
  <2> HIDE DEF w
  <2>3. CodexCloses(w)
    BY <1>1, <2>1, <2>2 DEF CodexCloses
  <2> QED
    BY <1>1, <2>1, <2>2, <2>3, CodexCloseAnswers
<1>4. CASE pc' = "control" /\ UNCHANGED report
           /\ (Codex!Signal \/ UNCHANGED <<forced, tried, killed, age>>)
  <2>1. Codex!GroupType' /\ (Codex!Members' <=> Codex!Members) /\ forced' \in BOOLEAN
          /\ tried' \in BOOLEAN
    <3>1. CASE Codex!Signal
      BY <1>1, <3>1, CodexSignalKeeps
    <3>2. CASE UNCHANGED <<forced, tried, killed, age>>
      BY <1>1, <3>2 DEF CodexIInv, Codex!GroupType, Codex!callerVars, Codex!Members
    <3> QED
      BY <1>4, <3>1, <3>2
  <2>2. CodexLoopType' /\ CodexWhy' /\ CodexSound'
    BY <1>1, <1>4, <2>1, CodexClosesTypes
  <2> QED
    BY <1>1, <1>4, <2>1, <2>2, CodexGoesOn DEF CodexIInv, CodexFlow, CodexLoop
<1> QED
  BY <1>2, <1>3, <1>4 DEF Codex!Close

LEMMA CodexCleanUpStep == CodexIInv /\ Codex!CleanUp => CodexIInv'
<1> SUFFICES ASSUME CodexIInv, Codex!CleanUp PROVE CodexIInv'
  OBVIOUS
<1>1. /\ pc = "raise" /\ pc' = "wait" /\ report = Codex!Nothing
      /\ age' = [c \in Codex!Clocks |-> IF c = "term" THEN 0 ELSE Codex!Unset]
      /\ UNCHANGED <<Codex!groupVars, Codex!callerVars, Codex!loopVars, told, shown, report>>
  BY DEF Codex!CleanUp, CodexIInv, CodexFlow
<1>2. 0 \in Codex!Unset .. Limit /\ Codex!Unset \in Codex!Unset .. Limit
  BY NativeGroupAssumption, SMT DEF Codex!Unset
<1>3. Codex!GroupType' /\ CodexLoopType' /\ CodexWhy' /\ CodexSound'
  BY <1>1, <1>2
  DEF CodexIInv, Codex!GroupType, CodexLoopType, CodexWhy, CodexSound, CodexLoop,
     Codex!groupVars, Codex!callerVars, Codex!loopVars
<1> QED
  BY <1>1, <1>3, CodexGoesOn DEF CodexIInv, CodexFlow, CodexLoop, Codex!loopVars

LEMMA CodexWaitChildStep ==
  CodexIInv /\ Codex!WaitChild => CodexIInv' /\ Codex!Members' = Codex!Members
<1> SUFFICES ASSUME CodexIInv, Codex!WaitChild
             PROVE  CodexIInv' /\ Codex!Members' = Codex!Members
  OBVIOUS
<1>1. /\ pc = "wait" /\ pc' = "over" /\ report' = Codex!Raised /\ Codex!Reaped
      /\ (Codex!Members => Codex!Kill) /\ (~Codex!Members => killed' = killed)
      /\ UNCHANGED <<code, kids, held, Codex!callerVars, age, Codex!loopVars, told, shown>>
  BY DEF Codex!WaitChild, Codex!Over
<1>2. Codex!RootType' /\ Codex!Members' = Codex!Members /\ killed' \in BOOLEAN
        /\ (Codex!Members => killed')
  BY <1>1, Codex!ReapedKeeps, CodexAssumption, Codex!KillType, CodexAssumption,
     Codex!GroupTypeParts DEF CodexIInv, Codex!FlagType
<1>3. Codex!GroupType'
  BY <1>1, <1>2 DEF CodexIInv, Codex!GroupType, Codex!RootType, Codex!callerVars
<1>4. CodexLoopType' /\ CodexFlow' /\ CodexWhy' /\ CodexSound'
  BY <1>1, CodexSaidApart DEF CodexIInv, CodexLoopType, CodexFlow, CodexWhy, CodexSound,
     CodexLoop, Codex!loopVars
<1>5. CodexReportedSound' /\ Codex!CompletedIsWhole' /\ Codex!Accepted' /\ Codex!RaisedIsKilled'
  BY <1>1, <1>2, CodexSaidApart DEF CodexReportedSound, Codex!CompletedIsWhole,
     Codex!Accepted, Codex!RaisedIsKilled
<1> QED
  BY <1>1, <1>2, <1>3, <1>4, <1>5 DEF CodexIInv

LEMMA CodexStepInv == CodexIInv /\ [Codex!Next]_(Codex!vars) => CodexIInv'
<1>1. CASE UNCHANGED Codex!vars
  BY <1>1
  DEF CodexIInv, Codex!GroupType, CodexLoopType, CodexFlow, CodexWhy, CodexSound,
     CodexReportedSound, Codex!CompletedIsWhole, Codex!Accepted,
      Codex!RaisedIsKilled, Codex!Members, Codex!Exited, Codex!vars, Codex!osVars,
      Codex!groupVars, Codex!callerVars, Codex!loopVars
<1> QED
  BY <1>1, CodexAroundStep, CodexPreflightStep, CodexBetweenStep, CodexStartStep,
     CodexCallStartedStep, CodexControlStep,
     CodexPollRaisesStep, CodexDrainStep, CodexLookStep, CodexCloseGives, CodexCleanUpStep,
     CodexWaitChildStep
  DEF Codex!Next, Codex!Adapter

-----------------------------------------------------------------------------
(* Pi, with time passing only in poll() *)

LEMMA PiAssumption == Pi!NativeGroupAssumption
  BY NativeGroupAssumption DEF Pi!NativeGroupAssumption

\* The steps of a round.
PiLoop == {"control", "drain", "look", "close"}

PiLoopType ==
  /\ pc \in PiLoop \cup {"preflight", "between", "start", "started", "raise", "over"}
  /\ stage \in {"probe", "main"}
  /\ reason \in {"none", "completed"} \cup Pi!Failures
  /\ failure \in Pi!Codes \cup {"none"}
  /\ output \in {"none", "bad", "good", "ended"}
  /\ eof \in BOOLEAN /\ forced \in BOOLEAN /\ tried \in BOOLEAN
  /\ told \in BOOLEAN /\ shown \in BOOLEAN

\* Nothing is started beside a group; the answer comes last; Core has the pid of the
\* invocation and not of the probe; before a child there is no group.
PiFlow ==
  /\ pc \in {"preflight", "between", "start"} => ~Pi!Members
  /\ pc \in {"preflight", "between", "start", "started"} => ~told
  /\ pc \in {"preflight", "between"} => stage = "probe"
  /\ pc = "over" <=> report # Pi!Nothing
  /\ stage = "probe" => ~shown
  /\ root = "none" => ~kids

\* A classification goes with a failure unless it is completed; a cancellation seen has
\* become the classification, or came after it.
PiWhy ==
  /\ reason \in {"none", "completed"} <=> failure = "none"
  /\ pc \in PiLoop /\ reason = "none" => ~told

\* What a decision to call the child completed was based on stays as it was.
PiSound ==
  pc \in PiLoop \cup {"started"} /\ reason = "completed" =>
    Pi!Exited /\ eof /\ code = "zero" /\ output = "good" /\ ~told

\* Once poll() is behind a round, a cleanup that is old enough has tried KILL.
PiOld ==
  pc \in PiLoop \ {"control"} /\ Pi!Since("cleanup") >= Grace => tried \/ ~Pi!Members

\* What is still true after an answer.
PiLasting ==
  report.said = "result" /\ report.transport = "completed" => Pi!Exited

\* MCAdapters promises this much of an exception.
PiRaisedIsSeen ==
  report = Pi!Raised => killed \/ ~Pi!Members \/ root \in {"exited", "reaped"}

PiIInv == Pi!GroupType /\ PiLoopType /\ PiFlow /\ PiWhy /\ PiSound /\ PiOld
        /\ report \in Pi!Reports \cup {Pi!Nothing, Pi!Raised}
        /\ PiLasting /\ Pi!CompletedIsWhole /\ Pi!Accepted /\ PiRaisedIsSeen
        /\ Pi!KilledBeforeGivenUp

LEMMA PiTypeOKParts ==
  Pi!TypeOK <=> Pi!GroupType /\ PiLoopType /\ report \in Pi!Reports \cup {Pi!Nothing, Pi!Raised}
  BY DEF Pi!TypeOK, PiLoopType, PiLoop

LEMMA PiSaidApart == Pi!Nothing # Pi!Raised /\ Pi!Nothing.said = "nothing"
                       /\ Pi!Raised.said = "raised"
  BY SMT DEF Pi!Nothing, Pi!Raised

LEMMA PiUnanswered ==
  ASSUME report = Pi!Nothing
  PROVE  PiLasting /\ Pi!CompletedIsWhole /\ Pi!Accepted /\ PiRaisedIsSeen
           /\ Pi!KilledBeforeGivenUp
  BY PiSaidApart DEF PiLasting, Pi!CompletedIsWhole, Pi!Accepted, PiRaisedIsSeen,
     Pi!KilledBeforeGivenUp

LEMMA PiInitInv == Pi!Init => PiIInv
<1> SUFFICES ASSUME Pi!Init PROVE PiIInv
  OBVIOUS
<1>1. Pi!GroupType /\ ~Pi!Members
  BY Pi!GroupInitType, PiAssumption DEF Pi!Init
<1>2. PiLoopType
  BY DEF Pi!Init, PiLoopType
<1>3. PiFlow /\ PiWhy /\ PiSound /\ PiOld
  BY <1>1 DEF Pi!Init, Pi!GroupInit, PiFlow, PiWhy, PiSound, PiOld, PiLoop
<1> QED
  BY <1>1, <1>2, <1>3, PiUnanswered DEF Pi!Init, PiIInv

LEMMA PiFailurePairs ==
  /\ <<"cancelled", "cancelled">> \in Pi!Failures \X Pi!Codes
  /\ <<"timeout", "timeout">> \in Pi!Failures \X Pi!Codes
  /\ <<"execution", "prompt_changed">> \in Pi!Failures \X Pi!Codes
  /\ <<"execution", "version_timeout">> \in Pi!Failures \X Pi!Codes
  /\ <<"execution", "limit">> \in Pi!Failures \X Pi!Codes
  /\ <<"protocol", "events">> \in Pi!Failures \X Pi!Codes
  /\ <<"execution", "version_mismatch">> \in Pi!Failures \X Pi!Codes
  /\ <<"execution", "nonzero_exit">> \in Pi!Failures \X Pi!Codes
  /\ <<"execution", "final_failure">> \in Pi!Failures \X Pi!Codes
  /\ <<"protocol", "final_tool_call">> \in Pi!Failures \X Pi!Codes
  /\ <<"protocol", "model_mismatch">> \in Pi!Failures \X Pi!Codes
  /\ <<"protocol", "text_too_large">> \in Pi!Failures \X Pi!Codes
  /\ <<"protocol", "invalid_text">> \in Pi!Failures \X Pi!Codes
  /\ <<"protocol", "incomplete">> \in Pi!Failures \X Pi!Codes
  BY DEF Pi!Failures, Pi!Codes

PiClasses == (Pi!Failures \X Pi!Codes) \cup {<<"completed", "none">>}

\* The classification is made once, and keeps its code.
PiClassified ==
  /\ reason' \in {"none", "completed"} \cup Pi!Failures /\ failure' \in Pi!Codes \cup {"none"}
  /\ reason' \in {"none", "completed"} <=> failure' = "none"
  /\ reason # "none" => reason' = reason

LEMMA PiClassifyKeeps ==
  ASSUME NEW pairs \in SUBSET PiClasses, Pi!Classify(pairs), PiIInv
  PROVE  /\ PiClassified
         /\ pairs # {} => reason' # "none"
         /\ reason' = "completed" => reason = "completed" \/ <<"completed", "none">> \in pairs
<1>1. /\ reason \in {"none", "completed"} \cup Pi!Failures /\ failure \in Pi!Codes \cup {"none"}
      /\ reason \in {"none", "completed"} <=> failure = "none"
  BY DEF PiIInv, PiLoopType, PiWhy
<1>2. CASE reason # "none" \/ pairs = {}
  BY <1>1, <1>2 DEF Pi!Classify, PiClassified
<1>3. CASE ~(reason # "none" \/ pairs = {})
  <2>1. PICK p \in pairs : reason' = p[1] /\ failure' = p[2]
    BY <1>3 DEF Pi!Classify
  <2>2. CASE p = <<"completed", "none">>
    BY <1>3, <2>1, <2>2 DEF PiClassified
  <2>3. CASE p \in Pi!Failures \X Pi!Codes
    <3>1. p[1] \in Pi!Failures /\ p[2] \in Pi!Codes
      BY <2>3
    <3>2. p[1] \notin {"none", "completed"} /\ p[2] # "none"
      BY <3>1 DEF Pi!Failures, Pi!Codes
    <3> QED
      BY <1>3, <2>1, <3>1, <3>2 DEF PiClassified
  <2> QED
    BY <2>2, <2>3 DEF PiClasses
<1> QED
  BY <1>2, <1>3

-----------------------------------------------------------------------------
(* Pi: the results *)

LEMMA PiResultFields ==
  ASSUME NEW phase \in {"preflight", "invocation"},
         NEW transport \in Pi!Failures \cup {"completed"},
         NEW writer \in Pi!Writers, NEW why \in Pi!Codes \cup {"none"},
         NEW protocol \in {"not_started", "settled", "invalid", "incomplete"},
         NEW r, r = Pi!Result(phase, transport, writer, why, protocol)
  PROVE  /\ r.said = "result" /\ r.phase = phase /\ r.transport = transport
         /\ r.writer = writer /\ r.failure = why /\ r.protocol = protocol
         /\ (r.text <=> phase = "invocation" /\ transport = "completed")
         /\ r \in Pi!Reports /\ r # Pi!Nothing /\ r # Pi!Raised
<1> DEFINE text == phase = "invocation" /\ transport = "completed"
<1>1. r = [said |-> "result", phase |-> phase, transport |-> transport, writer |-> writer,
           failure |-> why, protocol |-> protocol, text |-> text]
  BY DEF Pi!Result
<1>2. text \in BOOLEAN
  OBVIOUS
<1> HIDE DEF text
<1>3. /\ r.said = "result" /\ r.phase = phase /\ r.transport = transport
      /\ r.writer = writer /\ r.failure = why /\ r.protocol = protocol /\ r.text = text
  BY <1>1
<1>4. r \in Pi!Reports
  BY <1>1, <1>2 DEF Pi!Reports
<1>5. r # Pi!Nothing /\ r # Pi!Raised
  BY <1>3, PiSaidApart
<1> QED
  BY <1>3, <1>4, <1>5 DEF text

\* A result as the validator wants it, with the transport t and the writer w.
PiReportedAs(t, w) ==
  /\ pc' = "over" /\ report' \in Pi!Reports /\ report' # Pi!Nothing /\ report' # Pi!Raised
  /\ report'.said = "result" /\ report'.transport = t /\ report'.writer = w /\ Pi!Accepted'

LEMMA PiRefusedBefore ==
  ASSUME PiIInv, stage = "probe", shown' = shown, NEW t \in Pi!Failures, NEW w \in Pi!Writers,
         NEW y \in Pi!Codes, Pi!Over(Pi!Result("preflight", t, w, y, "not_started"))
  PROVE  PiReportedAs(t, w)
<1>1. /\ t \in Pi!Failures \cup {"completed"} /\ t # "completed" /\ y # "none"
      /\ y \in Pi!Codes \cup {"none"} /\ ~shown
  BY DEF Pi!Failures, Pi!Codes, PiIInv, PiFlow
<1>2. report' = Pi!Result("preflight", t, w, y, "not_started") /\ pc' = "over"
  BY DEF Pi!Over
<1>3. /\ report'.said = "result" /\ report'.phase = "preflight" /\ report'.transport = t
      /\ report'.writer = w /\ report'.failure = y /\ report'.protocol = "not_started"
      /\ ~report'.text /\ report' \in Pi!Reports /\ report' # Pi!Nothing /\ report' # Pi!Raised
  BY <1>1, <1>2, PiResultFields
<1> QED
  BY <1>1, <1>2, <1>3 DEF PiReportedAs, Pi!Accepted

\* What is made of the transport, the writer and the code with which the loop is left:
\* the probe's success is not an answer.
LEMMA PiReturnedGives ==
  ASSUME PiIInv, shown' = shown, NEW t \in Pi!Failures \cup {"completed"}, NEW w \in Pi!Writers,
         NEW y \in Pi!Codes \cup {"none"}, t = "completed" <=> y = "none",
         t = "completed" /\ stage = "main" => output' = "good",
         Pi!Returned(t, w, y)
  PROVE  \/ /\ stage = "probe" /\ t = "completed" /\ w = "stopped"
            /\ pc' = "between" /\ report' = report
         \/ stage = "probe" /\ (\E f \in Pi!Failures : PiReportedAs(f, w))
         \/ stage = "main" /\ PiReportedAs(t, w)
<1>1. stage \in {"probe", "main"}
  BY DEF PiIInv, PiLoopType
<1>2. CASE stage = "main"
  <2> DEFINE p == Pi!Protocol
  <2>1. report' = Pi!Result("invocation", t, w, y, p) /\ pc' = "over"
    BY <1>2 DEF Pi!Returned, Pi!Over
  <2>2. /\ p \in {"settled", "invalid", "incomplete"} /\ p # "not_started"
        /\ (t = "completed" => p = "settled")
    BY <1>2 DEF Pi!Protocol
  <2> HIDE DEF p
  <2>3. p \in {"not_started", "settled", "invalid", "incomplete"}
    BY <2>2
  <2>4. /\ report'.said = "result" /\ report'.phase = "invocation"
        /\ report'.transport = t /\ report'.writer = w
        /\ report'.failure = y /\ report'.protocol = p
        /\ (report'.text <=> t = "completed")
        /\ report' \in Pi!Reports /\ report' # Pi!Nothing /\ report' # Pi!Raised
    BY <2>1, <2>3, PiResultFields
  <2> QED
    BY <1>2, <2>1, <2>2, <2>4 DEF PiReportedAs, Pi!Accepted
<1>3. CASE stage = "probe" /\ t = "completed" /\ w = "stopped"
  BY <1>3 DEF Pi!Returned
<1>4. CASE stage = "probe" /\ t = "completed" /\ w # "stopped"
  <2>1. Pi!Over(Pi!Result("preflight", "execution", w, "cleanup", "not_started"))
    BY <1>4 DEF Pi!Returned
  <2>2. "execution" \in Pi!Failures /\ "cleanup" \in Pi!Codes
    BY DEF Pi!Failures, Pi!Codes
  <2> QED
    BY <1>4, <2>1, <2>2, PiRefusedBefore
<1>5. CASE stage = "probe" /\ t # "completed"
  <2>1. Pi!Over(Pi!Result("preflight", t, w, y, "not_started"))
    BY <1>5 DEF Pi!Returned
  <2>2. t \in Pi!Failures /\ y \in Pi!Codes
    BY <1>5
  <2> QED
    BY <1>5, <2>1, <2>2, PiRefusedBefore
<1> QED
  BY <1>1, <1>2, <1>3, <1>4, <1>5

-----------------------------------------------------------------------------
(* Pi: the steps *)

\* A step that gives no answer.
LEMMA PiGoesOn ==
  ASSUME PiIInv, report = Pi!Nothing, report' = report, pc' # "over",
         Pi!GroupType', PiLoopType', PiWhy', PiSound', PiOld',
         pc' \in {"preflight", "between", "start"} => ~Pi!Members' /\ ~told',
         pc' = "started" => ~told', pc' \in {"preflight", "between"} => stage' = "probe",
         stage' = "probe" => ~shown', root' = "none" => ~kids'
  PROVE  PiIInv'
<1>1. report' = Pi!Nothing
  OBVIOUS
<1>2. PiLasting' /\ Pi!CompletedIsWhole' /\ Pi!Accepted' /\ PiRaisedIsSeen'
        /\ Pi!KilledBeforeGivenUp'
  BY <1>1, PiSaidApart
  DEF PiLasting, Pi!CompletedIsWhole, Pi!Accepted, PiRaisedIsSeen, Pi!KilledBeforeGivenUp
<1>3. PiFlow'
  BY <1>1 DEF PiFlow
<1> QED
  BY <1>1, <1>2, <1>3 DEF PiIInv

\* A step that answers.
LEMMA PiAnswers ==
  ASSUME NEW t, NEW w, PiReportedAs(t, w), Pi!GroupType', PiLoopType', PiWhy',
         stage' = "probe" => ~shown', root' = "none" => ~kids',
         w = "may_live" /\ Pi!Members' => tried',
         t = "completed" =>
           /\ Pi!Exited' /\ eof' /\ code' = "zero" /\ output' = "good" /\ ~told'
           /\ (w = "stopped" => ~forced' /\ ~Pi!Members')
  PROVE  PiIInv'
<1>1. /\ pc' = "over" /\ report' \in Pi!Reports /\ report' # Pi!Nothing /\ report' # Pi!Raised
      /\ report'.said = "result" /\ report'.transport = t /\ report'.writer = w /\ Pi!Accepted'
  BY DEF PiReportedAs
<1>2. PiFlow' /\ PiSound' /\ PiOld'
  BY <1>1 DEF PiFlow, PiSound, PiOld, PiLoop
<1>3. PiLasting' /\ Pi!CompletedIsWhole' /\ PiRaisedIsSeen' /\ Pi!KilledBeforeGivenUp'
  BY <1>1 DEF PiLasting, Pi!CompletedIsWhole, PiRaisedIsSeen, Pi!KilledBeforeGivenUp
<1> QED
  BY <1>1, <1>2, <1>3 DEF PiIInv

\* Time passes only while poll() is asked.
LEMMA PiOnlyPollIsSlow ==
  ASSUME Pi!Surroundings, pc # "control"
  PROVE  age' = age
  BY DEF Pi!Surroundings, Pi!Tick, PollTime

\* Before the child there is no group, and what happens around starts none.
LEMMA PiNoChildNoGroup ==
  ASSUME Pi!Surroundings, root = "none" => ~kids
  PROVE  root' = "none" => ~kids'
<1>1. CASE Pi!GroupMoves
  BY <1>1 DEF Pi!GroupMoves, Pi!Fork, Pi!LetGo, Pi!RootExits, Pi!KidsEnd, Pi!Members
<1>2. CASE UNCHANGED Pi!groupVars
  BY <1>2 DEF Pi!groupVars
<1> QED
  BY <1>1, <1>2 DEF Pi!Surroundings

LEMMA PiAroundStep == PiIInv /\ Pi!Around => PiIInv'
<1> SUFFICES ASSUME PiIInv, Pi!Around PROVE PiIInv'
  OBVIOUS
<1>1. /\ Pi!GroupType' /\ (~Pi!Members => ~Pi!Members') /\ killed' = killed
      /\ (Pi!Exited' <=> Pi!Exited) /\ (Pi!Exited => code' = code)
      /\ (root \in {"exited", "reaped"} => root' \in {"exited", "reaped"})
  <2>1. root = "exited" => root' = "exited"
    BY DEF Pi!Around, Pi!Surroundings, Pi!GroupMoves, Pi!Fork, Pi!LetGo, Pi!RootExits,
       Pi!KidsEnd, Pi!groupVars
  <2> QED
    BY <2>1, Pi!SurroundingsKeep, PiAssumption DEF PiIInv, Pi!Around, Pi!Exited
<1>2. UNCHANGED <<pc, Pi!loopVars, told, shown, report>>
  BY DEF Pi!Around
<1>3. PiLoopType' /\ PiWhy'
  BY <1>2 DEF PiIInv, PiLoopType, PiWhy, Pi!loopVars
<1>4. PiFlow'
  <2>1. root' = "none" => ~kids'
    BY PiNoChildNoGroup DEF PiIInv, PiFlow, Pi!Around
  <2> QED
    BY <1>1, <1>2, <2>1 DEF PiIInv, PiFlow, Pi!loopVars
<1>5. PiSound'
  BY <1>1, <1>2 DEF PiIInv, PiSound, Pi!loopVars
<1>6. PiOld'
  BY <1>1, <1>2, PiOnlyPollIsSlow DEF PiIInv, PiOld, Pi!Around, Pi!loopVars, Pi!Since, PiLoop
<1>7. PiLasting' /\ Pi!CompletedIsWhole' /\ Pi!Accepted' /\ PiRaisedIsSeen'
        /\ Pi!KilledBeforeGivenUp'
  BY <1>1, <1>2
  DEF PiIInv, PiLasting, Pi!CompletedIsWhole, Pi!Accepted, PiRaisedIsSeen,
     Pi!KilledBeforeGivenUp, Pi!loopVars
<1> QED
  BY <1>1, <1>2, <1>3, <1>4, <1>5, <1>6, <1>7 DEF PiIInv

LEMMA PiPreflightStep == PiIInv /\ Pi!Preflight => PiIInv'
<1> SUFFICES ASSUME PiIInv, Pi!Preflight PROVE PiIInv'
  OBVIOUS
<1>1. /\ pc = "preflight" /\ stage = "probe" /\ report = Pi!Nothing /\ ~Pi!Members /\ ~told
      /\ ~shown
      /\ (root = "none" => ~kids)
      /\ UNCHANGED <<Pi!osVars, Pi!loopVars, told, shown>>
  BY DEF Pi!Preflight, PiIInv, PiFlow
<1>2. Pi!GroupType' /\ Pi!Members' = Pi!Members /\ root' = root /\ kids' = kids
  BY <1>1 DEF PiIInv, Pi!GroupType, Pi!osVars, Pi!groupVars, Pi!callerVars, Pi!Members
<1>3. CASE pc' = "start" /\ UNCHANGED report
  <2>1. PiLoopType' /\ PiWhy' /\ PiSound' /\ PiOld'
    BY <1>1, <1>3 DEF PiIInv, PiLoopType, PiWhy, PiSound, PiOld, PiLoop, Pi!loopVars
  <2> QED
    BY <1>1, <1>2, <1>3, <2>1, PiGoesOn DEF Pi!loopVars
<1>4. CASE Pi!Over(Pi!Result("preflight", "execution", "stopped", "host", "not_started"))
  <2>1. /\ "execution" \in Pi!Failures /\ "host" \in Pi!Codes /\ "stopped" \in Pi!Writers
        /\ "execution" # "completed"
    BY DEF Pi!Failures, Pi!Codes, Pi!Writers
  <2>2. PiReportedAs("execution", "stopped")
    BY <1>1, <1>4, <2>1, PiRefusedBefore
  <2>3. PiLoopType' /\ PiWhy' /\ stage' = stage
    BY <1>1, <1>4, <2>2 DEF PiIInv, PiLoopType, PiWhy, PiLoop, PiReportedAs, Pi!loopVars
  <2> QED
    BY <1>1, <1>2, <2>1, <2>2, <2>3, PiAnswers
<1> QED
  BY <1>3, <1>4 DEF Pi!Preflight

LEMMA PiCheckPromptStep == PiIInv /\ Pi!CheckPrompt => PiIInv'
<1> SUFFICES ASSUME PiIInv, Pi!CheckPrompt PROVE PiIInv'
  OBVIOUS
<1>1. /\ pc = "between" /\ stage = "probe" /\ report = Pi!Nothing /\ ~Pi!Members /\ ~told
      /\ ~shown
      /\ (root = "none" => ~kids)
      /\ UNCHANGED <<Pi!osVars, reason, failure, eof, output, forced, tried, told, shown>>
  BY DEF Pi!CheckPrompt, PiIInv, PiFlow
<1>2. Pi!GroupType' /\ Pi!Members' = Pi!Members /\ root' = root /\ kids' = kids
  BY <1>1 DEF PiIInv, Pi!GroupType, Pi!osVars, Pi!groupVars, Pi!callerVars, Pi!Members
<1>3. CASE pc' = "start" /\ stage' = "main" /\ UNCHANGED report
  <2>1. PiLoopType' /\ PiWhy' /\ PiSound' /\ PiOld'
    BY <1>1, <1>3 DEF PiIInv, PiLoopType, PiWhy, PiSound, PiOld, PiLoop
  <2> QED
    BY <1>1, <1>2, <1>3, <2>1, PiGoesOn
<1>4. ASSUME NEW p \in Pi!Failures \X Pi!Codes, UNCHANGED stage,
             Pi!Over(Pi!Result("preflight", p[1], "stopped", p[2], "not_started"))
      PROVE  PiIInv'
  <2>1. PiReportedAs(p[1], "stopped") /\ p[1] # "completed"
    BY <1>1, <1>4, PiRefusedBefore DEF Pi!Failures, Pi!Writers
  <2>2. PiLoopType' /\ PiWhy'
    BY <1>1, <1>4, <2>1 DEF PiIInv, PiLoopType, PiWhy, PiLoop, PiReportedAs
  <2> QED
    BY <1>1, <1>2, <1>4, <2>1, <2>2, PiAnswers
<1> QED
  BY <1>1, <1>3, <1>4, PiFailurePairs DEF Pi!CheckPrompt

LEMMA PiStartStep == PiIInv /\ Pi!Start => PiIInv'
<1> SUFFICES ASSUME PiIInv, Pi!Start PROVE PiIInv'
  OBVIOUS
<1>1. /\ pc = "start" /\ report = Pi!Nothing /\ ~Pi!Members /\ ~told /\ (root = "none" => ~kids)
      /\ reason' = "none" /\ failure' = "none" /\ eof' = FALSE /\ output' = "none"
      /\ forced' = FALSE /\ tried' = FALSE /\ told' = (told \/ wanted)
      /\ UNCHANGED <<stage, wanted, late, shown>>
  BY DEF Pi!Start, PiIInv, PiFlow
<1>2. /\ told' \in BOOLEAN /\ shown' \in BOOLEAN /\ (stage' = "probe" => ~shown')
      /\ stage' \in {"probe", "main"}
  BY <1>1 DEF PiIInv, PiLoopType, PiFlow, Pi!GroupType
<1>3. ASSUME NEW t \in Pi!Failures, NEW y \in Pi!Codes, Pi!Returned(t, "stopped", y),
             UNCHANGED <<Pi!groupVars, age>>
      PROVE  PiIInv'
  <2>1. /\ t \in Pi!Failures \cup {"completed"} /\ t # "completed" /\ "stopped" \in Pi!Writers
        /\ y \in Pi!Codes \cup {"none"} /\ y # "none"
    BY DEF Pi!Failures, Pi!Codes, Pi!Writers
  <2>2. PICK f \in Pi!Failures : PiReportedAs(f, "stopped")
    BY <1>1, <1>3, <2>1, PiReturnedGives
  <2>3. f # "completed"
    BY DEF Pi!Failures
  <2>4. Pi!GroupType' /\ root' = root /\ kids' = kids
    BY <1>1, <1>3 DEF PiIInv, Pi!GroupType, Pi!groupVars
  <2>5. PiLoopType' /\ PiWhy'
    BY <1>1, <1>2, <1>3, <2>2 DEF PiLoopType, PiWhy, PiLoop, PiReportedAs
  <2> QED
    BY <1>1, <1>2, <2>2, <2>3, <2>4, <2>5, PiAnswers
<1>4. CASE Pi!Spawned /\ pc' = "started" /\ UNCHANGED report /\ ~wanted
  <2>1. Pi!GroupType' /\ root' = "running"
    BY <1>1, <1>4, Pi!SpawnedType, PiAssumption DEF PiIInv, Pi!callerVars, Pi!Spawned
  <2>2. told' = FALSE
    BY <1>1, <1>2, <1>4
  <2>3. PiLoopType' /\ PiWhy' /\ PiSound' /\ PiOld'
    BY <1>1, <1>2, <1>4, <2>2 DEF PiLoopType, PiWhy, PiSound, PiOld, PiLoop
  <2> QED
    BY <1>1, <1>2, <1>4, <2>1, <2>2, <2>3, PiGoesOn
<1> QED
  BY <1>1, <1>3, <1>4 DEF Pi!Start, Pi!Failures, Pi!Codes

LEMMA PiCallStartedStep == PiIInv /\ Pi!CallStarted => PiIInv'
<1> SUFFICES ASSUME PiIInv, Pi!CallStarted PROVE PiIInv'
  OBVIOUS
<1>1. /\ pc = "started" /\ pc' \in {"control", "raise"} /\ report = Pi!Nothing /\ ~told
      /\ UNCHANGED <<Pi!osVars, Pi!loopVars, told, report>> /\ (root = "none" => ~kids)
      /\ (pc' = "control" => shown' = (shown \/ stage = "main"))
      /\ (pc' = "raise" => shown' = shown)
  BY DEF Pi!CallStarted, PiIInv, PiFlow
<1>2. shown' \in BOOLEAN /\ (stage = "probe" => ~shown')
  <2>1. CASE pc' = "control"
    BY <1>1, <2>1 DEF PiIInv, PiLoopType, PiFlow
  <2>2. CASE pc' = "raise" /\ shown' = shown
    BY <2>2 DEF PiIInv, PiLoopType, PiFlow
  <2> QED
    BY <1>1, <2>1, <2>2
<1>3. Pi!GroupType' /\ root' = root /\ kids' = kids
  BY <1>1 DEF PiIInv, Pi!GroupType, Pi!osVars, Pi!groupVars, Pi!callerVars
<1>4. PiLoopType' /\ PiWhy'
  BY <1>1, <1>2 DEF PiIInv, PiLoopType, PiWhy, Pi!loopVars, PiLoop
<1>5. PiSound' /\ PiOld'
  BY <1>1 DEF PiIInv, PiSound, PiOld, Pi!loopVars, Pi!osVars, Pi!groupVars, PiLoop, Pi!Exited
<1> QED
  BY <1>1, <1>2, <1>3, <1>4, <1>5, PiGoesOn DEF Pi!loopVars

\* KILL is tried when the cleanup is old enough, whatever poll() took.
LEMMA PiSignalKeeps ==
  ASSUME PiIInv, pc = "control", Pi!Signal, UNCHANGED <<root, code, kids, held, Pi!callerVars>>
  PROVE  /\ Pi!GroupType' /\ (Pi!Members' <=> Pi!Members) /\ forced' \in BOOLEAN
         /\ tried' \in BOOLEAN
         /\ Pi!Since("cleanup")' >= Grace => tried' \/ ~Pi!Members
<1> DEFINE begins == reason' \in Pi!Failures /\ ~Pi!Started("cleanup")
           kills == Pi!Since("cleanup") >= Grace /\ ~tried /\ Pi!Group
<1>1. /\ age' = (IF begins THEN Pi!Stamp("cleanup", 0) ELSE age)
      /\ tried' = (tried \/ kills)
      /\ forced' = (forced \/ ((begins \/ Pi!Started("cleanup")) /\ Pi!Group))
      /\ (kills => Pi!Kill) /\ (~kills => killed' = killed)
  BY DEF Pi!Signal
<1>2. /\ age \in [Pi!Clocks -> Pi!Unset .. Limit] /\ "cleanup" \in Pi!Clocks
      /\ 0 \in Pi!Unset .. Limit
      /\ tried \in BOOLEAN /\ forced \in BOOLEAN
  BY NativeGroupAssumption, SMT DEF PiIInv, Pi!GroupType, PiLoopType, Pi!Clocks, Pi!Unset
<1>3. /\ age' \in [Pi!Clocks -> Pi!Unset .. Limit]
      /\ age'["cleanup"] = (IF begins THEN 0 ELSE age["cleanup"])
  BY <1>1, <1>2 DEF Pi!Stamp
<1>4. kills \in BOOLEAN /\ begins \in BOOLEAN /\ Pi!Started("cleanup") \in BOOLEAN
      /\ Pi!Group \in BOOLEAN
  BY DEF Pi!Group, Pi!Started, PiIInv, Pi!GroupType
<1>5. killed' \in BOOLEAN
  BY <1>1, Pi!KillType, PiAssumption, Pi!GroupTypeParts DEF PiIInv, Pi!GroupType
<1>6. Pi!GroupType' /\ (Pi!Members' <=> Pi!Members)
  BY <1>3, <1>5 DEF PiIInv, Pi!GroupType, Pi!callerVars, Pi!Members
<1>7. forced' \in BOOLEAN /\ tried' \in BOOLEAN
  BY <1>1, <1>2, <1>4
<1>8. Pi!Since("cleanup")' >= Grace => tried' \/ ~Pi!Members
  <2>1. SUFFICES ASSUME age'["cleanup"] >= Grace, ~tried' PROVE ~Pi!Members
    BY DEF Pi!Since
  <2>2. ~begins
    BY <1>3, <2>1, NativeGroupAssumption
  <2>3. age["cleanup"] >= Grace
    BY <1>3, <2>1, <2>2
  <2>4. ~Pi!Group
    BY <1>1, <2>1, <2>3 DEF Pi!Since
  <2> QED
    BY <2>4, Pi!GoneHasNoMembers, PiAssumption
<1> QED
  BY <1>6, <1>7, <1>8

LEMMA PiControlStep == PiIInv /\ Pi!Control => PiIInv' /\ (Pi!Members' <=> Pi!Members)
<1> SUFFICES ASSUME PiIInv, Pi!Control PROVE PiIInv' /\ (Pi!Members' <=> Pi!Members)
  OBVIOUS
<1>1. /\ pc = "control" /\ pc' = "drain" /\ told' = (told \/ (wanted /\ reason = "none"))
      /\ report = Pi!Nothing /\ Pi!Signal /\ (root = "none" => ~kids)
      /\ UNCHANGED <<root, code, kids, held, Pi!callerVars, stage, eof, output, shown, report>>
  BY DEF Pi!Control, PiIInv, PiFlow
<1>2. PICK p \in SUBSET (Pi!Failures \X Pi!Codes) : Pi!Classify(p) /\ (wanted => p # {})
  <2>1. CASE wanted
    BY <2>1, PiFailurePairs DEF Pi!Control
  <2>2. CASE ~wanted /\ late
    BY <2>2, PiFailurePairs DEF Pi!Control
  <2>3. CASE ~wanted /\ ~late
    <3>1. PICK p \in {{}} \cup {{<<"execution", "version_timeout">>} :
                 x \in {stage} \cap {"probe"}} :
            Pi!Classify(p)
      BY <2>3 DEF Pi!Control
    <3> QED
      BY <2>3, <3>1, PiFailurePairs
  <2> QED
    BY <2>1, <2>2, <2>3 DEF PiIInv, Pi!GroupType
<1>3. PiClassified /\ (p # {} => reason' # "none")
        /\ (reason' = "completed" => reason = "completed")
  <2>1. p \in SUBSET PiClasses /\ <<"completed", "none">> \notin p
    BY <1>2 DEF PiClasses, Pi!Failures, Pi!Codes
  <2> QED
    BY <1>2, <2>1, PiClassifyKeeps
<1>4. /\ Pi!GroupType' /\ (Pi!Members' <=> Pi!Members) /\ forced' \in BOOLEAN
      /\ tried' \in BOOLEAN
      /\ (Pi!Since("cleanup")' >= Grace => tried' \/ ~Pi!Members)
  BY <1>1, PiSignalKeeps
<1>5. /\ told' \in BOOLEAN /\ (reason # "none" => told' = told)
      /\ (reason' = "none" => reason = "none" /\ told' = told)
  BY <1>1, <1>2, <1>3 DEF PiIInv, PiLoopType, Pi!GroupType, PiClassified
<1>6. PiLoopType'
  BY <1>1, <1>3, <1>4, <1>5 DEF PiIInv, PiLoopType, PiLoop, PiClassified
<1>7. PiWhy'
  BY <1>1, <1>3, <1>5 DEF PiIInv, PiWhy, PiLoop, PiClassified
<1>8. PiSound'
  BY <1>1, <1>3, <1>5 DEF PiIInv, PiSound, PiLoop, Pi!Exited
<1>9. PiOld'
  BY <1>4 DEF PiOld
<1> QED
  BY <1>1, <1>4, <1>6, <1>7, <1>8, <1>9, PiGoesOn DEF PiIInv, PiFlow, PiLoop

LEMMA PiPollRaisesStep == PiIInv /\ Pi!PollRaises => PiIInv'
<1> SUFFICES ASSUME PiIInv, Pi!PollRaises PROVE PiIInv'
  OBVIOUS
<1>1. /\ pc = "control" /\ pc' = "raise" /\ age' = [c \in Pi!Clocks |-> Pi!Unset]
      /\ reason' = "none" /\ failure' = "none"
      /\ eof' = FALSE /\ output' = "none" /\ forced' = FALSE /\ tried' = FALSE
      /\ UNCHANGED <<Pi!groupVars, Pi!callerVars, stage, told, shown, report>>
      /\ report = Pi!Nothing
  BY DEF Pi!PollRaises, PiIInv, PiFlow
<1>2. Pi!GroupType' /\ root' = root /\ kids' = kids
  <2>1. Pi!AgeType'
    BY <1>1, NativeGroupAssumption, SMT DEF Pi!AgeType, Pi!Unset
  <2> QED
    BY <1>1, <2>1 DEF PiIInv, Pi!GroupType, Pi!AgeType, Pi!groupVars, Pi!callerVars
<1>3. PiLoopType' /\ PiWhy' /\ PiSound' /\ PiOld'
  BY <1>1 DEF PiIInv, PiLoopType, PiWhy, PiSound, PiOld, PiLoop
<1> QED
  BY <1>1, <1>2, <1>3, PiGoesOn DEF PiIInv, PiFlow

LEMMA PiDrainStep == PiIInv /\ Pi!Drain => PiIInv'
<1> SUFFICES ASSUME PiIInv, Pi!Drain PROVE PiIInv'
  OBVIOUS
<1>1. /\ pc = "drain" /\ pc' = "look" /\ report = Pi!Nothing
      /\ UNCHANGED <<Pi!osVars, stage, forced, tried, told, shown, report>>
      /\ eof' \in {eof, eof \/ ~held}
  BY DEF Pi!Drain, PiIInv, PiFlow
<1> DEFINE bad(o) == {IF stage = "probe" THEN <<"execution", "limit">>
                                         ELSE <<"protocol", "events">> : x \in {o} \cap {"bad"}}
<1>2. PICK o \in (IF eof \/ reason # "none" THEN {output} ELSE Pi!Reads) :
        output' = o /\ Pi!Classify(bad(o))
  BY DEF Pi!Drain
<1>3. bad(o) \in SUBSET PiClasses /\ <<"completed", "none">> \notin bad(o)
  BY PiFailurePairs DEF PiClasses, Pi!Failures
<1> HIDE DEF bad
<1>4. PiClassified /\ (reason' = "completed" => reason = "completed")
  BY <1>2, <1>3, PiClassifyKeeps
<1>5. /\ output' \in {"none", "bad", "good", "ended"} /\ (reason # "none" => output' = output)
      /\ eof' \in BOOLEAN /\ (eof => eof')
  <2>1. /\ output \in {"none", "bad", "good", "ended"} /\ eof \in BOOLEAN /\ held \in BOOLEAN
        /\ stage \in {"probe", "main"}
    BY DEF PiIInv, PiLoopType, Pi!GroupType
  <2>2. o \in {"none", "bad", "good", "ended"}
    <3>1. CASE eof \/ reason # "none"
      BY <1>2, <2>1, <3>1
    <3>2. CASE ~(eof \/ reason # "none")
      <4>1. o \in Pi!Reads
        BY <1>2, <3>2
      <4>2. Pi!Reads \subseteq {"none", "bad", "good", "ended"}
        BY <2>1 DEF Pi!Reads
      <4> QED
        BY <4>1, <4>2
    <3> QED
      BY <3>1, <3>2
  <2> QED
    BY <1>1, <1>2, <2>1, <2>2
<1>6. /\ Pi!GroupType' /\ Pi!Members' = Pi!Members /\ root' = root /\ kids' = kids
      /\ Pi!Since("cleanup")' = Pi!Since("cleanup")
  BY <1>1 DEF PiIInv, Pi!GroupType, Pi!osVars, Pi!groupVars, Pi!callerVars, Pi!Members, Pi!Since
<1>7. PiLoopType' /\ PiWhy'
  BY <1>1, <1>4, <1>5 DEF PiIInv, PiLoopType, PiWhy, PiLoop, PiClassified
<1>8. PiSound'
  BY <1>1, <1>4, <1>5 DEF PiIInv, PiSound, PiLoop, Pi!osVars, Pi!groupVars, Pi!Exited
<1>9. PiOld'
  BY <1>1, <1>6 DEF PiIInv, PiOld, PiLoop
<1> QED
  BY <1>1, <1>6, <1>7, <1>8, <1>9, PiGoesOn DEF PiIInv, PiFlow

LEMMA PiLookStep == PiIInv /\ Pi!Look => PiIInv' /\ Pi!Members' = Pi!Members
<1> SUFFICES ASSUME PiIInv, Pi!Look PROVE PiIInv' /\ Pi!Members' = Pi!Members
  OBVIOUS
<1>1. /\ pc = "look" /\ pc' = "close" /\ report = Pi!Nothing /\ Pi!Reaped
      /\ UNCHANGED <<code, kids, held, killed, Pi!callerVars, age, Pi!loopVars, told, shown,
         report>>
  BY DEF Pi!Look, PiIInv, PiFlow
<1>2. Pi!RootType' /\ Pi!Members' = Pi!Members /\ (Pi!Exited => Pi!Exited')
        /\ (root' = "none" => root = "none")
  BY <1>1, Pi!ReapedKeeps, PiAssumption, Pi!GroupTypeParts DEF PiIInv, Pi!Reaped, Pi!Exited
<1>3. Pi!GroupType'
  BY <1>1, <1>2 DEF PiIInv, Pi!GroupType, Pi!RootType, Pi!callerVars
<1>4. PiLoopType' /\ PiWhy'
  BY <1>1 DEF PiIInv, PiLoopType, PiWhy, PiLoop, Pi!loopVars
<1>5. PiSound' /\ PiOld'
  BY <1>1, <1>2 DEF PiIInv, PiSound, PiOld, PiLoop, Pi!loopVars, Pi!Since
<1> QED
  BY <1>1, <1>2, <1>3, <1>4, <1>5, PiGoesOn DEF PiIInv, PiFlow, Pi!loopVars

\* Reading the answer marks no stream good, and a good one stays so.
LEMMA PiFinishKeeps ==
  ASSUME PiIInv, Pi!Finish
  PROVE  /\ output' \in {"none", "bad", "good", "ended"}
         /\ output' = "good" <=> output = "good"
<1>1. output \in {"none", "bad", "good", "ended"}
  BY DEF PiIInv, PiLoopType
<1>2. output' = output \/ (output = "ended" /\ output' \in {"ended", "bad"})
  BY DEF Pi!Finish
<1> QED
  BY <1>1, <1>2

\* A child is called completed on what it did, and by nobody who was told to cancel.
LEMMA PiDecidedClass ==
  ASSUME stage \in {"probe", "main"}
  PROVE  /\ Pi!Decided \in SUBSET PiClasses /\ Pi!Decided # {}
         /\ <<"completed", "none">> \in Pi!Decided => code = "zero" /\ output = "good"
<1>1. <<"completed", "none">> \notin Pi!Failures \X Pi!Codes
  BY DEF Pi!Failures
<1>2. Pi!Unusable \in SUBSET (Pi!Failures \X Pi!Codes) /\ Pi!Unusable # {}
  BY PiFailurePairs DEF Pi!Unusable
<1>3. \/ Pi!Decided \in SUBSET (Pi!Failures \X Pi!Codes) /\ Pi!Decided # {}
      \/ Pi!Decided = {<<"completed", "none">>} /\ code = "zero" /\ output = "good"
  BY <1>2, PiFailurePairs DEF Pi!Decided
<1> QED
  BY <1>1, <1>3 DEF PiClasses

LEMMA PiClosesDecided ==
  ASSUME PiIInv, pc = "close", Pi!Classify(IF Pi!Exited /\ eof THEN Pi!Decided ELSE {})
  PROVE  /\ PiClassified
         /\ Pi!Exited /\ eof => reason' # "none"
         /\ reason' = "none" => reason = "none"
         /\ reason' = "completed" =>
              Pi!Exited /\ eof /\ code = "zero" /\ output = "good" /\ ~told
<1> DEFINE pairs == IF Pi!Exited /\ eof THEN Pi!Decided ELSE {}
<1>1. /\ stage \in {"probe", "main"} /\ (reason = "none" => ~told)
      /\ (reason = "completed" => Pi!Exited /\ eof /\ code = "zero" /\ output = "good" /\ ~told)
  BY DEF PiIInv, PiLoopType, PiWhy, PiSound, PiLoop
<1>2. /\ pairs \in SUBSET PiClasses
      /\ (<<"completed", "none">> \in pairs =>
            Pi!Exited /\ eof /\ code = "zero" /\ output = "good")
      /\ (Pi!Exited /\ eof => pairs # {})
  BY <1>1, PiDecidedClass
<1> HIDE DEF pairs
<1>3. Pi!Classify(pairs)
  BY DEF pairs
<1>4. /\ PiClassified /\ (pairs # {} => reason' # "none")
      /\ (reason' = "completed" => reason = "completed" \/ <<"completed", "none">> \in pairs)
  BY <1>2, <1>3, PiClassifyKeeps
<1>5. reason' = "none" => reason = "none"
  BY <1>4 DEF PiClassified
<1>6. reason # "none" => reason' = reason
  BY <1>4 DEF PiClassified
<1> QED
  BY <1>1, <1>2, <1>4, <1>5, <1>6

\* What the end of a round leaves alone.
LEMMA PiCloseAnswers ==
  ASSUME PiIInv, pc = "close", Pi!Finish,
         Pi!Classify(IF Pi!Exited /\ eof THEN Pi!Decided ELSE {}),
         UNCHANGED <<Pi!groupVars, Pi!callerVars, stage, eof, forced, tried, told,
            shown>>,
         NEW w \in Pi!Writers, NEW t \in Pi!Failures \cup {"completed"},
         NEW y \in Pi!Codes \cup {"none"},
         t = "completed" <=> y = "none", t = "completed" => reason' = "completed",
         w = "stopped" => ~forced /\ ~Pi!Members, w = "may_live" /\ Pi!Members => tried,
         Pi!AgeType', Pi!Returned(t, w, y)
  PROVE  /\ PiIInv'
         /\ \/ report' = report
            \/ \E u \in Pi!Failures \cup {"completed"} : PiReportedAs(u, w)
<1>1. /\ PiClassified
      /\ (reason' = "completed" =>
           Pi!Exited /\ eof /\ code = "zero" /\ output' = "good" /\ ~told)
      /\ (reason' = "none" => reason = "none")
      /\ output' \in {"none", "bad", "good", "ended"}
  BY PiClosesDecided, PiFinishKeeps
<1>2. /\ report = Pi!Nothing /\ stage \in {"probe", "main"} /\ (stage = "probe" => ~shown)
      /\ (root = "none" => ~kids) /\ (reason = "none" => ~told)
  BY DEF PiIInv, PiFlow, PiLoopType, PiWhy, PiLoop
<1>3. /\ Pi!GroupType' /\ Pi!Members' = Pi!Members /\ root' = root /\ kids' = kids
      /\ code' = code
  BY DEF PiIInv, Pi!GroupType, Pi!AgeType, Pi!groupVars, Pi!callerVars, Pi!Members
<1>4. ASSUME pc' \in {"between", "over", "control"}
      PROVE  PiLoopType' /\ PiWhy' /\ PiSound'
  <2>1. PiLoopType'
    BY <1>1, <1>4 DEF PiIInv, PiLoopType, PiLoop, PiClassified
  <2>2. PiWhy'
    BY <1>1, <1>2, <1>4 DEF PiWhy, PiLoop, PiClassified
  <2>3. PiSound'
    BY <1>1, <1>3 DEF PiSound, Pi!Exited
  <2> QED
    BY <2>1, <2>2, <2>3
<1>5. CASE stage = "probe" /\ t = "completed" /\ w = "stopped" /\ pc' = "between"
             /\ report' = report
  <2>1. PiLoopType' /\ PiWhy' /\ PiSound' /\ PiOld'
    BY <1>4, <1>5 DEF PiOld, PiLoop
  <2>2. PiIInv'
    BY <1>1, <1>2, <1>3, <1>5, <2>1, PiGoesOn
  <2> QED
    BY <1>5, <2>2
<1>6. ASSUME stage = "probe", NEW f \in Pi!Failures, PiReportedAs(f, w)
      PROVE  PiIInv'
  <2>1. f # "completed" /\ pc' = "over"
    BY <1>6 DEF Pi!Failures, PiReportedAs
  <2>2. PiLoopType' /\ PiWhy'
    BY <1>4, <2>1
  <2> QED
    BY <1>2, <1>3, <1>6, <2>1, <2>2, PiAnswers
<1>7. CASE stage = "main" /\ PiReportedAs(t, w)
  <2>1. pc' = "over"
    BY <1>7 DEF PiReportedAs
  <2>2. PiLoopType' /\ PiWhy'
    BY <1>4, <2>1
  <2>3. t = "completed" =>
          /\ Pi!Exited' /\ eof' /\ code' = "zero" /\ output' = "good" /\ ~told'
          /\ (w = "stopped" => ~forced' /\ ~Pi!Members')
    BY <1>1, <1>3 DEF Pi!Exited
  <2>4. /\ Pi!GroupType' /\ (stage' = "probe" => ~shown') /\ (root' = "none" => ~kids')
        /\ (w = "may_live" /\ Pi!Members' => tried') /\ PiReportedAs(t, w)
    BY <1>2, <1>3, <1>7
  <2>5. PiIInv'
    BY <2>2, <2>3, <2>4, PiAnswers
  <2> QED
    BY <2>4, <2>5
<1>8. \/ stage = "probe" /\ t = "completed" /\ w = "stopped" /\ pc' = "between"
         /\ report' = report
      \/ stage = "probe" /\ (\E f \in Pi!Failures : PiReportedAs(f, w))
      \/ stage = "main" /\ PiReportedAs(t, w)
  BY <1>1, PiReturnedGives
<1> QED
  BY <1>5, <1>6, <1>7, <1>8

LEMMA PiCloseGives ==
  ASSUME PiIInv, Pi!Close
  PROVE  /\ PiIInv' /\ (Pi!Members' <=> Pi!Members) /\ report = Pi!Nothing
         /\ \/ report' = report
            \/ \E w \in Pi!Writers, t \in Pi!Failures \cup {"completed"} :
                 PiReportedAs(t, w) /\ (w = "stopped" => ~Pi!Members)
<1> DEFINE said == IF reason' = "none" THEN "execution" ELSE reason'
           why == IF reason' = "none" THEN "cleanup_unconfirmed" ELSE failure'
<1>1. /\ pc = "close" /\ Pi!Finish /\ Pi!Classify(IF Pi!Exited /\ eof THEN Pi!Decided ELSE {})
      /\ report = Pi!Nothing
      /\ UNCHANGED <<Pi!groupVars, Pi!callerVars, stage, eof, forced, tried, told,
         shown>>
      /\ (\/ Pi!Natural /\ Pi!Returned(said, Pi!Writer, failure') /\ UNCHANGED age
          \/ /\ ~Pi!Natural
             /\ age' = (IF Pi!Exited /\ ~Pi!Started("cleanup")
                         THEN Pi!Stamp("cleanup", 0) ELSE age)
             /\ IF Pi!Spent THEN Pi!Returned(said, "may_live", why)
                         ELSE pc' = "control" /\ UNCHANGED report)
  BY DEF Pi!Close, PiIInv, PiFlow
<1>2. /\ PiClassified /\ (Pi!Exited /\ eof => reason' # "none")
      /\ (reason' = "none" => reason = "none")
      /\ (reason' = "completed" =>
           Pi!Exited /\ eof /\ code = "zero" /\ output' = "good" /\ ~told)
      /\ output' \in {"none", "bad", "good", "ended"}
  BY <1>1, PiClosesDecided, PiFinishKeeps
<1>3. Pi!AgeType' /\ (Pi!Members' <=> Pi!Members)
  <2>1. 0 \in Pi!Unset .. Limit
    BY NativeGroupAssumption, SMT DEF Pi!Unset
  <2>2. Pi!AgeType
    BY Pi!GroupTypeParts, PiAssumption DEF PiIInv
  <2> QED
    BY <1>1, <2>1, <2>2 DEF Pi!AgeType, Pi!Stamp, Pi!groupVars, Pi!Members
<1>4. /\ said \in Pi!Failures \cup {"completed"} /\ why \in Pi!Codes \cup {"none"}
      /\ (said = "completed" <=> why = "none") /\ (said = "completed" => reason' = "completed")
      /\ (reason' # "none" => failure' = why)
  BY <1>2 DEF PiClassified, Pi!Failures, Pi!Codes
<1> HIDE DEF said, why
<1>5. CASE Pi!Natural /\ Pi!Returned(said, Pi!Writer, failure')
  <2>1. ~Pi!Members /\ Pi!Exited /\ eof
    BY <1>5, Pi!GoneHasNoMembers, PiAssumption DEF Pi!Natural
  <2>2. Pi!Writer \in Pi!Writers /\ (Pi!Writer = "stopped" => ~forced)
    BY DEF Pi!Writer, Pi!Writers
  <2>3. Pi!Returned(said, Pi!Writer, why)
    BY <1>2, <1>4, <1>5, <2>1
  <2> DEFINE w == Pi!Writer
  <2>4. w \in Pi!Writers /\ (w = "stopped" => ~forced /\ ~Pi!Members)
          /\ (w = "may_live" /\ Pi!Members => tried)
        /\ Pi!Returned(said, w, why)
    BY <2>1, <2>2, <2>3
  <2> HIDE DEF w
  <2>5. PiIInv'
          /\ (report' = report \/ \E u \in Pi!Failures \cup {"completed"} : PiReportedAs(u, w))
    BY <1>1, <1>3, <1>4, <2>4, PiCloseAnswers
  <2> QED
    BY <1>1, <1>3, <2>4, <2>5
<1>6. CASE Pi!Spent /\ Pi!Returned(said, "may_live", why)
  <2>1. Pi!Since("cleanup") >= Grace
    <3>1. age["cleanup"] \in Pi!Unset .. Limit
      BY DEF PiIInv, Pi!GroupType, Pi!Clocks
    <3> QED
      BY <1>6, <3>1, NativeGroupAssumption, SMT DEF Pi!Spent, Pi!Since, Pi!Unset
  <2>2. Pi!Members => tried
    BY <1>1, <2>1 DEF PiIInv, PiOld, PiLoop
  <2>3. "may_live" \in Pi!Writers /\ "may_live" # "stopped"
    BY DEF Pi!Writers
  <2>4. PiIInv'
          /\ (report' = report \/ \E u \in Pi!Failures \cup {"completed"} :
               PiReportedAs(u, "may_live"))
    BY <1>1, <1>3, <1>4, <1>6, <2>2, <2>3, PiCloseAnswers
  <2> QED
    BY <1>1, <1>3, <2>3, <2>4
<1>7. CASE pc' = "control" /\ UNCHANGED report
  <2>1. /\ Pi!GroupType' /\ root' = root /\ kids' = kids /\ code' = code
    BY <1>1, <1>3 DEF PiIInv, Pi!GroupType, Pi!AgeType, Pi!groupVars, Pi!callerVars
  <2>2. PiLoopType'
    BY <1>1, <1>2, <1>7 DEF PiIInv, PiLoopType, PiLoop, PiClassified
  <2>3. PiWhy'
    BY <1>1, <1>2, <1>7 DEF PiIInv, PiWhy, PiLoop, PiClassified
  <2>4. PiSound' /\ PiOld'
    BY <1>1, <1>2, <1>7, <2>1 DEF PiSound, Pi!Exited, PiOld
  <2> QED
    BY <1>1, <1>3, <1>7, <2>1, <2>2, <2>3, <2>4, PiGoesOn DEF PiIInv, PiFlow
<1> QED
  BY <1>1, <1>5, <1>6, <1>7

LEMMA PiCleanUpStep == PiIInv /\ Pi!CleanUp => PiIInv' /\ Pi!Members' = Pi!Members
<1> SUFFICES ASSUME PiIInv, Pi!CleanUp PROVE PiIInv' /\ Pi!Members' = Pi!Members
  OBVIOUS
<1>1. /\ pc = "raise" /\ pc' = "over" /\ report' = Pi!Raised /\ Pi!Reaped
      /\ (root = "running" => Pi!Kill) /\ (root # "running" => killed' = killed)
      /\ (root = "none" => ~kids)
      /\ UNCHANGED <<code, kids, held, Pi!callerVars, age, Pi!loopVars, told, shown>>
  BY DEF Pi!CleanUp, Pi!Over, PiIInv, PiFlow
<1>2. /\ Pi!RootType' /\ Pi!Members' = Pi!Members /\ (root' = "none" => root = "none")
      /\ killed' \in BOOLEAN /\ (root = "running" => killed')
      /\ (root \in {"exited", "reaped"} => root' \in {"exited", "reaped"})
  BY <1>1, Pi!ReapedKeeps, PiAssumption, Pi!KillType, PiAssumption, Pi!GroupTypeParts
  DEF PiIInv, Pi!FlagType, Pi!Reaped, Pi!Members
<1>3. Pi!GroupType'
  BY <1>1, <1>2 DEF PiIInv, Pi!GroupType, Pi!RootType, Pi!callerVars
<1>4. PiLoopType' /\ PiFlow' /\ PiWhy' /\ PiSound' /\ PiOld'
  BY <1>1, <1>2, PiSaidApart DEF PiIInv, PiLoopType, PiFlow, PiWhy, PiSound, PiOld, PiLoop,
     Pi!loopVars
<1>5. PiLasting' /\ Pi!CompletedIsWhole' /\ Pi!Accepted' /\ Pi!KilledBeforeGivenUp'
  BY <1>1, PiSaidApart DEF PiLasting, Pi!CompletedIsWhole, Pi!Accepted, Pi!KilledBeforeGivenUp
<1>6. PiRaisedIsSeen'
  <2>1. root \in {"none", "running", "exited", "reaped"}
    BY DEF PiIInv, Pi!GroupType
  <2>2. root = "none" => ~Pi!Members
    BY <1>1 DEF Pi!Members
  <2> QED
    BY <1>2, <2>1, <2>2 DEF PiRaisedIsSeen
<1> QED
  BY <1>1, <1>2, <1>3, <1>4, <1>5, <1>6 DEF PiIInv

LEMMA PiStepInv == PiIInv /\ [Pi!Next]_(Pi!vars) => PiIInv'
<1>1. CASE UNCHANGED Pi!vars
  BY <1>1
  DEF PiIInv, Pi!GroupType, PiLoopType, PiFlow, PiWhy, PiSound, PiOld, PiLasting,
     Pi!CompletedIsWhole, Pi!Accepted,
      PiRaisedIsSeen, Pi!KilledBeforeGivenUp, Pi!Members, Pi!Exited, Pi!Since,
      Pi!vars, Pi!osVars, Pi!groupVars, Pi!callerVars, Pi!loopVars
<1> QED
  BY <1>1, PiAroundStep, PiPreflightStep, PiCheckPromptStep, PiStartStep, PiCallStartedStep,
     PiControlStep,
     PiPollRaisesStep, PiDrainStep, PiLookStep, PiCloseGives, PiCleanUpStep
  DEF Pi!Next, Pi!Adapter

-----------------------------------------------------------------------------
(* Claude and OpenCode, proved about in modules of their own *)

CP == INSTANCE ClaudeProofs
OP == INSTANCE OpenCodeProofs

LEMMA ClaudeAssumption == CP!NativeGroupAssumption
  BY NativeGroupAssumption DEF CP!NativeGroupAssumption

LEMMA OpenCodeAssumption == OP!NativeGroupAssumption
  BY NativeGroupAssumption DEF OP!NativeGroupAssumption

LEMMA ClaudeInitSame == Claude!Init => CP!Init
  BY DEF Claude!Clocks, CP!Clocks, Claude!GroupInit, CP!GroupInit, Claude!Init, CP!Init,
     Claude!NoReading, CP!NoReading, Claude!Nothing, CP!Nothing, Claude!Unset, CP!Unset

LEMMA ClaudeAdapterSame == Claude!Adapter => CP!Adapter
  BY DEF Claude!Adapter, CP!Adapter, Claude!CallStarted, CP!CallStarted, Claude!CleanUp,
     CP!CleanUp, Claude!Clocks, CP!Clocks, Claude!Close, CP!Close, Claude!Closed,
     CP!Closed, Claude!Control, CP!Control, Claude!Drain, CP!Drain, Claude!Exited,
     CP!Exited, Claude!Fails, CP!Fails, Claude!Group, CP!Group, Claude!Kill, CP!Kill,
     Claude!Look, CP!Look, Claude!MainResult, CP!MainResult, Claude!Natural, CP!Natural,
     Claude!NoReading, CP!NoReading, Claude!Orphaned, CP!Orphaned, Claude!Over, CP!Over,
     Claude!PollRaises, CP!PollRaises, Claude!ProbeResult, CP!ProbeResult, Claude!Raised,
     CP!Raised, Claude!ReadClock, CP!ReadClock, Claude!Reaped, CP!Reaped, Claude!Result,
     CP!Result, Claude!Returned, CP!Returned, Claude!SelectorFails, CP!SelectorFails,
     Claude!Signal, CP!Signal, Claude!Since, CP!Since, Claude!Spawned, CP!Spawned,
     Claude!Spent, CP!Spent, Claude!Stamp, CP!Stamp, Claude!Start, CP!Start,
     Claude!Started, CP!Started, Claude!Terminal, CP!Terminal, Claude!Unset, CP!Unset,
     Claude!WaitChild, CP!WaitChild, Claude!Writer, CP!Writer, Claude!callerVars,
     CP!callerVars, Claude!groupVars, CP!groupVars, Claude!loopVars, CP!loopVars,
     Claude!osVars, CP!osVars

LEMMA ClaudeTypeSame == CP!TypeOK => Claude!TypeOK
  BY DEF Claude!Clocks, CP!Clocks, Claude!Codes, CP!Codes, Claude!Failures, CP!Failures,
     Claude!GroupType, CP!GroupType, Claude!Nothing, CP!Nothing, Claude!Orphaned,
     CP!Orphaned, Claude!Raised, CP!Raised, Claude!Reports, CP!Reports, Claude!TypeOK,
     CP!TypeOK, Claude!Unset, CP!Unset

LEMMA ClaudeCompletedIsWholeSame == CP!CompletedIsWhole => Claude!CompletedIsWhole
  BY DEF Claude!CompletedIsWhole, CP!CompletedIsWhole, Claude!Members, CP!Members

LEMMA ClaudeAcceptedSame == CP!Accepted => Claude!Accepted
  BY DEF Claude!Accepted, CP!Accepted

LEMMA OpenCodeInitSame == OpenCode!Init => OP!Init
  BY DEF OpenCode!Clocks, OP!Clocks, OpenCode!GroupInit, OP!GroupInit, OpenCode!Init,
     OP!Init, OpenCode!NoReading, OP!NoReading, OpenCode!Nothing, OP!Nothing,
     OpenCode!Unset, OP!Unset

LEMMA OpenCodeAdapterSame == OpenCode!Adapter => OP!Adapter
  BY DEF OpenCode!Adapter, OP!Adapter, OpenCode!CallStarted, OP!CallStarted,
     OpenCode!CleanUp, OP!CleanUp, OpenCode!Clocks, OP!Clocks, OpenCode!Close, OP!Close,
     OpenCode!Closed, OP!Closed, OpenCode!Control, OP!Control, OpenCode!Decided,
     OP!Decided, OpenCode!Drain, OP!Drain, OpenCode!Exited, OP!Exited, OpenCode!Fails,
     OP!Fails, OpenCode!Finish, OP!Finish, OpenCode!Group, OP!Group, OpenCode!Kill,
     OP!Kill, OpenCode!Look, OP!Look, OpenCode!Members, OP!Members, OpenCode!Natural,
     OP!Natural, OpenCode!NoReading, OP!NoReading, OpenCode!Orphaned, OP!Orphaned,
     OpenCode!Over, OP!Over, OpenCode!PollRaises, OP!PollRaises, OpenCode!Protocol,
     OP!Protocol, OpenCode!Raised, OP!Raised, OpenCode!ReadClock, OP!ReadClock,
     OpenCode!Reads, OP!Reads, OpenCode!Reaped, OP!Reaped, OpenCode!Result, OP!Result,
     OpenCode!Returned, OP!Returned, OpenCode!SelectorFails, OP!SelectorFails,
     OpenCode!Signal, OP!Signal, OpenCode!Since, OP!Since, OpenCode!Spawned, OP!Spawned,
     OpenCode!Spent, OP!Spent, OpenCode!Stamp, OP!Stamp, OpenCode!Start, OP!Start,
     OpenCode!Started, OP!Started, OpenCode!Unset, OP!Unset, OpenCode!WaitChild,
     OP!WaitChild, OpenCode!callerVars, OP!callerVars, OpenCode!groupVars, OP!groupVars,
     OpenCode!loopVars, OP!loopVars, OpenCode!osVars, OP!osVars

LEMMA OpenCodeTypeSame == OP!TypeOK => OpenCode!TypeOK
  BY DEF OpenCode!Clocks, OP!Clocks, OpenCode!Codes, OP!Codes, OpenCode!Failures,
     OP!Failures, OpenCode!GroupType, OP!GroupType, OpenCode!Nothing, OP!Nothing,
     OpenCode!Orphaned, OP!Orphaned, OpenCode!Raised, OP!Raised, OpenCode!Reports,
     OP!Reports, OpenCode!TypeOK, OP!TypeOK, OpenCode!Unset, OP!Unset

LEMMA OpenCodeCompletedIsWholeSame == OP!CompletedIsWhole => OpenCode!CompletedIsWhole
  BY DEF OpenCode!CompletedIsWhole, OP!CompletedIsWhole, OpenCode!Members, OP!Members

LEMMA OpenCodeAcceptedSame == OP!Accepted => OpenCode!Accepted
  BY DEF OpenCode!Accepted, OP!Accepted

\* What happens around an adapter is the same for each but Pi.
LEMMA AroundSame ==
  Surroundings /\ UNCHANGED <<pc, loops, report>> => CP!Around /\ OP!Around /\ Codex!Around
<1>1. Surroundings /\ UNCHANGED <<pc, loops, report>> => CP!Around
  BY DEF Surroundings, CP!Surroundings, GroupMoves, CP!GroupMoves, Fork, CP!Fork, LetGo,
     CP!LetGo, RootExits, CP!RootExits, KidsEnd, CP!KidsEnd, CancelWanted,
     CP!CancelWanted, DeadlinePasses, CP!DeadlinePasses, Tick, CP!Tick, callerVars,
     CP!callerVars, groupVars, CP!groupVars, Clocks, CP!Clocks, Members, CP!Members,
     loops, CP!loopVars, CP!Around
<1>2. Surroundings /\ UNCHANGED <<pc, loops, report>> => OP!Around
  BY DEF Surroundings, OP!Surroundings, GroupMoves, OP!GroupMoves, Fork, OP!Fork, LetGo,
     OP!LetGo, RootExits, OP!RootExits, KidsEnd, OP!KidsEnd, CancelWanted,
     OP!CancelWanted, DeadlinePasses, OP!DeadlinePasses, Tick, OP!Tick, callerVars,
     OP!callerVars, groupVars, OP!groupVars, Clocks, OP!Clocks, Members, OP!Members,
     loops, OP!loopVars, OP!Around
<1>3. Surroundings /\ UNCHANGED <<pc, loops, report>> => Codex!Around
  BY DEF Surroundings, Codex!Surroundings, GroupMoves, Codex!GroupMoves, Fork,
     Codex!Fork, LetGo, Codex!LetGo, RootExits, Codex!RootExits, KidsEnd, Codex!KidsEnd,
     CancelWanted, Codex!CancelWanted, DeadlinePasses, Codex!DeadlinePasses, Tick,
     Codex!Tick, callerVars, Codex!callerVars, groupVars, Codex!groupVars, Clocks,
     Codex!Clocks, Members, Codex!Members, loops, Codex!loopVars, Codex!Around
<1> QED
  BY <1>1, <1>2, <1>3

-----------------------------------------------------------------------------
(* The contract *)

\* What Core is told: the part of the report that NativeContract speaks of.
Said ==
  IF report.said = "result" THEN [transport |-> report.transport, writer |-> report.writer]
                            ELSE report

LEMMA SaidNothing == report = Nothing => Said = Nothing
  BY DEF Said, Nothing

\* A step without an answer: a group starts only before the answer, and may end after it.
LEMMA SilentRefines ==
  ASSUME report' = report, (Members' => Members) \/ report = Nothing
  PROVE  [Contract!Next]_<<Members, Said>>
<1>1. Said' = Said
  BY DEF Said
<1>2. CASE Members' <=> Members
  BY <1>1, <1>2
<1>3. CASE Members /\ ~Members'
  <2>1. Members' = FALSE
    BY <1>3 DEF Members
  <2>2. Contract!End
    BY <1>1, <1>3, <2>1 DEF Contract!End, Said
  <2> QED
    BY <2>2 DEF Contract!Next
<1>4. CASE ~Members /\ Members'
  <2>1. Members' = TRUE
    BY <1>4 DEF Members
  <2> QED
    BY <1>1, <1>4, <2>1, SaidNothing DEF Contract!Next, Contract!Start, Said
<1> QED
  BY <1>2, <1>3, <1>4

\* An answer is one of those allowed, and calls no writer stopped beside a member.
LEMMA AnswerRefines ==
  ASSUME report = Nothing, Members' <=> Members, report'.said = "result",
         report'.transport \in Failures \cup {"completed"},
         report'.writer \in {"stopped", "may_live", "unknown"},
         report'.writer = "stopped" => ~Members
  PROVE  [Contract!Next]_<<Members, Said>>
<1> DEFINE a == [transport |-> report'.transport, writer |-> report'.writer]
           Answers == [transport : {"completed"} \cup Failures,
                       writer : {"stopped", "may_live", "unknown"}]
<1>1. Said = Nothing /\ Said' = a
  BY SaidNothing DEF Said
<1>2. a \in Answers
  OBVIOUS
<1>3. a.writer = "stopped" => ~Members
  OBVIOUS
<1>4. Contract!Answer
  BY <1>1, <1>2, <1>3 DEF Contract!Answer, Said
<1> QED
  BY <1>4 DEF Contract!Next

LEMMA RaiseRefines ==
  ASSUME report = Nothing, Members' <=> Members, report' = Raised
  PROVE  [Contract!Next]_<<Members, Said>>
<1>1. Said = Nothing /\ Said' = Raised
  BY SaidNothing, SMT DEF Said, Raised
<1> QED
  BY <1>1 DEF Contract!Next, Contract!Raise, Said

\* Codex and Pi speak of the group in these words too.
LEMMA SameWords ==
  /\ Codex!Members = Members /\ Codex!Members' = Members'
  /\ Pi!Members = Members /\ Pi!Members' = Members'
  /\ Codex!Nothing = Nothing /\ Codex!Raised = Raised /\ Codex!Failures = Failures
  /\ Pi!Nothing = Nothing /\ Pi!Raised = Raised /\ Pi!Failures = Failures
  BY DEF Codex!Members, Pi!Members, Members, Codex!Nothing, Pi!Nothing, Nothing,
     Codex!Raised, Pi!Raised, Raised, Codex!Failures, Pi!Failures, Failures

LEMMA CodexRefines ==
  CodexIInv /\ [Codex!Next]_(Codex!vars) => [Contract!Next]_<<Members, Said>>
<1> SUFFICES ASSUME CodexIInv, [Codex!Next]_(Codex!vars)
             PROVE  [Contract!Next]_<<Members, Said>>
  OBVIOUS
<1>1. CASE UNCHANGED Codex!vars \/ Codex!Around
  <2>1. report' = report
    BY <1>1 DEF Codex!vars, Codex!Around
  <2>2. Members' => Members
    BY <1>1, Codex!SurroundingsKeep, CodexAssumption, SameWords
    DEF CodexIInv, Codex!Around, Codex!vars, Codex!osVars, Codex!groupVars, Members
  <2> QED
    BY <2>1, <2>2, SilentRefines
<1>2. CASE \/ Codex!CallStarted \/ Codex!Control \/ Codex!PollRaises \/ Codex!Drain
           \/ Codex!Look \/ Codex!CleanUp
  <2>1. report' = report /\ pc # "over"
    BY <1>2 DEF Codex!CallStarted, Codex!Control, Codex!PollRaises, Codex!Drain, Codex!Look,
       Codex!CleanUp
  <2> QED
    BY <2>1, SilentRefines, SameWords DEF CodexIInv, CodexFlow
<1>3. ASSUME NEW t \in Failures \cup {"completed"}, NEW w \in Codex!Writers,
             CodexReportedAs(t, w), Members' <=> Members, w = "stopped" => ~Members,
             report = Nothing
      PROVE  [Contract!Next]_<<Members, Said>>
  BY <1>3, AnswerRefines DEF CodexReportedAs, Codex!Writers
<1>4. CASE Codex!Preflight
  <2>1. /\ pc = "preflight" /\ report = Nothing /\ ~Members /\ (Members' <=> Members)
        /\ shown' = shown /\ stage = "probe" /\ "stopped" \in Codex!Writers
    BY <1>4, SameWords DEF Codex!Preflight, CodexIInv, CodexFlow, Codex!osVars,
       Codex!groupVars, Members, Codex!Writers
  <2>2. ASSUME NEW p \in Codex!Failures \X Codex!Codes,
               Codex!Over(Codex!Result("preflight", p[1], "stopped", p[2], "not_started"))
        PROVE  [Contract!Next]_<<Members, Said>>
    BY <1>3, <2>1, <2>2, CodexRefusedBefore, SameWords
  <2> QED
    BY <1>4, <2>1, <2>2, SilentRefines, CodexFailurePairs DEF Codex!Preflight
<1>5. CASE Codex!Between
  <2>1. /\ pc = "between" /\ report = Nothing /\ ~Members /\ (Members' <=> Members)
        /\ shown' = shown /\ stage = "probe" /\ "stopped" \in Codex!Writers
        /\ "execution" \in Codex!Failures /\ "final_exists" \in Codex!Codes
    BY <1>5, SameWords DEF Codex!Between, CodexIInv, CodexFlow, Codex!osVars,
       Codex!groupVars, Members, Codex!Writers, Codex!Failures, Codex!Codes
  <2>2. CASE UNCHANGED report
    BY <2>1, <2>2, SilentRefines
  <2>3. CASE Codex!Over(Codex!Result("preflight", "execution", "stopped", "final_exists",
                                     "not_started"))
    BY <1>3, <2>1, <2>3, CodexRefusedBefore, SameWords
  <2> QED
    BY <1>5, <2>2, <2>3 DEF Codex!Between
<1>6. CASE Codex!Start
  <2>1. /\ pc = "start" /\ report = Nothing /\ ~Members /\ shown' = shown
    BY <1>6, SameWords DEF Codex!Start, CodexIInv, CodexFlow
  <2>2. CASE report' = report
    BY <2>1, <2>2, SilentRefines
  <2>3. ASSUME NEW t \in Codex!Failures, NEW y \in Codex!Codes,
               Codex!Returned(t, "stopped", y), UNCHANGED <<Codex!groupVars, age, stdin>>
        PROVE  [Contract!Next]_<<Members, Said>>
    <3>1. /\ t \in Codex!Failures \cup {"completed"} /\ t # "completed"
          /\ "stopped" \in Codex!Writers /\ y \in Codex!Codes \cup {"none"} /\ y # "none"
      BY DEF Codex!Failures, Codex!Codes, Codex!Writers
    <3>2. PICK f \in Codex!Failures : CodexReportedAs(f, "stopped")
      BY <2>1, <2>3, <3>1, CodexReturnedGives
    <3>3. Members' <=> Members
      BY <2>3 DEF Codex!groupVars, Members
    <3> QED
      BY <1>3, <2>1, <3>1, <3>2, <3>3, SameWords
  <2> QED
    BY <1>6, <2>2, <2>3 DEF Codex!Start, Codex!Failures, Codex!Codes
<1>7. CASE Codex!Close
  BY <1>3, <1>7, CodexCloseGives, SilentRefines, SameWords
<1>8. CASE Codex!WaitChild
  <2>1. report = Nothing /\ report' = Raised
    BY <1>8, SameWords DEF Codex!WaitChild, Codex!Over, CodexIInv, CodexFlow
  <2>2. Members' <=> Members
    BY <1>8, CodexWaitChildStep, SameWords
  <2> QED
    BY <2>1, <2>2, RaiseRefines
<1> QED
  BY <1>1, <1>2, <1>4, <1>5, <1>6, <1>7, <1>8 DEF Codex!Next, Codex!Adapter

LEMMA PiRefines ==
  PiIInv /\ [Pi!Next]_(Pi!vars) => [Contract!Next]_<<Members, Said>>
<1> SUFFICES ASSUME PiIInv, [Pi!Next]_(Pi!vars)
             PROVE  [Contract!Next]_<<Members, Said>>
  OBVIOUS
<1>1. CASE UNCHANGED Pi!vars \/ Pi!Around
  <2>1. report' = report
    BY <1>1 DEF Pi!vars, Pi!Around
  <2>2. Members' => Members
    BY <1>1, Pi!SurroundingsKeep, PiAssumption, SameWords
    DEF PiIInv, Pi!Around, Pi!vars, Pi!osVars, Pi!groupVars, Members
  <2> QED
    BY <2>1, <2>2, SilentRefines
<1>2. CASE Pi!CallStarted \/ Pi!Control \/ Pi!PollRaises \/ Pi!Drain \/ Pi!Look
  <2>1. report' = report /\ pc # "over"
    BY <1>2 DEF Pi!CallStarted, Pi!Control, Pi!PollRaises, Pi!Drain, Pi!Look
  <2> QED
    BY <2>1, SilentRefines, SameWords DEF PiIInv, PiFlow
<1>3. ASSUME NEW t \in Failures \cup {"completed"}, NEW w \in Pi!Writers,
             PiReportedAs(t, w), Members' <=> Members, w = "stopped" => ~Members,
             report = Nothing
      PROVE  [Contract!Next]_<<Members, Said>>
  BY <1>3, AnswerRefines DEF PiReportedAs, Pi!Writers
<1>4. CASE Pi!Preflight
  <2>1. /\ pc = "preflight" /\ report = Nothing /\ ~Members /\ (Members' <=> Members)
        /\ shown' = shown /\ stage = "probe" /\ "stopped" \in Pi!Writers
        /\ "execution" \in Pi!Failures /\ "host" \in Pi!Codes
    BY <1>4, SameWords DEF Pi!Preflight, PiIInv, PiFlow, Pi!osVars, Pi!groupVars, Members,
       Pi!Writers, Pi!Failures, Pi!Codes
  <2>2. CASE UNCHANGED report
    BY <2>1, <2>2, SilentRefines
  <2>3. CASE Pi!Over(Pi!Result("preflight", "execution", "stopped", "host", "not_started"))
    BY <1>3, <2>1, <2>3, PiRefusedBefore, SameWords
  <2> QED
    BY <1>4, <2>2, <2>3 DEF Pi!Preflight
<1>5. CASE Pi!CheckPrompt
  <2>1. /\ pc = "between" /\ report = Nothing /\ ~Members /\ (Members' <=> Members)
        /\ shown' = shown /\ stage = "probe" /\ "stopped" \in Pi!Writers
    BY <1>5, SameWords DEF Pi!CheckPrompt, PiIInv, PiFlow, Pi!osVars, Pi!groupVars, Members,
       Pi!Writers
  <2>2. ASSUME NEW p \in Pi!Failures \X Pi!Codes,
               Pi!Over(Pi!Result("preflight", p[1], "stopped", p[2], "not_started"))
        PROVE  [Contract!Next]_<<Members, Said>>
    BY <1>3, <2>1, <2>2, PiRefusedBefore, SameWords
  <2> QED
    BY <1>5, <2>1, <2>2, SilentRefines, PiFailurePairs DEF Pi!CheckPrompt
<1>6. CASE Pi!Start
  <2>1. /\ pc = "start" /\ report = Nothing /\ ~Members /\ shown' = shown
    BY <1>6, SameWords DEF Pi!Start, PiIInv, PiFlow
  <2>2. CASE report' = report
    BY <2>1, <2>2, SilentRefines
  <2>3. ASSUME NEW t \in Pi!Failures, NEW y \in Pi!Codes, Pi!Returned(t, "stopped", y),
               UNCHANGED <<Pi!groupVars, age>>
        PROVE  [Contract!Next]_<<Members, Said>>
    <3>1. /\ t \in Pi!Failures \cup {"completed"} /\ t # "completed"
          /\ "stopped" \in Pi!Writers /\ y \in Pi!Codes \cup {"none"} /\ y # "none"
      BY DEF Pi!Failures, Pi!Codes, Pi!Writers
    <3>2. PICK f \in Pi!Failures : PiReportedAs(f, "stopped")
      BY <2>1, <2>3, <3>1, PiReturnedGives
    <3>3. Members' <=> Members
      BY <2>3 DEF Pi!groupVars, Members
    <3> QED
      BY <1>3, <2>1, <3>1, <3>2, <3>3, SameWords
  <2> QED
    BY <1>6, <2>2, <2>3 DEF Pi!Start, Pi!Failures, Pi!Codes
<1>7. CASE Pi!Close
  BY <1>3, <1>7, PiCloseGives, SilentRefines, SameWords
<1>8. CASE Pi!CleanUp
  <2>1. pc = "raise" /\ report = Nothing /\ report' = Raised
    BY <1>8, SameWords DEF Pi!CleanUp, Pi!Over, PiIInv, PiFlow
  <2>2. Members' <=> Members
    BY <1>8, PiCleanUpStep, SameWords
  <2> QED
    BY <2>1, <2>2, RaiseRefines
<1> QED
  BY <1>1, <1>2, <1>4, <1>5, <1>6, <1>7, <1>8 DEF Pi!Next, Pi!Adapter

LEMMA ClaudeRefines ==
  CP!IInv /\ [CP!Next]_(CP!vars) => [Contract!Next]_<<Members, Said>>
<1> SUFFICES ASSUME CP!IInv, [CP!Next]_(CP!vars) PROVE [Contract!Next]_<<Members, Said>>
  OBVIOUS
<1>1. [CP!Contract!Next]_<<CP!Members, CP!Said>>
  BY CP!StepRefines, ClaudeAssumption
<1> QED
  BY <1>1 DEF CP!Contract!Next, Contract!Next, CP!Contract!Start, Contract!Start,
     CP!Contract!End, Contract!End, CP!Contract!Answer, Contract!Answer, CP!Contract!Raise,
     Contract!Raise, CP!Members, Members, CP!Said, Said, CP!Nothing, Nothing, CP!Raised,
     Raised, CP!Orphaned, Orphaned, CP!Failures, Failures

LEMMA OpenCodeRefines ==
  OP!IInv /\ [OP!Next]_(OP!vars) => [Contract!Next]_<<Members, Said>>
<1> SUFFICES ASSUME OP!IInv, [OP!Next]_(OP!vars) PROVE [Contract!Next]_<<Members, Said>>
  OBVIOUS
<1>1. [OP!Contract!Next]_<<OP!Members, OP!Said>>
  BY OP!StepRefines, OpenCodeAssumption
<1> QED
  BY <1>1 DEF OP!Contract!Next, Contract!Next, OP!Contract!Start, Contract!Start,
     OP!Contract!End, Contract!End, OP!Contract!Answer, Contract!Answer, OP!Contract!Raise,
     Contract!Raise, OP!Members, Members, OP!Said, Said, OP!Nothing, Nothing, OP!Raised,
     Raised, OP!Orphaned, Orphaned, OP!Failures, Failures

-----------------------------------------------------------------------------
(* Whichever adapter is invoked *)

\* The invariant of the adapter invoked; while it is Paperclip's, no native adapter reports.
IInv ==
  /\ adapter \in {"claude", "codex", "opencode", "pi", "paperclip"}
  /\ adapter = "claude" => CP!IInv
  /\ adapter = "codex" => CodexIInv
  /\ adapter = "opencode" => OP!IInv
  /\ adapter = "pi" => PiIInv
  /\ adapter = "paperclip" => PaperclipIInv /\ report = Nothing

LEMMA InitInv == Init => IInv
<1>1. ASSUME adapter = "claude", Claude!Init PROVE IInv
  BY <1>1, ClaudeInitSame, CP!InitInv, ClaudeAssumption DEF IInv
<1>2. ASSUME adapter = "codex", Codex!Init PROVE IInv
  BY <1>2, CodexInitInv DEF IInv
<1>3. ASSUME adapter = "opencode", OpenCode!Init PROVE IInv
  BY <1>3, OpenCodeInitSame, OP!InitInv, OpenCodeAssumption DEF IInv
<1>4. ASSUME adapter = "pi", Pi!Init PROVE IInv
  BY <1>4, PiInitInv DEF IInv
<1>5. ASSUME adapter = "paperclip", Paperclip!Init, NativeIdle PROVE IInv
  BY <1>5, PaperclipInitInv DEF IInv, NativeIdle
<1> QED
  BY <1>1, <1>2, <1>3, <1>4, <1>5 DEF Init

\* What a step is to the adapter invoked.
LEMMA StepOfAdapter ==
  ASSUME IInv, [Next]_vars
  PROVE  /\ adapter' = adapter
         /\ adapter = "claude" => [CP!Next]_(CP!vars)
         /\ adapter = "codex" => [Codex!Next]_(Codex!vars)
         /\ adapter = "opencode" => [OP!Next]_(OP!vars)
         /\ adapter = "pi" => [Pi!Next]_(Pi!vars)
         /\ adapter = "paperclip" => [Paperclip!Next]_(Paperclip!vars) /\ UNCHANGED native
<1>1. CASE UNCHANGED vars
  BY <1>1 DEF vars, native, paperclip, osVars, loops, groupVars, callerVars,
     CP!vars, CP!osVars, CP!loopVars, CP!groupVars, CP!callerVars,
     Codex!vars, Codex!osVars, Codex!loopVars, Codex!groupVars, Codex!callerVars,
     OP!vars, OP!osVars, OP!loopVars, OP!groupVars, OP!callerVars,
     Pi!vars, Pi!osVars, Pi!loopVars, Pi!groupVars, Pi!callerVars, Paperclip!vars
<1>2. CASE InvokeNative
  BY <1>2, ClaudeAdapterSame, OpenCodeAdapterSame
  DEF InvokeNative, CP!Next, Codex!Next, OP!Next, Pi!Next
<1>3. CASE Around(adapter \in {"claude", "codex", "opencode"} /\ Surroundings)
  BY <1>3, AroundSame DEF Around, CP!Next, Codex!Next, OP!Next
<1>4. CASE Around(adapter = "pi" /\ Pi!Surroundings)
  <2>1. Pi!Around
    BY <1>4 DEF Around, Pi!Around, Pi!loopVars, loops
  <2> QED
    BY <1>4, <2>1 DEF Around, Pi!Next
<1>5. CASE Execute \/ Callback
  BY <1>5 DEF Execute, Callback, Paperclip!Next
<1>6. CASE adapter = "paperclip" /\ (Paperclip!Abort \/ Paperclip!Child)
           /\ UNCHANGED <<adapter, native>>
  BY <1>6 DEF Paperclip!Next
<1> QED
  BY <1>1, <1>2, <1>3, <1>4, <1>5, <1>6 DEF Next

LEMMA StepInv == IInv /\ [Next]_vars => IInv'
<1> SUFFICES ASSUME IInv, [Next]_vars PROVE IInv'
  OBVIOUS
<1>1. adapter' = adapter
  BY StepOfAdapter
<1>2. CASE adapter = "claude"
  BY <1>1, <1>2, StepOfAdapter, CP!StepInv, ClaudeAssumption DEF IInv
<1>3. CASE adapter = "codex"
  BY <1>1, <1>3, StepOfAdapter, CodexStepInv DEF IInv
<1>4. CASE adapter = "opencode"
  BY <1>1, <1>4, StepOfAdapter, OP!StepInv, OpenCodeAssumption DEF IInv
<1>5. CASE adapter = "pi"
  BY <1>1, <1>5, StepOfAdapter, PiStepInv DEF IInv
<1>6. CASE adapter = "paperclip"
  BY <1>1, <1>6, StepOfAdapter, PaperclipStepInv DEF IInv, native
<1> QED
  BY <1>2, <1>3, <1>4, <1>5, <1>6 DEF IInv

\* Whichever adapter is invoked, its invariant holds all along.
THEOREM Invariance == Spec => []IInv
  BY InitInv, StepInv, PTL DEF Spec

\* Whichever adapter is invoked, its variables stay in their types.
THEOREM TypeCorrect == Spec => []TypeOK
<1>1. IInv => TypeOK
  BY ClaudeTypeSame, OpenCodeTypeSame, CP!TypeOKParts, ClaudeAssumption, OP!TypeOKParts,
     OpenCodeAssumption, CodexTypeOKParts, PiTypeOKParts
  DEF IInv, CP!IInv, CodexIInv, OP!IInv, PiIInv, PaperclipIInv, TypeOK
<1> QED
  BY <1>1, Invariance, PTL

\* A completed invocation is whole, as each adapter understands it, however the child, its
\* descendants, Core, the clock and the callbacks move between any two of its steps.
THEOREM CompletionIsWhole == Spec => []CompletedIsWhole
<1>1. IInv => CompletedIsWhole
  BY ClaudeCompletedIsWholeSame, OpenCodeCompletedIsWholeSame
  DEF IInv, CP!IInv, CodexIInv, OP!IInv, PiIInv, CompletedIsWhole
<1> QED
  BY <1>1, Invariance, PTL

\* No invocation is left uncertain by its own evidence: the validator of each adapter
\* accepts what its invoke reports.
THEOREM EvidenceIsAccepted == Spec => []Accepted
<1>1. IInv => Accepted
  BY ClaudeAcceptedSame, OpenCodeAcceptedSame
  DEF IInv, CP!IInv, CodexIInv, OP!IInv, PiIInv, Accepted
<1> QED
  BY <1>1, Invariance, PTL

\* A callback that raises leaves no process of the group that was not sent KILL; Pi's
\* finally clause does so only while the child itself has not exited.
THEOREM ExceptionKills == Spec => []RaisedIsKilled
<1>1. IInv => RaisedIsKilled
  <2> SUFFICES ASSUME IInv, report = Raised PROVE RaisedIsKilled
    BY DEF RaisedIsKilled
  <2>1. CASE adapter = "claude"
    BY <2>1 DEF IInv, CP!IInv, CP!RaisedIsKilled, CP!Members, CP!Raised, Members, Raised,
       RaisedIsKilled
  <2>2. CASE adapter = "codex"
    BY <2>2, SameWords DEF IInv, CodexIInv, Codex!RaisedIsKilled, RaisedIsKilled
  <2>3. CASE adapter = "opencode"
    BY <2>3 DEF IInv, OP!IInv, OP!RaisedIsKilled, OP!Members, OP!Raised, Members, Raised,
       RaisedIsKilled
  <2>4. CASE adapter = "pi"
    BY <2>4, SameWords DEF IInv, PiIInv, PiRaisedIsSeen, RaisedIsKilled
  <2>5. CASE adapter = "paperclip"
    <3>1. Nothing # Raised
      BY SMT DEF Nothing, Raised
    <3> QED
      BY <2>5, <3>1 DEF IInv
  <2> QED
    BY <2>1, <2>2, <2>3, <2>4, <2>5 DEF IInv
<1> QED
  BY <1>1, Invariance, PTL

\* However slow poll() is, Pi gives up no group alive that it did not try to kill.
THEOREM GivenUpIsKilled == Spec => []KilledBeforeGivenUp
<1>1. IInv => KilledBeforeGivenUp
  BY DEF IInv, PiIInv, KilledBeforeGivenUp
<1> QED
  BY <1>1, Invariance, PTL

\* When the Paperclip adapter has answered, its helper runs no more, and a refusal or a
\* cancellation of its own means that the bridge was never entered.
THEOREM HelperEnds == Spec => []NothingRunsOn
<1>1. IInv => NothingRunsOn
  BY PaperclipEnds DEF IInv, NothingRunsOn
<1> QED
  BY <1>1, Invariance, PTL

\* Only the whole report of a helper that ended by itself and in time is passed on.
THEOREM ReportIsWhole == Spec => []PassedOnWhole
<1>1. IInv => PassedOnWhole
  BY DEF IInv, PaperclipIInv, PassedOnWhole
<1> QED
  BY <1>1, Invariance, PTL

\* However an abort falls between the awaits, the spawn and the callbacks, a helper that
\* runs is asked to cancel.
THEOREM AbortReaches == Spec => []AbortIsHeard
<1>1. IInv => AbortIsHeard
  BY DEF IInv, PaperclipIInv, AbortIsHeard
<1> QED
  BY <1>1, Invariance, PTL

LEMMA InitRefines == Init => Contract!Init
<1> SUFFICES ASSUME Init PROVE Contract!Init
  OBVIOUS
<1>1. root = "none" /\ kids = FALSE /\ report = Nothing
  BY DEF Init, NativeIdle, GroupInit, Nothing,
     Claude!Init, Claude!GroupInit, Claude!Nothing, Codex!Init, Codex!GroupInit, Codex!Nothing,
     OpenCode!Init, OpenCode!GroupInit, OpenCode!Nothing, Pi!Init, Pi!GroupInit, Pi!Nothing
<1> QED
  BY <1>1, SaidNothing DEF Contract!Init, Said, Members

LEMMA StepRefines == IInv /\ [Next]_vars => [Contract!Next]_<<Members, Said>>
<1> SUFFICES ASSUME IInv, [Next]_vars PROVE [Contract!Next]_<<Members, Said>>
  OBVIOUS
<1>1. CASE adapter = "claude"
  BY <1>1, StepOfAdapter, ClaudeRefines DEF IInv
<1>2. CASE adapter = "codex"
  BY <1>2, StepOfAdapter, CodexRefines DEF IInv
<1>3. CASE adapter = "opencode"
  BY <1>3, StepOfAdapter, OpenCodeRefines DEF IInv
<1>4. CASE adapter = "pi"
  BY <1>4, StepOfAdapter, PiRefines DEF IInv
<1>5. CASE adapter = "paperclip"
  <2>1. report' = report /\ Members' = Members
    BY <1>5, StepOfAdapter DEF native, osVars, groupVars, Members
  <2> QED
    BY <2>1, SilentRefines
<1> QED
  BY <1>1, <1>2, <1>3, <1>4, <1>5 DEF IInv

\* Each native adapter implements NativeContract: one group at a time, one answer, and no
\* writer called stopped while a process of the group lives or may still be born.
THEOREM ImplementsContract == Spec => ContractSpec
<1>1. Spec => Contract!Init /\ [][Contract!Next]_<<Members, Said>>
  BY InitRefines, StepRefines, Invariance, PTL DEF Spec
<1> QED
  BY <1>1 DEF ContractSpec, Contract!Spec, Said
=============================================================================
