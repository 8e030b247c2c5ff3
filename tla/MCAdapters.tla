----------------------------- MODULE MCAdapters -----------------------------
(***************************************************************************)
(* One invocation of any program that owns a child: one of the four native *)
(* adapters, which share a process group and the variables of their loops, *)
(* or the Paperclip adapter, which starts the helper of the bridge.        *)
(***************************************************************************)
EXTENDS NativeGroup

VARIABLES
  adapter,                                                        \* who is invoked
  stage, reading, reason, failure, stdin, eof, output, forced,    \* the native adapters
  tried, told, shown,
  aborted, timers, overflow, child, end, printed, reported,       \* the Paperclip adapter
  sent, ran, answer

loops == <<stage, reading, reason, failure, stdin, eof, output, forced, tried, told, shown>>
native == <<osVars, loops, report>>
paperclip == <<aborted, timers, overflow, child, end, printed, reported, sent, ran, answer>>
vars == <<adapter, pc, native, paperclip>>

\* Any step may be slow; with Pi, only poll().
AnyTime == {"started", "clock", "control", "drain", "look", "close", "wait"}
PollTime == {"control"}

Claude == INSTANCE NativeClaude
Codex == INSTANCE NativeCodex
OpenCode == INSTANCE NativeOpenCode
Pi == INSTANCE NativePi WITH SlowAt <- PollTime
Paperclip == INSTANCE PaperclipAdapter WITH report <- reported

-----------------------------------------------------------------------------
NativeIdle ==
  /\ GroupInit /\ report = Nothing
  /\ stage = "probe" /\ reading = Claude!NoReading /\ reason = "none" /\ failure = "none"
  /\ stdin = "none" /\ eof = FALSE /\ output = "none" /\ forced = FALSE /\ tried = FALSE
  /\ told = FALSE /\ shown = FALSE

PaperclipIdle ==
  /\ aborted = FALSE /\ timers = 0 /\ overflow = FALSE /\ child = "none" /\ end = "none"
  /\ printed = "none" /\ reported = Paperclip!NoReport /\ sent = "none" /\ ran = FALSE
  /\ answer = Paperclip!NoAnswer

Init ==
  \/ adapter = "claude" /\ Claude!Init /\ forced = FALSE /\ PaperclipIdle
  \/ adapter = "codex" /\ Codex!Init /\ reading = Claude!NoReading /\ PaperclipIdle
  \/ adapter = "opencode" /\ OpenCode!Init /\ forced = FALSE /\ PaperclipIdle
  \/ adapter = "pi" /\ Pi!Init /\ reading = Claude!NoReading /\ stdin = "none" /\ PaperclipIdle
  \/ adapter = "paperclip" /\ Paperclip!Init /\ NativeIdle

InvokeNative ==
  \/ adapter = "claude" /\ Claude!Adapter /\ UNCHANGED <<adapter, forced, paperclip>>
  \/ adapter = "codex" /\ Codex!Adapter /\ UNCHANGED <<adapter, reading, paperclip>>
  \/ adapter = "opencode" /\ OpenCode!Adapter /\ UNCHANGED <<adapter, forced, paperclip>>
  \/ adapter = "pi" /\ Pi!Adapter /\ UNCHANGED <<adapter, reading, stdin, paperclip>>

Execute == adapter = "paperclip" /\ Paperclip!Execute /\ UNCHANGED <<adapter, native>>
Callback == adapter = "paperclip" /\ Paperclip!Callback /\ UNCHANGED <<adapter, native>>
HelperDies ==
  /\ adapter = "paperclip" /\ sent = "KILL" /\ Paperclip!Dies
  /\ UNCHANGED <<adapter, pc, aborted, timers, overflow, answer, native>>

Around(others) == others /\ UNCHANGED <<adapter, pc, loops, report, paperclip>>
TimePasses ==
  /\ \/ adapter \in {"claude", "codex", "opencode"} /\ Tick
     \/ adapter = "pi" /\ Pi!Tick
  /\ UNCHANGED <<groupVars, callerVars>>

Next ==
  \/ InvokeNative
  \/ Around(adapter \in {"claude", "codex", "opencode"} /\ Surroundings)
  \/ Around(adapter = "pi" /\ Pi!Surroundings)
  \/ Execute \/ Callback
  \/ adapter = "paperclip" /\ (Paperclip!Abort \/ Paperclip!Child) /\ UNCHANGED <<adapter, native>>

\* An adapter's loop is never descheduled for good and poll() returns; time passes, up to
\* the deadline. The event loop of the Paperclip adapter goes on, its timers fire, and a
\* killed helper ends; nothing else of a child is certain.
Spec ==
  /\ Init /\ [][Next]_vars
  /\ WF_vars(InvokeNative) /\ SF_vars(Around(TimePasses))
  /\ WF_vars(Around(adapter # "paperclip" /\ DeadlinePasses /\ UNCHANGED <<groupVars, age>>))
  /\ WF_vars(Execute) /\ WF_vars(Callback) /\ WF_vars(HelperDies)

-----------------------------------------------------------------------------
\* The variables of every adapter stay in their types.
TypeOK ==
  /\ CASE adapter = "claude" -> Claude!TypeOK
       [] adapter = "codex" -> Codex!TypeOK
       [] adapter = "opencode" -> OpenCode!TypeOK
       [] adapter = "pi" -> Pi!TypeOK
       [] adapter = "paperclip" -> Paperclip!TypeOK

\* A completed invocation is whole, as each adapter understands it.
CompletedIsWhole ==
  CASE adapter = "claude" -> Claude!CompletedIsWhole
    [] adapter = "codex" -> Codex!CompletedIsWhole
    [] adapter = "opencode" -> OpenCode!CompletedIsWhole
    [] adapter = "pi" -> Pi!CompletedIsWhole
    [] OTHER -> report = Nothing

\* validate_completion of each adapter accepts what its invoke reports.
Accepted ==
  CASE adapter = "claude" -> Claude!Accepted
    [] adapter = "codex" -> Codex!Accepted
    [] adapter = "opencode" -> OpenCode!Accepted
    [] adapter = "pi" -> Pi!Accepted
    [] OTHER -> report = Nothing

\* Whatever raises under the finally clause, what is left of the group was killed; Pi
\* promises that only while its child has not exited.
RaisedIsKilled ==
  report = Raised =>
    \/ killed \/ ~Members
    \/ adapter = "pi" /\ root \in {"exited", "reaped"}

\* Pi's clock is read after poll(): however slow the answer, a group that is given up
\* alive has been sent KILL.
KilledBeforeGivenUp == adapter = "pi" => Pi!KilledBeforeGivenUp

\* The answers of the Paperclip adapter, as in PaperclipAdapter.
NothingRunsOn == adapter = "paperclip" => Paperclip!NothingRunsOn
PassedOnWhole == adapter = "paperclip" => Paperclip!PassedOnWhole
AbortIsHeard == adapter = "paperclip" => Paperclip!AbortIsHeard
=============================================================================
