---------------------------- MODULE LadBootstrap ----------------------------
(***************************************************************************)
(* The first two nodes of the LAD graph: init_session.py publishes the     *)
(* session of a copy, by staging and rename, and setup_intake.py takes the *)
(* original request into it; then the first role is reserved.  A script    *)
(* may die at every write, and the graph is started again from its first   *)
(* node.  Meanwhile the assignment's manifest and the project's request    *)
(* may be edited, and lad-state may be lost.                               *)
(*                                                                         *)
(* Identities, inputs and the bytes of a request are version numbers: a    *)
(* manifest of version n asks for request n.                               *)
(***************************************************************************)
EXTENDS Integers

CONSTANTS
  Versions,     \* of the manifest and of the request, from 0: no file
  MaxCrashes,   \* bound: scripts that die
  MaxEdits,     \* bound: edits of the manifest and of the request
  MaxLosses     \* bound: losses of lad-state

VARIABLES
  pc,        \* the next step; "paused" between runs of the graph
  mine,      \* the version a script read: of the identity, or of the request
  manifest,  \* subworkflow-inputs.json, 0 when the launch is local
  original,  \* the project's request.md
  staging,   \* .lad-init-session: absent, or the identities in its two files
  session,   \* foreground/lad-state: absent, or its files and ledger
  request,   \* foreground/request.md
  marker,    \* lad-work-marker.json
  traces,    \* lad-results, or lad-state of Learning
  crashes, edits, losses

vars == <<pc, mine, manifest, original, staging, session, request, marker, traces,
          crashes, edits, losses>>
bounds == <<crashes, edits, losses>>
project == <<manifest, original>>

\* No directory; no owner.json; no session.json; no intake in it.
Missing == -1
NoIntake == -1
NoLedger == [identity |-> Missing, intake |-> NoIntake, used |-> FALSE]
Absent == [owner |-> -2, ledger |-> NoLedger]
Empty == [owner |-> Missing, ledger |-> NoLedger]
Fresh(v) == [identity |-> v, intake |-> NoIntake, used |-> FALSE]

Init ==
  /\ pc = "init" /\ mine = 0 /\ manifest \in Versions /\ original \in Versions
  /\ staging = Absent /\ session = Absent /\ request = 0
  /\ marker = FALSE /\ traces = FALSE
  /\ crashes = 0 /\ edits = 0 /\ losses = 0

Goto(p) == pc' = p
Quiet == UNCHANGED <<project, traces, bounds>>

-----------------------------------------------------------------------------
\* init_session

\* A session that is there is never replaced; what is left of work refuses a new one;
\* only staging with an owner of the same identity is cleaned.
Cleanable ==
  /\ staging.owner = manifest
  /\ staging.ledger # NoLedger => staging.ledger.identity = manifest
BeginUnmarked ==
  /\ pc = "init" /\ mine' = manifest
  /\ IF session # Absent
       THEN Goto(IF session.ledger.identity # manifest \/ session.ledger.used
                   THEN "paused" ELSE "setup")
     ELSE Goto(IF staging = Absent THEN "mkdir" ELSE IF Cleanable THEN "clean" ELSE "paused")
  /\ UNCHANGED <<staging, session, request, marker>> /\ Quiet
\* A staging directory that is found is gone on with: whose it is is not asked.
BeginReuses ==
  /\ pc = "init" /\ mine' = manifest
  /\ IF session # Absent
       THEN Goto(IF session.ledger.identity # manifest \/ session.ledger.used
                   THEN "paused" ELSE "setup")
     ELSE IF marker \/ traces THEN Goto("paused")
     ELSE Goto(IF staging = Absent THEN "mkdir"
               ELSE IF staging.owner = Missing THEN "owner" ELSE "ledger")
  /\ UNCHANGED <<staging, session, request, marker>> /\ Quiet
Begin ==
  /\ pc = "init" /\ mine' = manifest
  /\ IF session # Absent
       THEN Goto(IF session.ledger.identity # manifest \/ session.ledger.used
                   THEN "paused" ELSE "setup")
     ELSE IF marker \/ traces THEN Goto("paused")
     ELSE Goto(IF staging = Absent THEN "mkdir" ELSE IF Cleanable THEN "clean" ELSE "paused")
  /\ UNCHANGED <<staging, session, request, marker>> /\ Quiet

\* The files of an old staging are unlinked in the order the directory lists them.
Unlink ==
  /\ pc = "clean" /\ UNCHANGED pc
  /\ \/ staging.owner # Missing /\ staging' = [staging EXCEPT !.owner = Missing]
     \/ staging.ledger # NoLedger /\ staging' = [staging EXCEPT !.ledger = NoLedger]
  /\ UNCHANGED <<mine, session, request, marker>> /\ Quiet
Rmdir ==
  /\ pc = "clean" /\ staging = Empty /\ staging' = Absent /\ Goto("mkdir")
  /\ UNCHANGED <<mine, session, request, marker>> /\ Quiet

Mkdir ==
  /\ pc = "mkdir" /\ staging' = Empty /\ Goto("owner")
  /\ UNCHANGED <<mine, session, request, marker>> /\ Quiet
WriteOwner ==
  /\ pc = "owner" /\ staging' = [staging EXCEPT !.owner = mine] /\ Goto("ledger")
  /\ UNCHANGED <<mine, session, request, marker>> /\ Quiet
WriteLedger ==
  /\ pc = "ledger" /\ staging' = [staging EXCEPT !.ledger = Fresh(mine)] /\ Goto("rename")
  /\ UNCHANGED <<mine, session, request, marker>> /\ Quiet
Rename ==
  /\ pc = "rename" /\ session' = staging /\ staging' = Absent /\ Goto("marker")
  /\ UNCHANGED <<mine, request, marker>> /\ Quiet
WriteMarker ==
  /\ pc = "marker" /\ marker' = TRUE /\ Goto("setup")
  /\ UNCHANGED <<mine, staging, session, request>> /\ Quiet

-----------------------------------------------------------------------------
\* setup_intake

Asked == IF manifest # 0 THEN manifest ELSE original
TakesUnchecked(L) == Asked # 0 /\ ~L.used
Takes(L) ==
  /\ ~L.used /\ L.identity = manifest /\ Asked # 0
  /\ original \in {0, Asked} /\ request \in {0, Asked}
  /\ L.intake \in {NoIntake, Asked}
Setup ==
  /\ pc = "setup" /\ mine' = Asked
  /\ Goto(IF session = Absent THEN "paused" ELSE IF Takes(session.ledger) THEN "copy" ELSE "paused")
  /\ UNCHANGED <<staging, session, request, marker>> /\ Quiet

\* The copy of the request is written once, then its digest is saved.
CopyRequest ==
  /\ pc = "copy" /\ request' = mine /\ Goto("intake")
  /\ UNCHANGED <<mine, staging, session, marker>> /\ Quiet
SaveIntake ==
  /\ pc = "intake" /\ session # Absent
  /\ session' = [session EXCEPT !.ledger.intake = mine] /\ Goto("ready")
  /\ UNCHANGED <<mine, staging, request, marker>> /\ Quiet

\* The first reservation (prepare_role), and the results of its role.
Reserve ==
  /\ pc = "ready"
  /\ IF session = Absent THEN Goto("paused") /\ UNCHANGED session
     ELSE IF session.ledger.intake # request THEN Goto("paused") /\ UNCHANGED session
     ELSE /\ Goto("role") /\ session' = [session EXCEPT !.ledger.used = TRUE]
  /\ UNCHANGED <<mine, staging, request, marker, project, traces, bounds>>
Role ==
  /\ pc = "role" /\ Goto("paused") /\ traces' \in {traces, TRUE}
  /\ UNCHANGED <<mine, staging, session, request, marker, project, bounds>>

-----------------------------------------------------------------------------
Crash ==
  /\ pc # "paused" /\ crashes < MaxCrashes /\ crashes' = crashes + 1 /\ Goto("paused")
  /\ UNCHANGED <<mine, staging, session, request, marker, traces, project, edits, losses>>

\* The graph is started again; after INTAKE_MISSING it may resume at setup_intake.
Launch ==
  /\ pc = "paused" /\ pc' \in {"init"} \cup (IF session = Absent THEN {} ELSE {"setup"})
  /\ UNCHANGED <<mine, staging, session, request, marker>> /\ Quiet

Edit ==
  /\ edits < MaxEdits /\ edits' = edits + 1
  /\ manifest' \in Versions /\ original' \in Versions /\ project' # project
  /\ UNCHANGED <<pc, mine, staging, session, request, marker, traces, crashes, losses>>

\* Between runs: no script is at work on it.
Lose ==
  /\ pc = "paused" /\ session # Absent /\ losses < MaxLosses /\ losses' = losses + 1
  /\ session' = Absent
  /\ UNCHANGED <<pc, mine, staging, request, marker, traces, project, crashes, edits>>

InitSession == Begin \/ Unlink \/ Rmdir \/ Mkdir \/ WriteOwner \/ WriteLedger \/ Rename \/ WriteMarker
SetupIntake == Setup \/ CopyRequest \/ SaveIntake

Next == InitSession \/ SetupIntake \/ Reserve \/ Role \/ Crash \/ Launch \/ Edit \/ Lose

Spec == Init /\ [][Next]_vars

-----------------------------------------------------------------------------
\* A published session is whole, whatever died before: the rename takes a ledger and
\* its owner's record of one identity, new to this copy's roles.
PublishedWhole ==
  session # Absent =>
    /\ session.owner \in Versions /\ session.ledger # NoLedger
    /\ session.ledger.identity = session.owner

\* A role works on one request: the one taken in for the identity of its session, kept
\* from then on, whatever is edited and however often the intake is repeated.
OneRequest ==
  session # Absent /\ session.ledger # NoLedger /\ session.ledger.used =>
    /\ session.ledger.intake = request
    /\ session.ledger.identity # 0 => request = session.ledger.identity

\* "Missing/corrupt state after canonical work markers refuses" (contracts.md): no
\* session is published beside a marker or the results of a role.
MarkedIsNotReset == [][session = Absent /\ session' # Absent => ~marker /\ ~traces]_vars

=============================================================================
