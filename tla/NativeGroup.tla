---------------------------- MODULE NativeGroup ----------------------------
(***************************************************************************)
(* What the four native adapters (router/claude.py, codex.py, opencode.py, *)
(* pi.py) share: a child started in a session of its own, the process      *)
(* group it leads, the pipes it passes on, Core's cancellation, and time.  *)
(*                                                                         *)
(* The group lives its own life.  Its root may exit, a descendant may be   *)
(* born or end, a process may leave the group and keep the pipes open long *)
(* after the group is gone, and only KILL is certain to stop new ones:     *)
(* TERM may be ignored, so it changes nothing here.  A killed process may  *)
(* still take any time to end.                                             *)
(***************************************************************************)
EXTENDS Integers, TLAPS

CONSTANTS
  Grace,    \* ticks from the first signal to KILL (two seconds in the code)
  Limit,    \* ticks from the start of the cleanup to giving up (five seconds)
  SlowAt    \* the points of the adapter's loop at which time may pass

ASSUME NativeGroupAssumption ==
  Grace \in Nat \ {0} /\ Limit \in Nat /\ Grace <= Limit

VARIABLES
  pc,       \* the adapter's next step
  root,     \* the child: not started, running, exited, or reaped by poll()
  code,     \* its exit code, once it has exited
  kids,     \* a descendant of the child lives in its group
  held,     \* some process holds the writing ends of stdout and stderr
  killed,   \* KILL was delivered to the group
  wanted,   \* Core wants the invocation cancelled: poll() says so
  late,     \* the deadline of the invocation has passed
  age,      \* ticks since the clock was read, the cleanup began, TERM was sent
  report    \* what invoke returned, an AdapterResult, or that it raised

groupVars == <<root, code, kids, held, killed>>
callerVars == <<wanted, late>>
osVars == <<groupVars, callerVars, age>>

Nothing == [said |-> "nothing"]
Raised == [said |-> "raised"]
Orphaned == [said |-> "orphaned"]       \* raised with the child left as it is
Failures == {"cancelled", "timeout", "execution", "protocol"}

Clocks == {"now", "cleanup", "term"}
Unset == -1

GroupType ==
  /\ root \in {"none", "running", "exited", "reaped"}
  /\ code \in {"none", "zero", "nonzero"}
  /\ kids \in BOOLEAN /\ held \in BOOLEAN /\ killed \in BOOLEAN
  /\ wanted \in BOOLEAN /\ late \in BOOLEAN
  /\ age \in [Clocks -> Unset .. Limit]

GroupInit ==
  /\ root = "none" /\ code = "none" /\ kids = FALSE /\ held = FALSE /\ killed = FALSE
  /\ wanted = FALSE /\ late = FALSE
  /\ age = [c \in Clocks |-> Unset]

\* A process of the group can still write to the project.
Members == root = "running" \/ kids

\* killpg(pid, 0): an exited child counts until it is reaped.
Group == root \in {"running", "exited"} \/ kids

Exited == root = "reaped"                 \* child.poll() has returned a code
Started(c) == age[c] >= 0
Since(c) == age[c]
Stamp(c, d) == [age EXCEPT ![c] = d]      \* c is set to a reading d ticks old

-----------------------------------------------------------------------------
\* Popen(start_new_session=True) with its own pipes.
Spawned ==
  /\ root' = "running" /\ code' = "none" /\ kids' = FALSE
  /\ held' = TRUE /\ killed' = FALSE
  /\ age' = [c \in Clocks |-> Unset]

\* child.poll(): reaps the child if it has exited.
Reaped == root' = IF root = "exited" THEN "reaped" ELSE root

\* killpg(pid, SIGKILL)
Kill == killed' = (killed \/ Group)

-----------------------------------------------------------------------------
Fork == Members /\ ~killed /\ kids' = TRUE /\ UNCHANGED <<root, code, held, killed>>

\* The last holder of the pipes, in the group or out of it, closes them or ends.
LetGo == held /\ held' = FALSE /\ UNCHANGED <<root, code, kids, killed>>

RootExits ==
  /\ root = "running"
  /\ root' = "exited"
  /\ code' \in {"zero", "nonzero"} \ (IF killed THEN {"zero"} ELSE {})
  /\ UNCHANGED <<kids, held, killed>>

KidsEnd == kids /\ kids' = FALSE /\ UNCHANGED <<root, code, held, killed>>

GroupMoves == Fork \/ LetGo \/ RootExits \/ KidsEnd

\* Both matter only until the adapter has answered.
CancelWanted == pc # "over" /\ ~wanted /\ wanted' = TRUE /\ UNCHANGED late
DeadlinePasses == pc # "over" /\ ~late /\ late' = TRUE /\ UNCHANGED wanted

Tick ==
  /\ pc \in SlowAt
  /\ age' = [c \in Clocks |-> IF age[c] \in 0 .. Limit - 1 THEN age[c] + 1 ELSE age[c]]
  /\ age' # age

\* What happens around the adapter, whatever it is doing.
Surroundings ==
  \/ GroupMoves /\ UNCHANGED <<callerVars, age>>
  \/ (CancelWanted \/ DeadlinePasses) /\ UNCHANGED <<groupVars, age>>
  \/ Tick /\ UNCHANGED <<groupVars, callerVars>>

-----------------------------------------------------------------------------
(* invoke returns or raises, whatever the child and its descendants do      *)
(* with their pipes and their signals.                                     *)
Returns == <>(pc = "over")

Contract == INSTANCE NativeContract WITH
  Answers <- [transport : {"completed"} \cup Failures, writer : {"stopped", "may_live", "unknown"}],
  Exceptions <- {Raised, Orphaned},
  alive <- Members,
  said <- IF report.said = "result"
            THEN [transport |-> report.transport, writer |-> report.writer] ELSE report

(* NativeContract: one group at a time, one answer, and no writer called    *)
(* stopped while a process of the group lives or may still be born.        *)
ContractSpec == Contract!Spec

-----------------------------------------------------------------------------
(* What the proofs about the adapters need to know of the group they start: *)
(* what happens around an adapter starts nothing once no member of the     *)
(* group lives, undoes no KILL and stops no clock.                         *)

\* The parts of GroupType: what is Boolean, and what is not.
FlagType ==
  /\ kids \in BOOLEAN /\ held \in BOOLEAN /\ killed \in BOOLEAN
  /\ wanted \in BOOLEAN /\ late \in BOOLEAN
RootType ==
  root \in {"none", "running", "exited", "reaped"} /\ code \in {"none", "zero", "nonzero"}
AgeType == age \in [Clocks -> Unset .. Limit]

LEMMA GroupTypeParts == GroupType <=> FlagType /\ RootType /\ AgeType
  BY DEF GroupType, FlagType, RootType, AgeType

LEMMA UnsetAges ==
  ASSUME age = [c \in Clocks |-> Unset]
  PROVE  AgeType /\ \A c \in Clocks : ~Started(c)
<1>1. Unset \in Unset .. Limit /\ ~(Unset >= 0)
  BY NativeGroupAssumption, SMT DEF Unset
<1> QED
  BY <1>1 DEF Started, AgeType

LEMMA GroupInitType == GroupInit => GroupType /\ ~Members /\ \A c \in Clocks : ~Started(c)
<1> SUFFICES ASSUME GroupInit PROVE GroupType /\ ~Members /\ \A c \in Clocks : ~Started(c)
  OBVIOUS
<1>1. AgeType /\ \A c \in Clocks : ~Started(c)
  BY UnsetAges DEF GroupInit
<1>2. RootType /\ root # "running"
  BY DEF GroupInit, RootType
<1>3. FlagType /\ ~kids
  BY DEF GroupInit, FlagType
<1> QED
  BY <1>1, <1>2, <1>3, GroupTypeParts DEF Members

LEMMA SpawnedType ==
  ASSUME GroupType, Spawned, UNCHANGED callerVars
  PROVE  GroupType' /\ Members' /\ ~Exited' /\ \A c \in Clocks : ~Started(c)'
<1>1. age' = [c \in Clocks |-> Unset]
  BY DEF Spawned
<1>2. AgeType' /\ \A c \in Clocks : ~Started(c)'
  BY <1>1, NativeGroupAssumption, SMT DEF AgeType, Started, Unset
<1>3. RootType' /\ root' = "running"
  BY DEF Spawned, RootType
<1>4. FlagType'
  BY GroupTypeParts DEF Spawned, FlagType, callerVars
<1> QED
  BY <1>2, <1>3, <1>4 DEF GroupType, FlagType, RootType, AgeType, Members, Exited

LEMMA TickKeepsClocks ==
  ASSUME AgeType, Tick
  PROVE  AgeType' /\ \A c \in Clocks : Started(c)' <=> Started(c)
  BY NativeGroupAssumption, SMT DEF AgeType, Tick, Started, Unset

LEMMA MovesKeepMembers ==
  ASSUME FlagType, RootType, GroupMoves
  PROVE  /\ RootType'
         /\ kids' \in BOOLEAN /\ held' \in BOOLEAN /\ killed' = killed
         /\ ~Members => ~Members' /\ code' = code
         /\ (~killed \/ ~Members) => (Members' => Members)
         /\ root = "reaped" <=> root' = "reaped"
         /\ root = "reaped" => code' = code
<1>1. CASE Fork
  BY <1>1 DEF Fork, FlagType, RootType, Members
<1>2. CASE LetGo
  BY <1>2 DEF LetGo, FlagType, RootType, Members
<1>3. CASE RootExits
  <2>1. /\ root = "running" /\ root' = "exited" /\ code' \in {"zero", "nonzero"}
        /\ kids' = kids /\ held' = held /\ killed' = killed
    BY <1>3 DEF RootExits
  <2> QED
    BY <2>1 DEF FlagType, RootType, Members
<1>4. CASE KidsEnd
  BY <1>4 DEF KidsEnd, FlagType, RootType, Members
<1> QED
  BY <1>1, <1>2, <1>3, <1>4 DEF GroupMoves

LEMMA SurroundingsKeep ==
  ASSUME GroupType, Surroundings
  PROVE  /\ GroupType'
         /\ ~Members => ~Members' /\ code' = code
         /\ killed' = killed
         /\ root = "reaped" <=> root' = "reaped"
         /\ root = "reaped" => code' = code
         /\ \A c \in Clocks : Started(c)' <=> Started(c)
<1>1. CASE GroupMoves /\ UNCHANGED <<callerVars, age>>
  <2>1. AgeType' /\ \A c \in Clocks : Started(c)' <=> Started(c)
    BY <1>1, GroupTypeParts DEF AgeType, Started
  <2>2. FlagType'
    BY <1>1, MovesKeepMembers, GroupTypeParts DEF FlagType, callerVars
  <2> QED
    BY <1>1, <2>1, <2>2, MovesKeepMembers DEF GroupType, FlagType, RootType, AgeType
<1>2. CASE (CancelWanted \/ DeadlinePasses) /\ UNCHANGED <<groupVars, age>>
  <2>1. AgeType' /\ \A c \in Clocks : Started(c)' <=> Started(c)
    BY <1>2, GroupTypeParts DEF AgeType, Started
  <2>2. FlagType'
    BY <1>2, GroupTypeParts DEF FlagType, groupVars, CancelWanted, DeadlinePasses
  <2> QED
    BY <1>2, <2>1, <2>2 DEF groupVars, GroupType, FlagType, RootType, AgeType, Members
<1>3. CASE Tick /\ UNCHANGED <<groupVars, callerVars>>
  BY <1>3, TickKeepsClocks
  DEF groupVars, callerVars, Members, GroupType, FlagType, RootType, AgeType
<1> QED
  BY <1>1, <1>2, <1>3 DEF Surroundings

\* A group that killpg does not find has no member.
LEMMA GoneHasNoMembers == ~Group => ~Members
  BY DEF Group, Members

\* poll() changes neither who lives nor what a member may do.
LEMMA ReapedKeeps ==
  ASSUME RootType, Reaped, UNCHANGED <<code, kids>>
  PROVE  RootType' /\ Members' = Members
<1>1. RootType'
  BY DEF RootType, Reaped
<1>2. root' = "running" <=> root = "running"
  BY DEF Reaped
<1> QED
  BY <1>1, <1>2 DEF Members

\* KILL reaches every member.
LEMMA KillType ==
  ASSUME FlagType, Kill
  PROVE  killed' \in BOOLEAN /\ (killed => killed') /\ (Members => killed')
  BY DEF FlagType, Kill, Group, Members
=============================================================================
