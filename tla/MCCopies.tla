------------------------------ MODULE MCCopies ------------------------------
(***************************************************************************)
(* The life of a copy of a template, in two stages that share no state:    *)
(* the catalog makes it (Catalog), and its first two nodes start a session *)
(* in it (LadBootstrap).  A behaviour is one stage; the other rests.       *)
(***************************************************************************)
EXTENDS Catalog

CONSTANTS
  c1, c2,
  MCVersions, MCCrashes, MCChanges, MCLosses   \* of LadBootstrap: its versions and bounds

\* Versions are numbers; Missing, NoIntake and an absent owner are none of them.
ASSUME CopiesAssumption == MCVersions \subseteq Nat

VARIABLES
  stage,
  at, mine, manifest, original, staging, session, request, marker, traces, crashes, changes, losses

Bootstrap == INSTANCE LadBootstrap WITH
  pc <- at, edits <- changes, Versions <- MCVersions,
  MaxCrashes <- MCCrashes, MaxEdits <- MCChanges, MaxLosses <- MCLosses

copyVars == <<at, mine, manifest, original, staging, session, request, marker, traces,
              crashes, changes, losses>>

CopyInit ==
  /\ Init /\ Bootstrap!Init
  /\ \/ stage = "copying" /\ manifest = 0 /\ original = 0
     \/ stage = "launched" /\ source = [f \in Files |-> 0] /\ owner = c1

Copying == stage = "copying" /\ Next /\ UNCHANGED <<stage, copyVars>>
Starting == stage = "launched" /\ Bootstrap!Next /\ UNCHANGED <<stage, vars>>

CopyNext == Copying \/ Starting

Copies == CopyInit /\ [][CopyNext]_<<stage, vars, copyVars>>

\* LadBootstrap!PublishedWhole, of the session started in the copy.
PublishedWhole == Bootstrap!PublishedWhole

\* LadBootstrap!OneRequest, of the session started in the copy.
OneRequest == Bootstrap!OneRequest

\* LadBootstrap!MarkedIsNotReset, of the session started in the copy.
MarkedIsNotReset == Bootstrap!MarkedIsNotReset
=============================================================================
