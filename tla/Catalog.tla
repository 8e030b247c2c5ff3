------------------------------ MODULE Catalog ------------------------------
(***************************************************************************)
(* catalog.py: several processes copy one workflow folder to the same      *)
(* destination while its files are edited.  A copy lists and digests the   *)
(* source, makes the destination, copies file by file, and succeeds only   *)
(* if the source and the destination then both have the digest; a copy     *)
(* that fails removes the directory it made.  A digest is the function     *)
(* from the files of a folder to their contents (module bits included).    *)
(***************************************************************************)
EXTENDS Naturals

CONSTANTS
  Copiers,     \* processes in copy_workflow or init_template
  Files,       \* names of files in a folder
  Graph,       \* workflow.json, the one every folder must have
  Contents,    \* what a file holds
  MaxEdits,    \* bound: files of the source written, added or removed
  MaxErrors,   \* bound: input/output errors
  MaxKills     \* bound: copiers killed

ASSUME CatalogAssumption == MaxEdits \in Nat /\ MaxErrors \in Nat /\ MaxKills \in Nat

VARIABLES
  pc,       \* per copier, the next step of _copy
  listed,   \* per copier, the files of the source it listed
  digest,   \* per copier, the digest of the source, as far as it was read
  seen,     \* per copier, what it has read of a folder it verifies
  source,   \* the workflow folder
  dest,     \* the destination, a function as source
  made,     \* the destination exists
  owner,    \* history: who made the destination that exists
  edits, errors, kills

vars == <<pc, listed, digest, seen, source, dest, made, owner, edits, errors, kills>>
bounds == <<edits, errors, kills>>
folders == <<source, dest, made, owner>>

Folders == UNION {[S -> Contents] : S \in SUBSET Files}
None == [f \in {} |-> 0]
With(folder, f, x) == [g \in DOMAIN folder \cup {f} |-> IF g = f THEN x ELSE folder[g]]
Without(folder, f) == [g \in DOMAIN folder \ {f} |-> folder[g]]

Init ==
  /\ pc = [c \in Copiers |-> "start"] /\ listed = [c \in Copiers |-> {}]
  /\ digest = [c \in Copiers |-> None] /\ seen = [c \in Copiers |-> None]
  /\ source \in [Files -> Contents] /\ dest = None /\ made = FALSE /\ owner \in Copiers
  /\ edits = 0 /\ errors = 0 /\ kills = 0

Goto(c, p) == pc' = [pc EXCEPT ![c] = p]

\* Where an exception leads: a copier that has made the destination removes it.
Owned == {"copy", "source", "readsource", "dest", "readdest"}
AfterErrorLeft(p) == "failed"
AfterError(p) == IF p \in Owned THEN "remove" ELSE "failed"
FailAt(c) == Goto(c, AfterError(pc[c]))

-----------------------------------------------------------------------------
\* lexists, the checks of the paths, and the listing of the source.
Check(c) ==
  /\ pc[c] = "start"
  /\ IF made \/ Graph \notin DOMAIN source THEN FailAt(c) /\ UNCHANGED listed
     ELSE Goto(c, "digest") /\ listed' = [listed EXCEPT ![c] = DOMAIN source]
  /\ UNCHANGED <<digest, seen, folders, bounds>>

\* The next file of the listing; one that has gone is an error.
Digest(c) ==
  /\ pc[c] = "digest"
  /\ IF DOMAIN digest[c] = listed[c] THEN Goto(c, "mkdir") /\ UNCHANGED digest
     ELSE \E f \in listed[c] \ DOMAIN digest[c] :
            IF f \in DOMAIN source
              THEN digest' = [digest EXCEPT ![c] = With(@, f, source[f])] /\ UNCHANGED pc
              ELSE FailAt(c) /\ UNCHANGED digest
  /\ UNCHANGED <<listed, seen, folders, bounds>>

\* Exclusive: whoever finds the directory there fails, and owns nothing.
MkdirShared(c) ==
  /\ pc[c] = "mkdir" /\ Goto(c, "copy") /\ made' = TRUE
  /\ IF made THEN UNCHANGED <<dest, owner>> ELSE dest' = None /\ owner' = c
  /\ UNCHANGED <<listed, digest, seen, source, bounds>>
Mkdir(c) ==
  /\ pc[c] = "mkdir"
  /\ IF made THEN FailAt(c) /\ UNCHANGED folders
     ELSE Goto(c, "copy") /\ made' = TRUE /\ dest' = None /\ owner' = c /\ UNCHANGED source
  /\ UNCHANGED <<listed, digest, seen, bounds>>

CopyFile(c) ==
  /\ pc[c] = "copy"
  /\ IF DOMAIN dest = listed[c] THEN Goto(c, "source") /\ UNCHANGED dest
     ELSE \E f \in listed[c] \ DOMAIN dest :
            IF f \in DOMAIN source THEN dest' = With(dest, f, source[f]) /\ UNCHANGED pc
              ELSE FailAt(c) /\ UNCHANGED dest
  /\ UNCHANGED <<listed, digest, seen, source, made, owner, bounds>>

\* workflow_fingerprint of a folder: a new listing, then file by file.
Relist(c, from, to, folder) ==
  /\ pc[c] = from
  /\ IF Graph \in DOMAIN folder THEN Goto(c, to) ELSE FailAt(c)
  /\ listed' = [listed EXCEPT ![c] = DOMAIN folder] /\ seen' = [seen EXCEPT ![c] = None]
  /\ UNCHANGED <<digest, folders, bounds>>
Reread(c, at, next, folder) ==
  /\ pc[c] = at
  /\ IF DOMAIN seen[c] = listed[c]
       THEN (IF seen[c] = digest[c] THEN Goto(c, next) ELSE FailAt(c)) /\ UNCHANGED seen
     ELSE \E f \in listed[c] \ DOMAIN seen[c] :
            IF f \in DOMAIN folder
              THEN seen' = [seen EXCEPT ![c] = With(@, f, folder[f])] /\ UNCHANGED pc
              ELSE FailAt(c) /\ UNCHANGED seen
  /\ UNCHANGED <<listed, digest, folders, bounds>>
VerifySource(c) ==
  \/ Relist(c, "source", "readsource", source)
  \/ Reread(c, "readsource", "dest", source)
VerifyDest(c) ==
  \/ Relist(c, "dest", "readdest", dest)
  \/ Reread(c, "readdest", "copied", dest)

\* rmtree of the copier's own root, file by file; then the error is raised.
Remove(c) ==
  /\ pc[c] = "remove"
  /\ IF dest = None THEN made' = FALSE /\ Goto(c, "failed") /\ UNCHANGED dest
     ELSE (\E f \in DOMAIN dest : dest' = Without(dest, f)) /\ UNCHANGED <<made, pc>>
  /\ UNCHANGED <<listed, digest, seen, source, owner, bounds>>

\* An input/output error at any step; in rmtree it leaves the rest of the tree.
Error(c) ==
  /\ pc[c] \notin {"failed", "copied", "killed", "left"} /\ errors < MaxErrors /\ errors' = errors + 1
  /\ IF pc[c] = "remove" THEN Goto(c, "left") ELSE FailAt(c)
  /\ UNCHANGED <<listed, digest, seen, folders, edits, kills>>

Kill(c) ==
  /\ pc[c] \notin {"failed", "copied", "killed", "left"} /\ kills < MaxKills /\ kills' = kills + 1
  /\ Goto(c, "killed")
  /\ UNCHANGED <<listed, digest, seen, folders, edits, errors>>

Edit ==
  /\ edits < MaxEdits /\ edits' = edits + 1
  /\ \E f \in Files :
       \/ \E x \in Contents : source' = With(source, f, x)
       \/ f \in DOMAIN source /\ source' = Without(source, f)
  /\ UNCHANGED <<pc, listed, digest, seen, dest, made, owner, errors, kills>>

Copy(c) ==
  \/ Check(c) \/ Digest(c) \/ Mkdir(c) \/ CopyFile(c) \/ VerifySource(c) \/ VerifyDest(c)
  \/ Remove(c) \/ Error(c) \/ Kill(c)

Next == Edit \/ \E c \in Copiers : Copy(c)

Spec == Init /\ [][Next]_vars

-----------------------------------------------------------------------------
TypeOK ==
  /\ pc \in [Copiers -> Owned \cup {"start", "digest", "mkdir", "remove", "failed", "copied",
                                    "killed", "left"}]
  /\ listed \in [Copiers -> SUBSET Files]
  /\ digest \in [Copiers -> Folders] /\ seen \in [Copiers -> Folders]
  /\ source \in Folders /\ dest \in Folders /\ made \in BOOLEAN /\ owner \in Copiers
  /\ edits \in 0..MaxEdits /\ errors \in 0..MaxErrors /\ kills \in 0..MaxKills

\* A copy that succeeded made the destination and left there what it took the digest of,
\* and no other copier, whether it lost the race or failed later, has removed any of it.
CopiedIsWhole == \A c \in Copiers : pc[c] = "copied" => made /\ owner = c /\ dest = digest[c]

\* "a failed copy removes only its exclusively owned root": what is there belongs to
\* someone who is at work on it, has finished, or was stopped; a failed copy leaves nothing.
FailedLeavesNothing ==
  made => pc[owner] \in Owned \cup {"remove", "copied", "killed", "left"}
=============================================================================
