---------------------------- MODULE CopyProofs ----------------------------
(***************************************************************************)
(* The two stages of a copy of a template, as MCCopies composes them.      *)
(*                                                                         *)
(* Of the catalog: CopiedIsWhole and FailedLeavesNothing for any number of *)
(* copiers, any files and any edits.  The strengthening says who may hold  *)
(* a destination (only its maker is past mkdir), and that what a copier    *)
(* has read back of the destination so far is still there.                 *)
(*                                                                         *)
(* Of the bootstrap: PublishedWhole, OneRequest and MarkedIsNotReset, for  *)
(* any versions and however many scripts die.  The strengthening says what *)
(* each step of init_session has staged, that it makes a session only      *)
(* where there is none and no trace of work, and that the request taken in *)
(* is the one of the session's identity as long as no role has used it.    *)
(***************************************************************************)
EXTENDS MCCopies, Integers, TLAPS

-----------------------------------------------------------------------------
(* The catalog *)

\* Steps of a copier that has made the destination, and has not been stopped.
Holding == Owned \cup {"remove", "copied"}

States == Owned \cup {"start", "digest", "mkdir", "remove", "failed", "copied", "killed", "left"}

IsFun(f) == f = [x \in DOMAIN f |-> f[x]]

\* Types the proof needs.
Typed ==
  /\ pc \in [Copiers -> States]
  /\ DOMAIN listed = Copiers /\ DOMAIN digest = Copiers /\ DOMAIN seen = Copiers
  /\ owner \in Copiers
  /\ \A c \in Copiers : IsFun(seen[c])
  /\ IsFun(dest)

\* Only its maker works on a destination.
OneMaker == \A c \in Copiers : pc[c] \in Holding => made /\ owner = c

\* What was read back of the destination is there.
Reads(files, read, folder) ==
  /\ files = DOMAIN folder /\ DOMAIN read \subseteq DOMAIN folder
  /\ \A f \in DOMAIN read : read[f] = folder[f]
ReadBack == \A c \in Copiers : pc[c] = "readdest" => Reads(listed[c], seen[c], dest)

CatalogInv == Typed /\ OneMaker /\ ReadBack /\ CopiedIsWhole /\ FailedLeavesNothing

\* What the maker of the destination may write before it has read it back.
Works(c) ==
  /\ DOMAIN listed' = Copiers /\ DOMAIN seen' = Copiers /\ digest' = digest
  /\ \A d \in Copiers \ {c} : listed'[d] = listed[d] /\ seen'[d] = seen[d]
  /\ IsFun(seen'[c]) /\ IsFun(dest') /\ made' = made /\ owner' = owner

LEMMA CatalogInit == Init => CatalogInv
  BY SMT DEF Init, CatalogInv, Typed, OneMaker, ReadBack, CopiedIsWhole, FailedLeavesNothing, None, Reads,
             Holding, Owned, States, IsFun

\* A copier that has not made the destination and does not make it disturbs nothing.
LEMMA Bystander ==
  ASSUME CatalogInv, NEW c \in Copiers, NEW p \in {"start", "digest", "mkdir", "failed", "killed"},
         pc[c] \in {"start", "digest", "mkdir"}, Goto(c, p),
         DOMAIN listed' = Copiers, DOMAIN digest' = Copiers, seen' = seen,
         \A d \in Copiers \ {c} : listed'[d] = listed[d] /\ digest'[d] = digest[d],
         dest' = dest, made' = made, owner' = owner
  PROVE  CatalogInv'
<1>1. /\ pc' \in [Copiers -> States] /\ pc'[c] = p /\ \A d \in Copiers \ {c} : pc'[d] = pc[d]
  BY SMT DEF CatalogInv, Typed, Goto, States
<1>2. p \notin Holding
  BY SMT DEF Holding, Owned
<1>3. Typed'
  BY <1>1, SMT DEF CatalogInv, Typed
<1>4. OneMaker'
  BY <1>1, <1>2, SMT DEF CatalogInv, OneMaker
<1>5. ReadBack'
  BY <1>1, <1>2, SMT DEF CatalogInv, ReadBack, Holding, Owned
<1>6. CopiedIsWhole'
  BY <1>1, <1>2, SMT DEF CatalogInv, CopiedIsWhole, Holding
<1>7. FailedLeavesNothing'
  BY <1>1, SMT DEF CatalogInv, Typed, FailedLeavesNothing, Owned
<1> QED
  BY <1>3, <1>4, <1>5, <1>6, <1>7 DEF CatalogInv

\* A step of the maker before it reads the destination back: whatever it reads or writes.
LEMMA AtWork ==
  ASSUME CatalogInv, NEW c \in Copiers, NEW p \in Owned \cup {"remove", "killed", "left"},
         pc[c] \in Owned \cup {"remove"}, Goto(c, p), Works(c),
         p = "readdest" => Reads(listed'[c], seen'[c], dest')
  PROVE  CatalogInv'
<1> USE DEF Works
<1>1. /\ pc' \in [Copiers -> States] /\ pc'[c] = p /\ \A d \in Copiers \ {c} : pc'[d] = pc[d]
  BY SMT DEF CatalogInv, Typed, Goto, States, Owned
<1>2. owner = c /\ made
  BY SMT DEF CatalogInv, OneMaker, Holding, Owned
<1>3. \A d \in Copiers \ {c} : pc'[d] \notin Holding
  BY <1>1, <1>2, SMT DEF CatalogInv, OneMaker
<1>4. Typed'
  BY <1>1, SMT DEF CatalogInv, Typed
<1>5. OneMaker'
  BY <1>1, <1>2, <1>3, SMT DEF OneMaker
<1>6. ReadBack'
  BY <1>1, <1>3, SMT DEF ReadBack, Holding, Owned
<1>7. CopiedIsWhole'
  BY <1>1, <1>3, SMT DEF CopiedIsWhole, Holding, Owned
<1>8. FailedLeavesNothing'
  BY <1>1, <1>2, SMT DEF FailedLeavesNothing, Owned
<1> QED
  BY <1>4, <1>5, <1>6, <1>7, <1>8 DEF CatalogInv

LEMMA FolderIsFunction ==
  /\ IsFun(None)
  /\ \A folder, f, x : IsFun(With(folder, f, x)) /\ IsFun(Without(folder, f))
  BY SMT DEF None, With, Without, IsFun

\* Where a copier goes when its step raises.
LEMMA Fails ==
  ASSUME NEW c \in Copiers
  PROVE  /\ pc[c] \in Owned => AfterError(pc[c]) = "remove"
         /\ pc[c] \notin Owned => AfterError(pc[c]) = "failed"
  BY DEF AfterError

LEMMA CatalogStep == CatalogInv /\ [Next]_vars => CatalogInv'
<1> SUFFICES ASSUME CatalogInv, [Next]_vars PROVE CatalogInv'
  OBVIOUS
<1>1. CASE UNCHANGED vars
  BY <1>1, SMT DEF CatalogInv, Typed, OneMaker, ReadBack, CopiedIsWhole, FailedLeavesNothing, vars
<1>2. CASE Edit
  BY <1>2, SMT DEF Edit, CatalogInv, Typed, OneMaker, ReadBack, CopiedIsWhole, FailedLeavesNothing
<1>3. ASSUME NEW c \in Copiers, Copy(c) PROVE CatalogInv'
  <2>1. CASE Check(c) \/ Digest(c)
    <3>1. \E p \in {"start", "digest", "mkdir", "failed", "killed"} : Goto(c, p)
      BY <2>1, Fails, SMT DEF Check, Digest, FailAt, Goto, CatalogInv, Typed, Owned
    <3>2. /\ DOMAIN listed' = Copiers /\ DOMAIN digest' = Copiers
          /\ \A d \in Copiers \ {c} : listed'[d] = listed[d] /\ digest'[d] = digest[d]
      BY <2>1, SMT DEF Check, Digest, CatalogInv, Typed
    <3>3. /\ pc[c] \in {"start", "digest", "mkdir"}
          /\ seen' = seen /\ dest' = dest /\ made' = made /\ owner' = owner
      BY <2>1 DEF Check, Digest, folders
    <3> QED
      BY <3>1, <3>2, <3>3, Bystander
  <2>2. CASE Mkdir(c)
    <3>1. CASE made
      <4>1. Goto(c, "failed")
        BY <2>2, <3>1, Fails DEF Mkdir, FailAt, Owned
      <4> QED
        BY <2>2, <3>1, <4>1, Bystander DEF Mkdir, folders, CatalogInv, Typed
    <3>2. CASE ~made
      <4>1. \A d \in Copiers : pc[d] \notin Holding
        BY <3>2 DEF CatalogInv, OneMaker
      <4>2. /\ pc' = [pc EXCEPT ![c] = "copy"] /\ made' /\ dest' = None /\ owner' = c
            /\ listed' = listed /\ digest' = digest /\ seen' = seen
        BY <2>2, <3>2 DEF Mkdir, Goto
      <4>3. Typed'
        BY <4>2, FolderIsFunction, SMT DEF CatalogInv, Typed, States, Owned
      <4> QED
        BY <4>1, <4>2, <4>3, SMT
        DEF CatalogInv, Typed, OneMaker, ReadBack, CopiedIsWhole, FailedLeavesNothing, Holding, Owned
    <3> QED BY <3>1, <3>2
  <2>3. CASE CopyFile(c)
    <3>1. /\ pc[c] = "copy" /\ listed' = listed /\ digest' = digest /\ seen' = seen
          /\ made' = made /\ owner' = owner
      BY <2>3 DEF CopyFile
    <3>2. IsFun(dest')
      BY <2>3, FolderIsFunction DEF CopyFile, CatalogInv, Typed
    <3>3. \E p \in {"copy", "source", "remove"} : Goto(c, p)
      BY <2>3, <3>1, Fails, SMT DEF CopyFile, FailAt, Goto, CatalogInv, Typed, Owned
    <3>4. Works(c) /\ pc[c] \in Owned /\ {"copy", "source"} \subseteq Owned
      BY <3>1, <3>2 DEF Works, CatalogInv, Typed, Owned
    <3> QED
      BY <3>3, <3>4, AtWork
  <2>4. ASSUME NEW from, NEW to, NEW folder, Relist(c, from, to, folder),
               \/ from = "source" /\ to = "readsource"
               \/ from = "dest" /\ to = "readdest" /\ folder = dest
        PROVE CatalogInv'
    <3>1. /\ pc[c] = from /\ digest' = digest /\ dest' = dest /\ made' = made /\ owner' = owner
          /\ listed' = [listed EXCEPT ![c] = DOMAIN folder]
          /\ seen' = [seen EXCEPT ![c] = None]
      BY <2>4 DEF Relist, folders
    <3>2. \/ Goto(c, to) \/ Goto(c, "remove")
      BY <2>4, <3>1, Fails DEF Relist, FailAt, Owned
    <3>3. seen'[c] = None /\ DOMAIN None = {} /\ listed'[c] = DOMAIN folder
      BY <3>1 DEF CatalogInv, Typed, None
    <3>4. Works(c)
      BY <3>1, <3>3, FolderIsFunction DEF Works, CatalogInv, Typed
    <3>5. pc[c] \in Owned /\ {"remove", "readsource", "readdest"} \subseteq Owned \cup {"remove"}
      BY <2>4, <3>1 DEF Owned
    <3>6. to = "readdest" => Reads(listed'[c], seen'[c], dest')
      BY <2>4, <3>1, <3>3 DEF Reads
    <3>7. CASE Goto(c, "remove")
      BY <3>4, <3>5, <3>7, AtWork
    <3>8. CASE Goto(c, to)
      BY <2>4, <3>4, <3>5, <3>6, <3>8, AtWork
    <3> QED BY <3>2, <3>7, <3>8
  <2>5. ASSUME NEW from, NEW next, NEW folder, Reread(c, from, next, folder),
               \/ from = "readsource" /\ next = "dest"
               \/ from = "readdest" /\ next = "copied" /\ folder = dest
        PROVE CatalogInv'
    <3>1. /\ pc[c] = from /\ listed' = listed /\ digest' = digest /\ dest' = dest
          /\ made' = made /\ owner' = owner
      BY <2>5 DEF Reread, folders
    <3>2. \/ Goto(c, "remove") /\ seen' = seen
          \/ Goto(c, next) /\ seen' = seen /\ DOMAIN seen[c] = listed[c] /\ seen[c] = digest[c]
          \/ /\ pc' = pc
             /\ \E f \in listed[c] : f \in DOMAIN folder
                                     /\ seen' = [seen EXCEPT ![c] = With(@, f, folder[f])]
      BY <2>5, <3>1, Fails DEF Reread, FailAt, Owned
    <3>3. pc[c] \in Owned /\ {"remove", "readsource", "readdest", "dest"} \subseteq Owned \cup {"remove"}
      BY <2>5, <3>1 DEF Owned
    <3>4. seen' = seen => Works(c)
      BY <3>1 DEF Works, CatalogInv, Typed
    <3>5. CASE Goto(c, "remove") /\ seen' = seen
      BY <3>3, <3>4, <3>5, AtWork
    <3>6. CASE /\ Goto(c, next) /\ seen' = seen
               /\ DOMAIN seen[c] = listed[c] /\ seen[c] = digest[c]
      <4>1. CASE next = "dest"
        <5>1. Goto(c, "dest") /\ seen' = seen
          BY <3>6, <4>1
        <5> QED
          BY <5>1, <3>3, <3>4, AtWork
      <4>2. CASE next = "copied"
        <5>1. from = "readdest"
          BY <2>5, <4>2
        <5>2. dest = digest[c]
          BY <3>1, <3>6, <5>1, SMT DEF CatalogInv, Typed, ReadBack, Reads, IsFun
        <5>3. owner = c /\ made
          BY <3>1, <3>3 DEF CatalogInv, OneMaker, Holding
        <5>4. \A d \in Copiers \ {c} : pc[d] \notin Holding
          BY <5>3 DEF CatalogInv, OneMaker
        <5>5. pc' = [pc EXCEPT ![c] = "copied"] /\ seen' = seen
          BY <3>6, <4>2 DEF Goto
        <5>6. Typed'
          BY <3>1, <5>5, SMT DEF CatalogInv, Typed, States
        <5>7. /\ pc'[c] = "copied"
              /\ \A d \in Copiers \ {c} : pc'[d] \notin Holding
          BY <5>4, <5>5, SMT DEF CatalogInv, Typed
        <5> QED
          BY <3>1, <5>2, <5>3, <5>6, <5>7, SMT
          DEF CatalogInv, OneMaker, ReadBack, CopiedIsWhole, FailedLeavesNothing, Holding, Owned
      <4> QED BY <2>5, <4>1, <4>2
    <3>7. ASSUME pc' = pc, NEW f \in listed[c], f \in DOMAIN folder,
                 seen' = [seen EXCEPT ![c] = With(@, f, folder[f])]
          PROVE CatalogInv'
      <4>1. seen'[c] = With(seen[c], f, folder[f])
        BY <3>7 DEF CatalogInv, Typed
      <4>2. Works(c)
        BY <3>1, <3>7, <4>1, FolderIsFunction DEF Works, CatalogInv, Typed
      <4>3. Goto(c, from)
        BY <3>1, <3>7, SMT DEF Goto, CatalogInv, Typed
      <4>4. from = "readdest" => Reads(listed'[c], seen'[c], dest')
        BY <2>5, <3>1, <3>7, <4>1, SMT DEF CatalogInv, ReadBack, Reads, With
      <4> QED
        BY <2>5, <3>1, <3>3, <4>2, <4>3, <4>4, AtWork
    <3> QED BY <3>2, <3>5, <3>6, <3>7
  <2>6. CASE Remove(c)
    <3>1. /\ pc[c] = "remove" /\ listed' = listed /\ digest' = digest /\ seen' = seen
          /\ owner' = owner
      BY <2>6 DEF Remove
    <3>2. CASE dest = None
      <4>1. owner = c /\ \A d \in Copiers \ {c} : pc[d] \notin Holding
        BY <3>1 DEF CatalogInv, OneMaker, Holding
      <4>2. pc' = [pc EXCEPT ![c] = "failed"] /\ ~made' /\ dest' = dest
        BY <2>6, <3>2 DEF Remove, Goto
      <4>3. Typed' /\ \A d \in Copiers : pc'[d] \notin Holding
        BY <3>1, <4>1, <4>2, SMT DEF CatalogInv, Typed, States, Holding, Owned
      <4> QED
        BY <4>2, <4>3, SMT DEF CatalogInv, OneMaker, ReadBack, CopiedIsWhole, FailedLeavesNothing, Holding, Owned
    <3>3. CASE dest # None
      <4>1. IsFun(dest') /\ made' = made /\ pc' = pc
        BY <2>6, <3>3, FolderIsFunction DEF Remove
      <4>2. Goto(c, "remove")
        BY <3>1, <4>1, SMT DEF Goto, CatalogInv, Typed
      <4>3. Works(c)
        BY <3>1, <4>1 DEF Works, CatalogInv, Typed
      <4> QED
        BY <3>1, <4>2, <4>3, AtWork
    <3> QED BY <3>2, <3>3
  <2>7. CASE Error(c) \/ Kill(c)
    <3>1. /\ pc[c] \notin {"failed", "copied", "killed", "left"}
          /\ listed' = listed /\ digest' = digest /\ seen' = seen
          /\ dest' = dest /\ made' = made /\ owner' = owner
      BY <2>7 DEF Error, Kill, folders
    <3>2. pc[c] \in {"start", "digest", "mkdir"} \/ pc[c] \in Owned \cup {"remove"}
      BY <3>1, SMT DEF CatalogInv, Typed, States
    <3>3. CASE pc[c] \in {"start", "digest", "mkdir"}
      <4>1. Goto(c, "failed") \/ Goto(c, "killed")
        BY <2>7, <3>3, Fails DEF Error, Kill, FailAt, Owned
      <4> QED
        BY <3>1, <3>3, <4>1, Bystander DEF CatalogInv, Typed
    <3>4. CASE pc[c] \in Owned \cup {"remove"}
      <4>1. \E p \in {"left", "remove", "killed"} : Goto(c, p)
        BY <2>7, <3>4, Fails DEF Error, Kill, FailAt
      <4>2. Works(c)
        BY <3>1 DEF Works, CatalogInv, Typed
      <4> QED
        BY <3>4, <4>1, <4>2, AtWork
    <3> QED BY <3>2, <3>3, <3>4
  <2>8. CASE VerifySource(c)
    BY <2>4, <2>5, <2>8 DEF VerifySource
  <2>9. CASE VerifyDest(c)
    BY <2>4, <2>5, <2>9 DEF VerifyDest
  <2> QED
    BY <1>3, <2>1, <2>2, <2>3, <2>6, <2>7, <2>8, <2>9 DEF Copy
<1> QED
  BY <1>1, <1>2, <1>3 DEF Next

\* The inductive invariant, for any number of copiers.
THEOREM CatalogInvariance == Spec => []CatalogInv
<1>1. Init => CatalogInv
  BY CatalogInit
<1>2. CatalogInv /\ [Next]_vars => CatalogInv'
  BY CatalogStep
<1> QED
  BY <1>1, <1>2, PTL DEF Spec

\* A copy that succeeded is whole and stays so, however many copiers race for its
\* destination and whatever is edited, fails or is killed: Mkdir is exclusive, every
\* write to the destination is its maker's, and the maker read back all of it.
THEOREM CopyIsWhole == Spec => []CopiedIsWhole
<1>1. CatalogInv => CopiedIsWhole
  BY DEF CatalogInv
<1> QED
  BY <1>1, CatalogInvariance, PTL

\* A destination that exists was made by a copier that has not failed: what a failed copy
\* made is gone before its error is raised, unless the removal itself was refused.
THEOREM FailureIsClean == Spec => []FailedLeavesNothing
<1>1. CatalogInv => FailedLeavesNothing
  BY DEF CatalogInv
<1> QED
  BY <1>1, CatalogInvariance, PTL

-----------------------------------------------------------------------------
(* The bootstrap *)

\* The steps that make a session, and those that go on with one.
Making == {"clean", "mkdir", "owner", "ledger", "rename"}
Using == {"marker", "setup", "copy", "intake", "ready", "role"}

\* What mine and request may be, and the records of a session, staged or published.
Read == MCVersions \cup {0}
Ledgers == [identity : Int, intake : Int, used : BOOLEAN]
Sessions == [owner : Int, ledger : Ledgers]

\* Types of the bootstrap's variables.
BootType ==
  /\ at \in Making \cup Using \cup {"init", "paused"}
  /\ mine \in Read /\ manifest \in MCVersions /\ original \in MCVersions /\ request \in Read
  /\ staging \in Sessions /\ session \in Sessions
  /\ marker \in BOOLEAN /\ traces \in BOOLEAN

\* The bootstrap makes a session only where there is none, and where no work was done;
\* what it has staged is what it wrote.
MakesNew ==
  /\ at \in Making => session = Bootstrap!Absent /\ ~marker /\ ~traces /\ mine \in MCVersions
  /\ at = "mkdir" => staging = Bootstrap!Absent
  /\ at = "owner" => staging = Bootstrap!Empty
  /\ at = "ledger" => staging = [owner |-> mine, ledger |-> Bootstrap!NoLedger]
  /\ at = "rename" => staging = [owner |-> mine, ledger |-> Bootstrap!Fresh(mine)]

\* A script that found a session still has it.
HasSession == at \in Using => session # Bootstrap!Absent

\* The request that is being taken in is the one of the session's identity, and no
\* role has used another.
TakesIn ==
  /\ at \in {"copy", "intake"} =>
       /\ ~session.ledger.used
       /\ session.ledger.identity # 0 => mine = session.ledger.identity
  /\ at = "intake" => request = mine
  /\ at = "ready" =>
       /\ session.ledger.intake = request
       /\ session.ledger.identity # 0 => request = session.ledger.identity

BootInv ==
  /\ BootType /\ MakesNew /\ HasSession /\ TakesIn
  /\ PublishedWhole /\ OneRequest

\* The fields of the records, and what tells them apart.
LEMMA Records ==
  /\ Bootstrap!Absent \in Sessions /\ Bootstrap!Empty \in Sessions
  /\ Bootstrap!NoLedger \in Ledgers
  /\ Bootstrap!Absent.owner = -2 /\ Bootstrap!Empty.owner = -1
  /\ Bootstrap!NoLedger.identity = -1 /\ ~Bootstrap!NoLedger.used
  /\ \A v \in Int : /\ Bootstrap!Fresh(v) \in Ledgers
                     /\ Bootstrap!Fresh(v).identity = v /\ ~Bootstrap!Fresh(v).used
  BY DEF Bootstrap!Absent, Bootstrap!Empty, Bootstrap!NoLedger, Bootstrap!Fresh,
         Bootstrap!Missing, Bootstrap!NoIntake, Sessions, Ledgers

LEMMA BootInit == Bootstrap!Init => BootInv
<1> SUFFICES ASSUME Bootstrap!Init PROVE BootInv
  OBVIOUS
<1>1. BootType
  BY Records DEF Bootstrap!Init, BootType, Read
<1>2. MakesNew /\ HasSession /\ TakesIn
  BY DEF Bootstrap!Init, MakesNew, HasSession, TakesIn, Making, Using
<1>3. PublishedWhole /\ OneRequest
  BY DEF Bootstrap!Init, PublishedWhole, OneRequest, Bootstrap!PublishedWhole, Bootstrap!OneRequest
<1> QED
  BY <1>1, <1>2, <1>3 DEF BootInv

\* A step that only moves on, or reads a version, between the steps that hold something.
LEMMA Moves ==
  ASSUME BootInv, UNCHANGED <<staging, session, request>>,
         marker' \in BOOLEAN, traces' \in BOOLEAN,
         mine' \in Read, manifest' \in MCVersions, original' \in MCVersions,
         at' \in {"init", "paused", "setup", "clean", "mkdir"},
         at' = "setup" => session # Bootstrap!Absent,
         at' \in {"clean", "mkdir"} =>
           session = Bootstrap!Absent /\ ~marker' /\ ~traces' /\ mine' \in MCVersions,
         at' = "mkdir" => staging = Bootstrap!Absent
  PROVE  BootInv'
<1>1. BootType'
  BY DEF BootInv, BootType, Making, Using
<1>2. MakesNew' /\ HasSession' /\ TakesIn'
  BY DEF BootInv, MakesNew, HasSession, TakesIn, Making, Using
<1> QED
  BY <1>1, <1>2, SMT
  DEF BootInv, PublishedWhole, OneRequest, Bootstrap!PublishedWhole, Bootstrap!OneRequest

LEMMA BeginKeeps == BootInv /\ Bootstrap!Begin => BootInv'
<1> SUFFICES ASSUME BootInv, Bootstrap!Begin PROVE BootInv'
  OBVIOUS
<1>1. /\ mine' = manifest /\ UNCHANGED <<staging, session, request, marker, manifest, original, traces>>
      /\ at' \in {"paused", "setup", "mkdir", "clean"}
      /\ at' = "setup" => session # Bootstrap!Absent
      /\ at' \in {"clean", "mkdir"} => session = Bootstrap!Absent /\ ~marker /\ ~traces
      /\ at' = "mkdir" => staging = Bootstrap!Absent
  BY DEF Bootstrap!Begin, Bootstrap!Goto, Bootstrap!Quiet, Bootstrap!project
<1> QED
  BY <1>1, Moves DEF BootInv, BootType, Read

\* What init_session writes before it publishes is staged.
LEMMA Stages ==
  ASSUME BootInv, at \in Making, at' \in Making,
         UNCHANGED <<mine, session, request, marker, manifest, original, traces>>,
         staging' \in Sessions,
         at' = "mkdir" => staging' = Bootstrap!Absent,
         at' = "owner" => staging' = Bootstrap!Empty,
         at' = "ledger" => staging' = [owner |-> mine, ledger |-> Bootstrap!NoLedger],
         at' = "rename" => staging' = [owner |-> mine, ledger |-> Bootstrap!Fresh(mine)]
  PROVE  BootInv'
<1>1. BootType'
  BY DEF BootInv, BootType
<1>2. MakesNew'
  BY DEF BootInv, MakesNew
<1>3. HasSession' /\ TakesIn'
  BY DEF HasSession, TakesIn, Making, Using
<1> QED
  BY <1>1, <1>2, <1>3, SMT
  DEF BootInv, PublishedWhole, OneRequest, Bootstrap!PublishedWhole, Bootstrap!OneRequest

LEMMA StagingKeeps ==
  BootInv /\ (\/ Bootstrap!Unlink \/ Bootstrap!Rmdir \/ Bootstrap!Mkdir
              \/ Bootstrap!WriteOwner \/ Bootstrap!WriteLedger) => BootInv'
<1> SUFFICES ASSUME BootInv, \/ Bootstrap!Unlink \/ Bootstrap!Rmdir \/ Bootstrap!Mkdir
                             \/ Bootstrap!WriteOwner \/ Bootstrap!WriteLedger
             PROVE  BootInv'
  OBVIOUS
<1> USE DEF Bootstrap!Goto, Bootstrap!Quiet, Bootstrap!project, Making
<1>1. mine \in Int /\ staging \in Sessions /\ Bootstrap!Missing \in Int
  BY CopiesAssumption DEF BootInv, BootType, Read, Bootstrap!Missing
<1>2. CASE Bootstrap!Unlink
  BY <1>1, <1>2, Records, Stages DEF Bootstrap!Unlink, Sessions
<1>3. CASE Bootstrap!Rmdir
  BY <1>3, Records, Stages DEF Bootstrap!Rmdir
<1>4. CASE Bootstrap!Mkdir
  BY <1>4, Records, Stages DEF Bootstrap!Mkdir, BootInv, MakesNew
<1>5. CASE Bootstrap!WriteOwner
  BY <1>1, <1>5, Records, Stages DEF Bootstrap!WriteOwner, Bootstrap!Empty, Sessions, BootInv, MakesNew
<1>6. CASE Bootstrap!WriteLedger
  <2>1. staging = [owner |-> mine, ledger |-> Bootstrap!NoLedger] /\ mine \in MCVersions
    BY <1>6 DEF Bootstrap!WriteLedger, BootInv, MakesNew
  <2>2. [staging EXCEPT !.ledger = Bootstrap!Fresh(mine)] = [owner |-> mine, ledger |-> Bootstrap!Fresh(mine)]
    BY <2>1
  <2> QED
    BY <1>1, <1>6, <2>1, <2>2, Records, Stages DEF Bootstrap!WriteLedger, Sessions
<1> QED
  BY <1>2, <1>3, <1>4, <1>5, <1>6

\* The rename publishes what was staged, for the identity that was read.
LEMMA RenameKeeps == BootInv /\ Bootstrap!Rename => BootInv'
<1> SUFFICES ASSUME BootInv, Bootstrap!Rename PROVE BootInv'
  OBVIOUS
<1>1. /\ at' = "marker" /\ session' = staging /\ staging' = Bootstrap!Absent
      /\ UNCHANGED <<mine, request, marker, manifest, original, traces>>
      /\ staging = [owner |-> mine, ledger |-> Bootstrap!Fresh(mine)] /\ mine \in MCVersions
  BY DEF Bootstrap!Rename, Bootstrap!Goto, Bootstrap!Quiet, Bootstrap!project,
         BootInv, MakesNew, Making
<1>2. /\ session'.owner = mine /\ session'.ledger = Bootstrap!Fresh(mine)
      /\ mine \in Nat /\ session' # Bootstrap!Absent
      /\ session'.ledger # Bootstrap!NoLedger
      /\ session'.ledger.identity = mine /\ ~session'.ledger.used
  BY <1>1, CopiesAssumption, Records
<1>3. BootType'
  BY <1>1, Records DEF BootInv, BootType, Using
<1>4. MakesNew' /\ HasSession' /\ TakesIn'
  BY <1>1, <1>2 DEF MakesNew, HasSession, TakesIn, Making
<1>5. PublishedWhole' /\ OneRequest'
  BY <1>1, <1>2 DEF PublishedWhole, OneRequest, Bootstrap!PublishedWhole, Bootstrap!OneRequest
<1> QED
  BY <1>3, <1>4, <1>5 DEF BootInv

\* The copy of the request is written, and its digest saved, for a session whose roles
\* have not begun: of a request that is the one its identity asks for.
LEMMA SetupIntakeKeeps == BootInv /\ Bootstrap!SetupIntake => BootInv'
<1> SUFFICES ASSUME BootInv, Bootstrap!SetupIntake PROVE BootInv'
  OBVIOUS
<1> USE DEF Bootstrap!Goto, Bootstrap!Quiet, Bootstrap!project
<1>1. CASE Bootstrap!Setup
  <2>1. /\ mine' \in Read
        /\ UNCHANGED <<staging, session, request, marker, manifest, original, traces>>
        /\ at' \in {"copy", "paused"}
        /\ at' = "copy" =>
             /\ session # Bootstrap!Absent /\ ~session.ledger.used
             /\ session.ledger.identity # 0 => mine' = session.ledger.identity
    BY <1>1 DEF Bootstrap!Setup, Bootstrap!Takes, Bootstrap!Asked, BootInv, BootType, Read
  <2>2. BootType'
    BY <2>1 DEF BootInv, BootType, Using
  <2>3. MakesNew' /\ HasSession' /\ TakesIn'
    BY <2>1 DEF MakesNew, HasSession, TakesIn, Making, Using
  <2> QED
    BY <2>1, <2>2, <2>3
    DEF BootInv, PublishedWhole, OneRequest, Bootstrap!PublishedWhole, Bootstrap!OneRequest
<1>2. CASE Bootstrap!CopyRequest
  <2>1. /\ at = "copy" /\ at' = "intake" /\ request' = mine
        /\ UNCHANGED <<mine, staging, session, marker, manifest, original, traces>>
    BY <1>2 DEF Bootstrap!CopyRequest
  <2>2. BootType'
    BY <2>1 DEF BootInv, BootType, Using
  <2>3. MakesNew' /\ HasSession' /\ TakesIn' /\ ~session.ledger.used
    BY <2>1 DEF BootInv, MakesNew, HasSession, TakesIn, Making, Using
  <2> QED
    BY <2>1, <2>2, <2>3
    DEF BootInv, PublishedWhole, OneRequest, Bootstrap!PublishedWhole, Bootstrap!OneRequest
<1>3. CASE Bootstrap!SaveIntake
  <2>1. /\ at = "intake" /\ at' = "ready" /\ session' = [session EXCEPT !.ledger.intake = mine]
        /\ session \in Sessions /\ session # Bootstrap!Absent /\ mine \in Int
        /\ UNCHANGED <<mine, staging, request, marker, manifest, original, traces>>
    BY <1>3, CopiesAssumption DEF Bootstrap!SaveIntake, BootInv, BootType, Read
  <2>2. /\ session' \in Sessions /\ session'.owner = session.owner
        /\ session'.ledger.identity = session.ledger.identity
        /\ session'.ledger.intake = mine /\ session'.ledger.used = session.ledger.used
    BY <2>1 DEF Sessions, Ledgers
  <2>3. /\ session.owner \in MCVersions /\ session.ledger.identity = session.owner
        /\ session.owner \in Nat
    BY <2>1, CopiesAssumption DEF BootInv, PublishedWhole, Bootstrap!PublishedWhole
  <2>4. session' # Bootstrap!Absent /\ session'.ledger # Bootstrap!NoLedger
    BY <2>2, <2>3, Records
  <2>5. BootType'
    BY <2>1, <2>2 DEF BootInv, BootType, Using
  <2>6. MakesNew' /\ HasSession' /\ TakesIn' /\ ~session.ledger.used
    BY <2>1, <2>2, <2>4 DEF BootInv, MakesNew, HasSession, TakesIn, Making, Using
  <2> QED
    BY <2>2, <2>3, <2>4, <2>5, <2>6
    DEF BootInv, PublishedWhole, OneRequest, Bootstrap!PublishedWhole, Bootstrap!OneRequest
<1> QED
  BY <1>1, <1>2, <1>3 DEF Bootstrap!SetupIntake

\* The first reservation finds the request of the intake, or refuses.
LEMMA ReserveKeeps == BootInv /\ Bootstrap!Reserve => BootInv'
<1> SUFFICES ASSUME BootInv, Bootstrap!Reserve PROVE BootInv'
  OBVIOUS
<1>1. /\ at = "ready" /\ UNCHANGED <<mine, staging, request, marker, manifest, original, traces>>
  BY DEF Bootstrap!Reserve, Bootstrap!project
<1>2. CASE at' = "paused" /\ session' = session
  BY <1>1, <1>2, Moves DEF BootInv, BootType
<1>3. CASE /\ session # Bootstrap!Absent /\ session.ledger.intake = request
           /\ at' = "role" /\ session' = [session EXCEPT !.ledger.used = TRUE]
  <2>1. /\ session' \in Sessions /\ session'.owner = session.owner
        /\ session'.ledger.identity = session.ledger.identity
        /\ session'.ledger.intake = request
    BY <1>3 DEF BootInv, BootType, Sessions, Ledgers
  <2>2. /\ session.owner \in MCVersions /\ session.ledger.identity = session.owner
        /\ session.owner \in Nat
    BY <1>3, CopiesAssumption DEF BootInv, PublishedWhole, Bootstrap!PublishedWhole
  <2>3. session' # Bootstrap!Absent /\ session'.ledger # Bootstrap!NoLedger
    BY <2>1, <2>2, Records
  <2>4. BootType'
    BY <1>1, <1>3, <2>1 DEF BootInv, BootType, Using
  <2>5. /\ MakesNew' /\ HasSession' /\ TakesIn'
        /\ session.ledger.identity # 0 => request = session.ledger.identity
    BY <1>1, <1>3, <2>3 DEF BootInv, MakesNew, HasSession, TakesIn, Making, Using
  <2> QED
    BY <1>1, <2>1, <2>2, <2>3, <2>4, <2>5
    DEF BootInv, PublishedWhole, OneRequest, Bootstrap!PublishedWhole, Bootstrap!OneRequest
<1> QED
  BY <1>2, <1>3 DEF Bootstrap!Reserve, Bootstrap!Goto

\* A script dies, the graph starts again, lad-state is lost, or a file is edited.
LEMMA OthersKeep ==
  BootInv /\ (\/ Bootstrap!WriteMarker \/ Bootstrap!Role \/ Bootstrap!Crash
              \/ Bootstrap!Launch \/ Bootstrap!Edit \/ Bootstrap!Lose) => BootInv'
<1> SUFFICES ASSUME BootInv, \/ Bootstrap!WriteMarker \/ Bootstrap!Role \/ Bootstrap!Crash
                             \/ Bootstrap!Launch \/ Bootstrap!Edit \/ Bootstrap!Lose
             PROVE  BootInv'
  OBVIOUS
<1> USE DEF Bootstrap!Goto, Bootstrap!Quiet, Bootstrap!project
<1>1. CASE Bootstrap!WriteMarker
  BY <1>1, Moves DEF Bootstrap!WriteMarker, BootInv, BootType, HasSession, Using
<1>2. CASE Bootstrap!Role \/ Bootstrap!Crash
  BY <1>2, Moves DEF Bootstrap!Role, Bootstrap!Crash, BootInv, BootType
<1>3. CASE Bootstrap!Launch
  BY <1>3, Moves DEF Bootstrap!Launch, BootInv, BootType
<1>4. CASE Bootstrap!Edit
  <2>1. /\ manifest' \in MCVersions /\ original' \in MCVersions
        /\ UNCHANGED <<at, mine, staging, session, request, marker, traces>>
    BY <1>4 DEF Bootstrap!Edit
  <2>2. BootType' /\ MakesNew' /\ HasSession' /\ TakesIn'
    BY <2>1 DEF BootInv, BootType, MakesNew, HasSession, TakesIn
  <2> QED
    BY <2>1, <2>2
    DEF BootInv, PublishedWhole, OneRequest, Bootstrap!PublishedWhole, Bootstrap!OneRequest
<1>5. CASE Bootstrap!Lose
  <2>1. /\ at = "paused" /\ session' = Bootstrap!Absent
        /\ UNCHANGED <<at, mine, staging, request, marker, traces, manifest, original>>
    BY <1>5 DEF Bootstrap!Lose
  <2>2. BootType' /\ MakesNew' /\ HasSession' /\ TakesIn'
    BY <2>1, Records DEF BootInv, BootType, MakesNew, HasSession, TakesIn, Making, Using
  <2> QED
    BY <2>1, <2>2
    DEF BootInv, PublishedWhole, OneRequest, Bootstrap!PublishedWhole, Bootstrap!OneRequest
<1> QED
  BY <1>1, <1>2, <1>3, <1>4, <1>5

LEMMA BootStep == BootInv /\ Bootstrap!Next => BootInv'
  BY BeginKeeps, StagingKeeps, RenameKeeps, SetupIntakeKeeps, ReserveKeeps, OthersKeep
  DEF Bootstrap!Next, Bootstrap!InitSession

-----------------------------------------------------------------------------
(* The life of a copy *)

\* A stage leaves the variables of the other alone, so a behaviour of a copy is one of
\* the catalog, and one of the bootstrap.
LEMMA StagesAreSeparate == Copies => Spec /\ Bootstrap!Spec
<1>1. CopyInit => Init /\ Bootstrap!Init
  BY DEF CopyInit
<1>2. [CopyNext]_<<stage, vars, copyVars>> => [Next]_vars /\ [Bootstrap!Next]_(Bootstrap!vars)
  BY DEF CopyNext, Copying, Starting, copyVars, Bootstrap!vars
<1> QED
  BY <1>1, <1>2, PTL DEF Copies, Spec, Bootstrap!Spec

\* The inductive invariant, whatever scripts die and whatever is edited or lost.
THEOREM BootInvariance == Copies => []BootInv
<1>1. Bootstrap!Init => BootInv
  BY BootInit
<1>2. BootInv /\ [Bootstrap!Next]_(Bootstrap!vars) => BootInv'
  <2>1. CASE UNCHANGED Bootstrap!vars
    BY <2>1
    DEF Bootstrap!vars, BootInv, BootType, MakesNew, HasSession, TakesIn, PublishedWhole,
        OneRequest, Bootstrap!PublishedWhole, Bootstrap!OneRequest
  <2> QED
    BY <2>1, BootStep
<1> QED
  BY <1>1, <1>2, StagesAreSeparate, PTL DEF Bootstrap!Spec

\* A session that is published is whole, for any versions and however many scripts die.
THEOREM PublishesWhole == Copies => []PublishedWhole
<1>1. BootInv => PublishedWhole
  BY DEF BootInv
<1> QED
  BY <1>1, BootInvariance, PTL

\* Every role works on the one request that its session took in.
THEOREM WorksOnOneRequest == Copies => []OneRequest
<1>1. BootInv => OneRequest
  BY DEF BootInv
<1> QED
  BY <1>1, BootInvariance, PTL

\* No session appears beside a marker or the results of a role: only the rename makes
\* one appear, and Begin let it come only where it found neither.
THEOREM NoReset == Copies => MarkedIsNotReset
<1>1. BootInv /\ BootInv' /\ [Bootstrap!Next]_(Bootstrap!vars) =>
        (session = Bootstrap!Absent /\ session' # Bootstrap!Absent => ~marker /\ ~traces)
  <2> SUFFICES ASSUME BootInv, Bootstrap!Next, session = Bootstrap!Absent,
                      session' # Bootstrap!Absent
               PROVE  ~marker /\ ~traces
    BY DEF Bootstrap!vars
  <2>1. Bootstrap!Rename
    BY DEF Bootstrap!Next, Bootstrap!InitSession, Bootstrap!SetupIntake, Bootstrap!Begin,
           Bootstrap!Unlink, Bootstrap!Rmdir, Bootstrap!Mkdir, Bootstrap!WriteOwner,
           Bootstrap!WriteLedger, Bootstrap!WriteMarker, Bootstrap!Setup,
           Bootstrap!CopyRequest, Bootstrap!SaveIntake, Bootstrap!Reserve, Bootstrap!Role,
           Bootstrap!Crash, Bootstrap!Launch, Bootstrap!Edit, Bootstrap!Lose
  <2> QED
    BY <2>1 DEF Bootstrap!Rename, BootInv, MakesNew, Making
<1> QED
  BY <1>1, BootInvariance, StagesAreSeparate, PTL
  DEF Bootstrap!Spec, MarkedIsNotReset, Bootstrap!MarkedIsNotReset
=============================================================================
