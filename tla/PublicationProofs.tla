------------------------- MODULE PublicationProofs -------------------------
(***************************************************************************)
(* Theorems about what a deploy publishes, for every instance of Deploy:   *)
(* the two metadata documents, and what a successful call leaves behind;   *)
(* and about the requests that command lines make (DeployCommand).         *)
(*                                                                         *)
(* Instead of going through the actions for each invariant, the proofs     *)
(* rest on two lemmas about a step: how a call can move (Moves), and what  *)
(* can come into the repository or into limbo (Written).                   *)
(***************************************************************************)
EXTENDS DeployProofs, DeployCommand

USE DEF vars, repoVars, args

-----------------------------------------------------------------------------
(* How a call moves.                                                       *)

Kept(e) ==
  /\ phase'[e] = phase[e] /\ vdoc'[e] = vdoc[e] /\ adoc'[e] = adoc[e]
  /\ up'[e] = up[e] /\ sums'[e] = sums[e]

Resolving(e) ==
  /\ phase[e] = "idle" /\ phase'[e] = "resolve" /\ IsSnapshot(e)
  /\ vdoc'[e] = vdoc[e] /\ adoc'[e] = adoc[e] /\ up'[e] = up[e] /\ sums'[e] = sums[e]

Uploads(e) ==
  [s \in Slots |-> IF s \in DOMAIN Parts(e) THEN "body"
                   ELSE IF s = "ameta" THEN "get" ELSE "off"]

Uploading(e) ==
  /\ \/ phase[e] = "idle" /\ ~ IsSnapshot(e) /\ vdoc'[e] = vdoc[e]
     \/ /\ phase[e] = "resolve"
        /\ vdoc'[e] =
             NextSnapshotVersion(Fetched(VMetaLoc(Version(e)), NewVDoc), now[e])
  /\ phase'[e] = "files" /\ adoc'[e] = adoc[e]
  /\ up'[e] = Uploads(e) /\ sums'[e] = sums[e]

Prefetched(e) ==
  /\ phase[e] = "files" /\ phase'[e] = "files" /\ up[e]["ameta"] = "get"
  /\ vdoc'[e] = vdoc[e] /\ sums'[e] = sums[e]
  /\ \A s \in Slots \ {"ameta"} : up'[e][s] = up[e][s]
  /\ \/ up'[e]["ameta"] = "got" /\ adoc'[e] = Fetched(AMetaLoc, NewADoc)
     \/ up'[e]["ameta"] = "failed" /\ adoc'[e] = adoc[e]

\* One PUT of slot s ended: the body's, or that of a sidecar.
BodyDone(e, s) ==
  /\ up[e][s] = "body" /\ sums'[e] = sums[e]
  /\ up'[e][s] = "failed" \/ (up'[e][s] = "sums" /\ Loc(e, s) \in DOMAIN store')

SumDone(e, s) ==
  /\ up[e][s] = "sums"
  /\ \/ up'[e][s] = "failed" /\ sums'[e] = sums[e]
     \/ /\ up'[e][s] = "sums"
        /\ \A a \in Algos :
             \/ sums'[e][s][a] \in {sums[e][s][a], "failed"}
             \/ sums'[e][s][a] = "ok" /\ SumLoc(Loc(e, s), a) \in DOMAIN store'

Worked(e, s) ==
  /\ Running(e) /\ phase'[e] = phase[e] /\ vdoc'[e] = vdoc[e] /\ adoc'[e] = adoc[e]
  /\ \A t \in Slots \ {s} : up'[e][t] = up[e][t] /\ sums'[e][t] = sums[e][t]
  /\ BodyDone(e, s) \/ SumDone(e, s)

Merging(e) ==
  /\ phase[e] = "files" /\ phase'[e] = "meta" /\ Waited(e) /\ NoError(e)
  /\ vdoc'[e] = IF IsSnapshot(e) THEN MergeSnapshotVersions(vdoc[e], PartKeys(e))
                ELSE vdoc[e]
  /\ adoc'[e] = UpdateArtifactMetadata(adoc[e], Version(e))
  /\ up'[e] = [s \in Slots |->
       IF s = "ameta" \/ (s = "vmeta" /\ IsSnapshot(e)) THEN "body" ELSE up[e][s]]
  /\ sums'[e] = sums[e]

Ended(e) ==
  /\ phase'[e] \in {"ok", "err", "crashed"}
  /\ phase'[e] = "ok" => phase[e] = "meta" /\ Waited(e) /\ NoError(e)
  /\ phase[e] \in {"idle", "resolve", "files", "meta"}
  /\ vdoc'[e] = [NewVDoc EXCEPT !.stamp = vdoc[e].stamp]
  /\ adoc'[e] = NewADoc
  /\ up'[e] = [s \in Slots |-> "off"] /\ sums'[e] = [s \in Slots |-> AllTodo]

Moves(e) ==
  \/ Kept(e) \/ Resolving(e) \/ Uploading(e) \/ Prefetched(e)
  \/ \E s \in Slots : Worked(e, s)
  \/ Merging(e) \/ Ended(e)

\* The types that functional updates need.
CallTypes ==
  /\ phase \in [Deployers -> Phases]
  /\ vdoc \in [Deployers -> VDocs]
  /\ adoc \in [Deployers -> ADocs]
  /\ up \in [Deployers -> [Slots -> TaskStates]]
  /\ sums \in [Deployers -> [Slots -> [Algos -> {"todo", "ok", "failed"}]]]

LEMMA EndMoves ==
  ASSUME CallTypes, NEW d \in Deployers, NEW p \in {"ok", "err", "crashed"}, End(d, p),
         p = "ok" => phase[d] = "meta" /\ Waited(d) /\ NoError(d),
         phase[d] \in {"idle", "resolve", "files", "meta"},
         NEW e \in Deployers
  PROVE  Moves(e)
<1> USE DEF End, SetPhase, CallTypes
<1>1. CASE e = d
  BY <1>1 DEF Moves, Ended
<1>2. CASE e # d
  BY <1>2 DEF Moves, Kept
<1> QED BY <1>1, <1>2

LEMMA BeginMoves ==
  ASSUME CallTypes, NEW d \in Deployers, Begin(d), NEW e \in Deployers
  PROVE  Moves(e)
<1>1. CASE Reject(d)
  BY <1>1, EndMoves DEF Reject, MayStart
<1>2. CASE BeginRelease(d)
  <2> USE <1>2 DEF BeginRelease, MayStart, SetPhase, StartFiles, CallTypes
  <2>1. CASE e = d
    BY <2>1 DEF Moves, Uploading, Uploads
  <2>2. CASE e # d
    BY <2>2 DEF Moves, Kept
  <2> QED BY <2>1, <2>2
<1>3. CASE BeginSnapshot(d)
  BY <1>3 DEF BeginSnapshot, MayStart, SetPhase, CallTypes, Moves, Resolving, Kept
<1> QED BY <1>1, <1>2, <1>3 DEF Begin

LEMMA FetchMoves ==
  ASSUME CallTypes, NEW d \in Deployers, NEW e \in Deployers,
         FetchVersionMeta(d) \/ FetchArtMeta(d) \/ FetchArtMetaFailed(d)
  PROVE  Moves(e)
<1>1. "ameta" \in Slots
  BY DEF Slots, MetaSlots
<1>2. CASE FetchVersionMeta(d)
  <2> USE <1>2 DEF FetchVersionMeta, SetPhase, StartFiles, CallTypes
  <2>1. CASE e = d
    BY <2>1 DEF Moves, Uploading, Uploads
  <2>2. CASE e # d
    BY <2>2 DEF Moves, Kept
  <2> QED BY <2>1, <2>2
<1>3. CASE FetchArtMeta(d)
  <2> USE <1>3 DEF FetchArtMeta, SetTask, CallTypes
  <2>1. CASE e = d
    BY <1>1, <2>1 DEF Moves, Prefetched
  <2>2. CASE e # d
    BY <2>2 DEF Moves, Kept
  <2> QED BY <2>1, <2>2
<1>4. CASE FetchArtMetaFailed(d)
  <2> USE <1>4 DEF FetchArtMetaFailed, SetTask, CallTypes
  <2>1. CASE e = d
    BY <1>1, <2>1 DEF Moves, Prefetched
  <2>2. CASE e # d
    BY <2>2 DEF Moves, Kept
  <2> QED BY <2>1, <2>2
<1> QED BY <1>2, <1>3, <1>4

LEMMA SlotMoves ==
  ASSUME CallTypes, NEW d \in Deployers, NEW s \in Slots, Slot(d, s), NEW e \in Deployers
  PROVE  Moves(e)
<1> USE DEF CallTypes
<1>1. CASE e # d
  BY <1>1 DEF Slot, PutBody, FailBody, LoseBody, HashFailed, PutSum, FailSum, LoseSum, SetTask,
              SetSum, Moves, Kept
<1>2. CASE e = d
  <2>1. CASE PutBody(d, s)
    <3>1. Worked(e, s)
      BY <1>2, <2>1 DEF PutBody, BodyPending, SetTask, Apply, Worked, BodyDone
    <3> QED BY <3>1 DEF Moves
  <2>2. CASE FailBody(d, s)
    <3>1. Worked(e, s)
      BY <1>2, <2>2 DEF FailBody, BodyPending, SetTask, Worked, BodyDone
    <3> QED BY <3>1 DEF Moves
  <2>3. CASE LoseBody(d, s)
    BY <1>2, <2>3 DEF LoseBody, Moves, Kept
  <2>4. CASE HashFailed(d, s)
    <3>1. Worked(e, s)
      BY <1>2, <2>4 DEF HashFailed, SetTask, Running, Worked, SumDone
    <3> QED BY <3>1 DEF Moves
  <2>5. ASSUME NEW a \in Algos, PutSum(d, s, a) PROVE Moves(e)
    <3>1. SumLoc(Loc(d, s), a) \in DOMAIN store'
      BY <2>5 DEF PutSum, Apply
    <3>2. Worked(e, s)
      BY <1>2, <2>5, <3>1 DEF PutSum, SumPending, SetSum, Worked, SumDone
    <3> QED BY <3>2 DEF Moves
  <2>6. ASSUME NEW a \in Algos, FailSum(d, s, a) PROVE Moves(e)
    <3>1. Worked(e, s)
      BY <1>2, <2>6 DEF FailSum, SumPending, SetSum, Worked, SumDone
    <3> QED BY <3>1 DEF Moves
  <2>7. ASSUME NEW a \in Algos, LoseSum(d, s, a) PROVE Moves(e)
    BY <1>2, <2>7 DEF LoseSum, Moves, Kept
  <2> QED BY <2>1, <2>2, <2>3, <2>4, <2>5, <2>6, <2>7 DEF Slot
<1> QED BY <1>1, <1>2

LEMMA StartMetaMoves ==
  ASSUME CallTypes, NEW d \in Deployers, StartMeta(d), NEW e \in Deployers
  PROVE  Moves(e)
<1> USE DEF StartMeta, SetPhase, CallTypes
<1>1. CASE e = d
  BY <1>1 DEF Moves, Merging
<1>2. CASE e # d
  BY <1>2 DEF Moves, Kept
<1> QED BY <1>1, <1>2

\* Every step moves every call along this graph, and keeps its arguments.
LEMMA MovesNext ==
  ASSUME TypeInv, [Next]_vars
  PROVE  UNCHANGED args /\ \A e \in Deployers : Moves(e)
<1>0. CallTypes
  BY DEF TypeInv, TypeOK, CallTypes
<1>1. UNCHANGED args
  <2>1. ASSUME NEW d \in Deployers, Begin(d) \/ Crash(d) PROVE UNCHANGED args
    BY <2>1 DEF Begin, Reject, BeginRelease, BeginSnapshot, Crash, End
  <2>2. ASSUME NEW d \in Deployers, NEW s \in Slots, Slot(d, s) PROVE UNCHANGED args
    BY <2>2 DEF Slot, PutBody, FailBody, LoseBody, HashFailed, PutSum, FailSum, LoseSum
  <2>3. ASSUME NEW d \in Deployers, Step(d) PROVE UNCHANGED args
    BY <2>2, <2>3 DEF Step, FetchVersionMeta, FetchVersionMetaFailed, FetchArtMeta,
       FetchArtMetaFailed, StartMeta, FilesErr, MetaOK, MetaErr, End
  <2>4. ASSUME NEW w \in limbo, Land(w) PROVE UNCHANGED args
    BY <2>4 DEF Land
  <2>5. CASE UNCHANGED vars
    BY <2>5
  <2> QED BY <2>1, <2>3, <2>4, <2>5 DEF Next, Stopped
<1> SUFFICES ASSUME NEW e \in Deployers PROVE Moves(e)
  BY <1>1
<1>2. ASSUME NEW d \in Deployers, Begin(d) PROVE Moves(e)
  BY <1>0, <1>2, BeginMoves
<1>3. ASSUME NEW d \in Deployers, Step(d) PROVE Moves(e)
  <2>1. CASE FetchVersionMeta(d) \/ FetchArtMeta(d) \/ FetchArtMetaFailed(d)
    BY <1>0, <2>1, FetchMoves
  <2>2. ASSUME NEW s \in Slots, Slot(d, s) PROVE Moves(e)
    BY <1>0, <2>2, SlotMoves
  <2>3. CASE StartMeta(d)
    BY <1>0, <2>3, StartMetaMoves
  <2>4. CASE FetchVersionMetaFailed(d) \/ FilesErr(d) \/ MetaErr(d)
    BY <1>0, <2>4, EndMoves DEF FetchVersionMetaFailed, FilesErr, MetaErr
  <2>5. CASE MetaOK(d)
    BY <1>0, <2>5, EndMoves DEF MetaOK
  <2> QED BY <1>3, <2>1, <2>2, <2>3, <2>4, <2>5 DEF Step
<1>4. ASSUME NEW d \in Deployers, Crash(d) PROVE Moves(e)
  BY <1>0, <1>4, EndMoves DEF Crash, Running
<1>5. ASSUME NEW w \in limbo, Land(w) PROVE Moves(e)
  BY <1>5 DEF Land, Moves, Kept
<1>6. CASE UNCHANGED vars
  BY <1>6 DEF Moves, Kept
<1> QED BY <1>2, <1>3, <1>4, <1>5, <1>6 DEF Next, Stopped
-----------------------------------------------------------------------------
(* What is written.                                                        *)

\* A task may write b at l: its body, or the body's digest in a sidecar.
Task(l, b) ==
  \E d \in Deployers, s \in Slots :
    /\ Running(d) /\ b = Body(d, s)
    /\ \/ up[d][s] = "body" /\ l = Loc(d, s)
       \/ up[d][s] = "sums" /\ \E a \in Algos : l = SumLoc(Loc(d, s), a)

\* What a step leaves in the repository and in limbo was there, is written by
\* a task, or is a late write.
Written ==
  /\ \A w \in limbo' : w \in limbo \/ Task(w.loc, w.body)
  /\ \A l \in DOMAIN store' :
       \/ l \in DOMAIN store /\ store'[l] = store[l]
       \/ Task(l, store'[l])
       \/ \E w \in limbo : w.loc = l /\ w.body = store'[l]

LEMMA ApplyWrites ==
  ASSUME NEW l, NEW b, store' = Apply(store, l, b), NEW x \in DOMAIN store'
  PROVE  (x \in DOMAIN store /\ store'[x] = store[x]) \/ (x = l /\ store'[x] = b)
BY DEF Apply

LEMMA WrittenNext == [Next]_vars => Written
<1> SUFFICES ASSUME [Next]_vars PROVE Written
  OBVIOUS
<1>1. ASSUME UNCHANGED <<store, limbo>> PROVE Written
  BY <1>1 DEF Written
<1>2. ASSUME NEW d \in Deployers, Begin(d) \/ Crash(d) PROVE Written
  BY <1>1, <1>2 DEF Begin, Reject, BeginRelease, BeginSnapshot, Crash, End
<1>3. ASSUME NEW d \in Deployers, NEW s \in Slots, Slot(d, s) PROVE Written
  <2>1. CASE PutBody(d, s)
    BY <2>1, ApplyWrites DEF PutBody, BodyPending, Written, Task
  <2>2. CASE LoseBody(d, s)
    <3>1. Task(Loc(d, s), Body(d, s))
      BY <2>2 DEF LoseBody, BodyPending, Task
    <3> QED BY <2>2, <3>1 DEF LoseBody, Written
  <2>3. ASSUME NEW a \in Algos, PutSum(d, s, a) PROVE Written
    BY <2>3, ApplyWrites DEF PutSum, SumPending, Written, Task
  <2>4. ASSUME NEW a \in Algos, LoseSum(d, s, a) PROVE Written
    <3>1. Task(SumLoc(Loc(d, s), a), Body(d, s))
      BY <2>4 DEF LoseSum, SumPending, Task
    <3> QED BY <2>4, <3>1 DEF LoseSum, Written
  <2>5. CASE FailBody(d, s) \/ HashFailed(d, s)
    BY <1>1, <2>5 DEF FailBody, HashFailed
  <2>6. ASSUME NEW a \in Algos, FailSum(d, s, a) PROVE Written
    BY <1>1, <2>6 DEF FailSum
  <2> QED BY <1>3, <2>1, <2>2, <2>3, <2>4, <2>5, <2>6 DEF Slot
<1>4. ASSUME NEW d \in Deployers, Step(d) PROVE Written
  BY <1>1, <1>3, <1>4 DEF Step, FetchVersionMeta, FetchVersionMetaFailed, FetchArtMeta,
     FetchArtMetaFailed, StartMeta, FilesErr, MetaOK, MetaErr, End
<1>5. ASSUME NEW w \in limbo, Land(w) PROVE Written
  BY <1>5, ApplyWrites DEF Land, Written
<1>6. CASE UNCHANGED vars
  BY <1>1, <1>6
<1> QED BY <1>2, <1>4, <1>5, <1>6 DEF Next, Stopped

-----------------------------------------------------------------------------
(* The invariant.                                                          *)

\* The entries that a call read are of earlier builds than its own.
Older(doc) == \A k \in Listed(doc) : doc.entries[k].build < doc.stamp.build

ListOK(doc) ==
  /\ \A v \in doc.versions : VersionLanded(v)
  /\ doc.release # NoVersion => doc.release \in doc.versions \ Snapshots

\* The document in a call's memory, as the call goes on.
DocInv(e) ==
  /\ phase[e] \in {"idle", "resolve"} => vdoc[e] = NewVDoc
  /\ phase[e] = "resolve" => IsSnapshot(e)
  /\ phase[e] \in {"files", "meta"} => (vdoc[e].stamp = Literal <=> ~ IsSnapshot(e))
  /\ phase[e] = "files" /\ IsSnapshot(e) => Older(vdoc[e])
  /\ phase[e] = "meta" /\ IsSnapshot(e) => DocCoherent(vdoc[e])

\* The metadata tasks run after files.Wait only.
MetaTasks(e) ==
  /\ up[e]["vmeta"] # "off" => phase[e] = "meta" /\ IsSnapshot(e)
  /\ up[e]["ameta"] \in {"body", "sums"} => phase[e] = "meta"
  /\ phase[e] = "meta" =>
       /\ up[e]["ameta"] \in {"body", "sums", "failed"}
       /\ IsSnapshot(e) => up[e]["vmeta"] \in {"body", "sums", "failed"}

\* A file, or a digest of it, is at the location of the task it says it is of.
Author(l, b) ==
  /\ b.by \in Deployers /\ b.slot \in DOMAIN Parts(b.by)
  /\ phase[b.by] \notin {"idle", "resolve"}
  /\ Loc(b.by, b.slot) = l

\* What may be in the repository, or on its way there.
Vetted(l, b) ==
  /\ l.kind = "vmeta" => DocCoherent(b)
  /\ l.kind = "ameta" => ListOK(b)
  /\ l.kind = "file" => Author(l, b)
  /\ l.kind = "sum" /\ l.of.kind = "file" => Author(l.of, b)

AllVetted ==
  /\ \A l \in DOMAIN store : Vetted(l, store[l])
  /\ \A w \in limbo : Vetted(w.loc, w.body)

Complete(e) ==
  phase[e] = "ok" =>
    /\ \A s \in DOMAIN Parts(e) : Landed(Loc(e, s))
    /\ Landed(AMetaLoc)
    /\ IsSnapshot(e) => Landed(VMetaLoc(Version(e)))

CallInv(e) ==
  /\ DocInv(e) /\ MetaTasks(e) /\ ListOK(adoc[e]) /\ Complete(e)
  /\ \A s \in MetaSlots : UploadLanded(e, s)

PublicationInv == AllVetted /\ \A e \in Deployers : CallInv(e)

-----------------------------------------------------------------------------
(* What is in the repository, or on its way there, stays vetted.           *)

\* A call that has a version keeps it, and so the names of its files.
LEMMA LocKept ==
  ASSUME CallTypes, NEW e \in Deployers, Moves(e), UNCHANGED args,
         phase[e] \notin {"idle", "resolve"}
  PROVE  /\ phase'[e] \notin {"idle", "resolve"}
         /\ \A s : Loc(e, s)' = Loc(e, s)
<1>1. phase'[e] \notin {"idle", "resolve"} /\ vdoc'[e].stamp = vdoc[e].stamp
  <2>1. CASE Kept(e) \/ Resolving(e) \/ Uploading(e) \/ Prefetched(e)
    BY <2>1 DEF Kept, Resolving, Uploading, Prefetched
  <2>2. CASE \E s \in Slots : Worked(e, s)
    BY <2>2 DEF Worked
  <2>3. CASE Merging(e)
    BY <2>3, MergeStamp DEF Merging, CallTypes
  <2>4. CASE Ended(e)
    BY <2>4 DEF Ended, NewVDoc
  <2> QED BY <2>1, <2>2, <2>3, <2>4 DEF Moves
<1> QED BY <1>1 DEF Loc, Version, Parts

LEMMA AuthorKept ==
  ASSUME CallTypes, \A e \in Deployers : Moves(e), UNCHANGED args,
         NEW l, NEW b, Author(l, b)
  PROVE  Author(l, b)'
BY LocKept DEF Author, Parts

LEMMA VersionStaysLanded ==
  ASSUME DOMAIN store \subseteq DOMAIN store', NEW v, VersionLanded(v)
  PROVE  VersionLanded(v)'
BY DEF VersionLanded, Landed

LEMMA ListStaysOK ==
  ASSUME DOMAIN store \subseteq DOMAIN store', NEW doc, ListOK(doc)
  PROVE  ListOK(doc)'
BY VersionStaysLanded DEF ListOK

LEMMA VettedKept ==
  ASSUME TypeInv, [Next]_vars, NEW l, NEW b, Vetted(l, b)
  PROVE  Vetted(l, b)'
<1>1. CallTypes /\ UNCHANGED args /\ \A e \in Deployers : Moves(e)
  BY MovesNext DEF TypeInv, TypeOK, CallTypes
<1>2. DOMAIN store \subseteq DOMAIN store'
  BY StoreGrows
<1>3. l.kind = "vmeta" => DocCoherent(b)'
  BY DEF Vetted, DocCoherent, Listed
<1>4. l.kind = "ameta" => ListOK(b)'
  BY <1>2, ListStaysOK DEF Vetted
<1>5. l.kind = "file" => Author(l, b)'
  BY <1>1, AuthorKept DEF Vetted
<1>6. l.kind = "sum" /\ l.of.kind = "file" => Author(l.of, b)'
  BY <1>1, AuthorKept DEF Vetted
<1> QED BY <1>3, <1>4, <1>5, <1>6 DEF Vetted

\* What the tasks of the calls write is in order.
LEMMA TaskVetted ==
  ASSUME TypeInv, \A e \in Deployers : CallInv(e), NEW l, NEW b, Task(l, b)
  PROVE  Vetted(l, b)
<1>1. PICK d \in Deployers, s \in Slots :
        /\ Running(d) /\ b = Body(d, s)
        /\ \/ up[d][s] = "body" /\ l = Loc(d, s)
           \/ up[d][s] = "sums" /\ \E a \in Algos : l = SumLoc(Loc(d, s), a)
  BY DEF Task
<1>2. s \in FileSlots => Loc(d, s).kind = "file" /\ Author(Loc(d, s), b)
  <2> SUFFICES ASSUME s \in FileSlots
               PROVE  Loc(d, s).kind = "file" /\ Author(Loc(d, s), b)
    OBVIOUS
  <2>1. s # "vmeta" /\ s # "ameta"
    BY FileSlotsAreSlots
  <2>2. s \in DOMAIN Parts(d) /\ phase[d] \notin {"idle", "resolve"}
    BY <1>1 DEF TypeInv, SlotsOK, Running
  <2>3. b.by = d /\ b.slot = s
    BY <1>1, <2>1 DEF Body
  <2> QED BY <2>1, <2>2, <2>3 DEF Loc, FileLoc, Author
<1>3. s = "vmeta" => Loc(d, s).kind = "vmeta" /\ DocCoherent(b)
  BY <1>1 DEF Loc, VMetaLoc, Body, CallInv, MetaTasks, DocInv
<1>4. s = "ameta" => Loc(d, s).kind = "ameta" /\ ListOK(b)
  BY <1>1 DEF Loc, AMetaLoc, Body, CallInv
<1>5. Vetted(Loc(d, s), b)
  BY <1>2, <1>3, <1>4 DEF Slots, MetaSlots, Vetted
<1>6. ASSUME NEW a \in Algos, l = SumLoc(Loc(d, s), a) PROVE Vetted(l, b)
  <2>1. l.kind = "sum" /\ l.of = Loc(d, s)
    BY <1>6 DEF SumLoc
  <2> QED BY <1>5, <2>1 DEF Vetted
<1> QED BY <1>1, <1>5, <1>6

LEMMA VettedNext ==
  ASSUME TypeInv, PublicationInv, [Next]_vars
  PROVE  AllVetted'
<1>1. Written
  BY WrittenNext
<1>2. ASSUME NEW w \in limbo' PROVE Vetted(w.loc, w.body)'
  BY <1>1, TaskVetted, VettedKept DEF Written, PublicationInv, AllVetted
<1>3. ASSUME NEW l \in DOMAIN store' PROVE Vetted(l, store[l])'
  <2>1. PICK b : b = store'[l]
    OBVIOUS
  <2>2. Vetted(l, b)
    BY <1>1, <2>1, TaskVetted DEF Written, PublicationInv, AllVetted
  <2>3. Vetted(l, b)'
    BY <2>2, VettedKept
  <2> QED BY <2>1, <2>3 DEF Vetted, DocCoherent, Listed, ListOK, Author, Loc, Parts, Version
<1> QED BY <1>2, <1>3 DEF AllVetted

-----------------------------------------------------------------------------
(* A call's own part of the invariant.                                     *)

LEMMA MetaSlotsAreSlots ==
  /\ "vmeta" \in Slots /\ "ameta" \in Slots
  /\ \A e, s : s \in DOMAIN Parts(e) /\ e \in Deployers /\ TypeOK =>
       s \in FileSlots /\ s \in Slots /\ s # "vmeta" /\ s # "ameta"
<1>1. "vmeta" \in Slots /\ "ameta" \in Slots
  BY DEF Slots, MetaSlots
<1>2. ASSUME NEW e \in Deployers, TypeOK, NEW s \in DOMAIN Parts(e) PROVE s \in FileSlots
  BY <1>2, DeployAssumption DEF TypeOK, Parts
<1> QED BY <1>1, <1>2, FileSlotsAreSlots

LEMMA MainPart ==
  ASSUME TypeInv, NEW e \in Deployers
  PROVE  "main" \in DOMAIN Parts(e) /\ Parts(e)["main"] \in PartKeys(e) \cap Keys
<1>1. req[e] \in Requests
  BY DEF TypeInv, TypeOK
<1>2. "main" \in DOMAIN Parts(e) /\ Parts(e)["main"] \in Keys
  BY <1>1, DeployAssumption DEF Parts
<1> QED BY <1>2 DEF PartKeys

LEMMA MetaTasksNext ==
  ASSUME TypeInv, TypeInv', NEW e \in Deployers, Moves(e), UNCHANGED args, MetaTasks(e)
  PROVE  MetaTasks(e)'
<1> USE MetaSlotsAreSlots DEF TypeInv, MetaTasks
<1>1. IsSnapshot(e)' <=> IsSnapshot(e)
  BY DEF IsSnapshot, Version
<1>2. CASE Kept(e)
  BY <1>1, <1>2 DEF Kept
<1>3. CASE Resolving(e)
  BY <1>1, <1>3 DEF Resolving
<1>4. CASE Uploading(e)
  BY <1>4 DEF Uploading, Uploads
<1>5. CASE Prefetched(e)
  BY <1>1, <1>5 DEF Prefetched
<1>6. ASSUME NEW s \in Slots, Worked(e, s) PROVE MetaTasks(e)'
  <2>1. up[e][s] \in {"body", "sums"} /\ up'[e][s] \in {"sums", "failed"}
    BY <1>6 DEF Worked, BodyDone, SumDone
  <2>2. phase'[e] = phase[e] /\ \A t \in Slots \ {s} : up'[e][t] = up[e][t]
    BY <1>6 DEF Worked
  <2> QED BY <1>1, <2>1, <2>2
<1>7. CASE Merging(e)
  BY <1>1, <1>7 DEF Merging
<1>8. CASE Ended(e)
  BY <1>8 DEF Ended
<1> QED BY <1>2, <1>3, <1>4, <1>5, <1>6, <1>7, <1>8 DEF Moves

\* A call that starts to upload has read a document all of whose entries are
\* of earlier builds.
LEMMA FetchedOlder ==
  ASSUME TypeInv, AllVetted, NEW v \in Versions, NEW t \in Times
  PROVE  LET doc == NextSnapshotVersion(Fetched(VMetaLoc(v), NewVDoc), t) IN
         Older(doc) /\ doc.stamp # Literal
<1> DEFINE old == Fetched(VMetaLoc(v), NewVDoc)
           doc == NextSnapshotVersion(old, t)
<1>1. old \in VDocs
  BY FetchedVDoc DEF TypeInv
<1>2. old.stamp.build \in Nat
  BY <1>1 DEF VDocs, Stamps
<1>3. doc.stamp.time = t /\ doc.stamp.build = old.stamp.build + 1 /\ doc.entries = old.entries
  BY <1>1 DEF NextSnapshotVersion, VDocs
<1>4. ASSUME NEW k \in Listed(old) PROVE old.entries[k].build <= old.stamp.build
  <2>1. CASE VMetaLoc(v) \in DOMAIN store
    <3>1. DocCoherent(old)
      BY <2>1 DEF AllVetted, Vetted, Fetched, VMetaLoc
    <3>2. old.entries[k].build \in Nat
      BY <1>1, <1>4 DEF VDocs, Stamps, Listed
    <3>3. old.entries[k] = old.stamp \/ old.entries[k].build < old.stamp.build
      BY <1>4, <3>1 DEF DocCoherent
    <3> QED BY <1>2, <3>2, <3>3
  <2>2. CASE VMetaLoc(v) \notin DOMAIN store
    BY <1>4, <2>2 DEF Fetched, NewVDoc, Listed
  <2> QED BY <2>1, <2>2
<1>5. ASSUME NEW k \in Listed(doc) PROVE doc.entries[k].build < doc.stamp.build
  <2>1. k \in Listed(old)
    BY <1>3, <1>5 DEF Listed
  <2>2. old.entries[k].build \in Nat
    BY <1>1, <2>1 DEF VDocs, Stamps, Listed
  <2> QED BY <1>2, <1>3, <1>4, <2>1, <2>2
<1>6. doc.stamp # Literal
  <2>1. t # 0
    BY DeployAssumption
  <2> QED BY <1>3, <2>1 DEF Literal
<1> QED BY <1>5, <1>6 DEF Older

\* Merging the entries of a call into a document of earlier builds.
LEMMA MergedCoherent ==
  ASSUME NEW doc \in VDocs, Older(doc), doc.stamp # Literal, NEW K, K \cap Keys # {}
  PROVE  DocCoherent(MergeSnapshotVersions(doc, K))
<1> DEFINE new == MergeSnapshotVersions(doc, K)
<1>1. /\ new.stamp = doc.stamp
      /\ \A k \in Keys : new.entries[k] = IF k \in K THEN doc.stamp ELSE doc.entries[k]
  BY MergeStamp
<1> HIDE DEF new
<1>2. \E k \in Listed(new) : new.entries[k] = new.stamp
  BY <1>1 DEF Listed
<1>3. ASSUME NEW k \in Listed(new)
      PROVE  new.entries[k] = new.stamp \/ new.entries[k].build < new.stamp.build
  BY <1>1, <1>3 DEF Listed, Older
<1>4. DocCoherent(new)
  BY <1>2, <1>3 DEF DocCoherent
<1> QED BY <1>4 DEF new

LEMMA DocInvNext ==
  ASSUME TypeInv, AllVetted, NEW e \in Deployers, Moves(e), UNCHANGED args, DocInv(e)
  PROVE  DocInv(e)'
<1>1. IsSnapshot(e)' <=> IsSnapshot(e)
  BY DEF IsSnapshot, Version
<1>2. CASE Kept(e)
  BY <1>1, <1>2 DEF Kept, DocInv, Older, DocCoherent, Listed
<1>3. CASE Resolving(e)
  BY <1>1, <1>3 DEF Resolving, DocInv
<1>4. CASE Uploading(e)
  <2>1. phase'[e] = "files"
    BY <1>4 DEF Uploading
  <2>2. CASE phase[e] = "idle" /\ ~ IsSnapshot(e) /\ vdoc'[e] = vdoc[e]
    BY <1>1, <2>1, <2>2 DEF DocInv, NewVDoc
  <2>3. CASE /\ phase[e] = "resolve"
             /\ vdoc'[e] =
                  NextSnapshotVersion(Fetched(VMetaLoc(Version(e)), NewVDoc), now[e])
    <3>1. Version(e) \in Versions /\ now[e] \in Times
      BY DeployAssumption DEF TypeInv, TypeOK, Version
    <3>2. PICK doc : doc = vdoc'[e]
      OBVIOUS
    <3>3. Older(doc) /\ doc.stamp # Literal
      BY <2>3, <3>1, <3>2, FetchedOlder
    <3>4. IsSnapshot(e)
      BY <2>3 DEF DocInv
    <3> QED BY <1>1, <2>1, <3>2, <3>3, <3>4 DEF DocInv, Older, Listed
  <2> QED BY <1>4, <2>2, <2>3 DEF Uploading
<1>5. CASE Prefetched(e)
  BY <1>1, <1>5 DEF Prefetched, DocInv, Older, Listed
<1>6. ASSUME NEW s \in Slots, Worked(e, s) PROVE DocInv(e)'
  BY <1>1, <1>6 DEF Worked, DocInv, Older, DocCoherent, Listed
<1>7. CASE Merging(e)
  <2>1. phase[e] = "files" /\ phase'[e] = "meta"
    BY <1>7 DEF Merging
  <2>2. CASE ~ IsSnapshot(e)
    BY <1>1, <1>7, <2>1, <2>2 DEF Merging, DocInv
  <2>3. CASE IsSnapshot(e)
    <3>1. vdoc[e] \in VDocs /\ Older(vdoc[e]) /\ vdoc[e].stamp # Literal
      BY <2>1, <2>3 DEF DocInv, TypeInv, TypeOK
    <3>2. PartKeys(e) \cap Keys # {}
      BY MainPart
    <3>3. PICK doc : doc = vdoc'[e]
      OBVIOUS
    <3>4. doc = MergeSnapshotVersions(vdoc[e], PartKeys(e))
      BY <1>7, <2>3, <3>3 DEF Merging
    <3>5. DocCoherent(doc)
      BY <3>1, <3>2, <3>4, MergedCoherent
    <3>6. doc.stamp = vdoc[e].stamp
      BY <3>1, <3>4, MergeStamp
    <3> QED BY <1>1, <2>1, <2>3, <3>1, <3>3, <3>5, <3>6 DEF DocInv, DocCoherent, Listed
  <2> QED BY <2>2, <2>3
<1>8. CASE Ended(e)
  BY <1>8 DEF Ended, DocInv
<1> QED BY <1>2, <1>3, <1>4, <1>5, <1>6, <1>7, <1>8 DEF Moves

\* A task whose group succeeded has landed its upload.
LEMMA TaskLanded ==
  ASSUME TypeInv, NEW e \in Deployers, NEW s \in Slots, UploadLanded(e, s),
         up[e][s] \in {"body", "sums", "failed"}, Waited(e), NoError(e)
  PROVE  Landed(Loc(e, s))
<1>1. sums[e][s] \in [Algos -> {"todo", "ok", "failed"}]
  BY DEF TypeInv, TypeOK
<1>2. up[e][s] = "sums" /\ \A a \in Algos : sums[e][s][a] = "ok"
  BY <1>1 DEF Waited, Returned, NoError, Failed
<1> QED BY <1>2 DEF UploadLanded, Landed

LEMMA FilesLanded ==
  ASSUME TypeInv, UploadsLanded, NEW e \in Deployers, phase[e] \in {"files", "meta"},
         Waited(e), NoError(e), NEW s \in DOMAIN Parts(e)
  PROVE  Landed(Loc(e, s))
<1>1. s \in FileSlots /\ s \in Slots
  BY MetaSlotsAreSlots DEF TypeInv
<1>2. up[e][s] \in {"body", "sums", "failed"}
  BY <1>1 DEF TypeInv, SlotsOK
<1> QED BY <1>1, <1>2, TaskLanded DEF UploadsLanded

\* When the metadata is assembled, the version it adds to the list has landed.
LEMMA OwnVersionLanded ==
  ASSUME TypeInv, UploadsLanded, NEW e \in Deployers, DocInv(e), phase[e] = "files",
         Waited(e), NoError(e)
  PROVE  VersionLanded(Version(e))
<1> DEFINE l == Loc(e, "main")
<1>1. "main" \in DOMAIN Parts(e)
  BY MainPart
<1>2. Landed(l)
  BY <1>1, FilesLanded
<1>3. l = FileLoc(Version(e), vdoc[e].stamp, Parts(e)["main"])
  BY DEF Loc
<1>4. l.kind = "file" /\ l.version = Version(e) /\ l.stamp = vdoc[e].stamp
  BY <1>3 DEF FileLoc
<1> HIDE DEF l
<1>5. l.stamp = Literal <=> Version(e) \notin Snapshots
  BY <1>4 DEF DocInv, IsSnapshot
<1> QED BY <1>2, <1>4, <1>5 DEF VersionLanded, Landed

LEMMA UpdatedList ==
  ASSUME NEW doc, ListOK(doc), NEW v \in Versions, VersionLanded(v)
  PROVE  ListOK(UpdateArtifactMetadata(doc, v))
BY DeployAssumption DEF ListOK, UpdateArtifactMetadata

LEMMA ListNext ==
  ASSUME TypeInv, UploadsLanded, AllVetted, [Next]_vars, NEW e \in Deployers, Moves(e),
         DocInv(e), ListOK(adoc[e])
  PROVE  ListOK(adoc[e])'
<1>1. DOMAIN store \subseteq DOMAIN store'
  BY StoreGrows
<1>2. ASSUME NEW doc, doc = adoc'[e], ListOK(doc) PROVE ListOK(adoc[e])'
  <2>1. ListOK(doc)'
    BY <1>1, <1>2, ListStaysOK
  <2> QED BY <1>2, <2>1 DEF ListOK
<1>3. ListOK(NewADoc)
  BY DEF ListOK, NewADoc
<1>4. PICK doc : doc = adoc'[e]
  OBVIOUS
<1>5. CASE adoc'[e] = adoc[e]
  BY <1>2, <1>4, <1>5
<1>6. CASE Prefetched(e)
  <2>1. CASE adoc'[e] = Fetched(AMetaLoc, NewADoc)
    <3>1. ListOK(Fetched(AMetaLoc, NewADoc))
      BY <1>3 DEF Fetched, AllVetted, Vetted, AMetaLoc
    <3> QED BY <1>2, <1>4, <2>1, <3>1
  <2> QED BY <1>5, <1>6, <2>1 DEF Prefetched
<1>7. CASE Merging(e)
  <2>1. Version(e) \in Versions
    BY DeployAssumption DEF TypeInv, TypeOK, Version
  <2>2. VersionLanded(Version(e))
    BY <1>7, OwnVersionLanded DEF Merging
  <2>3. ListOK(doc)
    BY <1>4, <1>7, <2>1, <2>2, UpdatedList DEF Merging
  <2> QED BY <1>2, <1>4, <2>3
<1>8. CASE Ended(e)
  BY <1>2, <1>3, <1>4, <1>8 DEF Ended
<1> QED BY <1>5, <1>6, <1>7, <1>8 DEF Moves, Kept, Resolving, Uploading, Worked

LEMMA MetaLocKept ==
  ASSUME UNCHANGED args, NEW e, NEW s \in MetaSlots
  PROVE  Loc(e, s)' = Loc(e, s)
BY DEF Loc, MetaSlots, Version

LEMMA MetaUploadsNext ==
  ASSUME TypeInv, [Next]_vars, UNCHANGED args, NEW e \in Deployers, Moves(e),
         NEW s \in MetaSlots, UploadLanded(e, s)
  PROVE  UploadLanded(e, s)'
<1>1. DOMAIN store \subseteq DOMAIN store'
  BY StoreGrows
<1>2. Loc(e, s)' = Loc(e, s)
  BY MetaLocKept
<1>3. s \in Slots /\ sums[e][s] \in [Algos -> {"todo", "ok", "failed"}]
  BY DEF Slots, TypeInv, TypeOK
<1>4. ASSUME up'[e][s] = "sums" => up[e][s] = "sums" \/ Loc(e, s) \in DOMAIN store',
             \A a \in Algos : sums'[e][s][a] = "ok" =>
               sums[e][s][a] = "ok" \/ SumLoc(Loc(e, s), a) \in DOMAIN store'
      PROVE  UploadLanded(e, s)'
  BY <1>1, <1>2, <1>4 DEF UploadLanded
<1>5. CASE Kept(e) \/ Resolving(e)
  BY <1>4, <1>5 DEF Kept, Resolving
<1>6. CASE Uploading(e)
  <2>1. s \notin DOMAIN Parts(e)
    BY MetaSlotsAreSlots DEF TypeInv, MetaSlots
  <2> QED BY <1>3, <1>4, <1>6, <2>1 DEF Uploading, Uploads
<1>7. CASE Prefetched(e)
  BY <1>3, <1>4, <1>7 DEF Prefetched
<1>8. ASSUME NEW t \in Slots, Worked(e, t) PROVE UploadLanded(e, s)'
  <2>1. CASE t # s
    BY <1>3, <1>4, <1>8, <2>1 DEF Worked
  <2>2. CASE t = s /\ BodyDone(e, s)
    BY <1>4, <2>2 DEF BodyDone
  <2>3. CASE t = s /\ SumDone(e, s)
    BY <1>4, <2>3 DEF SumDone
  <2> QED BY <1>8, <2>1, <2>2, <2>3 DEF Worked
<1>9. CASE Merging(e)
  BY <1>3, <1>4, <1>9 DEF Merging
<1>10. CASE Ended(e)
  BY <1>3, <1>4, <1>10 DEF Ended, AllTodo
<1> QED BY <1>5, <1>6, <1>7, <1>8, <1>9, <1>10 DEF Moves

LEMMA CompleteNext ==
  ASSUME TypeInv, UploadsLanded, CallTypes, [Next]_vars, UNCHANGED args,
         NEW e \in Deployers, Moves(e), MetaTasks(e), Complete(e),
         \A s \in MetaSlots : UploadLanded(e, s)
  PROVE  Complete(e)'
<1> SUFFICES ASSUME phase'[e] = "ok" PROVE Complete(e)'
  BY DEF Complete
<1>1. phase[e] \in {"ok", "meta"}
  BY DEF Moves, Kept, Resolving, Uploading, Prefetched, Worked, Running, Merging, Ended
<1>2. /\ \A s \in DOMAIN Parts(e) : Landed(Loc(e, s))
      /\ Landed(AMetaLoc)
      /\ IsSnapshot(e) => Landed(VMetaLoc(Version(e)))
  <2>1. CASE phase[e] = "ok"
    BY <2>1 DEF Complete
  <2>2. CASE phase[e] = "meta"
    <3>1. Waited(e) /\ NoError(e)
      BY <2>2 DEF Moves, Kept, Resolving, Uploading, Prefetched, Worked, Merging, Ended
    <3>2. \A s \in DOMAIN Parts(e) : Landed(Loc(e, s))
      BY <2>2, <3>1, FilesLanded
    <3>3. Landed(Loc(e, "ameta"))
      BY <2>2, <3>1, TaskLanded, MetaSlotsAreSlots DEF MetaTasks, MetaSlots
    <3>4. IsSnapshot(e) => Landed(Loc(e, "vmeta"))
      BY <2>2, <3>1, TaskLanded, MetaSlotsAreSlots DEF MetaTasks, MetaSlots
    <3> QED BY <3>2, <3>3, <3>4 DEF Loc
  <2> QED BY <1>1, <2>1, <2>2
<1>3. \A s : Loc(e, s)' = Loc(e, s)
  BY <1>1, LocKept
<1>4. \A l : Landed(l) => LandedAfter(l)
  BY StoreGrows, LandedStays
<1>5. Parts(e)' = Parts(e) /\ Version(e)' = Version(e) /\ (IsSnapshot(e)' <=> IsSnapshot(e))
  BY DEF Parts, Version, IsSnapshot
<1>6. \A s \in DOMAIN Parts(e) : Landed(Loc(e, s))'
  BY <1>2, <1>3, <1>4 DEF Landed, LandedAfter
<1>7. Landed(AMetaLoc)' /\ (IsSnapshot(e) => Landed(VMetaLoc(Version(e)))')
  BY <1>2, <1>4, <1>5 DEF Landed, LandedAfter
<1> QED BY <1>5, <1>6, <1>7 DEF Complete

LEMMA InitPublication == Init => PublicationInv
<1> SUFFICES ASSUME Init PROVE PublicationInv
  OBVIOUS
<1> USE DEF Init
<1>1. AllVetted
  BY DEF AllVetted
<1>2. ASSUME NEW e \in Deployers PROVE CallInv(e)
  <2>1. DocInv(e) /\ MetaTasks(e) /\ Complete(e)
    BY MetaSlotsAreSlots DEF DocInv, MetaTasks, Complete
  <2>2. ListOK(adoc[e])
    BY DEF ListOK, NewADoc
  <2>3. \A s \in MetaSlots : UploadLanded(e, s)
    BY DEF UploadLanded, Slots, AllTodo
  <2> QED BY <2>1, <2>2, <2>3 DEF CallInv
<1> QED BY <1>1, <1>2 DEF PublicationInv

LEMMA NextPublication ==
  ASSUME TypeInv, UploadsLanded, PublicationInv, [Next]_vars
  PROVE  PublicationInv'
<1>1. CallTypes /\ UNCHANGED args /\ \A e \in Deployers : Moves(e)
  BY MovesNext DEF TypeInv, TypeOK, CallTypes
<1>2. TypeInv'
  BY NextTypeInv
<1>3. ASSUME NEW e \in Deployers PROVE CallInv(e)'
  <2> USE DEF PublicationInv, CallInv
  <2>1. DocInv(e)'
    BY <1>1, DocInvNext
  <2>2. MetaTasks(e)'
    BY <1>1, <1>2, MetaTasksNext
  <2>3. ListOK(adoc[e])'
    BY <1>1, ListNext
  <2>4. Complete(e)'
    BY <1>1, CompleteNext
  <2>5. \A s \in MetaSlots : UploadLanded(e, s)'
    BY <1>1, MetaUploadsNext
  <2> QED BY <2>1, <2>2, <2>3, <2>4, <2>5
<1> QED BY <1>3, VettedNext DEF PublicationInv

-----------------------------------------------------------------------------
(* The theorems.                                                           *)

PublishedInv == TypeInv /\ LandedInv /\ PublicationInv

LEMMA PublicationHolds == Spec => []PublishedInv
<1>1. Init => PublishedInv
  BY InitTypeInv, InitLanded, InitPublication DEF PublishedInv
<1>2. PublishedInv /\ [Next]_vars => PublishedInv'
  BY NextTypeInv, UploadsNext, MemoryNext, DocsNext, NextPublication
     DEF PublishedInv, LandedInv
<1> QED BY <1>1, <1>2, PTL DEF Spec

\* Whatever calls interleave, fail, die or are applied late, every version in
\* the artifact-level list has a file in the repository with all its sidecars
\* (updateArtifactMetadata adds the version only after files.Wait), and the
\* release is a listed version that is no SNAPSHOT.
THEOREM ListedAreLanded == Spec => []ListedVersionsLanded
<1>1. PublishedInv => ListedVersionsLanded
  <2> SUFFICES ASSUME PublishedInv, AMetaLoc \in DOMAIN store
               PROVE  ListOK(store[AMetaLoc])
    BY DEF ListedVersionsLanded, ListOK
  <2>1. AMetaLoc.kind = "ameta"
    BY DEF AMetaLoc
  <2> QED BY <2>1 DEF PublishedInv, PublicationInv, AllVetted, Vetted
<1> QED BY <1>1, PublicationHolds, PTL

\* Every version-level document that is ever in the repository was made by one
\* call from one document: nextSnapshotVersion and mergeSnapshotVersions of
\* different calls never mix.
THEOREM PublishedCoherent == Spec => []PublishedDocsCoherent
<1>1. PublishedInv => PublishedDocsCoherent
  <2> SUFFICES ASSUME PublishedInv, NEW v \in Snapshots, VMetaLoc(v) \in DOMAIN store
               PROVE  DocCoherent(store[VMetaLoc(v)])
    BY DEF PublishedDocsCoherent
  <2>1. VMetaLoc(v).kind = "vmeta"
    BY DEF VMetaLoc
  <2> QED BY <2>1 DEF PublishedInv, PublicationInv, AllVetted, Vetted
<1> QED BY <1>1, PublicationHolds, PTL

\* A file, or its digest, at a location that no other task shares is the one
\* the task of that location uploaded.
LEMMA ExclusiveIsOwn ==
  ASSUME TypeOK, NEW d \in Deployers, NEW s \in DOMAIN Parts(d), Exclusive(d, s),
         NEW b \in FileBodies, Author(Loc(d, s), b)
  PROVE  b = Body(d, s)
<1>1. s # "vmeta" /\ s # "ameta"
  BY MetaSlotsAreSlots
<1>2. b.by \in Deployers /\ b.slot \in DOMAIN Parts(b.by) /\ Loc(b.by, b.slot) = Loc(d, s)
  BY DEF Author
<1>3. b.slot \in FileSlots /\ b.slot # "vmeta" /\ b.slot # "ameta"
  BY <1>2, MetaSlotsAreSlots
<1>4. FileLoc(Version(b.by), vdoc[b.by].stamp, Parts(b.by)[b.slot]) = Loc(d, s)
  BY <1>2, <1>3 DEF Loc
<1>5. <<b.by, b.slot>> = <<d, s>>
  BY <1>2, <1>3, <1>4 DEF Exclusive
<1> QED BY <1>1, <1>5 DEF Body, FileBodies

\* A call that returned success has left in the repository everything it was
\* asked to publish: its own files and digests wherever no other task has the
\* same name, and both documents with their sidecars.
THEOREM SuccessIsPublished == Spec => []SuccessMeansPublished
<1>1. PublishedInv => SuccessMeansPublished
  <2> SUFFICES ASSUME PublishedInv, NEW d \in Deployers, phase[d] = "ok"
               PROVE  /\ \A s \in DOMAIN Parts(d) : Exclusive(d, s) =>
                           /\ Landed(Loc(d, s))
                           /\ store[Loc(d, s)] = Body(d, s)
                           /\ \A a \in Algos : store[SumLoc(Loc(d, s), a)] = Body(d, s)
                      /\ Landed(AMetaLoc)
                      /\ IsSnapshot(d) => Landed(VMetaLoc(Version(d)))
    BY DEF SuccessMeansPublished
  <2>1. TypeOK /\ AllVetted /\ Complete(d)
    BY DEF PublishedInv, TypeInv, PublicationInv, CallInv
  <2>2. ASSUME NEW s \in DOMAIN Parts(d), Exclusive(d, s)
        PROVE  /\ Landed(Loc(d, s))
               /\ store[Loc(d, s)] = Body(d, s)
               /\ \A a \in Algos : store[SumLoc(Loc(d, s), a)] = Body(d, s)
    <3> DEFINE l == Loc(d, s)
    <3>1. Landed(l)
      BY <2>1 DEF Complete
    <3>2. l.kind = "file"
      BY <2>1, MetaSlotsAreSlots DEF Loc, FileLoc
    <3> HIDE DEF l
    <3>3. store[l] \in FileBodies /\ Author(l, store[l])
      BY <2>1, <3>1, <3>2, LocKinds DEF Landed, TypeOK, Fits, FitsSum, AllVetted, Vetted
    <3>4. ASSUME NEW a \in Algos PROVE store[SumLoc(l, a)] = Body(d, s)
      <4>1. SumLoc(l, a).kind = "sum" /\ SumLoc(l, a).of = l /\ SumLoc(l, a) \in DOMAIN store
        BY <3>1 DEF SumLoc, Landed
      <4>2. store[SumLoc(l, a)] \in FileBodies /\ Author(l, store[SumLoc(l, a)])
        BY <2>1, <3>2, <4>1, LocKinds DEF TypeOK, Fits, FitsSum, AllVetted, Vetted
      <4> QED BY <2>1, <2>2, <4>2, ExclusiveIsOwn DEF l
    <3>5. store[l] = Body(d, s)
      BY <2>1, <2>2, <3>3, ExclusiveIsOwn DEF l
    <3> QED BY <3>1, <3>4, <3>5 DEF l
  <2> QED BY <2>1, <2>2 DEF Complete
<1> QED BY <1>1, PublicationHolds, PTL

-----------------------------------------------------------------------------
(* Deploys from the command line, for any commands, any number of them at a *)
(* time, and any answers lost.                                              *)

\* A call is made for a command, and passes on what the command says.
LEMMA ForACommand ==
  ASSUME Requests = CommandRequests, TypeInv, NEW d \in Deployers
  PROVE  \E c \in Commands : req[d] = RequestOf(c)
<1>1. req[d] \in Requests
  BY DEF TypeInv, TypeOK
<1>2. QED
  BY <1>1 DEF CommandRequests

\* A command's request has the name of a classifier-less POM only where one
\* is deployed, attached, or made for an artifact without a classifier.
LEMMA NamesPom ==
  ASSUME NEW c \in Commands, NEW s \in DOMAIN RequestOf(c).parts,
         RequestOf(c).parts[s] = PomKey
  PROVE  AsksForPom(c) \/ AttachesPom(c) \/ MainKey(c).classifier = ""
<1>1. DOMAIN RequestOf(c).parts =
        {"main"} \cup DOMAIN c.attach \cup (IF DeployPOM(c) THEN {"pom"} ELSE {})
  BY DEF RequestOf
<1>2. "main" \notin DOMAIN c.attach /\ "pom" \notin DOMAIN c.attach
  BY CommandAssumption, DeployAssumption
<1>3. CASE s = "main"
  <2>1. MainKey(c) = PomKey
    BY <1>3 DEF RequestOf
  <2>2. PomKey.classifier = ""
    BY DEF PomKey
  <2>3. QED
    BY <2>1, <2>2
<1>4. CASE s = "pom"
  <2>1. DeployPOM(c)
    BY <1>1, <1>2, <1>4
  <2>2. QED
    BY <2>1 DEF DeployPOM, AsksForPom, MainKey
<1>5. CASE s \in DOMAIN c.attach
  <2>1. AttachKey(c.attach[s]) = PomKey
    BY <1>2, <1>5 DEF RequestOf
  <2>2. QED
    BY <1>5, <2>1 DEF AttachesPom
<1>6. QED
  BY <1>1, <1>3, <1>4, <1>5

\* However the commands of a build interleave, fail and crash: nobody's
\* classified artifact replaces the main artifact's POM by one that nobody
\* asked for.
THEOREM PomIsOfMain ==
  ASSUME Requests = CommandRequests
  PROVE  Spec => []PomStaysWithMain
<1>1. PublishedInv => PomStaysWithMain
  <2> SUFFICES ASSUME PublishedInv, NEW v \in Versions \ Snapshots,
                      FileLoc(v, Literal, PomKey) \in DOMAIN store
               PROVE  LET c == req[store[FileLoc(v, Literal, PomKey)].by].cmd IN
                        AsksForPom(c) \/ AttachesPom(c) \/ MainKey(c).classifier = ""
    BY DEF PomStaysWithMain
  <2>1. PICK l : l = FileLoc(v, Literal, PomKey)
    OBVIOUS
  <2>2. PICK b : b = store[l]
    OBVIOUS
  <2>3. l.kind = "file" /\ l.key = PomKey
    BY <2>1 DEF FileLoc
  <2>4. Author(l, b)
    BY <2>1, <2>2, <2>3 DEF PublishedInv, PublicationInv, AllVetted, Vetted
  <2>5. b.slot \in DOMAIN Parts(b.by) /\ Parts(b.by)[b.slot] = PomKey
    <3>1. Loc(b.by, b.slot) = l /\ b.slot \in DOMAIN Parts(b.by)
      BY <2>4 DEF Author
    <3>2. Loc(b.by, b.slot) = FileLoc(Version(b.by), vdoc[b.by].stamp, Parts(b.by)[b.slot])
      BY <2>3, <3>1 DEF Loc, VMetaLoc, AMetaLoc
    <3>3. QED
      BY <2>3, <3>1, <3>2 DEF FileLoc
  <2>6. PICK c \in Commands : req[b.by] = RequestOf(c)
    BY <2>4, ForACommand DEF PublishedInv, Author
  <2>7. req[b.by].cmd = c
    BY <2>6 DEF RequestOf
  <2>8. QED
    BY <2>1, <2>2, <2>5, <2>6, <2>7, NamesPom DEF Parts
<1>2. QED
  BY <1>1, PublicationHolds, PTL
=============================================================================
