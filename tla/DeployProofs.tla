---------------------------- MODULE DeployProofs ----------------------------
(***************************************************************************)
(* Proofs about Deploy for every number of calls, requests, clocks, lost   *)
(* answers and checksum algorithms.                                        *)
(***************************************************************************)
EXTENDS Deploy, TLAPS

USE DEF vars, repoVars, args

\* Only the tasks of the uploads a call was asked for run, and only while its
\* goroutines do.
SlotsOK ==
  \A d \in Deployers :
    /\ \A s \in FileSlots :
         /\ up[d][s] \in {"off", "body", "sums", "failed"}
         /\ up[d][s] # "off" => s \in DOMAIN Parts(d)
    /\ phase[d] \in {"files", "meta"} =>
         \A s \in DOMAIN Parts(d) : up[d][s] # "off"
    /\ phase[d] \notin {"files", "meta"} =>
         \A s \in Slots : up[d][s] = "off" /\ sums[d][s] = AllTodo

TypeInv == TypeOK /\ SlotsOK

-----------------------------------------------------------------------------
(* Locations of different kinds differ.                                    *)

LEMMA LocKinds ==
  /\ \A l \in FileLocs : l.kind = "file"
  /\ \A l \in VMetaLocs : l.kind = "vmeta"
  /\ \A l \in SumLocs : l.kind = "sum"
  /\ AMetaLoc.kind = "ameta"
BY DEF FileLocs, VMetaLocs, SumLocs, AMetaLoc

LEMMA FetchedVDoc ==
  ASSUME TypeOK, NEW v \in Versions
  PROVE  Fetched(VMetaLoc(v), NewVDoc) \in VDocs
<1>1. NewVDoc \in VDocs
  BY DeployAssumption DEF NewVDoc, VDocs, Literal, Stamps
<1>2. VMetaLoc(v) \in VMetaLocs
  BY DEF VMetaLoc, VMetaLocs
<1>3. ASSUME VMetaLoc(v) \in DOMAIN store
      PROVE  store[VMetaLoc(v)] \in VDocs
  BY <1>2, <1>3, LocKinds DEF TypeOK, Fits, FitsSum
<1> QED BY <1>1, <1>3 DEF Fetched

LEMMA MergeVDoc ==
  ASSUME NEW doc \in VDocs, NEW K
  PROVE  MergeSnapshotVersions(doc, K) \in VDocs
<1>1. doc = [stamp |-> doc.stamp, entries |-> doc.entries]
  BY DEF VDocs
<1>2. MergeSnapshotVersions(doc, K) =
        [stamp |-> doc.stamp,
         entries |-> [k \in Keys |-> IF k \in K THEN doc.stamp ELSE doc.entries[k]]]
  BY <1>1 DEF MergeSnapshotVersions
<1>3. [k \in Keys |-> IF k \in K THEN doc.stamp ELSE doc.entries[k]]
        \in [Keys -> Stamps]
  BY DEF VDocs
<1> QED BY <1>2, <1>3 DEF VDocs

LEMMA MergeStamp ==
  ASSUME NEW doc \in VDocs, NEW K
  PROVE  /\ MergeSnapshotVersions(doc, K).stamp = doc.stamp
         /\ \A k \in Keys : MergeSnapshotVersions(doc, K).entries[k] =
              IF k \in K THEN doc.stamp ELSE doc.entries[k]
<1>1. doc = [stamp |-> doc.stamp, entries |-> doc.entries]
  BY DEF VDocs
<1> QED BY <1>1 DEF MergeSnapshotVersions

LEMMA FetchedADoc ==
  ASSUME TypeOK
  PROVE  Fetched(AMetaLoc, NewADoc) \in ADocs
<1>1. NewADoc \in ADocs
  BY DEF NewADoc, ADocs
<1>2. ASSUME AMetaLoc \in DOMAIN store
      PROVE  store[AMetaLoc] \in ADocs
  BY <1>2, LocKinds DEF TypeOK, Fits, FitsSum
<1> QED BY <1>1, <1>2 DEF Fetched

\* The body of a task fits the location it is uploaded to.
LEMMA TaskFits ==
  ASSUME TypeInv, NEW d \in Deployers, NEW s \in Slots, up[d][s] # "off"
  PROVE  Fits(Loc(d, s), Body(d, s))
<1>1. Version(d) \in Versions
  BY DeployAssumption DEF TypeInv, TypeOK, Version
<1>2. CASE s = "vmeta"
  BY <1>1, <1>2 DEF Fits, Loc, Body, VMetaLoc, VMetaLocs, TypeInv, TypeOK
<1>3. CASE s = "ameta"
  BY <1>3 DEF Fits, Loc, Body, TypeInv, TypeOK
<1>4. CASE s \notin MetaSlots
  <2>1. s \in FileSlots /\ s # "vmeta" /\ s # "ameta"
    BY <1>4 DEF Slots, MetaSlots
  <2>2. s \in DOMAIN Parts(d)
    BY <2>1 DEF TypeInv, SlotsOK
  <2>3. Parts(d)[s] \in Keys
    BY <2>2, DeployAssumption DEF TypeInv, TypeOK, Parts
  <2>4. vdoc[d].stamp \in Stamps
    BY DEF TypeInv, TypeOK, VDocs
  <2>5. Loc(d, s) = FileLoc(Version(d), vdoc[d].stamp, Parts(d)[s])
    BY <2>1 DEF Loc
  <2>6. Body(d, s) = [by |-> d, slot |-> s]
    BY <2>1 DEF Body
  <2> QED
    BY <1>1, <2>1, <2>3, <2>4, <2>5, <2>6 DEF Fits, FileLoc, FileLocs, FileBodies
<1> QED BY <1>2, <1>3, <1>4 DEF MetaSlots

LEMMA TaskSumFits ==
  ASSUME TypeInv, NEW d \in Deployers, NEW s \in Slots, up[d][s] # "off",
         NEW a \in Algos
  PROVE  FitsSum(SumLoc(Loc(d, s), a), Body(d, s))
<1>1. Fits(Loc(d, s), Body(d, s))
  BY TaskFits
<1>2. Loc(d, s) \in BodyLocs
  BY <1>1 DEF Fits, BodyLocs
<1> QED BY <1>1, <1>2 DEF FitsSum, SumLoc, SumLocs

\* A write of a fitting body keeps the repository well typed.
StoreOK == \A l \in DOMAIN store : Fits(l, store[l]) \/ FitsSum(l, store[l])

LEMMA ApplyFits ==
  ASSUME StoreOK, NEW l, NEW b, Fits(l, b) \/ FitsSum(l, b),
         store' = Apply(store, l, b)
  PROVE  StoreOK'
<1> SUFFICES ASSUME NEW x \in DOMAIN store'
             PROVE  Fits(x, store'[x]) \/ FitsSum(x, store'[x])
  BY DEF StoreOK, Fits, FitsSum
<1>1. CASE x = l
  BY <1>1 DEF Apply
<1>2. CASE x # l
  BY <1>2 DEF Apply, StoreOK
<1> QED BY <1>1, <1>2

-----------------------------------------------------------------------------
(* Type correctness.                                                       *)

LEMMA InitTypeInv == Init => TypeInv
<1> SUFFICES ASSUME Init PROVE TypeInv
  OBVIOUS
<1> USE DEF Init
<1>1. NewVDoc \in VDocs
  BY DeployAssumption DEF NewVDoc, VDocs, Literal, Stamps
<1>2. NewADoc \in ADocs
  BY DEF NewADoc, ADocs
<1>3. TypeOK
  BY <1>1, <1>2, DeployAssumption DEF TypeOK, Phases, TaskStates, AllTodo
<1>4. SlotsOK
  BY DEF SlotsOK, Slots
<1> QED BY <1>3, <1>4 DEF TypeInv

\* Only the phase, the documents and the task states of one call change.
LEMMA EndTypeInv ==
  ASSUME TypeInv, NEW d \in Deployers, NEW p \in {"ok", "err", "crashed"},
         End(d, p)
  PROVE  TypeInv'
<1> USE DEF End, SetPhase, TypeInv
<1>1. NewVDoc \in VDocs /\ vdoc[d].stamp \in Stamps
  BY DeployAssumption DEF NewVDoc, VDocs, Literal, Stamps, TypeOK
<1>2. [NewVDoc EXCEPT !.stamp = vdoc[d].stamp] \in VDocs
  BY <1>1 DEF NewVDoc, VDocs
<1>3. NewADoc \in ADocs
  BY DEF NewADoc, ADocs
<1>4. TypeOK'
  BY <1>2, <1>3 DEF TypeOK, Phases, TaskStates, AllTodo, Fits, FitsSum
<1>5. SlotsOK'
  BY DEF SlotsOK, TypeOK, Slots, Parts, AllTodo
<1> QED BY <1>4, <1>5

LEMMA NextTypeInv == TypeInv /\ [Next]_vars => TypeInv'
<1> SUFFICES ASSUME TypeInv, [Next]_vars PROVE TypeInv'
  OBVIOUS
<1> USE DEF TypeInv
<1>1. ASSUME NEW d \in Deployers, Begin(d) PROVE TypeInv'
  <2>1. CASE Reject(d)
    BY <2>1, EndTypeInv DEF Reject
  <2>2. CASE BeginRelease(d)
    <3> USE <2>2 DEF BeginRelease, MayStart, SetPhase, StartFiles
    <3>1. TypeOK'
      BY DEF TypeOK, Phases, TaskStates, Fits, FitsSum
    <3>2. SlotsOK'
      BY DeployAssumption DEF SlotsOK, TypeOK, Slots, FileSlots, Parts, MetaSlots, AllTodo
    <3> QED BY <3>1, <3>2
  <2>3. CASE BeginSnapshot(d)
    <3> USE <2>3 DEF BeginSnapshot, MayStart, SetPhase
    <3>1. TypeOK'
      BY DEF TypeOK, Phases, TaskStates, Fits, FitsSum
    <3>2. SlotsOK'
      BY DEF SlotsOK, TypeOK, Parts, AllTodo
    <3> QED BY <3>1, <3>2
  <2> QED BY <1>1, <2>1, <2>2, <2>3 DEF Begin
<1>2. ASSUME NEW d \in Deployers, Step(d) PROVE TypeInv'
  <2>1. CASE FetchVersionMeta(d)
    <3> USE <2>1 DEF FetchVersionMeta, SetPhase, StartFiles
    <3> DEFINE doc == Fetched(VMetaLoc(Version(d)), NewVDoc)
    <3>1. Version(d) \in Versions
      BY DeployAssumption DEF TypeOK, Version
    <3>2. doc \in VDocs
      BY <3>1, FetchedVDoc
    <3>3. now[d] \in Times /\ doc.stamp.build + 1 \in Nat
      BY <3>2 DEF VDocs, Stamps, TypeOK
    <3>4. NextSnapshotVersion(doc, now[d]) \in VDocs
      BY <3>2, <3>3 DEF NextSnapshotVersion, VDocs, Stamps
    <3>5. TypeOK'
      BY <3>4 DEF TypeOK, Phases, TaskStates, Fits, FitsSum
    <3>6. SlotsOK'
      BY DeployAssumption DEF SlotsOK, TypeOK, Slots, FileSlots, Parts, MetaSlots, AllTodo
    <3> QED BY <3>5, <3>6
  <2>2. CASE FetchVersionMetaFailed(d)
    BY <2>2, EndTypeInv DEF FetchVersionMetaFailed
  <2>3. CASE FetchArtMeta(d)
    <3> USE <2>3 DEF FetchArtMeta, SetTask
    <3>1. Fetched(AMetaLoc, NewADoc) \in ADocs
      BY FetchedADoc
    <3>2. TypeOK'
      BY <3>1 DEF TypeOK, TaskStates, Slots, MetaSlots, Fits, FitsSum
    <3>3. SlotsOK'
      BY DeployAssumption DEF SlotsOK, TypeOK, Slots, MetaSlots, FileSlots, Parts
    <3> QED BY <3>2, <3>3
  <2>4. CASE FetchArtMetaFailed(d)
    <3> USE <2>4 DEF FetchArtMetaFailed, SetTask
    <3>1. TypeOK'
      BY DEF TypeOK, TaskStates, Slots, MetaSlots, Fits, FitsSum
    <3>2. SlotsOK'
      BY DeployAssumption DEF SlotsOK, TypeOK, Slots, MetaSlots, FileSlots, Parts
    <3> QED BY <3>1, <3>2
  <2>5. ASSUME NEW s \in Slots, Slot(d, s) PROVE TypeInv'
    <3>1. CASE PutBody(d, s)
      <4> USE <3>1 DEF PutBody, BodyPending, SetTask
      <4>1. StoreOK'
        BY TaskFits, ApplyFits DEF TypeOK, StoreOK
      <4>2. TypeOK'
        BY <4>1 DEF TypeOK, StoreOK, TaskStates, Fits, FitsSum
      <4>3. SlotsOK'
        BY DEF SlotsOK, TypeOK, Parts, Running, Slots
      <4> QED BY <4>2, <4>3
    <3>2. CASE FailBody(d, s)
      <4> USE <3>2 DEF FailBody, BodyPending, SetTask
      <4>1. TypeOK'
        BY DEF TypeOK, TaskStates, Fits, FitsSum
      <4>2. SlotsOK'
        BY DEF SlotsOK, TypeOK, Parts, Running, Slots
      <4> QED BY <4>1, <4>2
    <3>3. CASE LoseBody(d, s)
      <4> USE <3>3 DEF LoseBody, BodyPending
      <4>1. Fits(Loc(d, s), Body(d, s))
        BY TaskFits
      <4>2. lost' \in 0 .. MaxLost
        BY DeployAssumption DEF TypeOK
      <4>3. TypeOK'
        BY <4>1, <4>2 DEF TypeOK, Fits, FitsSum
      <4>4. SlotsOK'
        BY DEF SlotsOK, Parts
      <4> QED BY <4>3, <4>4
    <3>4. CASE HashFailed(d, s)
      <4> USE <3>4 DEF HashFailed, SetTask
      <4>1. TypeOK'
        BY DEF TypeOK, TaskStates, Fits, FitsSum
      <4>2. SlotsOK'
        BY DEF SlotsOK, TypeOK, Parts, Slots
      <4> QED BY <4>1, <4>2
    <3>5. ASSUME NEW a \in Algos, PutSum(d, s, a) PROVE TypeInv'
      <4> USE <3>5 DEF PutSum, SumPending, SetSum
      <4>1. StoreOK'
        BY TaskSumFits, ApplyFits DEF TypeOK, StoreOK
      <4>2. TypeOK'
        BY <4>1 DEF TypeOK, StoreOK, Fits, FitsSum
      <4>3. SlotsOK'
        BY DEF SlotsOK, TypeOK, Parts, Running
      <4> QED BY <4>2, <4>3
    <3>6. ASSUME NEW a \in Algos, FailSum(d, s, a) PROVE TypeInv'
      <4> USE <3>6 DEF FailSum, SumPending, SetSum
      <4>1. TypeOK'
        BY DEF TypeOK, Fits, FitsSum
      <4>2. SlotsOK'
        BY DEF SlotsOK, TypeOK, Parts, Running
      <4> QED BY <4>1, <4>2
    <3>7. ASSUME NEW a \in Algos, LoseSum(d, s, a) PROVE TypeInv'
      <4> USE <3>7 DEF LoseSum, SumPending
      <4>1. FitsSum(SumLoc(Loc(d, s), a), Body(d, s))
        BY TaskSumFits
      <4>2. lost' \in 0 .. MaxLost
        BY DeployAssumption DEF TypeOK
      <4>3. TypeOK'
        BY <4>1, <4>2 DEF TypeOK, Fits, FitsSum
      <4>4. SlotsOK'
        BY DEF SlotsOK, Parts
      <4> QED BY <4>3, <4>4
    <3> QED BY <2>5, <3>1, <3>2, <3>3, <3>4, <3>5, <3>6, <3>7 DEF Slot
  <2>6. CASE StartMeta(d)
    <3> USE <2>6 DEF StartMeta, SetPhase
    <3>1. Version(d) \in Versions
      BY DeployAssumption DEF TypeOK, Version
    <3>2. MergeSnapshotVersions(vdoc[d], PartKeys(d)) \in VDocs
      BY MergeVDoc DEF TypeOK
    <3>3. UpdateArtifactMetadata(adoc[d], Version(d)) \in ADocs
      BY <3>1 DEF UpdateArtifactMetadata, ADocs, TypeOK
    <3>4. TypeOK'
      BY <3>2, <3>3 DEF TypeOK, Phases, TaskStates, Fits, FitsSum
    <3>5. \A s \in FileSlots : s \in Slots /\ s # "vmeta" /\ s # "ameta"
      BY DeployAssumption DEF Slots, FileSlots
    <3>6. \A e \in Deployers, s \in FileSlots : up'[e][s] = up[e][s]
      BY <3>5 DEF TypeOK
    <3>7. \A s \in DOMAIN Parts(d) : s \in FileSlots
      BY DeployAssumption DEF TypeOK, Parts
    <3>8. \A e \in Deployers : e # d => phase'[e] = phase[e] /\ up'[e] = up[e]
      BY DEF TypeOK
    <3>9. phase[d] = "files" /\ phase'[d] = "meta"
      BY DEF TypeOK
    <3>10. SlotsOK'
      BY <3>5, <3>6, <3>7, <3>8, <3>9 DEF SlotsOK, Parts
    <3> QED BY <3>4, <3>10
  <2>7. CASE FilesErr(d)
    BY <2>7, EndTypeInv DEF FilesErr
  <2>8. CASE MetaOK(d)
    BY <2>8, EndTypeInv DEF MetaOK
  <2>9. CASE MetaErr(d)
    BY <2>9, EndTypeInv DEF MetaErr
  <2> QED BY <1>2, <2>1, <2>2, <2>3, <2>4, <2>5, <2>6, <2>7, <2>8, <2>9 DEF Step
<1>3. ASSUME NEW d \in Deployers, Crash(d) PROVE TypeInv'
  BY <1>3, EndTypeInv DEF Crash
<1>4. ASSUME NEW w \in limbo, Land(w) PROVE TypeInv'
  <2> USE <1>4 DEF Land
  <2>1. StoreOK'
    BY ApplyFits DEF TypeOK, StoreOK
  <2>2. TypeOK'
    BY <2>1 DEF TypeOK, StoreOK, Fits, FitsSum
  <2>3. SlotsOK'
    BY DEF SlotsOK, Parts
  <2> QED BY <2>2, <2>3
<1>5. CASE UNCHANGED vars
  BY <1>5 DEF TypeOK, SlotsOK, Parts, Fits, FitsSum
<1> QED BY <1>1, <1>2, <1>3, <1>4, <1>5 DEF Next, Stopped

\* Every variable of Deploy has its type, whatever the constants.
THEOREM TypeCorrect == Spec => []TypeOK
<1>1. Init => TypeInv
  BY InitTypeInv
<1>2. TypeInv /\ [Next]_vars => TypeInv'
  BY NextTypeInv
<1>3. TypeInv => TypeOK
  BY DEF TypeInv
<1> QED BY <1>1, <1>2, <1>3, PTL DEF Spec

-----------------------------------------------------------------------------
(* Metadata refers to landed files.  A document passes from the repository *)
(* through the memory of a call, a lost attempt, and back, while other     *)
(* calls do the same: the invariant speaks of all three places, and of the *)
(* files a call has uploaded but not yet named in any document.            *)

UploadLanded(d, s) ==
  /\ up[d][s] = "sums" => Loc(d, s) \in DOMAIN store
  /\ \A a \in Algos : sums[d][s][a] = "ok" => SumLoc(Loc(d, s), a) \in DOMAIN store

UploadsLanded == \A d \in Deployers, s \in FileSlots : UploadLanded(d, s)

StoredLanded ==
  \A v \in Versions :
    VMetaLoc(v) \in DOMAIN store => DocLanded(v, store[VMetaLoc(v)])

LimboLanded ==
  \A w \in limbo, v \in Versions : w.loc = VMetaLoc(v) => DocLanded(v, w.body)

MemoryLanded == \A d \in Deployers : DocLanded(Version(d), vdoc[d])

LandedInv == UploadsLanded /\ StoredLanded /\ LimboLanded /\ MemoryLanded

LEMMA OnlyVMetaTask ==
  ASSUME NEW d \in Deployers, NEW s \in Slots, NEW v, Loc(d, s) = VMetaLoc(v)
  PROVE  s = "vmeta" /\ v = Version(d) /\ Body(d, s) = vdoc[d]
<1>1. VMetaLoc(v).kind = "vmeta" /\ VMetaLoc(v).version = v
  BY DEF VMetaLoc
<1>2. AMetaLoc.kind = "ameta"
  BY DEF AMetaLoc
<1>3. FileLoc(Version(d), vdoc[d].stamp, Parts(d)[s]).kind = "file"
  BY DEF FileLoc
<1>4. s = "vmeta"
  BY <1>1, <1>2, <1>3 DEF Loc
<1>5. VMetaLoc(Version(d)).version = v
  BY <1>1, <1>4 DEF Loc
<1> QED BY <1>4, <1>5 DEF Body, VMetaLoc

LEMMA SumIsNotVMeta ==
  ASSUME NEW l, NEW a, NEW v
  PROVE  SumLoc(l, a) # VMetaLoc(v)
<1>1. SumLoc(l, a).kind = "sum" /\ VMetaLoc(v).kind = "vmeta"
  BY DEF SumLoc, VMetaLoc
<1> QED BY <1>1

\* Nothing is ever removed from the repository.
LEMMA StoreGrows == [Next]_vars => DOMAIN store \subseteq DOMAIN store'
<1> SUFFICES ASSUME [Next]_vars PROVE DOMAIN store \subseteq DOMAIN store'
  OBVIOUS
<1>1. ASSUME NEW l, NEW b, store' = Apply(store, l, b)
      PROVE  DOMAIN store \subseteq DOMAIN store'
  BY <1>1 DEF Apply
<1>2. ASSUME NEW d \in Deployers, Begin(d) \/ Crash(d)
      PROVE  DOMAIN store \subseteq DOMAIN store'
  BY <1>2 DEF Begin, Reject, BeginRelease, BeginSnapshot, Crash, End
<1>3. ASSUME NEW d \in Deployers, Step(d)
      PROVE  DOMAIN store \subseteq DOMAIN store'
  <2>1. ASSUME NEW s \in Slots, Slot(d, s)
        PROVE  DOMAIN store \subseteq DOMAIN store'
    BY <2>1, <1>1 DEF Slot, PutBody, FailBody, LoseBody, HashFailed, PutSum,
         FailSum, LoseSum
  <2> QED
    BY <1>3, <2>1 DEF Step, FetchVersionMeta, FetchVersionMetaFailed,
         FetchArtMeta, FetchArtMetaFailed, StartMeta, FilesErr, MetaOK, MetaErr, End
<1>4. ASSUME NEW w \in limbo, Land(w)
      PROVE  DOMAIN store \subseteq DOMAIN store'
  BY <1>4, <1>1 DEF Land
<1> QED BY <1>2, <1>3, <1>4 DEF Next, Stopped

\* What has landed stays landed.
LandedAfter(l) ==
  /\ l \in DOMAIN store'
  /\ \A a \in Algos : SumLoc(l, a) \in DOMAIN store'

LEMMA LandedStays ==
  ASSUME DOMAIN store \subseteq DOMAIN store'
  PROVE  \A l : Landed(l) => LandedAfter(l)
BY DEF Landed, LandedAfter

\* A document in memory whose files have landed, before or after the step.
LEMMA MemoryLandedAfter ==
  ASSUME NEW d \in Deployers, req' = req,
         \A k \in Listed(vdoc'[d]) :
           LandedAfter(FileLoc(Version(d), vdoc'[d].entries[k], k))
  PROVE  DocLanded(Version(d), vdoc[d])'
<1>1. Version(d)' = Version(d)
  BY DEF Version
<1> QED BY <1>1 DEF DocLanded, Landed, LandedAfter

\* A step that uploads nothing for a task, nor renames its file.
TaskKept(d, s) ==
  /\ req' = req
  /\ vdoc'[d].stamp = vdoc[d].stamp
  /\ up'[d][s] = "sums" => up[d][s] = "sums"
  /\ \A a \in Algos : sums'[d][s][a] = "ok" => sums[d][s][a] = "ok"

\* Such a task keeps what it uploaded.
LEMMA UploadKept ==
  ASSUME NEW d \in Deployers, NEW s \in FileSlots, UploadsLanded,
         DOMAIN store \subseteq DOMAIN store', TaskKept(d, s)
  PROVE  UploadLanded(d, s)'
<1>1. Loc(d, s)' = Loc(d, s)
  BY DEF TaskKept, Loc, Version, Parts
<1> QED BY <1>1 DEF UploadLanded, UploadsLanded, TaskKept

\* A task that has uploaded nothing yet needs nothing landed.
LEMMA NothingUploaded ==
  ASSUME NEW d \in Deployers, NEW s \in FileSlots,
         up'[d][s] # "sums", sums'[d][s] = AllTodo
  PROVE  UploadLanded(d, s)'
BY DEF UploadLanded, AllTodo

LEMMA FileSlotsAreSlots ==
  \A s \in FileSlots : s \in Slots /\ s # "vmeta" /\ s # "ameta"
BY DeployAssumption DEF Slots, FileSlots

\* The part of TypeOK the task states need.
TaskTypes ==
  /\ vdoc \in [Deployers -> VDocs]
  /\ up \in [Deployers -> [Slots -> TaskStates]]
  /\ sums \in [Deployers -> [Slots -> [Algos -> {"todo", "ok", "failed"}]]]

LEMMA EndUploads ==
  ASSUME TaskTypes, UploadsLanded, NEW d \in Deployers, NEW p, End(d, p)
  PROVE  UploadsLanded'
<1> SUFFICES ASSUME NEW e \in Deployers, NEW s \in FileSlots
             PROVE  UploadLanded(e, s)'
  BY DEF UploadsLanded
<1> USE FileSlotsAreSlots DEF End, TaskTypes
<1>1. CASE e = d
  BY <1>1, NothingUploaded
<1>2. CASE e # d
  <2>1. TaskKept(e, s)
    BY <1>2 DEF TaskKept
  <2> QED BY <2>1, UploadKept
<1> QED BY <1>1, <1>2

\* The goroutines of the first group start with nothing uploaded.
LEMMA StartUploads ==
  ASSUME TaskTypes, UploadsLanded, NEW d \in Deployers, StartFiles(d),
         store' = store, req' = req, sums' = sums,
         \A s \in Slots : sums[d][s] = AllTodo,
         \A e \in Deployers \ {d} : vdoc'[e] = vdoc[e]
  PROVE  UploadsLanded'
<1> SUFFICES ASSUME NEW e \in Deployers, NEW s \in FileSlots
             PROVE  UploadLanded(e, s)'
  BY DEF UploadsLanded
<1> USE FileSlotsAreSlots DEF StartFiles, TaskTypes
<1>1. CASE e = d
  BY <1>1, NothingUploaded
<1>2. CASE e # d
  <2>1. TaskKept(e, s)
    BY <1>2 DEF TaskKept
  <2> QED BY <2>1, UploadKept
<1> QED BY <1>1, <1>2

LEMMA UploadsNext ==
  ASSUME TypeInv, UploadsLanded, [Next]_vars
  PROVE  UploadsLanded'
<1>0. TaskTypes /\ DOMAIN store \subseteq DOMAIN store'
  BY StoreGrows DEF TypeInv, TypeOK, TaskTypes
<1>1. ASSUME \A d \in Deployers, s \in FileSlots : TaskKept(d, s)
      PROVE  UploadsLanded'
  BY <1>0, <1>1, UploadKept DEF UploadsLanded
<1>2. ASSUME NEW d \in Deployers, Begin(d) PROVE UploadsLanded'
  <2>1. CASE Reject(d)
    BY <1>0, <2>1, EndUploads DEF Reject
  <2>2. CASE BeginRelease(d)
    BY <1>0, <2>2, StartUploads DEF BeginRelease, MayStart, TypeInv, SlotsOK
  <2>3. CASE BeginSnapshot(d)
    BY <1>1, <2>3 DEF BeginSnapshot, TaskKept
  <2> QED BY <1>2, <2>1, <2>2, <2>3 DEF Begin
<1>3. ASSUME NEW d \in Deployers, Step(d) PROVE UploadsLanded'
  <2>1. CASE FetchVersionMeta(d)
    <3>1. \A s \in Slots : sums[d][s] = AllTodo
      BY <2>1 DEF FetchVersionMeta, TypeInv, SlotsOK
    <3>2. \A e \in Deployers \ {d} : vdoc'[e] = vdoc[e]
      BY <1>0, <2>1 DEF FetchVersionMeta, TaskTypes
    <3> QED BY <1>0, <2>1, <3>1, <3>2, StartUploads DEF FetchVersionMeta
  <2>2. CASE FetchArtMeta(d) \/ FetchArtMetaFailed(d)
    <3>1. UNCHANGED <<req, vdoc, sums>>
      BY <2>2 DEF FetchArtMeta, FetchArtMetaFailed
    <3>2. \A e \in Deployers, s \in FileSlots : up'[e][s] = up[e][s]
      <4>1. PICK t : up' = [up EXCEPT ![d]["ameta"] = t]
        BY <2>2 DEF FetchArtMeta, FetchArtMetaFailed, SetTask
      <4> QED BY <1>0, <4>1, FileSlotsAreSlots DEF TaskTypes
    <3>3. \A e \in Deployers, s \in FileSlots : TaskKept(e, s)
      BY <3>1, <3>2 DEF TaskKept
    <3> QED BY <1>1, <3>3
  <2>3. ASSUME NEW t \in Slots, Slot(d, t) PROVE UploadsLanded'
    <3> USE FileSlotsAreSlots DEF TaskTypes
    <3>1. CASE PutBody(d, t)
      <4> SUFFICES ASSUME NEW e \in Deployers, NEW s \in FileSlots
                   PROVE  UploadLanded(e, s)'
        BY DEF UploadsLanded
      <4> USE <3>1 DEF PutBody, SetTask
      <4>1. CASE e = d /\ s = t
        <5>1. Loc(d, t)' = Loc(d, t) /\ Loc(d, t) \in DOMAIN store'
          BY DEF Loc, Version, Parts, Apply
        <5> QED BY <4>1, <5>1, <1>0 DEF UploadLanded, UploadsLanded
      <4>2. CASE ~ (e = d /\ s = t)
        <5>1. TaskKept(e, s)
          BY <1>0, <4>2 DEF TaskKept
        <5> QED BY <1>0, <5>1, UploadKept
      <4> QED BY <4>1, <4>2
    <3>2. CASE FailBody(d, t) \/ LoseBody(d, t) \/ HashFailed(d, t)
      <4>1. \A e \in Deployers, s \in FileSlots : TaskKept(e, s)
        BY <1>0, <3>2 DEF TaskKept, FailBody, LoseBody, HashFailed, SetTask
      <4> QED BY <1>1, <4>1
    <3>3. ASSUME NEW a \in Algos, PutSum(d, t, a) PROVE UploadsLanded'
      <4> SUFFICES ASSUME NEW e \in Deployers, NEW s \in FileSlots
                   PROVE  UploadLanded(e, s)'
        BY DEF UploadsLanded
      <4> USE <3>3 DEF PutSum, SetSum
      <4>1. CASE e = d /\ s = t
        <5>1. Loc(d, t)' = Loc(d, t) /\ SumLoc(Loc(d, t), a) \in DOMAIN store'
          BY DEF Loc, Version, Parts, Apply
        <5>2. \A b \in Algos : b # a => sums'[d][t][b] = sums[d][t][b]
          BY <1>0
        <5> QED BY <4>1, <5>1, <5>2, <1>0 DEF UploadLanded, UploadsLanded
      <4>2. CASE ~ (e = d /\ s = t)
        <5>1. TaskKept(e, s)
          BY <1>0, <4>2 DEF TaskKept
        <5> QED BY <1>0, <5>1, UploadKept
      <4> QED BY <4>1, <4>2
    <3>4. ASSUME NEW a \in Algos, FailSum(d, t, a) \/ LoseSum(d, t, a)
          PROVE  UploadsLanded'
      <4>1. UNCHANGED <<req, vdoc, up>>
        BY <3>4 DEF FailSum, LoseSum
      <4>2. \A e \in Deployers, s \in FileSlots, b \in Algos :
              sums'[e][s][b] \in {sums[e][s][b], "failed"}
        <5>1. sums' = sums \/ sums' = [sums EXCEPT ![d][t][a] = "failed"]
          BY <3>4 DEF FailSum, LoseSum, SetSum
        <5>2. CASE sums' = sums
          BY <5>2
        <5>3. CASE sums' = [sums EXCEPT ![d][t][a] = "failed"]
          <6> TAKE e \in Deployers, s \in FileSlots, b \in Algos
          <6>1. CASE e = d /\ s = t
            BY <1>0, <5>3, <6>1
          <6>2. CASE ~ (e = d /\ s = t)
            BY <1>0, <5>3, <6>2
          <6> QED BY <6>1, <6>2
        <5> QED BY <5>1, <5>2, <5>3
      <4>3. \A e \in Deployers, s \in FileSlots : TaskKept(e, s)
        BY <4>1, <4>2 DEF TaskKept
      <4> QED BY <1>1, <4>3
    <3> QED BY <2>3, <3>1, <3>2, <3>3, <3>4 DEF Slot
  <2>4. CASE StartMeta(d)
    <3>1. \A e \in Deployers : vdoc'[e].stamp = vdoc[e].stamp
      BY <1>0, <2>4, MergeStamp DEF StartMeta, TaskTypes
    <3>2. \A e \in Deployers, s \in FileSlots : up'[e][s] = up[e][s]
      BY <1>0, <2>4, FileSlotsAreSlots DEF StartMeta, TaskTypes
    <3>3. \A e \in Deployers, s \in FileSlots : TaskKept(e, s)
      BY <2>4, <3>1, <3>2 DEF TaskKept, StartMeta
    <3> QED BY <1>1, <3>3
  <2>5. CASE FetchVersionMetaFailed(d) \/ FilesErr(d) \/ MetaOK(d) \/ MetaErr(d)
    BY <1>0, <2>5, EndUploads DEF FetchVersionMetaFailed, FilesErr, MetaOK, MetaErr
  <2> QED BY <1>3, <2>1, <2>2, <2>3, <2>4, <2>5 DEF Step
<1>4. ASSUME NEW d \in Deployers, Crash(d) PROVE UploadsLanded'
  BY <1>0, <1>4, EndUploads DEF Crash
<1>5. ASSUME NEW w \in limbo, Land(w) PROVE UploadsLanded'
  BY <1>1, <1>5 DEF TaskKept, Land
<1>6. CASE UNCHANGED vars
  BY <1>1, <1>6 DEF TaskKept
<1> QED BY <1>2, <1>3, <1>4, <1>5, <1>6 DEF Next, Stopped

\* Only the document of d changes, and its files have landed.
LEMMA MemoryKept ==
  ASSUME MemoryLanded, DOMAIN store \subseteq DOMAIN store', req' = req,
         NEW d \in Deployers,
         \A e \in Deployers \ {d} : vdoc'[e] = vdoc[e],
         \A k \in Listed(vdoc'[d]) :
           LandedAfter(FileLoc(Version(d), vdoc'[d].entries[k], k))
  PROVE  MemoryLanded'
<1> SUFFICES ASSUME NEW e \in Deployers
             PROVE  DocLanded(Version(e), vdoc[e])'
  BY DEF MemoryLanded
<1>1. CASE e = d
  BY <1>1, MemoryLandedAfter
<1>2. CASE e # d
  <2>1. \A k \in Listed(vdoc'[e]) :
          LandedAfter(FileLoc(Version(e), vdoc'[e].entries[k], k))
    BY <1>2, LandedStays DEF MemoryLanded, DocLanded
  <2> QED BY <2>1, MemoryLandedAfter
<1> QED BY <1>1, <1>2

LEMMA MemoryUnchanged ==
  ASSUME MemoryLanded, DOMAIN store \subseteq DOMAIN store', req' = req, vdoc' = vdoc
  PROVE  MemoryLanded'
<1> SUFFICES ASSUME NEW e \in Deployers
             PROVE  DocLanded(Version(e), vdoc[e])'
  BY DEF MemoryLanded
<1>1. \A k \in Listed(vdoc'[e]) :
        LandedAfter(FileLoc(Version(e), vdoc'[e].entries[k], k))
  BY LandedStays DEF MemoryLanded, DocLanded
<1> QED BY <1>1, MemoryLandedAfter

\* The files of a call whose first group succeeded have landed.
LEMMA GroupLanded ==
  ASSUME TypeInv, UploadsLanded, NEW d \in Deployers, phase[d] = "files",
         Waited(d), NoError(d), NEW k \in PartKeys(d)
  PROVE  Landed(FileLoc(Version(d), vdoc[d].stamp, k))
<1>1. PICK s \in DOMAIN Parts(d) : k = Parts(d)[s]
  BY DEF PartKeys
<1>2. s \in FileSlots
  BY DeployAssumption DEF TypeInv, TypeOK, Parts
<1>3. up[d][s] \in {"body", "sums", "failed"}
  BY <1>2 DEF TypeInv, SlotsOK
<1>4. sums[d][s] \in [Algos -> {"todo", "ok", "failed"}]
  BY <1>2, FileSlotsAreSlots DEF TypeInv, TypeOK
<1>5. up[d][s] = "sums" /\ \A a \in Algos : sums[d][s][a] = "ok"
  BY <1>2, <1>3, <1>4, FileSlotsAreSlots DEF Waited, Returned, NoError, Failed
<1>6. Loc(d, s) = FileLoc(Version(d), vdoc[d].stamp, k)
  BY <1>1, <1>2, FileSlotsAreSlots DEF Loc
<1> QED BY <1>2, <1>5, <1>6 DEF UploadsLanded, UploadLanded, Landed

LEMMA EndMemory ==
  ASSUME TaskTypes, MemoryLanded, NEW d \in Deployers, NEW p, End(d, p)
  PROVE  MemoryLanded'
<1>1. vdoc'[d] = [NewVDoc EXCEPT !.stamp = vdoc[d].stamp]
  BY DEF End, TaskTypes
<1>2. \A k \in Keys : vdoc'[d].entries[k] = Literal
  BY <1>1 DEF NewVDoc
<1>3. Listed(vdoc'[d]) = {}
  BY <1>2 DEF Listed
<1>4. \A e \in Deployers \ {d} : vdoc'[e] = vdoc[e]
  BY DEF End, TaskTypes
<1> QED BY <1>3, <1>4, MemoryKept DEF End

LEMMA MemoryNext ==
  ASSUME TypeInv, LandedInv, [Next]_vars
  PROVE  MemoryLanded'
<1>0. TaskTypes /\ DOMAIN store \subseteq DOMAIN store' /\ MemoryLanded
  BY StoreGrows DEF TypeInv, TypeOK, TaskTypes, LandedInv
<1>1. ASSUME NEW d \in Deployers, Begin(d) \/ Crash(d) PROVE MemoryLanded'
  BY <1>0, <1>1, EndMemory, MemoryUnchanged
     DEF Begin, Reject, BeginRelease, BeginSnapshot, Crash
<1>2. ASSUME NEW d \in Deployers, Step(d) PROVE MemoryLanded'
  <2>1. CASE FetchVersionMeta(d)
    <3> DEFINE doc == Fetched(VMetaLoc(Version(d)), NewVDoc)
    <3>1. Version(d) \in Versions
      BY DeployAssumption DEF TypeInv, TypeOK, Version
    <3>2. doc \in VDocs
      BY <3>1, FetchedVDoc DEF TypeInv
    <3>3. vdoc'[d] = NextSnapshotVersion(doc, now[d])
      BY <1>0, <2>1 DEF FetchVersionMeta, TaskTypes
    <3>4. vdoc'[d].entries = doc.entries
      BY <3>2, <3>3 DEF NextSnapshotVersion, VDocs
    <3>5. \A k \in Listed(doc) : Landed(FileLoc(Version(d), doc.entries[k], k))
      BY <3>1 DEF Fetched, NewVDoc, Listed, LandedInv, StoredLanded, DocLanded
    <3>6. \A k \in Listed(vdoc'[d]) :
            LandedAfter(FileLoc(Version(d), vdoc'[d].entries[k], k))
      BY <1>0, <3>4, <3>5, LandedStays DEF Listed
    <3>7. \A e \in Deployers \ {d} : vdoc'[e] = vdoc[e]
      BY <1>0, <2>1 DEF FetchVersionMeta, TaskTypes
    <3>8. req' = req
      BY <2>1 DEF FetchVersionMeta
    <3> QED BY <1>0, <3>6, <3>7, <3>8, MemoryKept
  <2>2. CASE StartMeta(d)
    <3>1. CASE IsSnapshot(d)
      <4>1. vdoc[d] \in VDocs
        BY <1>0 DEF TaskTypes
      <4>2. \A k \in Keys : vdoc'[d].entries[k] =
              IF k \in PartKeys(d) THEN vdoc[d].stamp ELSE vdoc[d].entries[k]
        BY <1>0, <2>2, <3>1, <4>1, MergeStamp DEF StartMeta, TaskTypes
      <4>3. \A k \in Listed(vdoc'[d]) :
              LandedAfter(FileLoc(Version(d), vdoc'[d].entries[k], k))
        <5> TAKE k \in Listed(vdoc'[d])
        <5>1. k \in Keys
          BY DEF Listed
        <5>2. Landed(FileLoc(Version(d), vdoc'[d].entries[k], k))
          <6>1. CASE k \in PartKeys(d)
            BY <2>2, <4>2, <5>1, <6>1, GroupLanded DEF StartMeta, LandedInv
          <6>2. CASE k \notin PartKeys(d)
            BY <1>0, <4>2, <5>1, <6>2 DEF Listed, MemoryLanded, DocLanded
          <6> QED BY <6>1, <6>2
        <5> QED BY <1>0, <5>2, LandedStays
      <4>4. \A e \in Deployers \ {d} : vdoc'[e] = vdoc[e]
        BY <1>0, <2>2 DEF StartMeta, TaskTypes
      <4> QED BY <1>0, <2>2, <4>3, <4>4, MemoryKept DEF StartMeta
    <3>2. CASE ~ IsSnapshot(d)
      <4>1. vdoc' = vdoc
        BY <1>0, <2>2, <3>2 DEF StartMeta, TaskTypes
      <4> QED BY <1>0, <2>2, <4>1, MemoryUnchanged DEF StartMeta
    <3> QED BY <3>1, <3>2
  <2>3. CASE FetchVersionMetaFailed(d) \/ FilesErr(d) \/ MetaOK(d) \/ MetaErr(d)
    BY <1>0, <2>3, EndMemory DEF FetchVersionMetaFailed, FilesErr, MetaOK, MetaErr
  <2>4. CASE FetchArtMeta(d) \/ FetchArtMetaFailed(d)
    BY <1>0, <2>4, MemoryUnchanged DEF FetchArtMeta, FetchArtMetaFailed
  <2>5. ASSUME NEW s \in Slots, Slot(d, s) PROVE MemoryLanded'
    BY <1>0, <2>5, MemoryUnchanged DEF Slot, PutBody, FailBody, LoseBody,
         HashFailed, PutSum, FailSum, LoseSum
  <2> QED BY <1>2, <2>1, <2>2, <2>3, <2>4, <2>5 DEF Step
<1>3. ASSUME NEW w \in limbo, Land(w) PROVE MemoryLanded'
  BY <1>0, <1>3, MemoryUnchanged DEF Land
<1>4. CASE UNCHANGED vars
  BY <1>0, <1>4, MemoryUnchanged
<1> QED BY <1>1, <1>2, <1>3, <1>4 DEF Next, Stopped

\* Only a document whose files have landed is written.
LEMMA ApplyStored ==
  ASSUME StoredLanded, DOMAIN store \subseteq DOMAIN store', NEW l, NEW b,
         store' = Apply(store, l, b),
         \A v \in Versions : l = VMetaLoc(v) => DocLanded(v, b)
  PROVE  StoredLanded'
<1> SUFFICES ASSUME NEW v \in Versions, VMetaLoc(v) \in DOMAIN store',
                    NEW k \in Listed(store'[VMetaLoc(v)])
             PROVE  LandedAfter(FileLoc(v, store'[VMetaLoc(v)].entries[k], k))
  BY DEF StoredLanded, DocLanded, Landed, LandedAfter
<1>1. CASE l = VMetaLoc(v)
  <2>1. store'[VMetaLoc(v)] = b
    BY <1>1 DEF Apply
  <2> QED BY <1>1, <2>1, LandedStays DEF DocLanded
<1>2. CASE l # VMetaLoc(v)
  <2>1. VMetaLoc(v) \in DOMAIN store /\ store'[VMetaLoc(v)] = store[VMetaLoc(v)]
    BY <1>2 DEF Apply
  <2> QED BY <2>1, LandedStays DEF StoredLanded, DocLanded
<1> QED BY <1>1, <1>2

LEMMA StoredUnchanged ==
  ASSUME StoredLanded, store' = store
  PROVE  StoredLanded'
BY DEF StoredLanded, DocLanded, Landed

\* Only a document whose files have landed is sent.
LEMMA LimboKept ==
  ASSUME LimboLanded, DOMAIN store \subseteq DOMAIN store',
         \A w \in limbo' \ limbo, v \in Versions :
           w.loc = VMetaLoc(v) => DocLanded(v, w.body)
  PROVE  LimboLanded'
<1> SUFFICES ASSUME NEW w \in limbo', NEW v \in Versions, w.loc = VMetaLoc(v),
                    NEW k \in Listed(w.body)
             PROVE  LandedAfter(FileLoc(v, w.body.entries[k], k))
  BY DEF LimboLanded, DocLanded, Landed, LandedAfter
<1> QED BY LandedStays DEF LimboLanded, DocLanded

LEMMA DocsNext ==
  ASSUME TypeInv, LandedInv, [Next]_vars
  PROVE  StoredLanded' /\ LimboLanded'
<1> USE DEF LandedInv
<1>0. DOMAIN store \subseteq DOMAIN store'
  BY StoreGrows
<1>1. ASSUME store' = store, limbo' = limbo
      PROVE  StoredLanded' /\ LimboLanded'
  BY <1>0, <1>1, StoredUnchanged, LimboKept
<1>2. ASSUME NEW d \in Deployers, Begin(d) \/ Crash(d)
      PROVE  StoredLanded' /\ LimboLanded'
  BY <1>1, <1>2 DEF Begin, Reject, BeginRelease, BeginSnapshot, Crash, End
<1>3. ASSUME NEW d \in Deployers, NEW s \in Slots, Slot(d, s)
      PROVE  StoredLanded' /\ LimboLanded'
  <2>1. \A v \in Versions : Loc(d, s) = VMetaLoc(v) => DocLanded(v, Body(d, s))
    BY OnlyVMetaTask DEF MemoryLanded
  <2>2. CASE PutBody(d, s)
    BY <1>0, <2>1, <2>2, ApplyStored, LimboKept DEF PutBody
  <2>3. CASE LoseBody(d, s)
    BY <1>0, <2>1, <2>3, StoredUnchanged, LimboKept DEF LoseBody
  <2>4. CASE FailBody(d, s) \/ HashFailed(d, s)
    BY <1>1, <2>4 DEF FailBody, HashFailed
  <2>5. ASSUME NEW a \in Algos, PutSum(d, s, a)
        PROVE  StoredLanded' /\ LimboLanded'
    BY <1>0, <2>5, SumIsNotVMeta, ApplyStored, LimboKept DEF PutSum
  <2>6. ASSUME NEW a \in Algos, LoseSum(d, s, a)
        PROVE  StoredLanded' /\ LimboLanded'
    BY <1>0, <2>6, SumIsNotVMeta, StoredUnchanged, LimboKept DEF LoseSum
  <2>7. ASSUME NEW a \in Algos, FailSum(d, s, a)
        PROVE  StoredLanded' /\ LimboLanded'
    BY <1>1, <2>7 DEF FailSum
  <2> QED BY <1>3, <2>2, <2>3, <2>4, <2>5, <2>6, <2>7 DEF Slot
<1>4. ASSUME NEW d \in Deployers, Step(d)
      PROVE  StoredLanded' /\ LimboLanded'
  BY <1>1, <1>3, <1>4 DEF Step, FetchVersionMeta, FetchVersionMetaFailed,
     FetchArtMeta, FetchArtMetaFailed, StartMeta, FilesErr, MetaOK, MetaErr, End
<1>5. ASSUME NEW w \in limbo, Land(w)
      PROVE  StoredLanded' /\ LimboLanded'
  <2>1. \A v \in Versions : w.loc = VMetaLoc(v) => DocLanded(v, w.body)
    BY DEF LimboLanded
  <2> QED BY <1>0, <1>5, <2>1, ApplyStored, LimboKept DEF Land
<1> QED BY <1>1, <1>2, <1>4, <1>5 DEF Next, Stopped

LEMMA InitLanded == Init => LandedInv
<1> SUFFICES ASSUME Init PROVE LandedInv
  OBVIOUS
<1>1. Listed(NewVDoc) = {}
  BY DEF Listed, NewVDoc
<1>2. UploadsLanded
  BY FileSlotsAreSlots DEF Init, UploadsLanded, UploadLanded, AllTodo
<1>3. StoredLanded /\ LimboLanded
  BY DEF Init, StoredLanded, LimboLanded
<1>4. MemoryLanded
  BY <1>1 DEF Init, MemoryLanded, DocLanded
<1> QED BY <1>2, <1>3, <1>4 DEF LandedInv

\* Whatever calls interleave, fail, die or are applied late, the version-level
\* metadata in the repository refers only to files that are there with all
\* their sidecars.
THEOREM MetadataSafe == Spec => []MetadataRefersToLanded
<1>1. Init => TypeInv /\ LandedInv
  BY InitTypeInv, InitLanded
<1>2. TypeInv /\ LandedInv /\ [Next]_vars => (TypeInv /\ LandedInv)'
  BY NextTypeInv, UploadsNext, MemoryNext, DocsNext DEF LandedInv
<1>3. LandedInv => MetadataRefersToLanded
  BY DeployAssumption DEF LandedInv, StoredLanded, MetadataRefersToLanded
<1> QED BY <1>1, <1>2, <1>3, PTL DEF Spec
=============================================================================
