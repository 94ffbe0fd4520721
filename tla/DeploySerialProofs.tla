------------------------- MODULE DeploySerialProofs -------------------------
(***************************************************************************)
(* Theorems about deploys that run one after another and lose no answer,   *)
(* for every instance of Deploy with Serial and MaxLost = 0: they implement *)
(* the catalog, never forget a success, and a success verifies.            *)
(***************************************************************************)
EXTENDS PublicationProofs

USE DEF vars, repoVars, args

-----------------------------------------------------------------------------
(* The invariant: one call runs, nothing is late, and the documents in its *)
(* memory are those in the repository, or are made from them.              *)

\* The documents that a reader of the repository sees.
SeenVDoc(v) == Fetched(VMetaLoc(v), NewVDoc)
SeenADoc == Fetched(AMetaLoc, NewADoc)

Alone == \A d, e \in Deployers : Running(d) /\ Running(e) => d = e

NextBuild(d) == NextSnapshotVersion(SeenVDoc(Version(d)), now[d])

\* The documents of a call, from those seen.
MadeFromSeen(d) ==
  /\ phase[d] = "files" /\ IsSnapshot(d) => vdoc[d] = NextBuild(d)
  /\ phase[d] = "files" => up[d]["ameta"] \in {"get", "got", "failed"}
  /\ phase[d] = "files" /\ up[d]["ameta"] = "got" => adoc[d] = SeenADoc
  /\ up[d]["vmeta"] = "body" => vdoc[d] = MergeSnapshotVersions(NextBuild(d), PartKeys(d))
  /\ up[d]["ameta"] = "body" => adoc[d] = UpdateArtifactMetadata(SeenADoc, Version(d))

\* A document that was written is the one seen.
WrittenIsSeen(d) ==
  /\ up[d]["vmeta"] = "sums" => vdoc[d] = SeenVDoc(Version(d))
  /\ up[d]["ameta"] = "sums" => adoc[d] = SeenADoc

\* What a call is about to publish names its own version and files.
NamesOwn(d) ==
  phase[d] = "meta" =>
    /\ Version(d) \in adoc[d].versions
    /\ IsSnapshot(d) => \A k \in PartKeys(d) : vdoc[d].entries[k] = vdoc[d].stamp

StaysSeen(d) ==
  phase[d] = "ok" =>
    /\ Version(d) \in SeenADoc.versions
    /\ IsSnapshot(d) =>
         \A k \in PartKeys(d) :
            /\ SeenVDoc(Version(d)).entries[k] # Literal
            /\ SeenVDoc(Version(d)).entries[k].build >= vdoc[d].stamp.build

SerialInv ==
  /\ Alone /\ limbo = {}
  /\ \A d \in Deployers :
       MadeFromSeen(d) /\ WrittenIsSeen(d) /\ NamesOwn(d) /\ StaysSeen(d)

-----------------------------------------------------------------------------
(* How a step changes the documents that are seen.                         *)

DocsKept ==
  /\ \A v : SeenVDoc(v)' = SeenVDoc(v)
  /\ SeenADoc' = SeenADoc
  /\ \A e \in Deployers, s \in MetaSlots : up'[e][s] = "sums" => up[e][s] = "sums"

\* The task of slot s of call d wrote its document.
DocWritten(d, s) ==
  /\ Running(d) /\ up[d][s] = "body" /\ up' = [up EXCEPT ![d][s] = "sums"]
  /\ UNCHANGED <<phase, req, now, vdoc, adoc>>
  /\ \A v : SeenVDoc(v)' = IF s = "vmeta" /\ v = Version(d) THEN vdoc[d] ELSE SeenVDoc(v)
  /\ SeenADoc' = IF s = "ameta" THEN adoc[d] ELSE SeenADoc

LEMMA FetchedAfter ==
  ASSUME NEW l, NEW b, store' = Apply(store, l, b), NEW x, NEW none
  PROVE  Fetched(x, none)' = IF x = l THEN b ELSE Fetched(x, none)
BY DEF Fetched, Apply

LEMMA SeenUnchanged ==
  ASSUME store' = store
  PROVE  (\A v : SeenVDoc(v)' = SeenVDoc(v)) /\ SeenADoc' = SeenADoc
BY DEF SeenVDoc, SeenADoc, Fetched

LEMMA BodyWritesDoc ==
  ASSUME TypeInv, NEW d \in Deployers, NEW s \in Slots, PutBody(d, s)
  PROVE  DocsKept \/ (s \in MetaSlots /\ DocWritten(d, s))
<1> USE DEF PutBody, BodyPending, SetTask
<1>1. CallTypes
  BY DEF TypeInv, TypeOK, CallTypes
<1>2. ASSUME NEW v
      PROVE  SeenVDoc(v)' = IF s = "vmeta" /\ v = Version(d) THEN vdoc[d] ELSE SeenVDoc(v)
  <2>1. SeenVDoc(v)' = IF VMetaLoc(v) = Loc(d, s) THEN Body(d, s) ELSE SeenVDoc(v)
    BY FetchedAfter DEF SeenVDoc
  <2>2. CASE s = "vmeta" /\ v = Version(d)
    BY <2>1, <2>2 DEF Loc, Body
  <2>3. CASE ~ (s = "vmeta" /\ v = Version(d))
    BY <2>1, <2>3, OnlyVMetaTask
  <2> QED BY <2>2, <2>3
<1>3. SeenADoc' = IF s = "ameta" THEN adoc[d] ELSE SeenADoc
  <2>1. SeenADoc' = IF AMetaLoc = Loc(d, s) THEN Body(d, s) ELSE SeenADoc
    BY FetchedAfter DEF SeenADoc
  <2>2. AMetaLoc.kind = "ameta" /\ VMetaLoc(Version(d)).kind = "vmeta"
        /\ FileLoc(Version(d), vdoc[d].stamp, Parts(d)[s]).kind = "file"
    BY DEF AMetaLoc, VMetaLoc, FileLoc
  <2>3. AMetaLoc = Loc(d, s) <=> s = "ameta"
    BY <2>2 DEF Loc
  <2> QED BY <2>1, <2>3 DEF Body
<1>4. CASE s \in MetaSlots
  BY <1>2, <1>3, <1>4 DEF DocWritten
<1>5. CASE s \notin MetaSlots
  <2>1. \A e \in Deployers, t \in MetaSlots : up'[e][t] = up[e][t]
    BY <1>1, <1>5 DEF CallTypes, Slots
  <2> QED BY <1>2, <1>3, <1>5, <2>1 DEF DocsKept, MetaSlots
<1> QED BY <1>4, <1>5

LEMMA SumWritesNoDoc ==
  ASSUME NEW d \in Deployers, NEW s \in Slots, NEW a \in Algos, PutSum(d, s, a)
  PROVE  DocsKept
<1> DEFINE l == SumLoc(Loc(d, s), a)
<1>1. l.kind = "sum" /\ AMetaLoc.kind = "ameta" /\ \A v : VMetaLoc(v).kind = "vmeta"
  BY DEF SumLoc, AMetaLoc, VMetaLoc
<1>2. store' = Apply(store, l, Body(d, s)) /\ up' = up
  BY DEF PutSum
<1> HIDE DEF l
<1>3. \A v : SeenVDoc(v)' = SeenVDoc(v)
  BY <1>1, <1>2, FetchedAfter DEF SeenVDoc
<1>4. SeenADoc' = SeenADoc
  BY <1>1, <1>2, FetchedAfter DEF SeenADoc
<1> QED BY <1>2, <1>3, <1>4 DEF DocsKept

\* A call that ends or begins has written no document.
LEMMA StepDocs ==
  ASSUME TypeInv, limbo = {}, [Next]_vars
  PROVE  DocsKept \/ \E d \in Deployers, s \in MetaSlots : DocWritten(d, s)
<1>0. CallTypes /\ MetaSlots \subseteq Slots
  BY DEF TypeInv, TypeOK, CallTypes, Slots
<1>1. ASSUME store' = store,
             \A e \in Deployers, s \in MetaSlots : up'[e][s] = "sums" => up[e][s] = "sums"
      PROVE  DocsKept
  BY <1>1, SeenUnchanged DEF DocsKept
<1>2. ASSUME NEW d \in Deployers, NEW p, End(d, p) PROVE DocsKept
  BY <1>0, <1>1, <1>2 DEF End, CallTypes
<1>3. ASSUME NEW d \in Deployers, Begin(d) PROVE DocsKept
  <2>1. CASE BeginRelease(d)
    BY <1>0, <1>1, <2>1 DEF BeginRelease, StartFiles, CallTypes
  <2>2. CASE BeginSnapshot(d)
    BY <1>1, <2>2 DEF BeginSnapshot
  <2> QED BY <1>2, <1>3, <2>1, <2>2 DEF Begin, Reject
<1>4. ASSUME NEW d \in Deployers, Step(d)
      PROVE  DocsKept \/ \E s \in MetaSlots : DocWritten(d, s)
  <2>1. CASE FetchVersionMeta(d)
    BY <1>0, <1>1, <2>1 DEF FetchVersionMeta, StartFiles, CallTypes
  <2>2. CASE FetchArtMeta(d) \/ FetchArtMetaFailed(d)
    <3>1. PICK t \in {"got", "failed"} : up' = [up EXCEPT ![d]["ameta"] = t]
      BY <2>2 DEF FetchArtMeta, FetchArtMetaFailed, SetTask
    <3> QED BY <1>0, <1>1, <2>2, <3>1 DEF FetchArtMeta, FetchArtMetaFailed, CallTypes
  <2>3. ASSUME NEW s \in Slots, Slot(d, s)
        PROVE  DocsKept \/ \E t \in MetaSlots : DocWritten(d, t)
    <3>1. CASE PutBody(d, s)
      BY <3>1, BodyWritesDoc
    <3>2. CASE FailBody(d, s) \/ HashFailed(d, s)
      <4>1. store' = store /\ up' = [up EXCEPT ![d][s] = "failed"]
        BY <3>2 DEF FailBody, HashFailed, SetTask
      <4>2. \A e \in Deployers, t \in MetaSlots : up'[e][t] \in {up[e][t], "failed"}
        BY <1>0, <4>1 DEF CallTypes
      <4> QED BY <1>1, <4>1, <4>2
    <3>3. CASE LoseBody(d, s)
      BY <1>1, <3>3 DEF LoseBody
    <3>4. ASSUME NEW a \in Algos, FailSum(d, s, a) \/ LoseSum(d, s, a) PROVE DocsKept
      BY <1>1, <3>4 DEF FailSum, LoseSum
    <3> QED BY <2>3, <3>1, <3>2, <3>3, <3>4, SumWritesNoDoc DEF Slot
  <2>4. CASE StartMeta(d)
    BY <1>0, <1>1, <2>4 DEF StartMeta, CallTypes
  <2> QED BY <1>2, <1>4, <2>1, <2>2, <2>3, <2>4
          DEF Step, FetchVersionMetaFailed, FilesErr, MetaOK, MetaErr
<1>5. ASSUME NEW d \in Deployers, Crash(d) PROVE DocsKept
  BY <1>2, <1>5 DEF Crash
<1>6. CASE UNCHANGED vars
  BY <1>1, <1>6
<1> QED BY <1>3, <1>4, <1>5, <1>6 DEF Next, Stopped

-----------------------------------------------------------------------------
(* One call at a time, and nothing late.                                   *)

LEMMA NothingLate ==
  ASSUME TypeInv, MaxLost = 0, limbo = {}, [Next]_vars
  PROVE  limbo' = {}
<1>1. ~ (lost < MaxLost)
  BY DEF TypeInv, TypeOK
<1>2. ASSUME NEW d \in Deployers, NEW s \in Slots, Slot(d, s) PROVE limbo' = limbo
  BY <1>1, <1>2 DEF Slot, PutBody, FailBody, LoseBody, HashFailed, PutSum, FailSum, LoseSum
<1>3. ASSUME NEW d \in Deployers, Begin(d) \/ Step(d) \/ Crash(d) PROVE limbo' = limbo
  BY <1>2, <1>3 DEF Begin, Reject, BeginRelease, BeginSnapshot, Step, FetchVersionMeta,
     FetchVersionMetaFailed, FetchArtMeta, FetchArtMetaFailed, StartMeta, FilesErr, MetaOK,
     MetaErr, Crash, End
<1> QED BY <1>3 DEF Next, Stopped

LEMMA AloneNext ==
  ASSUME TypeInv, Serial, Alone, [Next]_vars
  PROVE  Alone'
<1>1. phase \in [Deployers -> Phases]
  BY DEF TypeInv, TypeOK
<1>2. ASSUME NEW d \in Deployers, NEW p, phase' = [phase EXCEPT ![d] = p],
             (\A e \in Deployers : ~ Running(e)) \/ Running(d)
      PROVE  Alone'
  BY <1>1, <1>2 DEF Alone, Running
<1>3. ASSUME phase' = phase PROVE Alone'
  BY <1>3 DEF Alone, Running
<1>4. ASSUME NEW d \in Deployers, Begin(d) PROVE Alone'
  BY <1>2, <1>4 DEF Begin, Reject, BeginRelease, BeginSnapshot, MayStart, End, SetPhase
<1>5. ASSUME NEW d \in Deployers, Step(d) \/ Crash(d) PROVE Alone'
  <2>1. ASSUME NEW s \in Slots, Slot(d, s) PROVE phase' = phase
    BY <2>1 DEF Slot, PutBody, FailBody, LoseBody, HashFailed, PutSum, FailSum, LoseSum
  <2>2. CASE FetchVersionMeta(d) \/ StartMeta(d)
    BY <1>2, <2>2 DEF FetchVersionMeta, StartMeta, SetPhase, Running
  <2>3. CASE FetchVersionMetaFailed(d) \/ FilesErr(d) \/ MetaOK(d) \/ MetaErr(d) \/ Crash(d)
    BY <1>2, <2>3 DEF FetchVersionMetaFailed, FilesErr, MetaOK, MetaErr, Crash, End,
       SetPhase, Running
  <2>4. CASE FetchArtMeta(d) \/ FetchArtMetaFailed(d)
    BY <1>3, <2>4 DEF FetchArtMeta, FetchArtMetaFailed
  <2> QED BY <1>3, <1>5, <2>1, <2>2, <2>3, <2>4 DEF Step
<1>6. ASSUME NEW w \in limbo, Land(w) PROVE Alone'
  BY <1>3, <1>6 DEF Land
<1> QED BY <1>3, <1>4, <1>5, <1>6 DEF Next, Stopped

-----------------------------------------------------------------------------
(* A call's own part of the invariant.                                     *)

\* While one call writes, the others have no task and no document.
LEMMA OthersOff ==
  ASSUME TypeInv, Alone, NEW d \in Deployers, NEW s, DocWritten(d, s),
         NEW e \in Deployers, e # d
  PROVE  /\ phase'[e] = phase[e] /\ phase[e] \notin {"files", "meta"}
         /\ \A t \in Slots : up'[e][t] = "off"
<1>1. ~ Running(e) /\ phase'[e] = phase[e]
  BY DEF Alone, DocWritten
<1>2. up'[e] = up[e]
  BY DEF DocWritten, TypeInv, TypeOK
<1>3. \A t \in Slots : up[e][t] = "off"
  BY <1>1 DEF TypeInv, SlotsOK, Running
<1> QED BY <1>1, <1>2, <1>3 DEF Running

LEMMA MadeNext ==
  ASSUME TypeInv, Alone, UNCHANGED args, NEW e \in Deployers, Moves(e), MetaTasks(e),
         MadeFromSeen(e), WrittenIsSeen(e),
         DocsKept \/ \E d \in Deployers, s \in MetaSlots : DocWritten(d, s)
  PROVE  MadeFromSeen(e)' /\ WrittenIsSeen(e)'
<1> USE MetaSlotsAreSlots
<1>1. /\ IsSnapshot(e)' <=> IsSnapshot(e)
      /\ Version(e)' = Version(e) /\ PartKeys(e)' = PartKeys(e) /\ now'[e] = now[e]
  BY DEF IsSnapshot, Version, PartKeys, Parts
<1>2. ASSUME NEW d \in Deployers, NEW s \in MetaSlots, DocWritten(d, s)
      PROVE  MadeFromSeen(e)' /\ WrittenIsSeen(e)'
  <2>1. CASE e # d
    BY <1>2, <2>1, OthersOff DEF MadeFromSeen, WrittenIsSeen
  <2>2. CASE e = d
    <3>1. phase'[e] = "meta" /\ vdoc'[e] = vdoc[e] /\ adoc'[e] = adoc[e]
      BY <1>2, <2>2 DEF DocWritten, MetaTasks, MetaSlots
    <3>2. up'[e][s] = "sums" /\ \A t \in MetaSlots \ {s} : up'[e][t] = up[e][t]
      BY <1>2, <2>2 DEF DocWritten, TypeInv, TypeOK, Slots
    <3>3. CASE s = "vmeta"
      <4>1. SeenADoc' = SeenADoc /\ SeenVDoc(Version(e))' = vdoc[e]
        BY <1>1, <1>2, <2>2, <3>3 DEF DocWritten
      <4> QED BY <1>1, <3>1, <3>2, <3>3, <4>1 DEF MadeFromSeen, WrittenIsSeen, MetaSlots
    <3>4. CASE s = "ameta"
      <4>1. SeenADoc' = adoc[e] /\ \A v : SeenVDoc(v)' = SeenVDoc(v)
        BY <1>2, <2>2, <3>4 DEF DocWritten
      <4>2. SeenVDoc(Version(e))' = SeenVDoc(Version(e)) /\ NextBuild(e)' = NextBuild(e)
        BY <1>1, <4>1 DEF NextBuild
      <4> QED BY <1>1, <3>1, <3>2, <3>4, <4>1, <4>2
              DEF MadeFromSeen, WrittenIsSeen, MetaSlots
    <3> QED BY <3>3, <3>4 DEF MetaSlots
  <2> QED BY <2>1, <2>2
<1>3. ASSUME DocsKept PROVE MadeFromSeen(e)' /\ WrittenIsSeen(e)'
  <2>1. /\ SeenVDoc(Version(e))' = SeenVDoc(Version(e)) /\ NextBuild(e)' = NextBuild(e)
        /\ SeenADoc' = SeenADoc
    BY <1>1, <1>3 DEF DocsKept, NextBuild
  <2>2. \A s \in MetaSlots : up'[e][s] = "sums" => up[e][s] = "sums"
    BY <1>3 DEF DocsKept
  <2> USE <1>1, <2>1, <2>2 DEF MadeFromSeen, WrittenIsSeen, MetaSlots
  <2>3. CASE Kept(e)
    BY <2>3 DEF Kept
  <2>4. CASE Resolving(e)
    BY <2>4 DEF Resolving, MetaTasks
  <2>5. CASE Uploading(e)
    <3>1. up'[e]["vmeta"] = "off" /\ up'[e]["ameta"] = "get"
      BY <2>5 DEF Uploading, Uploads, TypeInv
    <3>2. IsSnapshot(e) => vdoc'[e] = NextBuild(e)
      BY <2>5 DEF Uploading, NextBuild, SeenVDoc
    <3> QED BY <3>1, <3>2
  <2>6. CASE Prefetched(e)
    BY <2>6 DEF Prefetched, MetaTasks, SeenADoc
  <2>7. ASSUME NEW s \in Slots, Worked(e, s) PROVE MadeFromSeen(e)' /\ WrittenIsSeen(e)'
    <3>1. /\ up[e][s] \in {"body", "sums"} /\ up'[e][s] \in {"sums", "failed"}
          /\ \A t \in Slots \ {s} : up'[e][t] = up[e][t]
      BY <2>7 DEF Worked, BodyDone, SumDone
    <3>2. phase'[e] = phase[e] /\ vdoc'[e] = vdoc[e] /\ adoc'[e] = adoc[e]
      BY <2>7 DEF Worked
    <3> QED BY <3>1, <3>2
  <2>8. CASE Merging(e)
    <3>1. up[e]["ameta"] = "got"
      BY <2>8 DEF Merging, NoError, Waited, Failed, Returned
    <3>2. phase'[e] = "meta" /\ adoc'[e] = UpdateArtifactMetadata(SeenADoc, Version(e))
      BY <2>8, <3>1 DEF Merging
    <3>3. up'[e]["ameta"] = "body"
      BY <2>8 DEF Merging
    <3>4. CASE IsSnapshot(e)
      BY <2>8, <3>2, <3>3, <3>4 DEF Merging
    <3>5. CASE ~ IsSnapshot(e)
      BY <2>8, <3>2, <3>3, <3>5 DEF Merging, MetaTasks
    <3> QED BY <3>4, <3>5
  <2>9. CASE Ended(e)
    BY <2>9 DEF Ended
  <2> QED BY <2>3, <2>4, <2>5, <2>6, <2>7, <2>8, <2>9 DEF Moves
<1> QED BY <1>2, <1>3

LEMMA NamesNext ==
  ASSUME TypeInv, UNCHANGED args, NEW e \in Deployers, Moves(e), NamesOwn(e)
  PROVE  NamesOwn(e)'
<1>1. /\ IsSnapshot(e)' <=> IsSnapshot(e)
      /\ Version(e)' = Version(e) /\ PartKeys(e)' = PartKeys(e)
  BY DEF IsSnapshot, Version, PartKeys, Parts
<1>2. CASE Merging(e)
  <2>1. Version(e) \in adoc'[e].versions
    BY <1>2 DEF Merging, UpdateArtifactMetadata
  <2>2. ASSUME IsSnapshot(e), NEW k \in PartKeys(e)
        PROVE  vdoc'[e].entries[k] = vdoc'[e].stamp
    <3>1. vdoc'[e] = MergeSnapshotVersions(vdoc[e], PartKeys(e)) /\ vdoc[e] \in VDocs
      BY <1>2, <2>2 DEF Merging, TypeInv, TypeOK
    <3>2. k \in Keys
      BY <2>2, DeployAssumption DEF PartKeys, Parts, TypeInv, TypeOK
    <3> QED BY <2>2, <3>1, <3>2, MergeStamp
  <2> QED BY <1>1, <2>1, <2>2 DEF NamesOwn
<1>3. CASE Kept(e) \/ \E s \in Slots : Worked(e, s)
  BY <1>1, <1>3 DEF Kept, Worked, NamesOwn
<1>4. CASE Resolving(e) \/ Uploading(e) \/ Prefetched(e) \/ Ended(e)
  BY <1>4 DEF Resolving, Uploading, Prefetched, Ended, NamesOwn
<1> QED BY <1>2, <1>3, <1>4 DEF Moves

-----------------------------------------------------------------------------
(* The seen documents are documents, before and after a step.              *)

LEMMA SeenIsVDoc ==
  ASSUME TypeInv, NEW v \in Versions
  PROVE  SeenVDoc(v) \in VDocs
BY FetchedVDoc DEF SeenVDoc, TypeInv

LEMMA SeenIsVDocAfter ==
  ASSUME TypeInv', NEW v \in Versions
  PROVE  SeenVDoc(v)' \in VDocs
<1>1. NewVDoc \in VDocs
  BY DeployAssumption DEF NewVDoc, VDocs, Literal, Stamps
<1>2. VMetaLoc(v).kind = "vmeta" /\ AMetaLoc.kind = "ameta"
  BY DEF VMetaLoc, AMetaLoc
<1>3. VMetaLoc(v) \in DOMAIN store' => store'[VMetaLoc(v)] \in VDocs
  BY <1>2, LocKinds DEF TypeInv, TypeOK, Fits, FitsSum
<1> QED BY <1>1, <1>3 DEF SeenVDoc, Fetched

-----------------------------------------------------------------------------
(* Nothing that was seen is forgotten.                                     *)

SeenGrows ==
  /\ SeenADoc.versions \subseteq SeenADoc'.versions
  /\ \A v \in Snapshots, k \in Keys :
       SeenVDoc(v).entries[k] # Literal =>
         /\ SeenVDoc(v)'.entries[k] # Literal
         /\ SeenVDoc(v)'.entries[k].build >= SeenVDoc(v).entries[k].build

LEMMA MergeGrows ==
  ASSUME NEW doc \in VDocs, NEW old \in VDocs, doc.entries = old.entries, Older(doc),
         doc.stamp # Literal, NEW K, NEW k \in Keys, old.entries[k] # Literal
  PROVE  /\ MergeSnapshotVersions(doc, K).entries[k] # Literal
         /\ MergeSnapshotVersions(doc, K).entries[k].build >= old.entries[k].build
<1>1. k \in Listed(doc)
  BY DEF Listed
<1>2. old.entries[k].build \in Nat /\ doc.stamp.build \in Nat
  BY DEF VDocs, Stamps
<1>3. doc.entries[k].build < doc.stamp.build
  BY <1>1 DEF Older
<1>4. MergeSnapshotVersions(doc, K).entries[k] =
        IF k \in K THEN doc.stamp ELSE doc.entries[k]
  BY MergeStamp
<1>5. CASE k \in K
  BY <1>2, <1>3, <1>4, <1>5
<1>6. CASE k \notin K
  BY <1>2, <1>4, <1>6
<1> QED BY <1>5, <1>6

\* The build that a call makes from what is seen.
LEMMA NextBuildDoc ==
  ASSUME TypeInv, AllVetted, NEW d \in Deployers
  PROVE  /\ SeenVDoc(Version(d)) \in VDocs /\ NextBuild(d) \in VDocs
         /\ NextBuild(d).entries = SeenVDoc(Version(d)).entries
         /\ NextBuild(d).stamp =
              [time |-> now[d], build |-> SeenVDoc(Version(d)).stamp.build + 1]
         /\ Older(NextBuild(d)) /\ NextBuild(d).stamp # Literal
<1> DEFINE old == SeenVDoc(Version(d))
           doc == NextBuild(d)
<1>1. Version(d) \in Versions /\ now[d] \in Times
  BY DeployAssumption DEF TypeInv, TypeOK, Version
<1>2. old \in VDocs
  BY <1>1, FetchedVDoc DEF TypeInv, SeenVDoc
<1>3. Older(doc) /\ doc.stamp # Literal
  BY <1>1, FetchedOlder DEF NextBuild, SeenVDoc
<1>4. old.stamp.build + 1 \in Nat
  BY <1>2 DEF VDocs, Stamps
<1>5. doc = [old EXCEPT !.stamp = [time |-> now[d], build |-> old.stamp.build + 1]]
  BY DEF NextBuild, NextSnapshotVersion
<1>6. [time |-> now[d], build |-> old.stamp.build + 1] \in Stamps
  BY <1>1, <1>4 DEF Stamps
<1>7. /\ doc \in VDocs /\ doc.entries = old.entries
      /\ doc.stamp = [time |-> now[d], build |-> old.stamp.build + 1]
  BY <1>2, <1>5, <1>6 DEF VDocs
<1> QED BY <1>2, <1>3, <1>7

\* A document that is written is made from the one that is seen.
LEMMA WriteOfDoc ==
  ASSUME TypeInv, NEW d \in Deployers, NEW s \in MetaSlots, DocWritten(d, s),
         MadeFromSeen(d), MetaTasks(d)
  PROVE  \/ /\ s = "vmeta" /\ IsSnapshot(d) /\ SeenADoc' = SeenADoc
            /\ \A v : SeenVDoc(v)' =
                 IF v = Version(d) THEN MergeSnapshotVersions(NextBuild(d), PartKeys(d))
                 ELSE SeenVDoc(v)
         \/ /\ s = "ameta" /\ \A v : SeenVDoc(v)' = SeenVDoc(v)
            /\ SeenADoc' = UpdateArtifactMetadata(SeenADoc, Version(d))
<1>1. CASE s = "vmeta"
  BY <1>1 DEF DocWritten, MadeFromSeen, MetaTasks
<1>2. CASE s = "ameta"
  BY <1>2 DEF DocWritten, MadeFromSeen
<1> QED BY <1>1, <1>2 DEF MetaSlots

LEMMA SeenGrowsNext ==
  ASSUME TypeInv, PublicationInv, SerialInv, [Next]_vars
  PROVE  SeenGrows
<1>1. CASE DocsKept
  <2>1. ASSUME NEW v \in Snapshots, NEW k \in Keys, SeenVDoc(v).entries[k] # Literal
        PROVE  /\ SeenVDoc(v)'.entries[k] # Literal
               /\ SeenVDoc(v)'.entries[k].build >= SeenVDoc(v).entries[k].build
    <3>1. SeenVDoc(v) \in VDocs
      BY DeployAssumption, SeenIsVDoc
    <3>2. SeenVDoc(v).entries[k].build \in Nat
      BY <3>1 DEF VDocs, Stamps
    <3>3. SeenVDoc(v)' = SeenVDoc(v)
      BY <1>1 DEF DocsKept
    <3> QED BY <2>1, <3>2, <3>3
  <2>2. SeenADoc' = SeenADoc
    BY <1>1 DEF DocsKept
  <2> QED BY <2>1, <2>2 DEF SeenGrows
<1>2. ASSUME NEW d \in Deployers, NEW s \in MetaSlots, DocWritten(d, s) PROVE SeenGrows
  <2>0. MadeFromSeen(d) /\ MetaTasks(d) /\ AllVetted
    BY DEF SerialInv, PublicationInv, CallInv
  <2>1. ASSUME NEW v \in Snapshots, NEW k \in Keys, SeenVDoc(v).entries[k] # Literal
        PROVE  /\ SeenVDoc(v)'.entries[k] # Literal
               /\ SeenVDoc(v)'.entries[k].build >= SeenVDoc(v).entries[k].build
    <3>1. CASE s = "vmeta" /\ v = Version(d)
      <4>1. SeenVDoc(v)' = MergeSnapshotVersions(NextBuild(d), PartKeys(d))
        BY <1>2, <2>0, <3>1, WriteOfDoc
      <4> QED BY <2>0, <2>1, <3>1, <4>1, NextBuildDoc, MergeGrows
    <3>2. CASE ~ (s = "vmeta" /\ v = Version(d))
      <4>1. SeenVDoc(v)' = SeenVDoc(v)
        BY <1>2, <2>0, <3>2, WriteOfDoc
      <4>2. SeenVDoc(v) \in VDocs
        BY DeployAssumption, SeenIsVDoc
      <4>3. SeenVDoc(v).entries[k].build \in Nat
        BY <4>2 DEF VDocs, Stamps
      <4> QED BY <2>1, <4>1, <4>3
    <3> QED BY <3>1, <3>2
  <2>2. SeenADoc.versions \subseteq SeenADoc'.versions
    BY <1>2, <2>0, WriteOfDoc DEF UpdateArtifactMetadata
  <2> QED BY <2>1, <2>2 DEF SeenGrows
<1> QED BY <1>1, <1>2, StepDocs DEF SerialInv

\* At the moment a call returns success, both of its documents are seen.
LEMMA SuccessIsSeen ==
  ASSUME TypeInv, NEW e \in Deployers, phase[e] = "meta", Waited(e), NoError(e),
         MetaTasks(e), WrittenIsSeen(e), NamesOwn(e), DocInv(e)
  PROVE  /\ Version(e) \in SeenADoc.versions
         /\ IsSnapshot(e) =>
              \A k \in PartKeys(e) :
                 /\ SeenVDoc(Version(e)).entries[k] = vdoc[e].stamp
                 /\ vdoc[e].stamp # Literal
<1>1. up[e]["ameta"] = "sums" /\ (IsSnapshot(e) => up[e]["vmeta"] = "sums")
  BY MetaSlotsAreSlots DEF MetaTasks, Waited, Returned, NoError, Failed
<1> QED BY <1>1 DEF WrittenIsSeen, NamesOwn, DocInv

LEMMA StaysNext ==
  ASSUME TypeInv, PublicationInv, SerialInv, [Next]_vars, NEW e \in Deployers
  PROVE  StaysSeen(e)'
<1> SUFFICES ASSUME phase'[e] = "ok" PROVE StaysSeen(e)'
  BY DEF StaysSeen
<1>1. UNCHANGED args /\ Moves(e) /\ SeenGrows
  BY MovesNext, SeenGrowsNext
<1>2. /\ IsSnapshot(e)' <=> IsSnapshot(e)
      /\ Version(e)' = Version(e) /\ PartKeys(e)' = PartKeys(e)
  BY <1>1 DEF IsSnapshot, Version, PartKeys, Parts
<1>3. vdoc[e] \in VDocs /\ vdoc'[e].stamp = vdoc[e].stamp
  <2>1. vdoc[e] \in VDocs
    BY DEF TypeInv, TypeOK
  <2>2. phase'[e] = "ok" => Kept(e) \/ Ended(e)  \/ (Running(e) /\ phase'[e] = phase[e])
    BY <1>1 DEF Moves, Resolving, Uploading, Prefetched, Worked, Merging
  <2>3. Kept(e) \/ Ended(e)
    BY <2>2 DEF Running
  <2> QED BY <2>1, <2>3 DEF Kept, Ended, NewVDoc
<1>4. /\ Version(e) \in SeenADoc.versions
      /\ IsSnapshot(e) =>
           \A k \in PartKeys(e) :
              /\ SeenVDoc(Version(e)).entries[k] # Literal
              /\ SeenVDoc(Version(e)).entries[k].build >= vdoc[e].stamp.build
  <2>1. CASE phase[e] = "ok"
    BY <2>1 DEF SerialInv, StaysSeen
  <2>2. CASE phase[e] # "ok"
    <3>1. phase[e] = "meta" /\ Waited(e) /\ NoError(e)
      BY <1>1, <2>2 DEF Moves, Kept, Resolving, Uploading, Prefetched, Worked, Merging, Ended
    <3>2. MetaTasks(e) /\ WrittenIsSeen(e) /\ NamesOwn(e) /\ DocInv(e)
      BY DEF SerialInv, PublicationInv, CallInv
    <3>3. vdoc[e].stamp.build \in Nat
      BY <1>3 DEF VDocs, Stamps
    <3> QED BY <3>1, <3>2, <3>3, SuccessIsSeen
  <2> QED BY <2>1, <2>2
<1>5. Version(e) \in SeenADoc'.versions
  BY <1>1, <1>4 DEF SeenGrows
<1>6. ASSUME IsSnapshot(e), NEW k \in PartKeys(e)
      PROVE  /\ SeenVDoc(Version(e))'.entries[k] # Literal
             /\ SeenVDoc(Version(e))'.entries[k].build >= vdoc'[e].stamp.build
  <2>1. Version(e) \in Snapshots /\ Version(e) \in Versions
    BY <1>6, DeployAssumption DEF IsSnapshot
  <2>2. k \in Keys
    BY <1>6, DeployAssumption DEF PartKeys, Parts, TypeInv, TypeOK
  <2>3. PICK v : v = Version(e)
    OBVIOUS
  <2>4. SeenVDoc(v) \in VDocs /\ SeenVDoc(v)' \in VDocs
    <3>1. TypeInv'
      BY NextTypeInv
    <3> QED BY <2>1, <2>3, <3>1, SeenIsVDoc, SeenIsVDocAfter
  <2>5. /\ SeenVDoc(v)'.entries[k] # Literal
        /\ SeenVDoc(v)'.entries[k].build >= SeenVDoc(v).entries[k].build
    BY <1>1, <1>4, <1>6, <2>1, <2>2, <2>3 DEF SeenGrows
  <2>6. /\ SeenVDoc(v).entries[k].build \in Nat /\ SeenVDoc(v)'.entries[k].build \in Nat
        /\ vdoc[e].stamp.build \in Nat
    BY <1>3, <2>2, <2>4 DEF VDocs, Stamps
  <2>7. SeenVDoc(v)'.entries[k].build >= vdoc'[e].stamp.build
    BY <1>3, <1>4, <1>6, <2>3, <2>5, <2>6
  <2> QED BY <1>2, <2>3, <2>5, <2>7
<1> QED BY <1>2, <1>5, <1>6 DEF StaysSeen

-----------------------------------------------------------------------------
(* The theorems about documents.                                           *)

SerialPublishedInv == TypeInv /\ LandedInv /\ PublicationInv /\ SerialInv

LEMMA InitSerial == Init => SerialInv
<1> SUFFICES ASSUME Init PROVE SerialInv
  OBVIOUS
<1> USE MetaSlotsAreSlots DEF Init
<1>1. Alone
  BY DEF Alone, Running
<1>2. ASSUME NEW d \in Deployers
      PROVE  MadeFromSeen(d) /\ WrittenIsSeen(d) /\ NamesOwn(d) /\ StaysSeen(d)
  BY DEF MadeFromSeen, WrittenIsSeen, NamesOwn, StaysSeen
<1> QED BY <1>1, <1>2 DEF SerialInv

LEMMA NextSerial ==
  ASSUME Serial, MaxLost = 0, TypeInv, PublicationInv, SerialInv, [Next]_vars
  PROVE  SerialInv'
<1>1. UNCHANGED args /\ \A e \in Deployers : Moves(e)
  BY MovesNext
<1>2. Alone' /\ limbo' = {}
  BY AloneNext, NothingLate DEF SerialInv
<1>3. ASSUME NEW e \in Deployers
      PROVE  MadeFromSeen(e)' /\ WrittenIsSeen(e)' /\ NamesOwn(e)' /\ StaysSeen(e)'
  <2>1. MadeFromSeen(e)' /\ WrittenIsSeen(e)'
    BY <1>1, StepDocs, MadeNext DEF SerialInv, PublicationInv, CallInv
  <2>2. NamesOwn(e)'
    BY <1>1, NamesNext DEF SerialInv
  <2> QED BY <2>1, <2>2, StaysNext
<1> QED BY <1>2, <1>3 DEF SerialInv

LEMMA SerialHolds ==
  ASSUME Serial, MaxLost = 0
  PROVE  Spec => []SerialPublishedInv
<1>1. Init => SerialPublishedInv
  BY InitTypeInv, InitLanded, InitPublication, InitSerial DEF SerialPublishedInv
<1>2. SerialPublishedInv /\ [Next]_vars => SerialPublishedInv'
  BY NextTypeInv, UploadsNext, MemoryNext, DocsNext, NextPublication, NextSerial
     DEF SerialPublishedInv, LandedInv
<1> QED BY <1>1, <1>2, PTL DEF Spec

\* Deploys that run one after another and lose no answer never forget a
\* success, though later calls fail or die at any step: its version stays
\* listed and its files' entries resolve to its build or a later one.
THEOREM NothingForgotten ==
  ASSUME Serial, MaxLost = 0
  PROVE  Spec => []SuccessesStayListed
<1>1. SerialPublishedInv => SuccessesStayListed
  <2> SUFFICES ASSUME SerialPublishedInv, NEW d \in Deployers, phase[d] = "ok"
               PROVE  /\ Version(d) \in store[AMetaLoc].versions
                      /\ IsSnapshot(d) =>
                           \A k \in PartKeys(d) :
                             /\ k \in Listed(store[VMetaLoc(Version(d))])
                             /\ store[VMetaLoc(Version(d))].entries[k].build
                                  >= vdoc[d].stamp.build
    BY DEF SuccessesStayListed
  <2>1. StaysSeen(d) /\ Complete(d) /\ TypeInv
    BY DEF SerialPublishedInv, SerialInv, PublicationInv, CallInv
  <2>2. AMetaLoc \in DOMAIN store /\ (IsSnapshot(d) => VMetaLoc(Version(d)) \in DOMAIN store)
    BY <2>1 DEF Complete, Landed
  <2>3. /\ SeenADoc = store[AMetaLoc]
        /\ IsSnapshot(d) => SeenVDoc(Version(d)) = store[VMetaLoc(Version(d))]
    BY <2>2 DEF SeenADoc, SeenVDoc, Fetched
  <2>4. PartKeys(d) \subseteq Keys
    BY <2>1, DeployAssumption DEF PartKeys, Parts, TypeInv, TypeOK
  <2> QED BY <2>1, <2>3, <2>4 DEF StaysSeen, Listed
<1>2. Spec => []SerialPublishedInv
  BY SerialHolds
<1> QED BY <1>1, <1>2, PTL

\* A written document is a step of the catalog: the next build of its version,
\* or the addition of its version to the list.
LEMMA WriteIsCatalogStep ==
  ASSUME TypeInv, PublicationInv, SerialInv, NEW d \in Deployers, NEW s \in MetaSlots,
         DocWritten(d, s)
  PROVE  Published!Next
<1>0. /\ MadeFromSeen(d) /\ MetaTasks(d) /\ AllVetted
      /\ Version(d) \in Versions /\ now[d] \in Times
  BY DeployAssumption DEF SerialInv, PublicationInv, CallInv, TypeInv, TypeOK, Version
<1> DEFINE seen == [v \in Snapshots |-> Fetched(VMetaLoc(v), NewVDoc)]
<1>1. seen = [v \in Snapshots |-> SeenVDoc(v)] /\ seen' = [v \in Snapshots |-> SeenVDoc(v)']
  BY DEF SeenVDoc
<1>2. CASE s = "vmeta"
  <2>1. /\ IsSnapshot(d) /\ SeenADoc' = SeenADoc
        /\ \A v : SeenVDoc(v)' =
             IF v = Version(d) THEN MergeSnapshotVersions(NextBuild(d), PartKeys(d))
             ELSE SeenVDoc(v)
    BY <1>0, <1>2, WriteOfDoc
  <2> DEFINE w == Version(d)
             stamp == [time |-> now[d], build |-> seen[w].stamp.build + 1]
             new == [stamp |-> stamp,
                     entries |-> [k \in Keys |->
                        IF k \in PartKeys(d) THEN stamp ELSE seen[w].entries[k]]]
  <2>2. w \in Snapshots /\ seen[w] = SeenVDoc(w)
    BY <1>1, <2>1 DEF IsSnapshot
  <2>3. MergeSnapshotVersions(NextBuild(d), PartKeys(d)) = new
    BY <1>0, <2>2, NextBuildDoc DEF MergeSnapshotVersions, VDocs
  <2>4. seen' = [seen EXCEPT ![w] = new]
    BY <1>1, <2>1, <2>2, <2>3
  <2>5. PartKeys(d) \in (SUBSET Keys) \ {{}}
    <3>1. PartKeys(d) \subseteq Keys
      BY DeployAssumption DEF PartKeys, Parts, TypeInv, TypeOK
    <3>2. PartKeys(d) # {}
      BY MainPart
    <3> QED BY <3>1, <3>2
  <2>6. Published!Build(w, PartKeys(d), now[d])
    BY <2>1, <2>4 DEF Published!Build, SeenADoc
  <2> QED BY <1>0, <2>2, <2>5, <2>6 DEF Published!Next
<1>3. CASE s = "ameta"
  <2>1. /\ \A v : SeenVDoc(v)' = SeenVDoc(v)
        /\ SeenADoc' = UpdateArtifactMetadata(SeenADoc, Version(d))
    BY <1>0, <1>3, WriteOfDoc
  <2>2. seen' = seen
    BY <1>1, <2>1
  <2>3. Published!List(Version(d))
    BY <2>1, <2>2 DEF Published!List, SeenADoc, UpdateArtifactMetadata
  <2> QED BY <1>0, <2>3 DEF Published!Next
<1> QED BY <1>2, <1>3 DEF MetaSlots

\* Deploys that run one after another and lose no answer implement the
\* catalog: what a reader sees changes only when a document is written, and
\* then by the step the catalog allows.
THEOREM DeployRefinesCatalog ==
  ASSUME Serial, MaxLost = 0
  PROVE  Spec => ImplementsCatalog
<1>1. Init => Published!Init
  BY DEF Init, Published!Init, Fetched, NewVDoc, NewADoc, Literal, Published!NoBuild
<1>2. SerialPublishedInv /\ [Next]_vars => [Published!Next]_(Published!catalog)
  <2> SUFFICES ASSUME SerialPublishedInv, [Next]_vars
               PROVE  [Published!Next]_(Published!catalog)
    OBVIOUS
  <2> USE DEF SerialPublishedInv
  <2>1. CASE DocsKept
    <3>1. UNCHANGED Published!catalog
      BY <2>1 DEF DocsKept, SeenVDoc, SeenADoc, Published!catalog
    <3> QED BY <3>1
  <2>2. ASSUME NEW d \in Deployers, NEW s \in MetaSlots, DocWritten(d, s)
        PROVE  Published!Next
    BY <2>2, WriteIsCatalogStep
  <2> QED BY <2>1, <2>2, StepDocs DEF SerialInv
<1>3. Spec => []SerialPublishedInv
  BY SerialHolds
<1> QED BY <1>1, <1>2, <1>3, PTL DEF Spec, ImplementsCatalog, Published!Spec

-----------------------------------------------------------------------------
(* A success verifies.                                                     *)

\* No two files of a request have the same classifier and type: Deploy does
\* not check this, and such files would overwrite one another.
DistinctFiles ==
  \A r \in Requests : \A s, t \in DOMAIN r.parts : r.parts[s] = r.parts[t] => s = t

\* What a running call has sent is in the repository, unchanged.
Sent(d, s) ==
  /\ up[d][s] = "sums" => Loc(d, s) \in DOMAIN store /\ store[Loc(d, s)] = Body(d, s)
  /\ \A a \in Algos : sums[d][s][a] = "ok" =>
       /\ SumLoc(Loc(d, s), a) \in DOMAIN store
       /\ store[SumLoc(Loc(d, s), a)] = Body(d, s)

\* A task that does not run, or whose document is not yet made, sent nothing.
NotSent(d, s) ==
  up[d][s] = "off" \/ (phase[d] = "files" /\ s \in MetaSlots) => sums[d][s] = AllTodo

SentInv == \A d \in Deployers, s \in Slots : Sent(d, s) /\ NotSent(d, s)

LEMMA LocInjective ==
  ASSUME TypeInv, DistinctFiles, NEW d \in Deployers, NEW s \in Slots, NEW t \in Slots,
         up[d][s] # "off", up[d][t] # "off", Loc(d, s) = Loc(d, t)
  PROVE  s = t
<1>1. AMetaLoc.kind = "ameta" /\ VMetaLoc(Version(d)).kind = "vmeta"
      /\ \A x : FileLoc(Version(d), vdoc[d].stamp, x).kind = "file"
              /\ FileLoc(Version(d), vdoc[d].stamp, x).key = x
  BY DEF AMetaLoc, VMetaLoc, FileLoc
<1>2. CASE s \in MetaSlots \/ t \in MetaSlots
  BY <1>1, <1>2 DEF Loc, MetaSlots
<1>3. CASE s \in FileSlots /\ t \in FileSlots
  <2>1. s \in DOMAIN Parts(d) /\ t \in DOMAIN Parts(d)
    BY <1>3 DEF TypeInv, SlotsOK
  <2>2. Parts(d)[s] = Parts(d)[t]
    BY <1>1, <1>3, FileSlotsAreSlots DEF Loc
  <2> QED BY <2>1, <2>2 DEF DistinctFiles, Parts, TypeInv, TypeOK
<1> QED BY <1>2, <1>3 DEF Slots

LEMMA NotSentNext ==
  ASSUME TypeInv, NEW e \in Deployers, Moves(e), MetaTasks(e), NEW s \in Slots, NotSent(e, s)
  PROVE  NotSent(e, s)'
<1> USE MetaSlotsAreSlots DEF NotSent
<1>1. CASE Kept(e) \/ Resolving(e)
  BY <1>1 DEF Kept, Resolving
<1>2. CASE Uploading(e)
  BY <1>2 DEF Uploading, TypeInv, SlotsOK, AllTodo
<1>3. CASE Prefetched(e)
  BY <1>3 DEF Prefetched, MetaSlots
<1>4. ASSUME NEW t \in Slots, Worked(e, t) PROVE NotSent(e, s)'
  <2>1. up[e][t] \in {"body", "sums"} /\ up'[e][t] \in {"sums", "failed"}
        /\ phase'[e] = phase[e]
    BY <1>4 DEF Worked, BodyDone, SumDone
  <2>2. CASE s = t
    BY <2>1, <2>2 DEF MetaTasks, MetaSlots
  <2>3. CASE s # t
    BY <1>4, <2>1, <2>3 DEF Worked, AllTodo
  <2> QED BY <2>2, <2>3
<1>5. CASE Merging(e)
  BY <1>5 DEF Merging, AllTodo
<1>6. CASE Ended(e)
  BY <1>6 DEF Ended, AllTodo
<1> QED BY <1>1, <1>2, <1>3, <1>4, <1>5, <1>6 DEF Moves

\* What a task has sent, it does not change.
LEMMA SentBodyKept ==
  ASSUME TypeInv, NEW e \in Deployers, Moves(e), UNCHANGED args, Running(e)', MetaTasks(e),
         NEW s \in Slots, NotSent(e, s),
         up[e][s] = "sums" \/ \E a \in Algos : sums[e][s][a] = "ok"
  PROVE  Loc(e, s)' = Loc(e, s) /\ Body(e, s)' = Body(e, s)
<1>1. phase[e] \in {"files", "meta"}
  BY DEF TypeInv, SlotsOK, AllTodo
<1>2. Loc(e, s)' = Loc(e, s)
  BY <1>1, LocKept DEF TypeInv, TypeOK, CallTypes
<1>3. s \in MetaSlots => phase[e] = "meta"
  BY <1>1 DEF NotSent, MetaTasks, MetaSlots, AllTodo
<1>4. phase[e] = "meta" => vdoc'[e] = vdoc[e] /\ adoc'[e] = adoc[e]
  BY DEF Moves, Kept, Resolving, Uploading, Prefetched, Worked, Merging, Ended, Running
<1>5. Body(e, s)' = Body(e, s)
  BY <1>3, <1>4 DEF Body, MetaSlots
<1> QED BY <1>2, <1>5

NothingSent ==
  /\ store' = store
  /\ \A e \in Deployers, s \in Slots :
       /\ up'[e][s] = "sums" => up[e][s] = "sums"
       /\ \A a \in Algos : sums'[e][s][a] = "ok" => sums[e][s][a] = "ok"

LEMMA StepSends ==
  ASSUME TypeInv, limbo = {}, [Next]_vars
  PROVE  \/ NothingSent
         \/ \E d \in Deployers, s \in Slots :
              PutBody(d, s) \/ \E a \in Algos : PutSum(d, s, a)
<1>0. CallTypes
  BY DEF TypeInv, TypeOK, CallTypes
<1>1. ASSUME NEW d \in Deployers, NEW p, End(d, p) PROVE NothingSent
  BY <1>0, <1>1 DEF End, CallTypes, AllTodo, NothingSent
<1>2. ASSUME NEW d \in Deployers, Begin(d) PROVE NothingSent
  <2>1. CASE BeginRelease(d)
    BY <1>0, <2>1 DEF BeginRelease, StartFiles, CallTypes, NothingSent
  <2>2. CASE BeginSnapshot(d)
    BY <2>2 DEF BeginSnapshot, NothingSent
  <2> QED BY <1>1, <1>2, <2>1, <2>2 DEF Begin, Reject
<1>3. ASSUME NEW d \in Deployers, NEW s \in Slots, NEW t \in {"got", "failed"}, store' = store,
             sums' = sums, up' = [up EXCEPT ![d][s] = t]
      PROVE  NothingSent
  <2>1. \A e \in Deployers, x \in Slots : up'[e][x] \in {up[e][x], "got", "failed"}
    BY <1>0, <1>3 DEF CallTypes
  <2> QED BY <1>3, <2>1 DEF NothingSent
<1>4. ASSUME NEW d \in Deployers, NEW s \in Slots, NEW a \in Algos, FailSum(d, s, a)
      PROVE  NothingSent
  <2>1. sums' = [sums EXCEPT ![d][s][a] = "failed"] /\ store' = store /\ up' = up
    BY <1>4 DEF FailSum, SetSum
  <2>2. \A e \in Deployers, x \in Slots, b \in Algos :
          sums'[e][x][b] \in {sums[e][x][b], "failed"}
    <3> TAKE e \in Deployers, x \in Slots, b \in Algos
    <3>1. CASE e = d /\ x = s
      BY <1>0, <2>1, <3>1 DEF CallTypes
    <3>2. CASE ~ (e = d /\ x = s)
      BY <1>0, <2>1, <3>2 DEF CallTypes
    <3> QED BY <3>1, <3>2
  <2> QED BY <2>1, <2>2 DEF NothingSent
<1>5. ASSUME NEW d \in Deployers, Step(d)
      PROVE  NothingSent \/ \E s \in Slots : PutBody(d, s) \/ \E a \in Algos : PutSum(d, s, a)
  <2>1. CASE FetchVersionMeta(d)
    BY <1>0, <2>1 DEF FetchVersionMeta, StartFiles, CallTypes, NothingSent
  <2>2. CASE FetchArtMeta(d) \/ FetchArtMetaFailed(d)
    BY <1>3, <2>2, MetaSlotsAreSlots DEF FetchArtMeta, FetchArtMetaFailed, SetTask
  <2>3. ASSUME NEW s \in Slots, Slot(d, s)
        PROVE  NothingSent \/ PutBody(d, s) \/ \E a \in Algos : PutSum(d, s, a)
    <3>1. CASE FailBody(d, s) \/ HashFailed(d, s)
      BY <1>3, <3>1 DEF FailBody, HashFailed, SetTask
    <3>2. CASE LoseBody(d, s)
      BY <3>2 DEF LoseBody, NothingSent
    <3>3. ASSUME NEW a \in Algos, LoseSum(d, s, a) PROVE NothingSent
      BY <3>3 DEF LoseSum, NothingSent
    <3> QED BY <1>4, <2>3, <3>1, <3>2, <3>3 DEF Slot
  <2>4. CASE StartMeta(d)
    BY <1>0, <2>4 DEF StartMeta, CallTypes, NothingSent
  <2> QED BY <1>1, <1>5, <2>1, <2>2, <2>3, <2>4
          DEF Step, FetchVersionMetaFailed, FilesErr, MetaOK, MetaErr
<1>6. ASSUME NEW d \in Deployers, Crash(d) PROVE NothingSent
  BY <1>1, <1>6 DEF Crash
<1>7. CASE UNCHANGED vars
  BY <1>7 DEF NothingSent
<1> QED BY <1>2, <1>5, <1>6, <1>7 DEF Next, Stopped

LEMMA SentNext ==
  ASSUME DistinctFiles, TypeInv, PublicationInv, SerialInv, SentInv, [Next]_vars,
         NEW e \in Deployers, NEW s \in Slots
  PROVE  Sent(e, s)'
<1>0. /\ TypeInv' /\ UNCHANGED args /\ Moves(e) /\ MetaTasks(e) /\ CallTypes
      /\ Sent(e, s) /\ NotSent(e, s)
  BY NextTypeInv, MovesNext DEF PublicationInv, CallInv, SentInv, TypeInv, TypeOK, CallTypes
<1>1. CASE ~ Running(e)'
  <2>1. up'[e][s] = "off" /\ sums'[e][s] = AllTodo
    BY <1>0, <1>1 DEF TypeInv, SlotsOK, Running
  <2> QED BY <2>1 DEF Sent, AllTodo
<1>2. CASE Running(e)' /\ NothingSent
  <2>1. CASE up[e][s] = "sums" \/ \E a \in Algos : sums[e][s][a] = "ok"
    <3>1. Loc(e, s)' = Loc(e, s) /\ Body(e, s)' = Body(e, s)
      BY <1>0, <1>2, <2>1, SentBodyKept
    <3> QED BY <1>0, <1>2, <3>1 DEF Sent, NothingSent
  <2>2. CASE ~ (up[e][s] = "sums" \/ \E a \in Algos : sums[e][s][a] = "ok")
    BY <1>2, <2>2 DEF Sent, NothingSent
  <2> QED BY <2>1, <2>2
<1>3. ASSUME Running(e)', NEW d \in Deployers, Running(d), phase' = phase
      PROVE  d = e
  BY <1>3 DEF SerialInv, Alone, Running
\* The location of a task that has sent something.
<1>4. ASSUME NEW a \in Algos, up[e][s] = "sums" \/ sums[e][s][a] = "ok"
      PROVE  up[e][s] # "off"
  BY <1>0, <1>4 DEF NotSent, AllTodo
<1>5. \A l, a : SumLoc(l, a).kind = "sum" /\ SumLoc(l, a).of = l /\ SumLoc(l, a).algo = a
  BY DEF SumLoc
<1>6. \A t : Loc(e, t).kind # "sum"
  BY DEF Loc, VMetaLoc, AMetaLoc, FileLoc
<1>7. ASSUME Running(e)', NEW t \in Slots, PutBody(e, t) PROVE Sent(e, s)'
  <2>1. /\ store' = Apply(store, Loc(e, t), Body(e, t)) /\ sums' = sums
        /\ up' = [up EXCEPT ![e][t] = "sums"] /\ up[e][t] = "body"
    BY <1>7 DEF PutBody, BodyPending, SetTask
  <2>2. Loc(e, s)' = Loc(e, s) /\ Body(e, s)' = Body(e, s)
    BY <1>7 DEF PutBody, Loc, Body, Version, Parts
  <2>3. up'[e][s] = "sums" => Loc(e, s) \in DOMAIN store' /\ store'[Loc(e, s)] = Body(e, s)
    <3>1. CASE s = t
      BY <2>1, <3>1 DEF Apply
    <3>2. CASE s # t
      <4>1. up'[e][s] = up[e][s]
        BY <1>0, <2>1, <3>2 DEF CallTypes
      <4>2. up[e][s] = "sums" => Loc(e, s) # Loc(e, t)
        BY <2>1, <3>2, LocInjective
      <4> QED BY <1>0, <2>1, <4>1, <4>2 DEF Sent, Apply
    <3> QED BY <3>1, <3>2
  <2>4. ASSUME NEW a \in Algos, sums'[e][s][a] = "ok"
        PROVE  /\ SumLoc(Loc(e, s), a) \in DOMAIN store'
               /\ store'[SumLoc(Loc(e, s), a)] = Body(e, s)
    <3>1. SumLoc(Loc(e, s), a) # Loc(e, t)
      BY <1>5, <1>6
    <3> QED BY <1>0, <2>1, <2>4, <3>1 DEF Sent, Apply
  <2> QED BY <2>2, <2>3, <2>4 DEF Sent
<1>8. ASSUME Running(e)', NEW t \in Slots, NEW b \in Algos, PutSum(e, t, b)
      PROVE  Sent(e, s)'
  <2> DEFINE l == SumLoc(Loc(e, t), b)
  <2>1. /\ store' = Apply(store, l, Body(e, t)) /\ up' = up
        /\ sums' = [sums EXCEPT ![e][t][b] = "ok"] /\ up[e][t] = "sums"
    BY <1>8 DEF PutSum, SumPending, SetSum
  <2>2. Loc(e, s)' = Loc(e, s) /\ Body(e, s)' = Body(e, s)
    BY <1>8 DEF PutSum, Loc, Body, Version, Parts
  <2>3. up'[e][s] = "sums" => Loc(e, s) \in DOMAIN store' /\ store'[Loc(e, s)] = Body(e, s)
    <3>1. Loc(e, s) # l
      BY <1>5, <1>6
    <3> QED BY <1>0, <2>1, <3>1 DEF Sent, Apply
  <2>4. ASSUME NEW a \in Algos, sums'[e][s][a] = "ok"
        PROVE  /\ SumLoc(Loc(e, s), a) \in DOMAIN store'
               /\ store'[SumLoc(Loc(e, s), a)] = Body(e, s)
    <3>1. CASE s = t /\ a = b
      BY <2>1, <3>1 DEF Apply
    <3>2. CASE ~ (s = t /\ a = b)
      <4>1. sums[e][s][a] = "ok"
        <5>1. CASE s = t
          BY <1>0, <2>1, <2>4, <3>2, <5>1 DEF CallTypes
        <5>2. CASE s # t
          BY <1>0, <2>1, <2>4, <5>2 DEF CallTypes
        <5> QED BY <5>1, <5>2
      <4>2. SumLoc(Loc(e, s), a) # l
        BY <1>4, <1>5, <2>1, <3>2, <4>1, LocInjective
      <4> QED BY <1>0, <2>1, <4>1, <4>2 DEF Sent, Apply
    <3> QED BY <3>1, <3>2
  <2> QED BY <2>2, <2>3, <2>4 DEF Sent
<1>9. ASSUME Running(e)', NEW d \in Deployers, NEW t \in Slots,
             PutBody(d, t) \/ \E a \in Algos : PutSum(d, t, a)
      PROVE  Sent(e, s)'
  <2>1. Running(d) /\ phase' = phase
    BY <1>9 DEF PutBody, BodyPending, PutSum, SumPending
  <2>2. d = e
    BY <1>3, <1>9, <2>1
  <2> QED BY <1>7, <1>8, <1>9, <2>2
<1> QED BY <1>1, <1>2, <1>9, StepSends DEF SerialInv

\* Deploys that run one after another and lose no answer: when a call returns
\* success, every file and document it uploaded is in the repository as it
\* uploaded it, and so are the sidecars, whatever an earlier call that failed
\* between a body and its sidecars left there.
THEOREM SuccessIsVerified ==
  ASSUME Serial, MaxLost = 0, DistinctFiles
  PROVE  Spec => SuccessVerifies
<1> DEFINE Inv == SerialPublishedInv /\ SentInv
           Verified ==
             \A d \in Deployers : phase[d] = "meta" /\ phase'[d] = "ok" =>
               \A s \in Slots : up[d][s] # "off" => Verifies(d, s)
<1>1. Init => SentInv
  BY DEF Init, SentInv, Sent, NotSent, AllTodo
<1>2. Inv /\ [Next]_vars => SentInv'
  <2> SUFFICES ASSUME Inv, [Next]_vars, NEW e \in Deployers, NEW s \in Slots
               PROVE  Sent(e, s)' /\ NotSent(e, s)'
    BY DEF SentInv
  <2>1. Sent(e, s)'
    BY SentNext DEF SerialPublishedInv
  <2>2. NotSent(e, s)'
    BY MovesNext, NotSentNext DEF SerialPublishedInv, PublicationInv, CallInv, SentInv
  <2> QED BY <2>1, <2>2
<1>3. Inv /\ [Next]_vars => [Verified]_vars
  <2> SUFFICES ASSUME Inv, [Next]_vars, NEW d \in Deployers,
                      phase[d] = "meta", phase'[d] = "ok", NEW s \in Slots, up[d][s] # "off"
               PROVE  Verifies(d, s)
    BY DEF Verified
  <2>1. TypeInv /\ MetaTasks(d) /\ Sent(d, s) /\ Moves(d)
    BY MovesNext DEF SerialPublishedInv, PublicationInv, CallInv, SentInv
  <2>2. Waited(d) /\ NoError(d)
    BY <2>1 DEF Moves, Kept, Resolving, Uploading, Prefetched, Worked, Merging, Ended
  <2>3. up[d][s] \in {"body", "sums", "failed"}
    BY <2>1 DEF TypeInv, SlotsOK, MetaTasks, Slots, MetaSlots
  <2>4. sums[d][s] \in [Algos -> {"todo", "ok", "failed"}]
    BY <2>1 DEF TypeInv, TypeOK
  <2>5. up[d][s] = "sums" /\ \A a \in Algos : sums[d][s][a] = "ok"
    BY <2>2, <2>3, <2>4 DEF Waited, Returned, NoError, Failed
  <2> QED BY <2>1, <2>5 DEF Sent, Verifies, Landed
<1>4. Spec => []SerialPublishedInv
  BY SerialHolds
<1> QED BY <1>1, <1>2, <1>3, <1>4, PTL DEF Spec, SuccessVerifies
=============================================================================
