------------------------------- MODULE Deploy -------------------------------
(***************************************************************************)
(* Client.Deploy of internal/repo/deploy.go: several calls, in one process *)
(* or on several machines, publishing into one Maven repository, under one *)
(* groupId:artifactId.                                                     *)
(*                                                                         *)
(* A call resolves the version of a SNAPSHOT from the version-level        *)
(* metadata, uploads its files and prefetches the artifact-level metadata  *)
(* concurrently, waits for all of them, and only then writes the metadata  *)
(* documents, again concurrently.  Every upload is a PUT of the body and,  *)
(* after it, concurrent PUTs of the checksum sidecars.                     *)
(*                                                                         *)
(* The repository is a partial function from locations to bodies whose GET *)
(* and PUT are atomic.  A PUT attempt whose answer never came (a reset, a  *)
(* 5xx, a timeout) may still be applied at any later time, or never: it is *)
(* kept in `limbo'.  The retries of Client.do are in module Request.       *)
(***************************************************************************)
EXTENDS Naturals

CONSTANTS
  Deployers,    \* the calls of Deploy, each made at most once
  Requests,     \* what a call may be asked to deploy
  Times,        \* values of `now', in whole seconds; clocks may disagree
  Algos,        \* the extensions of publishAlgos
  Versions,     \* base versions
  Snapshots,    \* those that end in -SNAPSHOT
  NoVersion,    \* the empty <release> element
  Classifiers,
  Types,
  AttSlots,     \* names for the positions of the attachments argument
  MaxLost,      \* bound on the PUT attempts whose answer is lost
  Serial        \* the caller starts a deploy only when none is running

FileSlots == {"main", "pom"} \cup AttSlots
MetaSlots == {"vmeta", "ameta"}
Slots == FileSlots \cup MetaSlots

\* The classifier and type of a file: with the GAV they name it.
Keys == [classifier : Classifiers, type : Types]
PomKey == [classifier |-> "", type |-> "pom"]

ASSUME DeployAssumption ==
  /\ Times \subseteq Nat \ {0}
  /\ Snapshots \subseteq Versions
  /\ NoVersion \notin Versions
  /\ PomKey \in Keys
  /\ AttSlots \cap {"main", "pom", "vmeta", "ameta"} = {}
  /\ MaxLost \in Nat
  /\ Serial \in BOOLEAN
  /\ \A r \in Requests :
       /\ r.version \in Versions
       /\ "main" \in DOMAIN r.parts
       /\ DOMAIN r.parts \subseteq FileSlots
       /\ \A s \in DOMAIN r.parts : r.parts[s] \in Keys
       /\ "pom" \in DOMAIN r.parts => r.parts["pom"] = PomKey

-----------------------------------------------------------------------------
(* Names, locations and documents.                                         *)

\* The part of a file name that replaces SNAPSHOT.
Stamps == [time : Times \cup {0}, build : Nat]
Literal == [time |-> 0, build |-> 0]

FileLoc(v, stamp, k) ==
  [kind |-> "file", version |-> v, stamp |-> stamp, key |-> k]
VMetaLoc(v) == [kind |-> "vmeta", version |-> v]
AMetaLoc == [kind |-> "ameta"]
SumLoc(l, a) == [kind |-> "sum", of |-> l, algo |-> a]

\* Version-level metadata: the <snapshot> block and <snapshotVersions>, where
\* Literal stands for an absent block and an absent entry.
VDocs == [stamp : Stamps, entries : [Keys -> Stamps]]
NewVDoc == [stamp |-> Literal, entries |-> [k \in Keys |-> Literal]]
Listed(doc) == {k \in Keys : doc.entries[k] # Literal}

\* Artifact-level metadata: <versions> and <release>.
ADocs == [versions : SUBSET Versions, release : Versions \cup {NoVersion}]
NewADoc == [versions |-> {}, release |-> NoVersion]

\* What a file holds: the slot of the call that uploads it.  The digest of a
\* body, a sidecar's content, is represented by the body.
FileBodies == [by : Deployers, slot : FileSlots]

-----------------------------------------------------------------------------
VARIABLES
  store,   \* the repository: location -> body
  limbo,   \* writes whose attempts got no answer and that may yet be applied
  lost,    \* how many such attempts there were
  phase,   \* where each call is
  req,     \* the arguments of each call
  now,     \* its clock reading
  vdoc,    \* versionMeta, in memory; its stamp is the resolved version
  adoc,    \* artMeta, in memory
  up,      \* the task of each slot
  sums     \* the sidecar PUTs of each slot

repoVars == <<store, limbo, lost>>
args == <<req, now>>
vars == <<store, limbo, lost, phase, req, now, vdoc, adoc, up, sums>>

Phases == {"idle", "resolve", "files", "meta", "ok", "err", "crashed"}
TaskStates == {"off", "get", "got", "body", "sums", "failed"}

Version(d) == req[d].version
IsSnapshot(d) == Version(d) \in Snapshots
Parts(d) == req[d].parts
PartKeys(d) == {Parts(d)[s] : s \in DOMAIN Parts(d)}
Running(d) == phase[d] \in {"resolve", "files", "meta"}

Loc(d, s) ==
  IF s = "vmeta" THEN VMetaLoc(Version(d))
  ELSE IF s = "ameta" THEN AMetaLoc
  ELSE FileLoc(Version(d), vdoc[d].stamp, Parts(d)[s])

\* Mutant: the version-level task uploads the artifact-level document.
BodySwapped(d, s) ==
  IF s \in MetaSlots THEN adoc[d] ELSE [by |-> d, slot |-> s]

Body(d, s) ==
  IF s = "vmeta" THEN vdoc[d]
  ELSE IF s = "ameta" THEN adoc[d]
  ELSE [by |-> d, slot |-> s]

Apply(st, l, b) ==
  [x \in DOMAIN st \cup {l} |-> IF x = l THEN b ELSE st[x]]

\* The content of a location, or `new' on a 404.
Fetched(l, new) == IF l \in DOMAIN store THEN store[l] ELSE new

-----------------------------------------------------------------------------
(* The state of a task: what taskGroup.Wait waits for and what it returns. *)

AllTodo == [a \in Algos |-> "todo"]

\* Mutant: a task that fails never signals the group.
ReturnedUnlessFailed(d, s) ==
  \/ up[d][s] \in {"off", "got"}
  \/ up[d][s] = "sums" /\ \A a \in Algos : sums[d][s][a] # "todo"

Returned(d, s) ==
  \/ up[d][s] \in {"off", "got", "failed"}
  \/ up[d][s] = "sums" /\ \A a \in Algos : sums[d][s][a] # "todo"

\* Mutant: the sidecars' errors are dropped.
FailedIgnoringSums(d, s) == up[d][s] = "failed"

Failed(d, s) ==
  \/ up[d][s] = "failed"
  \/ up[d][s] = "sums" /\ \E a \in Algos : sums[d][s][a] = "failed"

\* Mutant: only the prefetch is waited for.
WaitedForPrefetch(d) == Returned(d, "ameta") /\ Returned(d, "vmeta")

Waited(d) == \A s \in Slots : Returned(d, s)

\* Mutant: the group keeps only the error of the main artifact's task.
NoErrorOfMain(d) == ~ Failed(d, "main")

NoError(d) == \A s \in Slots : ~ Failed(d, s)

SetPhase(d, p) == phase' = [phase EXCEPT ![d] = p]
SetTask(d, s, t) == up' = [up EXCEPT ![d][s] = t]
SetSum(d, s, a, t) == sums' = [sums EXCEPT ![d][s][a] = t]

\* Deploy returns, or its process dies: of its locals only the resolved
\* version, which is part of the result, remains.
End(d, p) ==
  /\ SetPhase(d, p)
  /\ vdoc' = [vdoc EXCEPT ![d] = [NewVDoc EXCEPT !.stamp = vdoc[d].stamp]]
  /\ adoc' = [adoc EXCEPT ![d] = NewADoc]
  /\ up' = [up EXCEPT ![d] = [s \in Slots |-> "off"]]
  /\ sums' = [sums EXCEPT ![d] = [s \in Slots |-> AllTodo]]
  /\ UNCHANGED <<repoVars, args>>

-----------------------------------------------------------------------------
(* Starting a call.                                                        *)

Init ==
  /\ store = [l \in {} |-> NewADoc]
  /\ limbo = {}
  /\ lost = 0
  /\ phase = [d \in Deployers |-> "idle"]
  /\ req \in [Deployers -> Requests]
  /\ now \in [Deployers -> Times]
  /\ vdoc = [d \in Deployers |-> NewVDoc]
  /\ adoc = [d \in Deployers |-> NewADoc]
  /\ up = [d \in Deployers |-> [s \in Slots |-> "off"]]
  /\ sums = [d \in Deployers |-> [s \in Slots |-> AllTodo]]

\* An attachment may not take the main artifact's classifier-less name.
Accepts(r) ==
  \A s \in DOMAIN r.parts \cap AttSlots :
     ~ (r.parts[s].classifier = "" /\ r.parts[s].type = r.parts["main"].type)

\* The goroutines of the first group: every upload, and the prefetch.
StartFiles(d) ==
  up' = [up EXCEPT ![d] = [s \in Slots |->
           IF s \in DOMAIN Parts(d) THEN "body"
           ELSE IF s = "ameta" THEN "get" ELSE "off"]]

MayStart(d) ==
  /\ phase[d] = "idle"
  /\ Serial => \A e \in Deployers : ~ Running(e)

Reject(d) ==
  /\ MayStart(d)
  /\ ~ Accepts(req[d])
  /\ End(d, "err")

BeginRelease(d) ==
  /\ MayStart(d)
  /\ Accepts(req[d])
  /\ ~ IsSnapshot(d)
  /\ SetPhase(d, "files")
  /\ StartFiles(d)
  /\ UNCHANGED <<repoVars, args, vdoc, adoc, sums>>

BeginSnapshot(d) ==
  /\ MayStart(d)
  /\ Accepts(req[d])
  /\ IsSnapshot(d)
  /\ SetPhase(d, "resolve")
  /\ UNCHANGED <<repoVars, args, vdoc, adoc, up, sums>>

-----------------------------------------------------------------------------
(* Reading the metadata documents.                                         *)

\* The next build of the document, recorded in its snapshot block.
NextSnapshotVersion(doc, t) ==
  [doc EXCEPT !.stamp = [time |-> t, build |-> doc.stamp.build + 1]]

FetchVersionMeta(d) ==
  /\ phase[d] = "resolve"
  /\ vdoc' = [vdoc EXCEPT ![d] =
       NextSnapshotVersion(Fetched(VMetaLoc(Version(d)), NewVDoc), now[d])]
  /\ SetPhase(d, "files")
  /\ StartFiles(d)
  /\ UNCHANGED <<repoVars, args, adoc, sums>>

FetchVersionMetaFailed(d) ==
  /\ phase[d] = "resolve"
  /\ End(d, "err")

FetchArtMeta(d) ==
  /\ phase[d] = "files"
  /\ up[d]["ameta"] = "get"
  /\ adoc' = [adoc EXCEPT ![d] = Fetched(AMetaLoc, NewADoc)]
  /\ SetTask(d, "ameta", "got")
  /\ UNCHANGED <<repoVars, args, phase, vdoc, sums>>

FetchArtMetaFailed(d) ==
  /\ phase[d] = "files"
  /\ up[d]["ameta"] = "get"
  /\ SetTask(d, "ameta", "failed")
  /\ UNCHANGED <<repoVars, args, phase, vdoc, adoc, sums>>

-----------------------------------------------------------------------------
(* Uploading one slot: put of the body, then putChecksums.                 *)

BodyPending(d, s) == Running(d) /\ up[d][s] = "body"
SumPending(d, s, a) == Running(d) /\ up[d][s] = "sums" /\ sums[d][s][a] = "todo"

\* An attempt was applied and acknowledged.
PutBody(d, s) ==
  /\ BodyPending(d, s)
  /\ store' = Apply(store, Loc(d, s), Body(d, s))
  /\ SetTask(d, s, "sums")
  /\ UNCHANGED <<limbo, lost, phase, args, vdoc, adoc, sums>>

\* The server refused, or no attempt is left.
FailBody(d, s) ==
  /\ BodyPending(d, s)
  /\ SetTask(d, s, "failed")
  /\ UNCHANGED <<repoVars, args, phase, vdoc, adoc, sums>>

\* Mutant: a lost answer counts as a success.
LoseBodyAsDone(d, s) ==
  /\ BodyPending(d, s)
  /\ lost < MaxLost
  /\ lost' = lost + 1
  /\ limbo' = limbo \cup {[loc |-> Loc(d, s), body |-> Body(d, s)]}
  /\ SetTask(d, s, "sums")
  /\ UNCHANGED <<store, phase, args, vdoc, adoc, sums>>

\* An attempt got no answer: the client tries again or, out of attempts,
\* fails by FailBody.
LoseBody(d, s) ==
  /\ BodyPending(d, s)
  /\ lost < MaxLost
  /\ lost' = lost + 1
  /\ limbo' = limbo \cup {[loc |-> Loc(d, s), body |-> Body(d, s)]}
  /\ UNCHANGED <<store, phase, args, vdoc, adoc, up, sums>>

\* PutFile's digest pass could not read the file that was just uploaded.
HashFailed(d, s) ==
  /\ phase[d] = "files"
  /\ s \in FileSlots \ {"pom"}
  /\ up[d][s] = "sums"
  /\ sums[d][s] = AllTodo
  /\ SetTask(d, s, "failed")
  /\ UNCHANGED <<repoVars, args, phase, vdoc, adoc, sums>>

PutSum(d, s, a) ==
  /\ SumPending(d, s, a)
  /\ store' = Apply(store, SumLoc(Loc(d, s), a), Body(d, s))
  /\ SetSum(d, s, a, "ok")
  /\ UNCHANGED <<limbo, lost, phase, args, vdoc, adoc, up>>

FailSum(d, s, a) ==
  /\ SumPending(d, s, a)
  /\ SetSum(d, s, a, "failed")
  /\ UNCHANGED <<repoVars, args, phase, vdoc, adoc, up>>

LoseSum(d, s, a) ==
  /\ SumPending(d, s, a)
  /\ lost < MaxLost
  /\ lost' = lost + 1
  /\ limbo' = limbo \cup {[loc |-> SumLoc(Loc(d, s), a), body |-> Body(d, s)]}
  /\ UNCHANGED <<store, phase, args, vdoc, adoc, up, sums>>

\* A write whose attempt was given up reaches the repository after all.
Land(w) ==
  /\ w \in limbo
  /\ store' = Apply(store, w.loc, w.body)
  /\ limbo' = limbo \ {w}
  /\ UNCHANGED <<lost, phase, args, vdoc, adoc, up, sums>>

-----------------------------------------------------------------------------
(* The two Waits, and the metadata writes between them.                    *)

\* Mutant: an entry that exists is not replaced.
MergeOnlyNew(doc, keys) ==
  [doc EXCEPT !.entries = [k \in Keys |->
     IF k \in keys \ Listed(doc) THEN doc.stamp ELSE doc.entries[k]]]

\* Mutant: the entries of other classifiers are dropped.
MergeOverwrites(doc, keys) ==
  [doc EXCEPT !.entries = [k \in Keys |->
     IF k \in keys THEN doc.stamp ELSE Literal]]

\* Every uploaded file replaces the entry of its classifier and extension;
\* the other entries stay.
MergeSnapshotVersions(doc, keys) ==
  [doc EXCEPT !.entries = [k \in Keys |->
     IF k \in keys THEN doc.stamp ELSE doc.entries[k]]]

\* Mutant: the list starts afresh.
UpdateForgets(doc, v) ==
  [versions |-> {v}, release |-> IF v \in Snapshots THEN doc.release ELSE v]

UpdateArtifactMetadata(doc, v) ==
  [versions |-> doc.versions \cup {v},
   release  |-> IF v \in Snapshots THEN doc.release ELSE v]

\* files.Wait returned no error.
StartMeta(d) ==
  /\ phase[d] = "files"
  /\ Waited(d)
  /\ NoError(d)
  /\ SetPhase(d, "meta")
  /\ vdoc' = [vdoc EXCEPT ![d] =
       IF IsSnapshot(d) THEN MergeSnapshotVersions(@, PartKeys(d)) ELSE @]
  /\ adoc' = [adoc EXCEPT ![d] = UpdateArtifactMetadata(@, Version(d))]
  /\ up' = [up EXCEPT ![d] = [s \in Slots |->
       IF s = "ameta" \/ (s = "vmeta" /\ IsSnapshot(d)) THEN "body"
       ELSE up[d][s]]]
  /\ UNCHANGED <<repoVars, args, sums>>

FilesErr(d) ==
  /\ phase[d] = "files"
  /\ Waited(d)
  /\ ~ NoError(d)
  /\ End(d, "err")

MetaOK(d) ==
  /\ phase[d] = "meta"
  /\ Waited(d)
  /\ NoError(d)
  /\ End(d, "ok")

MetaErr(d) ==
  /\ phase[d] = "meta"
  /\ Waited(d)
  /\ ~ NoError(d)
  /\ End(d, "err")

\* The process dies; what it had sent stays in the repository or in limbo.
Crash(d) ==
  /\ Running(d)
  /\ End(d, "crashed")

-----------------------------------------------------------------------------
Begin(d) == Reject(d) \/ BeginRelease(d) \/ BeginSnapshot(d)

Slot(d, s) ==
  \/ PutBody(d, s) \/ FailBody(d, s) \/ LoseBody(d, s) \/ HashFailed(d, s)
  \/ \E a \in Algos : PutSum(d, s, a) \/ FailSum(d, s, a) \/ LoseSum(d, s, a)

\* What the goroutines of a running call do.
Step(d) ==
  \/ FetchVersionMeta(d) \/ FetchVersionMetaFailed(d)
  \/ FetchArtMeta(d) \/ FetchArtMetaFailed(d)
  \/ \E s \in Slots : Slot(d, s)
  \/ StartMeta(d) \/ FilesErr(d) \/ MetaOK(d) \/ MetaErr(d)

\* Every call has returned, or died, and the program stops.
Stopped ==
  /\ \A d \in Deployers : phase[d] \in {"ok", "err", "crashed"}
  /\ limbo = {}
  /\ UNCHANGED vars

Next ==
  \/ \E d \in Deployers : Begin(d) \/ Step(d) \/ Crash(d)
  \/ \E w \in limbo : Land(w)
  \/ Stopped

Spec == Init /\ [][Next]_vars

\* Go schedules every goroutine, and an HTTP request ends.  A caller need not
\* make a call, a process need not crash, a lost write need not land.
FairSpec == Spec /\ \A d \in Deployers : WF_vars(Step(d))

-----------------------------------------------------------------------------
(* Types.                                                                  *)

FileLocs == [kind : {"file"}, version : Versions, stamp : Stamps, key : Keys]
VMetaLocs == [kind : {"vmeta"}, version : Versions]
BodyLocs == FileLocs \cup VMetaLocs \cup {AMetaLoc}
SumLocs == [kind : {"sum"}, of : BodyLocs, algo : Algos]

\* A location holds the kind of body its name promises.
Fits(l, b) ==
  \/ l \in FileLocs /\ b \in FileBodies
  \/ l \in VMetaLocs /\ b \in VDocs
  \/ l = AMetaLoc /\ b \in ADocs

FitsSum(l, b) == l \in SumLocs /\ Fits(l.of, b)

\* Every variable has its type; in particular every location of the
\* repository, and every late write, holds the kind of body its name promises
\* (PutBytes, PutFile and putMetadata are never given each other's paths).
TypeOK ==
  /\ \A l \in DOMAIN store : Fits(l, store[l]) \/ FitsSum(l, store[l])
  /\ \A w \in limbo : Fits(w.loc, w.body) \/ FitsSum(w.loc, w.body)
  /\ lost \in 0 .. MaxLost
  /\ phase \in [Deployers -> Phases]
  /\ req \in [Deployers -> Requests]
  /\ now \in [Deployers -> Times]
  /\ vdoc \in [Deployers -> VDocs]
  /\ adoc \in [Deployers -> ADocs]
  /\ up \in [Deployers -> [Slots -> TaskStates]]
  /\ sums \in [Deployers -> [Slots -> [Algos -> {"todo", "ok", "failed"}]]]

-----------------------------------------------------------------------------
(* Safety.                                                                 *)

\* The body and all its checksum sidecars are in the repository.
Landed(l) ==
  /\ l \in DOMAIN store
  /\ \A a \in Algos : SumLoc(l, a) \in DOMAIN store

DocLanded(v, doc) ==
  \A k \in Listed(doc) : Landed(FileLoc(v, doc.entries[k], k))

VersionLanded(v) ==
  \E l \in DOMAIN store :
     /\ l.kind = "file" /\ l.version = v
     /\ l.stamp = Literal <=> v \notin Snapshots
     /\ Landed(l)

\* "Metadata is only written after every file it references has landed"
\* (Deploy's comment): whatever calls interleave, crash, fail or are applied
\* late, every file that the published version-level metadata resolves to is
\* in the repository with its sidecars, those merged from earlier builds too.
MetadataRefersToLanded ==
  \A v \in Snapshots :
     VMetaLoc(v) \in DOMAIN store => DocLanded(v, store[VMetaLoc(v)])

\* The same for the artifact-level list: a listed version has a landed file
\* (a timestamped one for a SNAPSHOT), and the release is a listed version
\* that is no SNAPSHOT.
ListedVersionsLanded ==
  AMetaLoc \in DOMAIN store =>
    LET doc == store[AMetaLoc] IN
    /\ \A v \in doc.versions : VersionLanded(v)
    /\ doc.release # NoVersion => doc.release \in doc.versions \ Snapshots

DocCoherent(doc) ==
  /\ \E k \in Listed(doc) : doc.entries[k] = doc.stamp
  /\ \A k \in Listed(doc) :
       \/ doc.entries[k] = doc.stamp
       \/ doc.entries[k].build < doc.stamp.build

\* A published version-level document was assembled by one call from one
\* document: its snapshot block names a build some entry resolves to, and
\* every other entry is of an earlier build.  nextSnapshotVersion sets the
\* block long before mergeSnapshotVersions adds the entries, and other calls
\* read and write in between.
PublishedDocsCoherent ==
  \A v \in Snapshots :
     VMetaLoc(v) \in DOMAIN store => DocCoherent(store[VMetaLoc(v)])

\* No slot of any call that got that far is uploaded to the same location.
Exclusive(d, s) ==
  \A e \in Deployers, t \in FileSlots :
     t \in DOMAIN Parts(e) /\ <<e, t>> # <<d, s>> =>
       FileLoc(Version(e), vdoc[e].stamp, Parts(e)[t]) # Loc(d, s)

\* A call that returned no error left in the repository, at every location
\* that is its own, its own file and the digests of that file, and both
\* metadata documents with their sidecars: no error of a task is dropped
\* between the goroutines and the result.
SuccessMeansPublished ==
  \A d \in Deployers : phase[d] = "ok" =>
    /\ \A s \in DOMAIN Parts(d) : Exclusive(d, s) =>
         /\ Landed(Loc(d, s))
         /\ store[Loc(d, s)] = Body(d, s)
         /\ \A a \in Algos : store[SumLoc(Loc(d, s), a)] = Body(d, s)
    /\ Landed(AMetaLoc)
    /\ IsSnapshot(d) => Landed(VMetaLoc(Version(d)))

\* Deploys run one after another never forget a success: the version stays
\* listed, and each classifier/extension the call deployed keeps resolving to
\* its build or a later one, even when later calls fail or die half way.
SuccessesStayListed ==
  \A d \in Deployers : phase[d] = "ok" =>
    /\ Version(d) \in store[AMetaLoc].versions
    /\ IsSnapshot(d) =>
         \A k \in PartKeys(d) :
            /\ k \in Listed(store[VMetaLoc(Version(d))])
            /\ store[VMetaLoc(Version(d))].entries[k].build >= vdoc[d].stamp.build

-----------------------------------------------------------------------------
(* Action properties and liveness.                                         *)

Verifies(d, s) ==
  /\ Landed(Loc(d, s))
  /\ store[Loc(d, s)] = Body(d, s)
  /\ \A a \in Algos : store[SumLoc(Loc(d, s), a)] = Body(d, s)

\* When deploys run one after another and no answer is lost, at the moment a
\* call returns success every file and document it uploaded, sidecars
\* included, is exactly what it uploaded, also after an earlier call failed
\* between a body and its sidecars.
SuccessVerifies ==
  [][\A d \in Deployers : phase[d] = "meta" /\ phase'[d] = "ok" =>
       \A s \in Slots : up[d][s] # "off" => Verifies(d, s)]_vars

\* A call that began returns: no goroutine of it waits forever, whatever
\* fails, as long as goroutines run and requests end.
Returns ==
  \A d \in Deployers : Running(d) ~> ~ Running(d)

-----------------------------------------------------------------------------
(* What comments and tests of the repository say and the code does not do. *)

\* deploy.go: "Concurrent deploys of the same GAV race on the metadata
\* read-modify-write": deploys of different versions should then not lose
\* each other's version-list entry.
OtherVersionsDoNotRace ==
  \A d \in Deployers :
    /\ phase[d] = "ok"
    /\ \A e \in Deployers \ {d} : Version(e) # Version(d)
    => Version(d) \in store[AMetaLoc].versions

-----------------------------------------------------------------------------
(* What readers of the metadata see.                                       *)

Published == INSTANCE Catalog WITH
  builds  <- [v \in Snapshots |-> Fetched(VMetaLoc(v), NewVDoc)],
  listed  <- Fetched(AMetaLoc, NewADoc).versions,
  release <- Fetched(AMetaLoc, NewADoc).release

\* Deploys run one after another, with no answer lost, implement the catalog:
\* each document that becomes visible is the next one, made from the last one
\* published, through failures and crashes at any step.
ImplementsCatalog == Published!Spec

=============================================================================
