------------------------------- MODULE Fetch -------------------------------
(***************************************************************************)
(* The walk over the effective repositories that goven get                 *)
(* (Client.FetchArtifact), goven exists (runExists, Client.Exists) and     *)
(* goven latest (runLatest) make, while deploys go on in the repositories. *)
(*                                                                         *)
(* The walk reads a SNAPSHOT's metadata first and asks for the file that   *)
(* it names afterwards; a deploy may come in between.  Each request is     *)
(* answered from the repository's state at some moment, or fails.          *)
(*                                                                         *)
(* A deploy reads the metadata first and writes it last, and several of    *)
(* them race (Deploy, deploy.go): one that read the document before        *)
(* another wrote it takes back what that one listed.                       *)
(***************************************************************************)
EXTENDS Naturals, FiniteSets

CONSTANTS
  N,            \* how many repositories the settings give
  MaxBuild,     \* bound on the builds of the SNAPSHOT
  MaxDeploys,   \* bound on the deploys under way in a repository
  Ahead         \* bound on the repositories after the one being asked in which
                \* deploys take their steps meanwhile

ASSUME FetchAssumption ==
  N \in Nat /\ MaxBuild \in Nat /\ MaxDeploys \in Nat /\ Ahead \in Nat

Repos == 1 .. N

\* File names of the artifact: builds, in the order of their numbers and times;
\* 0 for the version as written.
\* For `latest', 0 stands for the artifact-level metadata.
Names == 0 .. MaxBuild
Literal == 0

\* Version-level metadata as seen by one classifier and extension: the build
\* of the <snapshot> block and that of the file's own entry, 0 if missing.
Docs == [stamp : Names, entry : Names]
NoDoc == [stamp |-> 0, entry |-> 0]

\* A deploy under way: the name it gives its files, and the document it read.
Deploys == [name : Names, read : Docs]

VARIABLES
  files,      \* the names under which each repository holds the artifact
  doc,        \* its version-level metadata, NoDoc when there is none
  deploying,  \* the deploys under way in it
  op, kind,   \* the command and the kind of artifact it is about
  allowed,    \* the repositories whose policy allows that kind
  at,         \* the repository being asked
  pc,
  resolved,   \* the file name the metadata gave
  errs,       \* how each repository failed the walk
  verdict,
  start,      \* history: the entries when the walk began, and the repositories
              \* that held the file their document named
  overtaken   \* history: the repositories in which since then, before the walk
              \* read the document, a deploy wrote one made of a document that was
              \* no longer current, or that had no entry for the file

repoVars == <<files, doc, deploying, overtaken>>
query == <<op, kind, allowed, start>>
walk == <<at, pc, resolved, errs, verdict>>
vars == <<files, doc, deploying, op, kind, allowed, at, pc, resolved, errs, verdict, start, overtaken>>

\* What deploys leave, racing or not: the block has the build of the document's
\* writer, or an older one of the entry's, whose file is there.
Consistent(fs, m) ==
  /\ m.entry <= m.stamp
  /\ m.entry # 0 => m.entry \in fs

\* Mutant: the <snapshot> block is preferred.
ResolveByBlock(m) == IF m.stamp # 0 THEN m.stamp ELSE m.entry

\* The file's own entry, else the <snapshot> block, else the literal name.
ResolveSnapshotVersion(m) == IF m.entry # 0 THEN m.entry ELSE m.stamp

Init ==
  /\ op \in {"get", "exists", "latest"}
  /\ kind \in (IF op = "latest" THEN {"release"} ELSE {"release", "snapshot"})
  /\ files \in [Repos -> SUBSET (IF kind = "release" THEN {Literal} ELSE Names)]
  /\ doc \in [Repos -> IF kind = "release" THEN {NoDoc} ELSE Docs]
  \* a deploy may have been under way since before the document was written
  /\ deploying \in [Repos -> {{}} \cup (IF kind = "release" THEN {} ELSE {{d} : d \in Deploys})]
  /\ \A r \in Repos :
       /\ Consistent(files[r], doc[r])
       /\ \A d \in deploying[r] :
            d.name > d.read.stamp /\ Consistent(files[r], d.read) /\ d.read # doc[r]
  \* where there is metadata, the literal name is not asked for
  /\ \A r \in Repos : doc[r] # NoDoc => Literal \notin files[r]
  \* latest asks every repository, and what the others hold does not matter
  /\ allowed \in (IF op = "latest" THEN {Repos} ELSE SUBSET Repos)
  /\ \A r \in Repos \ allowed : files[r] = {} /\ doc[r] = NoDoc /\ deploying[r] = {}
  /\ at = 1
  /\ pc = "next"
  /\ resolved = Literal
  /\ errs = [r \in Repos |-> "none"]
  /\ verdict = "none"
  /\ start = [entry |-> [r \in Repos |-> doc[r].entry],
              offers |-> {r \in Repos : ResolveSnapshotVersion(doc[r]) \in files[r]}]
  /\ overtaken = {}

-----------------------------------------------------------------------------
(* Deploys in the repositories, as seen by the walk: the file lands before *)
(* the metadata that lists it (module Deploy proves it of goven's own).    *)

\* Deploy reads the document, and names its files after a newer build.
BeginDeploy(r) ==
  /\ kind = "snapshot"
  /\ Cardinality(deploying[r]) < MaxDeploys
  /\ \E n \in Names :
       /\ n > doc[r].stamp
       /\ deploying' = [deploying EXCEPT ![r] = @ \cup {[name |-> n, read |-> doc[r]]}]
  /\ UNCHANGED <<files, doc, overtaken, query, walk>>

\* The file lands, if the deploy has one of this classifier and extension.
PublishFile(r, d) ==
  /\ files' = [files EXCEPT ![r] = @ \cup {d.name}]
  /\ UNCHANGED <<doc, deploying, overtaken, query, walk>>

\* A release, or a SNAPSHOT that another tool deploys under its literal name.
PublishLiteral(r) ==
  /\ doc[r] = NoDoc
  /\ files' = [files EXCEPT ![r] = @ \cup {Literal}]
  /\ UNCHANGED <<doc, deploying, overtaken, query, walk>>

\* The walk has yet to read the document.
Unread(r) == at < r \/ (at = r /\ pc = "next")

Writes(r, d, entry) ==
  /\ doc' = [doc EXCEPT ![r] = [stamp |-> d.name, entry |-> entry]]
  /\ deploying' = [deploying EXCEPT ![r] = @ \ {d}]
  /\ overtaken' = overtaken \cup {s \in {r} : Unread(r) /\ (d.read # doc[r] \/ d.read.entry = 0)}
  /\ UNCHANGED <<files, query, walk>>

\* Mutant: the metadata does not wait for the file.
PublishDocEarly(r, d) == Writes(r, d, d.name)

\* The document, made of the one it read: with its file's entry or, when it
\* has other classifiers only, with the entry there was.
PublishDoc(r, d) ==
  \E entry \in {d.read.entry} \cup ({d.name} \cap files[r]) : Writes(r, d, entry)

-----------------------------------------------------------------------------
(* The walk.                                                               *)

Asking(r, p) == verdict = "none" /\ at \in Repos /\ r = at /\ pc = p

\* Mutant: a repository that fails is asked for the release again.
GoOnRetries(r, err) ==
  /\ errs' = [errs EXCEPT ![r] = err]
  /\ at' = IF err = "error" /\ kind = "release" THEN at ELSE at + 1
  /\ pc' = "next"
  /\ UNCHANGED <<repoVars, query, resolved, verdict>>

\* Go on with the next repository, noting how this one failed.
GoOn(r, err) ==
  /\ errs' = [errs EXCEPT ![r] = err]
  /\ at' = at + 1
  /\ pc' = "next"
  /\ UNCHANGED <<repoVars, query, resolved, verdict>>

Skip(r) ==
  /\ Asking(r, "next")
  /\ r \notin allowed
  /\ GoOn(r, "none")

ResolveVersion(r) ==
  /\ Asking(r, "next")
  /\ r \in allowed
  /\ resolved' = IF kind = "release" THEN Literal
                 ELSE ResolveSnapshotVersion(doc[r])
  /\ pc' = "file"
  /\ UNCHANGED <<repoVars, query, at, errs, verdict>>

\* The metadata request failed, or its answer did not parse: every command
\* asks the next repository.
ResolveFailed(r) ==
  /\ Asking(r, "next")
  /\ r \in allowed
  /\ kind = "snapshot"
  /\ GoOn(r, "error")

Found(r) ==
  /\ Asking(r, "file")
  /\ resolved \in files[r]
  /\ verdict' = "found"
  /\ UNCHANGED <<repoVars, query, at, pc, resolved, errs>>

Absent(r) ==
  /\ Asking(r, "file")
  /\ resolved \notin files[r]
  /\ GoOn(r, "absent")

\* The request for the file failed, or its checksum did: exists and latest
\* ask the next repository, get stops.
RequestFailed(r) ==
  /\ Asking(r, "file")
  /\ op # "get"
  /\ GoOn(r, "error")

\* Mutant: get tries the next repository after any error.
DownloadFailedGoesOn(r) ==
  /\ Asking(r, "file")
  /\ op = "get"
  /\ GoOn(r, "error")

DownloadFailed(r) ==
  /\ Asking(r, "file")
  /\ op = "get"
  /\ errs' = [errs EXCEPT ![r] = "error"]
  /\ verdict' = "error"
  /\ UNCHANGED <<repoVars, query, at, pc, resolved>>

Failures == {r \in Repos : errs[r] = "error"}

\* Mutant: the errors of earlier repositories are forgotten.
ExhaustedSilently ==
  /\ verdict = "none" /\ at = N + 1
  /\ verdict' = "notfound"
  /\ UNCHANGED <<repoVars, query, at, pc, resolved, errs>>

\* No repository is left.  After any failure the command reports that, and
\* "not found" otherwise; it exits with the same status.
Exhausted ==
  /\ verdict = "none" /\ at = N + 1
  /\ verdict' = IF Failures # {} THEN "error" ELSE "notfound"
  /\ UNCHANGED <<repoVars, query, at, pc, resolved, errs>>

Step ==
  \/ \E r \in Repos :
       \/ Skip(r) \/ ResolveVersion(r) \/ ResolveFailed(r)
       \/ Found(r) \/ Absent(r) \/ RequestFailed(r) \/ DownloadFailed(r)
  \/ Exhausted

\* What happens in a repository that the walk does not ask, or has left, does not
\* matter to it.
Environment(r) ==
  \/ BeginDeploy(r) \/ PublishLiteral(r)
  \/ \E d \in deploying[r] : PublishFile(r, d) \/ PublishDoc(r, d)

Stopped == verdict # "none" /\ UNCHANGED vars

Next ==
  \/ Step
  \/ \E r \in Repos : verdict = "none" /\ r \in at .. at + Ahead /\ Environment(r)
  \/ Stopped

Spec == Init /\ [][Next]_vars

\* Requests end, and the walk is one goroutine that is never blocked.
FairSpec == Spec /\ WF_vars(Step)

-----------------------------------------------------------------------------
\* Every variable has its type, and the repositories stay as deploys leave
\* them, whatever deploys race: an entry of the metadata, and of a document that
\* a deploy has read and may write back, names a file that is there.
TypeOK ==
  /\ files \in [Repos -> SUBSET Names]
  /\ doc \in [Repos -> Docs]
  /\ deploying \in [Repos -> SUBSET Deploys]
  /\ \A r \in Repos :
       /\ Consistent(files[r], doc[r])
       /\ \A d \in deploying[r] : d.name > d.read.stamp /\ Consistent(files[r], d.read)
  /\ at \in 1 .. N + 1
  /\ pc \in {"next", "file"}
  /\ resolved \in Names
  /\ errs \in [Repos -> {"none", "absent", "error"}]
  /\ verdict \in {"none", "found", "notfound", "error"}
  /\ overtaken \subseteq Repos

\* What a repository offered when the walk began: a file of the name that its
\* metadata gave the artifact, which without metadata is the literal one.
Offered(r) == r \in allowed \cap start.offers

\* "Not found" means that every repository asked that offered the artifact when
\* the command started has been overtaken: neither a failed request nor a deploy
\* between the metadata and the file makes it look absent, and deploys that do
\* not race hide nothing that the metadata lists.
NotFoundMeansAbsent ==
  verdict = "notfound" => \A r \in Repos : Offered(r) => r \in overtaken

\* goven get of a release is shadowed by no later repository: the one it
\* took is the first that has it, even when requests fail.
ReleaseFromFirst ==
  verdict = "found" /\ op = "get" /\ kind = "release" =>
    \A r \in 1 .. at - 1 : ~ Offered(r)

\* A SNAPSHOT a repository listed when the walk began resolves to a build of
\* it at least as new, whatever deploys do between the metadata and the file,
\* unless one wrote back a document from which another had moved on.
SnapshotIsCurrent ==
  pc = "file" /\ kind = "snapshot" /\ start.entry[at] # 0 /\ at \notin overtaken =>
    /\ resolved >= start.entry[at]
    /\ resolved \in files[at]

\* The walk ends with a verdict.
Ends == <>(verdict # "none")

\* client.go: "FetchArtifact downloads the artifact from the first repository
\* in repos that has it", SNAPSHOTs too.
FetchesFromFirst ==
  verdict = "found" /\ op = "get" =>
    \A r \in 1 .. at - 1 : ~ Offered(r)

=============================================================================
