---------------------------- MODULE FetchProofs ----------------------------
(***************************************************************************)
(* Theorems about Fetch, for any number of repositories and of builds:     *)
(* what "not found" means, where a release comes from, and how recent a    *)
(* SNAPSHOT is.                                                            *)
(***************************************************************************)
EXTENDS Fetch, TLAPS

USE FetchAssumption DEF Repos, Names, Literal, Docs, NoDoc, Deploys

\* What the command was asked, and what the repositories held then.
Asked ==
  /\ op \in {"get", "exists", "latest"}
  /\ kind \in {"release", "snapshot"}
  /\ allowed \subseteq Repos
  /\ start.entry \in [Repos -> Names]

\* Nothing rewrites a release.
Releases ==
  kind = "release" =>
    /\ overtaken = {}
    /\ \A r \in Repos : deploying[r] = {} /\ (r \in start.offers => Literal \in files[r])

\* Until the walk reads it, and while no deploy has overtaken another, the
\* metadata lists no older build than at the start, and names a file that is
\* there if it did then.
Listed(r) ==
  Unread(r) /\ r \notin overtaken =>
    /\ start.entry[r] <= doc[r].entry
    /\ r \in start.offers => ResolveSnapshotVersion(doc[r]) \in files[r]

\* The repository whose file is asked for is one to ask, and what it offered
\* is there under the name the walk asks for.
AskingRight ==
  pc = "file" =>
    /\ at \in Repos
    /\ Offered(at) /\ at \notin overtaken => resolved \in files[at]

\* A repository the walk has left behind, though it offered the artifact, is
\* remembered as a failure.
LeftBehind ==
  \A r \in Repos : r < at /\ Offered(r) /\ r \notin overtaken => errs[r] = "error"

\* goven get of a release goes on after no failure.
GetStops ==
  op = "get" /\ kind = "release" /\ verdict # "error" =>
    \A r \in Repos : errs[r] # "error"

Exhaustive == verdict = "notfound" => at = N + 1 /\ Failures = {}

WalkInv ==
  /\ TypeOK /\ Asked /\ Releases /\ (\A r \in Repos : Listed(r))
  /\ SnapshotIsCurrent /\ AskingRight /\ LeftBehind /\ GetStops /\ Exhaustive

-----------------------------------------------------------------------------
LEMMA WalkInit == Init => WalkInv
<1> SUFFICES ASSUME Init PROVE WalkInv
  OBVIOUS
<1>1. files \in [Repos -> SUBSET Names] /\ doc \in [Repos -> Docs]
      /\ deploying \in [Repos -> SUBSET Deploys]
  <2>1. CASE kind = "release"
    BY <2>1 DEF Init
  <2>2. CASE kind # "release"
    BY <2>2 DEF Init
  <2>3. QED
    BY <2>1, <2>2
<1>2. TypeOK /\ Asked
  BY <1>1 DEF Init, TypeOK, Asked
<1>3. Releases
  <2>1. ASSUME kind = "release", NEW r \in Repos
        PROVE  deploying[r] = {} /\ doc[r] = [stamp |-> 0, entry |-> 0]
    BY <2>1 DEF Init
  <2>2. QED
    BY <2>1 DEF Init, Releases, ResolveSnapshotVersion
<1>4. ASSUME NEW r \in Repos PROVE Listed(r)
  BY <1>1 DEF Init, Listed
<1>5. QED
  BY <1>2, <1>3, <1>4 DEF Init, WalkInv, SnapshotIsCurrent, AskingRight, LeftBehind, GetStops,
                    Exhaustive

\* What a deploy does to the repositories while the walk stands still.
Meanwhile ==
  /\ \A r \in Repos : files[r] \subseteq files'[r]
  /\ overtaken \subseteq overtaken'
  /\ \A r \in Repos :
       Unread(r) /\ r \notin overtaken' =>
         /\ doc[r].entry <= doc'[r].entry
         /\ ResolveSnapshotVersion(doc[r]) \in files[r] =>
              ResolveSnapshotVersion(doc'[r]) \in files'[r]
  /\ kind = "release" => UNCHANGED <<deploying, overtaken>>
  /\ UNCHANGED <<query, walk>>

\* An entry of the metadata, and of what deploys have read of it, names a file
\* that is there.
Backed(r) ==
  /\ Consistent(files[r], doc[r])
  /\ \A d \in deploying[r] : d.name > d.read.stamp /\ Consistent(files[r], d.read)

\* A file that lands takes nothing away.
LEMMA LandsStep ==
  ASSUME NEW r \in Repos, NEW n \in Names, TypeOK,
         files' = [files EXCEPT ![r] = @ \cup {n}],
         UNCHANGED <<doc, deploying, overtaken, query, walk>>
  PROVE  TypeOK' /\ Meanwhile
<1>1. files' \in [Repos -> SUBSET Names] /\ \A s \in Repos : files[s] \subseteq files'[s]
  BY DEF TypeOK
<1>2. ASSUME NEW s \in Repos PROVE Backed(s)'
  BY <1>1 DEF TypeOK, Consistent, Backed
<1>3. TypeOK'
  BY <1>1, <1>2 DEF TypeOK, Backed, walk
<1>4. ASSUME NEW s \in Repos PROVE doc[s].entry <= doc'[s].entry
  <2>1. doc[s].entry \in Nat
    BY DEF TypeOK
  <2>2. QED
    BY <2>1
<1>5. QED
  BY <1>1, <1>3, <1>4 DEF Meanwhile

LEMMA BeginStep ==
  ASSUME NEW r \in Repos, TypeOK, BeginDeploy(r)
  PROVE  TypeOK' /\ Meanwhile
<1>1. PICK n \in Names :
        /\ n > doc[r].stamp
        /\ deploying' = [deploying EXCEPT ![r] = @ \cup {[name |-> n, read |-> doc[r]]}]
  BY DEF BeginDeploy
<1>2. [name |-> n, read |-> doc[r]] \in Deploys
  BY DEF TypeOK
<1>3. deploying' \in [Repos -> SUBSET Deploys]
  BY <1>1, <1>2 DEF TypeOK
<1>4. ASSUME NEW s \in Repos PROVE Backed(s)'
  BY <1>1 DEF BeginDeploy, TypeOK, Backed
<1>5. TypeOK'
  BY <1>3, <1>4 DEF BeginDeploy, TypeOK, Backed, walk
<1>6. ASSUME NEW s \in Repos PROVE doc[s].entry <= doc'[s].entry
  <2>1. doc[s].entry \in Nat
    BY DEF TypeOK
  <2>2. QED
    BY <2>1 DEF BeginDeploy
<1>7. QED
  BY <1>5, <1>6 DEF BeginDeploy, Meanwhile

\* The document a deploy writes has an entry it read or its own; unless it is
\* overtaken, what it read is what there was.
LEMMA PublishDocStep ==
  ASSUME NEW r \in Repos, NEW d \in deploying[r], TypeOK, Releases, PublishDoc(r, d)
  PROVE  TypeOK' /\ Meanwhile
<1>1. PICK with \in {d.read.entry} \cup ({d.name} \cap files[r]) : Writes(r, d, with)
  BY DEF PublishDoc
<1> DEFINE m == [stamp |-> d.name, entry |-> with]
<1>2. d \in Deploys /\ d.name \in Nat /\ d.read.stamp \in Nat /\ d.read.entry \in Nat
  BY DEF TypeOK
<1>3. d.name > d.read.stamp /\ d.read.entry <= d.read.stamp
      /\ (d.read.entry # 0 => d.read.entry \in files[r])
  BY DEF TypeOK, Consistent
<1>4. with \in Names /\ d.read.entry <= with /\ with <= d.name
      /\ (with # 0 => with \in files[r])
  BY <1>1, <1>2, <1>3
<1>5. m \in Docs /\ Consistent(files[r], m)
  BY <1>2, <1>4 DEF Consistent
<1>6. /\ doc' = [doc EXCEPT ![r] = m]
      /\ deploying' = [deploying EXCEPT ![r] = @ \ {d}]
      /\ UNCHANGED <<files, query, walk>>
  BY <1>1 DEF Writes
<1>7. /\ overtaken \subseteq overtaken' /\ overtaken' \subseteq Repos
      /\ Unread(r) /\ r \notin overtaken' => d.read = doc[r] /\ d.read.entry # 0
  BY <1>1 DEF Writes, TypeOK
<1> HIDE DEF m
<1>8. TypeOK'
  <2>1. doc' \in [Repos -> Docs] /\ deploying' \in [Repos -> SUBSET Deploys]
    BY <1>5, <1>6 DEF TypeOK
  <2>2. ASSUME NEW s \in Repos PROVE Backed(s)'
    BY <1>5, <1>6 DEF TypeOK, Backed
  <2>3. QED
    BY <1>6, <1>7, <2>1, <2>2 DEF TypeOK, Backed, walk
<1>9. ASSUME NEW s \in Repos, Unread(s), s \notin overtaken'
      PROVE  /\ doc[s].entry <= doc'[s].entry
             /\ ResolveSnapshotVersion(doc[s]) \in files[s] =>
                  ResolveSnapshotVersion(doc'[s]) \in files'[s]
  <2>1. CASE s = r
    <3>1. doc'[r] = m /\ m.entry = with
      BY <1>6 DEF TypeOK, m
    <3>2. doc[r].entry <= with /\ with # 0
      BY <1>2, <1>4, <1>7, <1>9, <2>1
    <3>3. QED
      BY <1>4, <1>6, <2>1, <3>1, <3>2 DEF ResolveSnapshotVersion
  <2>2. CASE s # r
    <3>1. doc[s].entry \in Nat
      BY DEF TypeOK
    <3>2. doc'[s] = doc[s] /\ files' = files
      BY <1>6, <2>2 DEF TypeOK
    <3>3. QED
      BY <3>1, <3>2
  <2>3. QED
    BY <2>1, <2>2
<1>10. kind # "release"
  BY DEF Releases
<1>11. QED
  BY <1>6, <1>7, <1>8, <1>9, <1>10 DEF Meanwhile

\* The steps of deploys, and of whoever publishes under the literal name.
LEMMA EnvironmentStep ==
  ASSUME NEW r \in Repos, TypeOK, Releases, Environment(r)
  PROVE  TypeOK' /\ Meanwhile
<1>1. CASE BeginDeploy(r)
  BY <1>1, BeginStep
<1>2. CASE PublishLiteral(r)
  <2>1. 0 \in Names
    OBVIOUS
  <2>2. QED
    BY <1>2, <2>1, LandsStep DEF PublishLiteral
<1>3. ASSUME NEW d \in deploying[r], PublishFile(r, d) PROVE TypeOK' /\ Meanwhile
  <2>1. d.name \in Names
    BY DEF TypeOK
  <2>2. QED
    BY <1>3, <2>1, LandsStep DEF PublishFile
<1>4. ASSUME NEW d \in deploying[r], PublishDoc(r, d) PROVE TypeOK' /\ Meanwhile
  BY <1>4, PublishDocStep
<1>5. QED
  BY <1>1, <1>2, <1>3, <1>4 DEF Environment

\* Nothing the walk knows is undone meanwhile.
LEMMA MeanwhileKeeps == WalkInv /\ TypeOK' /\ Meanwhile => WalkInv'
<1> SUFFICES ASSUME WalkInv, TypeOK', Meanwhile PROVE WalkInv'
  OBVIOUS
<1> USE DEF Meanwhile, query, walk
<1>1. Asked' /\ LeftBehind' /\ GetStops' /\ Exhaustive'
  BY DEF WalkInv, Asked, LeftBehind, Offered, GetStops, Exhaustive, Failures
<1>2. Releases'
  BY DEF WalkInv, Releases
<1>3. ASSUME NEW r \in Repos PROVE Listed(r)'
  <2> SUFFICES ASSUME Unread(r), r \notin overtaken'
               PROVE  /\ start.entry[r] <= doc'[r].entry
                      /\ r \in start.offers => ResolveSnapshotVersion(doc'[r]) \in files'[r]
    BY DEF Listed, Unread
  <2>1. start.entry[r] \in Nat /\ doc[r].entry \in Nat /\ doc'[r].entry \in Nat
    <3>1. doc[r] \in Docs /\ doc'[r] \in Docs
      BY DEF WalkInv, TypeOK
    <3>2. QED
      BY <3>1 DEF WalkInv, Asked
  <2>2. start.entry[r] <= doc[r].entry /\ doc[r].entry <= doc'[r].entry
    BY DEF WalkInv, Listed
  <2>3. QED
    BY <2>1, <2>2 DEF WalkInv, Listed
<1>4. SnapshotIsCurrent' /\ AskingRight'
  BY DEF WalkInv, SnapshotIsCurrent, AskingRight, Offered, TypeOK
<1>5. QED
  BY <1>1, <1>2, <1>3, <1>4 DEF WalkInv

-----------------------------------------------------------------------------
\* Going on keeps the invariant: a repository that offered the artifact and was
\* not overtaken must have failed, and goven get of a release must not.
LEMMA GoOnStep ==
  ASSUME NEW r \in Repos, NEW err \in {"none", "absent", "error"},
         WalkInv, r = at, verdict = "none", GoOn(r, err),
         Offered(r) /\ r \notin overtaken => err = "error",
         op = "get" /\ kind = "release" => err # "error"
  PROVE  WalkInv'
<1> USE DEF GoOn, repoVars, query
<1>1. TypeOK' /\ Asked' /\ Releases'
  <2>1. at' \in 1 .. N + 1 /\ errs' \in [Repos -> {"none", "absent", "error"}]
    BY DEF WalkInv, TypeOK
  <2>2. QED
    BY <2>1 DEF WalkInv, TypeOK, Asked, Releases
<1>2. ASSUME NEW s \in Repos PROVE Listed(s)'
  <2>1. at \in Nat /\ at' = at + 1 /\ (Unread(s)' => Unread(s))
    BY DEF WalkInv, TypeOK, Unread
  <2>2. QED
    BY <2>1 DEF WalkInv, Listed
<1>3. SnapshotIsCurrent' /\ AskingRight'
  BY DEF SnapshotIsCurrent, AskingRight
<1>4. LeftBehind'
  BY DEF WalkInv, TypeOK, LeftBehind, Offered
<1>5. GetStops' /\ Exhaustive'
  BY DEF WalkInv, TypeOK, GetStops, Exhaustive
<1>6. QED
  BY <1>1, <1>2, <1>3, <1>4, <1>5 DEF WalkInv

\* The name the metadata gives is that of a file which is there, whatever was
\* deployed since the start, unless one deploy overtook another.
LEMMA ResolveStep ==
  ASSUME NEW r \in Repos, WalkInv, ResolveVersion(r)
  PROVE  WalkInv'
<1> USE DEF ResolveVersion, Asking, repoVars, query
<1>1. doc[r] \in Docs /\ Consistent(files[r], doc[r]) /\ start.entry[r] \in Nat
  BY DEF WalkInv, TypeOK, Asked
<1>2. resolved' \in Names
  BY <1>1 DEF ResolveSnapshotVersion
<1>3. r \notin overtaken => start.entry[r] <= doc[r].entry
      /\ (r \in start.offers => ResolveSnapshotVersion(doc[r]) \in files[r])
  BY DEF WalkInv, Listed, Unread
<1>4. ASSUME kind = "snapshot", r \notin overtaken, start.entry[r] # 0
      PROVE  resolved' >= start.entry[r] /\ resolved' \in files[r]
  BY <1>1, <1>3, <1>4 DEF ResolveSnapshotVersion, Consistent
<1>5. ASSUME r \notin overtaken, r \in start.offers PROVE resolved' \in files[r]
  BY <1>3, <1>5 DEF WalkInv, Releases
<1>6. TypeOK' /\ Asked' /\ Releases' /\ LeftBehind' /\ GetStops' /\ Exhaustive'
  BY <1>2 DEF WalkInv, TypeOK, Asked, Releases, LeftBehind, Offered, GetStops, Exhaustive,
              Failures
<1>7. ASSUME NEW s \in Repos PROVE Listed(s)'
  BY DEF WalkInv, Listed, Unread
<1>8. SnapshotIsCurrent' /\ AskingRight'
  BY <1>4, <1>5 DEF WalkInv, Asked, SnapshotIsCurrent, AskingRight, Offered
<1>9. QED
  BY <1>6, <1>7, <1>8 DEF WalkInv

\* The verdict of one repository, or of none.
LEMMA VerdictStep ==
  ASSUME WalkInv, verdict = "none",
         \/ \E r \in Repos : Found(r) \/ DownloadFailed(r)
         \/ Exhausted
  PROVE  WalkInv'
<1> USE DEF repoVars, query
<1>1. ASSUME UNCHANGED <<repoVars, query, at, pc, resolved>>
      PROVE  /\ Asked' /\ Releases' /\ SnapshotIsCurrent' /\ AskingRight'
             /\ \A s \in Repos : Listed(s)'
  BY <1>1 DEF WalkInv, Asked, Releases, SnapshotIsCurrent, AskingRight, Offered, Listed, Unread
<1>2. CASE \E r \in Repos : Found(r)
  BY <1>1, <1>2 DEF Found, Asking, WalkInv, TypeOK, LeftBehind, Offered, GetStops, Exhaustive
<1>3. ASSUME NEW r \in Repos, DownloadFailed(r) PROVE WalkInv'
  BY <1>1, <1>3 DEF DownloadFailed, Asking, WalkInv, TypeOK, LeftBehind, Offered, GetStops,
                    Exhaustive
<1>4. CASE Exhausted
  BY <1>1, <1>4 DEF Exhausted, WalkInv, TypeOK, LeftBehind, Offered, GetStops, Exhaustive,
                    Failures
<1>5. QED
  BY <1>2, <1>3, <1>4

LEMMA WalkNext == WalkInv /\ [Next]_vars => WalkInv'
<1> SUFFICES ASSUME WalkInv, [Next]_vars PROVE WalkInv'
  OBVIOUS
<1>1. ASSUME NEW r \in Repos, Skip(r) PROVE WalkInv'
  BY <1>1, GoOnStep DEF Skip, Asking, Offered
<1>2. ASSUME NEW r \in Repos, ResolveVersion(r) PROVE WalkInv'
  BY <1>2, ResolveStep
<1>3. ASSUME NEW r \in Repos, ResolveFailed(r) PROVE WalkInv'
  BY <1>3, GoOnStep DEF ResolveFailed, Asking
<1>4. ASSUME NEW r \in Repos, Absent(r) PROVE WalkInv'
  BY <1>4, GoOnStep DEF Absent, Asking, WalkInv, AskingRight
<1>5. ASSUME NEW r \in Repos, RequestFailed(r) PROVE WalkInv'
  BY <1>5, GoOnStep DEF RequestFailed, Asking
<1>6. CASE Exhausted \/ \E r \in Repos : Found(r) \/ DownloadFailed(r)
  BY <1>6, VerdictStep DEF Exhausted, Found, DownloadFailed, Asking
<1>7. ASSUME NEW r \in Repos, Environment(r) PROVE WalkInv'
  BY <1>7, EnvironmentStep, MeanwhileKeeps DEF WalkInv
<1>8. CASE UNCHANGED vars
  BY <1>8 DEF vars, WalkInv, TypeOK, Asked, Releases, Listed, Unread, SnapshotIsCurrent,
              AskingRight, LeftBehind, Offered, GetStops, Exhaustive, Failures
<1>9. QED
  BY <1>1, <1>2, <1>3, <1>4, <1>5, <1>6, <1>7, <1>8 DEF Next, Step, Stopped

LEMMA WalkSafe == Spec => []WalkInv
BY WalkInit, WalkNext, PTL DEF Spec

-----------------------------------------------------------------------------
\* Types, and every repository as deploys leave it, however they race: an entry
\* of the metadata that ResolveVersion reads always names a file that is there.
THEOREM FetchTyped == Spec => []TypeOK
<1>1. WalkInv => TypeOK
  BY DEF WalkInv
<1>2. QED
  BY <1>1, WalkSafe, PTL

\* "Not found" is said of an artifact that a repository asked offered when the
\* command started only if a deploy there wrote metadata that another had
\* overtaken, or without an entry for it: no failed request, and no deploy that
\* races with no other, makes a listed artifact look absent.
THEOREM NotFoundIsSound == Spec => []NotFoundMeansAbsent
<1>1. WalkInv => NotFoundMeansAbsent
  <2> SUFFICES ASSUME WalkInv, verdict = "notfound", NEW r \in Repos, Offered(r),
                      r \notin overtaken
               PROVE  FALSE
    BY DEF NotFoundMeansAbsent
  <2>1. r < at /\ errs[r] # "error"
    BY DEF WalkInv, Exhaustive, Failures
  <2>2. QED
    BY <2>1 DEF WalkInv, LeftBehind
<1>2. QED
  BY <1>1, WalkSafe, PTL

\* FetchArtifact takes a release from the first repository that offers it.
THEOREM ReleaseIsFirst == Spec => []ReleaseFromFirst
<1>1. WalkInv => ReleaseFromFirst
  BY DEF WalkInv, TypeOK, Releases, GetStops, LeftBehind, ReleaseFromFirst
<1>2. QED
  BY <1>1, WalkSafe, PTL

\* The build ResolveVersion names is there, and no older than the one listed
\* when the walk began, whatever deploys take their steps in between, unless one
\* of them wrote metadata made of a document that another had replaced.
THEOREM SnapshotResolves == Spec => []SnapshotIsCurrent
<1>1. WalkInv => SnapshotIsCurrent
  BY DEF WalkInv
<1>2. QED
  BY <1>1, WalkSafe, PTL
=============================================================================
