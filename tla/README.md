# goven in TLA+

goven is a Maven repository client: it fetches artifacts (`get`, `exists`,
`latest`), publishes them (`deploy`, `copy`) and diagnoses its configuration
(`doctor`).  It keeps no state of its own between runs.  What can go wrong is
in the protocol it speaks with repositories that others use at the same time:
several goroutines of one call, several calls, requests that fail, are retried,
or take effect after they were given up, and processes that die half way.

## The system

| Component | State | Operations | Interacts with |
|---|---|---|---|
| deploy (`internal/repo/deploy.go`) | in memory: two metadata documents, task groups; in the repository: files, sidecars, `maven-metadata.xml` at two levels | `Deploy`, `PutBytes`, `PutFile`, `fetchOrInitMetadata`, `putMetadata` | one `do` per request; other deploys through the repository |
| request (`Client.do`, `client.go`) | attempt counter, last error | attempts, back-off, classification of answers | server and network |
| upload (`PutFile`) | digest goroutine, one-place channel | stat, hash, PUT, sidecars | the local file, which others may change |
| download (`Download`, `findChecksum`) | temporary file, sidecar goroutine, one-place channel | get, copy, find checksum, verify, rename | deploys of the same file |
| repository walk (`FetchArtifact`, `ResolveVersion`, `Exists`, `query.go`) | position, joined errors | resolve, ask, fall through, stop | deploys in the repositories |
| deploy command (`cmd/goven/deploy.go`) | none | coordinates, POM, attachments | calls `Deploy` |
| copy (`Client.Copy`) | temporary directory | `Download`, `GetBytes`, `Deploy` | two repositories |
| transport cache (`httpClient`) | map of HTTP clients, mutex | look up or build | every request |
| buffer pools (`buffers.go`, `GetBytesInto`) | pooled buffers | get, grow, put | all goroutines |
| settings (`settings.go`) | merged settings | load, merge | effective repositories |
| effective repositories (`effective.go`, `get.go`) | none | profiles, interpolation, mirrors, credentials, proxies | settings, security |
| security (`security.go`) | master password | relocation, extraction, decryption | settings |
| coordinates, metadata documents | none | parse, paths, resolve | all of the above |
| command line (`main.go`) | none | global flags, reordering | commands |
| doctor, POM generator, benchmark server | none | - | - |

A command goes through them in one order: the command line is parsed, the
settings are loaded, the repositories computed from both, and then requests go
out through one shared client.

What makes each of them correct, and where it is hard:

* **deploy**: published metadata never names a file that is not there; a success
  means everything was published; nothing that succeeded is forgotten.  Hard:
  read-modify-write of shared documents, concurrent tasks with errors, torn
  deploys, late writes.
* **request**: at least once, never a 404 that was not answered.  Hard: an
  attempt that timed out may still be applied; a redirect counts as a success; a
  URL with a reference left in it fails before the first attempt.
* **upload**, **download**: body and digest belong together; no goroutine leaks
  on any error path; the destination is whole or untouched.
* **walk**: "not found" is said of no release that is there, and of no SNAPSHOT
  that the metadata lists; no later repository shadows an earlier one.  Hard:
  deploys race, and one may write back a document made of an old one, with fewer
  entries than there were.
* **command line**: every item means the same wherever it stands.  Hard: which
  token is a flag's value is decided three times, each time from other tokens.
* **effective repositories**, **settings**, **security**: each repository gets
  the URL, the mirror, the credentials and the proxy that were meant for it, and
  no name or password goes to another's host.  Hard: precedence of two files and
  a command line, exclusions, bounded expansion, passwords that cannot be
  decrypted.
* **transport cache**, **buffer pools**: shared by all goroutines; no request
  may use what belongs to another.
* **copy**: what is promoted is what the source vouches for.

The hazards are listed one by one, each with its line, in `PROJECT.json`.

## Modules

| Module | Models | Correspondence |
|---|---|---|
| `Deploy` | `Client.Deploy` and what it calls, any number of calls on one repository and one groupId:artifactId | `phase` is the position in `Deploy`, `up` and `sums` the tasks of the two groups and of `putChecksums`, `vdoc` and `adoc` are `versionMeta` and `artMeta`, `store` is the repository, `limbo` the writes given up but perhaps still to be applied. One action per request outcome, one per return of `Wait`, and `Crash` |
| `Catalog` | abstract: builds numbered one after another, entries kept, listed versions kept | implemented by `Deploy` when deploys follow one another (`ImplementsCatalog`) |
| `DeployCommand` | `deployCoords`, `deployPOM`, `attachList`: the requests that command lines make | extends `Deploy`; `Requests <- CommandRequests` |
| `Request` | `Client.do` against server and network | `Call` is the call with its URL; `BadTarget`, the error of `http.NewRequest`, `Send`, `Receive`, `TransportError` and `GiveUp` are the loop; `Serve` and `Drop` are external |
| `Transfer` | abstract: at least once, except for what is redirected | implemented by `Request`; its steps are the ones `Deploy` uses for a PUT (`PutBody`, `LoseBody`, `FailBody`, `Land`) |
| `Upload` | `PutFile` and its digest goroutine, with a local file others change, also while it is read | `hasher`, `hashCh`, `pc` are goroutine, channel and caller; `Seen` is what reading an opened file may give |
| `Download` | `Download` and `findChecksum`, with a redeploy going on | `finder`, `sidecar`, `pc` likewise; `tmp` and `dest` are files |
| `Fetch` | `FetchArtifact`, `ResolveVersion`, `Exists`, `runExists`, `runLatest` while deploys race in the repositories | `at` is the loop variable, `errs` the errors joined at the end; `deploying` has what the deploys under way read |
| `Promote` | `Client.Copy`: `Download` to a temporary directory, the POM, and what lands on the target | extends `Download`, whose `dest` is the temporary file; `job` is the position in `Copy`. With `copying` FALSE it is a `Download` alone |
| `Settings` | `ParseSettings`'s defaults, `mergeSettings`, `LoadSettings`; `LoadMasterPassword`, `extractEncrypted`, `ResolvePassword` | operators named as the functions |
| `Effective` | `effective.go` and `effectiveRepos` | extends `Settings`; operators named as the functions |
| `Arguments` | `parseGlobal`, `reorderArgs`, `ParseCoords`; external: the flag package | operators named as the functions |
| `Transport` | `httpClient` and its cache, with requests to other repositories | extends `Request`; `clients` is `Client.transport`; `SendVia` is `Send` with the client it goes through |
| `Reading` | `GetBytesInto` and `metaBufPool`, as `fetchOrInitMetadata` and `ResolveVersion` use them, with another goroutine and the collector | extends `Transport`; `mem` holds the arrays, `array` and `len` the slice, `bp` what goes back to the pool |
| `Session` | a run of get, exists, latest, copy or deploy from its command line to the first document it reads | extends `Reading`, `Effective` and `Arguments`; `stage` says how far the command is |
| `DeployProofs`, `PublicationProofs`, `DeploySerialProofs` | theorems about `Deploy`: types and referenced files; what it publishes, by command lines too (`DeployCommand`); calls one after another, and `Catalog` | the first is about `Deploy`, each of the others extends the one before |
| `SessionProofs` | theorems about `Request`, `Transport` and `Reading` inside `Session` | |
| `EffectiveProofs` | theorems about `Arguments`, `Settings`, passwords too, and `Effective` inside `Session` | its lemmas are about the operators of those modules, for lists of any length |
| `UploadProofs`, `FetchProofs` | theorems about `Upload` and `Fetch` | |
| `DownloadProofs` | theorems about `Download`, and about `Promote`, which extends it | |
| `MCDeploy`, `MCDeployCommand`, `MCUpload`, `MCDownload`, `MCSession` | values of the constants for TLC | |

They compose in three places.  `Session` chains parsing, settings, repositories
and a request, with the state of each stage forgotten once the next no longer
needs it.  `Reading` runs `GetBytesInto` over `Transport` over `Request`, step
by step.  `Deploy` uses `Transfer` for its PUTs, which `Request` implements.
`Promote` uses of `Deploy` only what can land on the target and in which order:
files first, the version list after both, an error anywhere.

Abstractions: a body is the slot of the call that uploads it, and a digest is
what it is the digest of; a file name is its version, build and
classifier/type.  Timestamps are small numbers.  `lastUpdated`, XML and the
back-off are left out.  A Sequential client runs the
tasks in one of the orders the model allows.  A string of the
configuration is a sequence of pieces: text, references, encrypted values,
escaped text.  The cipher is abstract: a value opens with the key that closed
it, and a wrong key is noticed or not, as the padding has it; a master password
without braces, which the code would decode too, is not a well-formed value
here.  A host is a sequence of labels, a URL a scheme and a host, a mirror's
pattern a list of tokens, the headers of a server one text.  Command line tokens
carry what they would be parsed to, so that the splitting of commas and colons
is left out; which token is a flag, a value or an argument is not.  A small file
is the cells 1 .. size, of which the last ends the document: the parser accepts
what contains an end, and refuses the rest, as the XML decoder does.  The repository is atomic per
request: an upload that fails half way leaves nothing, which is what Maven
repositories do.  In `Deploy`, `LoseBody` stands for any attempt without an
answer; whether another attempt follows is `FailBody` or not, so the attempt
counter is only in `Request`.

What a repository is taken to do.  `Request` counts a redirect as `do` does, as
a success: net/http hands a 307 or 308 of a PUT back, since the body cannot be
sent again, and makes a GET of a 301, 302 or 303, and nothing tells the caller.
So `ImplementsTransfer` says nothing of a request whose last answer was a
redirect.  `Deploy`, `Upload` and `Promote` assume a repository that redirects no
PUT: against one that does, a "success" may have published nothing.

In `Fetch` a deploy reads the document when it begins and writes it when it
ends, and several may be under way.  One that read the document before another
wrote it takes that one's entries back, and the block with them; so may a deploy
of other classifiers, which leaves a file without an entry, to be looked for
under the build of the block.  `overtaken` remembers the repositories in which
that happened before the walk read the document, and the properties of the walk
are about the others.  What they say of racing deploys is thus: those that the
walk is late for, between the metadata and the file, and those that begin with
the document as it is, hide nothing.

The file that `Upload` reads may be written meanwhile: the digest pass and an
attempt each open it, and what they get is what it held then, what it holds at
the end, or a mixture.  In `Download` and `Promote` a body is one piece, since
what a repository serves is atomic per request.

A token of the command line that is `-` or `--` is a flag to `reorderArgs` and
an end of the flags to the flag package: it is in the lines that are checked by
`UnderstoodAsMeant`, and excluded from `FlagsAnywhere`.  `deploy` looks for its
files, its POM and its attachments in between (`DeployGivesUp`), and may stop
there at any of them.  A URL in which a reference is left, of those a settings
file or a command line gives, has a host that cannot be parsed (`Misspelt`); a
path may be misspelt too, so `Begin` allows for it always.

Definitions marked as mutants in their comment are wrong on purpose: each
replaces a definition of the model by what a plausible bug would make of it,
and each property is known to fail for one of them.

## Runs

| Run | Shows | Bounds |
|---|---|---|
| `deploy_concurrent` | `MetadataRefersToLanded`, `ListedVersionsLanded`, `PublishedDocsCoherent`, `SuccessMeansPublished`, `TypeOK` | 2 calls out of {SNAPSHOT jar+sources, SNAPSHOT sources, release jar}, the same second, one algorithm, 1 lost answer |
| `deploy_serial` | `SuccessesStayListed`, `SuccessVerifies`, `ImplementsCatalog` | 3 calls in any order, one at a time, no lost answer |
| `command_steps` | `PomStaysWithMain`, and `Returns` under fairness | 2 of 5 command lines |
| `request` | the command line: `FlagsAnywhere`, `UnderstoodAsMeant`; the repositories: `MirrorAsDeclared`, `CredentialsOfTarget`, `PasswordOfTarget`, `IdleProfilesContributeNothing`, `ExpandedUnlessCyclic`; the request: `ThroughItsProxy`, `ImplementsTransfer`, `AbsentIsAnswered`, `FailsOnlyWhenItMust`, `Ends`; the document: `BuffersExclusive`, `ReadsWhatWasSent` | about 3100 command lines with their files; 2 attempts; bodies up to 3 cells, `maxMetaBytes` 2, 5 arrays |
| `upload` | `UploadsTheFile`, `EverythingEnds` | 3 attempts, 2 changes of the file, 4 contents of 3 sizes, one of them 0 |
| `download` | `DestWholeOrUntouched`, `DamageIsDetected`, `DeploysHideNoDamage`, `StrongestFound`, `PromotesWhatSourceVouches`, `EverythingEnds` | 3 algorithms, 1 redeploy, any set of sidecars, with or without a POM |
| `fetch` | `NotFoundMeansAbsent`, `ReleaseFromFirst`, `SnapshotIsCurrent`, `Ends` | 2 repositories, 2 builds, 1 deploy at a time under way beside those that wrote what is there, in the repository being asked |

Two calls are enough for every race of `Deploy`: a call only interferes through
the two documents and the file names, and a third one adds no kind of overlap.
Three serial calls are the shortest history with a torn deploy between two
successes, or with two classifiers and a third build.  Two clocks that disagree
give different file names; the calls of `deploy_concurrent` share the second,
which makes them collide as much as possible, and the proofs hold for any clock.

Two attempts of `request` have every sequence that matters, a lost or late
answer followed by another; that goven makes three is the default of a constant
for which the theorems are proved.  In `fetch` a deploy may be under way in each
repository from the start, with a document that another has replaced since, so
that one more is enough for a race; the steps of deploys are taken in the
repository that is asked (`Ahead` = 0), since one that is asked later may be in
any state at the start, and `NotFoundIsSound` is proved for any `Ahead`.

The command lines and files of `request` come in families, each of which varies
one part over every value that matters to it and leaves the others alone: the
place of every item on the line, `-gs` and every flag of every command among
them; mirror patterns of one and two tokens in two
files; server entries by id in two files, with and without a mirror; passwords
of every form with every state of `settings-security.xml`; profiles by every
kind of activation; properties that refer to each other, also in cycles; proxies
and their exempted hosts; files that are missing or broken.  The parts meet in
fixed places of the code only (the mirror gives the credentials' id and the
proxy's URL, the profiles give the properties), and those places are in the
families of both.  A body of 3 cells against a bound of 2 has documents below,
at and above the bound, and a buffer that must grow twice; five arrays are one
more than can be in use, so memory is never short (`ReadingAssumption` says how
many it takes: one for anybody else's, and two of this goroutine's while it grows
into a third).

Runs that find a disagreement between the code and what it says:

| Run | Finding |
|---|---|
| `deploy_other_versions` | Deploys of different versions lose each other's entry in the version list; the comment speaks of the same GAV only (deploy.go:207). |
| `command_overwrites` | Two ways, and either alone violates the property: a main artifact of type `pom` and the POM generated by default are uploaded to one path (cmd/goven/deploy.go:188); an attachment with the classifier and type of a classified main artifact is accepted and overwrites it (deploy.go:213). |
| `session_proxy` | A repository named on the command line is reached without the proxy of the settings (get.go:87); the README promises proxies "exactly as they do with Maven". |
| `upload_empty` | A file that is gone at the time of a PUT is uploaded empty, and the call can succeed with the sidecars of the real content (deploy.go:174). |
| `fetch_first` | A failing metadata request lets a later repository shadow the first for SNAPSHOTs, but not for releases (client.go:382). |

Fairness.  `FairSpec` asks for weak fairness of the goroutines' steps, as the Go
scheduler gives it, and with them that a request ends with an answer or an
error.  The transport's timeouts ensure that until the headers have arrived; a
peer that stalls in a body for ever is excluded by assumption, since the code
sets no overall timeout.  `FairSession` asks less: `Ends` is about the outcome
of a GET, and the waits before it (dialling, handshake, headers) have timers in
`httpClient`; assumed is only that the body of an error answer, of which `do`
drains up to 64 KB, ends.  The document's body is not promised to arrive.
No fairness is asked of the server, of other
processes, of late writes, of crashes, or of a caller starting a deploy.

## Proofs

TLC checks each property on the small instances above; the theorems hold for
every value of the constants.  Assumptions about constants are the `ASSUME`s
of the modules (`DeployAssumption`, `RequestAssumption` and so on), which TLC
evaluates in every run; anything more is a hypothesis of the theorem and is
named below.  Each proof has the same shape: an inductive invariant, the lemmas
that `Init` establishes it and each action keeps it, and a last step in temporal
logic.  The invariants were checked by TLC before they were proved.

| Theorem | States | Hypotheses |
|---|---|---|
| `TypeCorrect` | `Deploy.TypeOK` | |
| `MetadataSafe` | `MetadataRefersToLanded` | |
| `ListedAreLanded` | `ListedVersionsLanded` | |
| `PublishedCoherent` | `PublishedDocsCoherent` | |
| `SuccessIsPublished` | `SuccessMeansPublished` | |
| `NothingForgotten` | `SuccessesStayListed` | `Serial`, no answer lost |
| `DeployRefinesCatalog` | `ImplementsCatalog` | `Serial`, no answer lost |
| `SuccessIsVerified` | `SuccessVerifies` | `Serial`, no answer lost, `DistinctFiles` |
| `PomIsOfMain` | `PomStaysWithMain` | requests come from command lines |
| `RequestTyped`, `AbsentIsTrue`, `FailuresJustified` | `Request.TypeOK`, `AbsentIsAnswered`, `FailsOnlyWhenItMust` | |
| `RequestRefinesTransfer` | `ImplementsTransfer`, of what is not redirected | |
| `SessionRequests`, `SessionRefinesTransfer` | `SessionSpec => Spec`; `ImplementsTransfer` of a run | |
| `RoutedByAddress` | `ThroughItsProxy` | |
| `BuffersHaveOneUser`, `DocumentIsTheBody` | `BuffersExclusive`, `ReadsWhatWasSent` | |
| `PasswordsDecrypted` | `PasswordOfTarget` | |
| `FlagsReadAnywhere` | `FlagsAnywhere` | |
| `RedirectedAsDeclared` | `MirrorAsDeclared` | |
| `CredentialsOfItsTarget` | `CredentialsOfTarget` | |
| `IdleProfilesIdle` | `IdleProfilesContributeNothing` | |
| `ReferencesExpanded` | `ExpandedUnlessCyclic` | |
| `UploadTyped`, `UploadIsTheFile` | `Upload.TypeOK`, `UploadsTheFile` | |
| `DownloadTyped`, `DestWhole`, `DamageDetected`, `DamageDetectedAmidDeploys`, `SidecarIsStrongest` | `Download.TypeOK`, `DestWholeOrUntouched`, `DamageIsDetected`, `DeploysHideNoDamage`, `StrongestFound` | |
| `CopyDownloads`, `PromotedIsVouched` | `PromoteSpec => Spec`; `PromotesWhatSourceVouches` | |
| `FetchTyped`, `NotFoundIsSound`, `ReleaseIsFirst`, `SnapshotResolves` | `Fetch.TypeOK`, `NotFoundMeansAbsent`, `ReleaseFromFirst`, `SnapshotIsCurrent` | |

### Deploy

The theorems are for any sets of calls, requests, algorithms, versions and clock
values, and any number of lost answers.

`MetadataSafe` needs more than its statement, since the document that makes it
false is prepared long before it is visible.  The inductive invariant is

* `StoredLanded`: every version-level document in the repository names landed
  files only (the property itself);
* `LimboLanded`: so does every one in a write that may yet be applied;
* `MemoryLanded`: so does the one a call holds in memory, in any phase;
* `UploadsLanded`: a task whose sidecar is done has its body in the
  repository, and each finished sidecar is there too.

The argument: locations are never removed, so `Landed` and all that is built on
it can only become true.  A document enters memory from the repository
(`StoredLanded`), gains entries only in `StartMeta`, when `Wait` has returned
without error and `UploadsLanded` gives every file named, and leaves memory to
`store` or `limbo` unchanged.  Types are needed to tell documents from bodies,
so `TypeCorrect` comes first.

`PublicationProofs` adds what else is true of everything written.  Instead of
going through the actions for each conjunct, it proves two facts about a step
once: how any one call can move (`Moves`), and what can come into the repository
or into limbo, namely what a task of a running call writes, or a late write
(`Written`).  `AllVetted` says of everything there that a version list has
landed versions, a version-level document is coherent, and a file or sidecar is
at the location of the task whose body it holds (`Author`).  `CallInv` carries
the same through a call's memory: the entries a call read are of earlier builds
than its own, the metadata tasks run only after `files.Wait`, and their uploads
land.  `SuccessMeansPublished` follows with `Author`: a location that no other
task has can only hold its own body.

`DeploySerialProofs` assumes what `deploy_serial` does, that calls do not overlap
and that no answer is lost (`Serial`, `MaxLost = 0`); otherwise a document can be
overwritten by an older one, which the code does not prevent.  There is then
nothing in limbo, and the document in memory is the one in the repository plus
what this call has done (`MadeFromSeen`), so a write can only add.  `StaysSeen`
is the promise, kept by every later call, also one that dies between its two
documents.  The same facts give the refinement: seen through the documents that
readers see, every step is one of `Catalog`'s or changes nothing.
`SuccessIsVerified` needs one more hypothesis, `DistinctFiles`: no two files of a
request have the same classifier and type.  `Deploy` rejects such a request only
when the attachment has the main artifact's classifier-less name (the finding
`command_overwrites` is about the rest), and two tasks that upload to one path do
not verify.  Its invariant `SentInv` says that what a running call has sent is
there unchanged.

`PomIsOfMain` is for any command lines (`Requests = CommandRequests`), by
`Author`: a file at a release's POM path was uploaded by a command one of whose
parts has that name, and `NamesPom` says which commands those are.

### A run of goven

`SessionProofs` is about `Session`, one part after another.  The request, for
any number of configured attempts, zero and negative ones included: the
invariant adds to the properties what the server's side must not forget.  An
answer is only there for an attempt, and a 2xx only after an effect
(`AnswersTrue`); an outcome is the one of the answer it was given for, and then
nobody waits (`OutcomeTrue`); an attempt is served once (`ServedOnce`).  Without
the last, a late attempt could count as a second effect, which `Transfer` does
not allow.  `SessionRequests` carries all of this into a run: every step of
`Session` is a step of `Request` or leaves its variables alone.

`RoutedByAddress` is for any command lines, files, proxies and other
repositories.  Each client in the cache was built for the address it is kept
under (`ClientsByAddress`), and no attempt is made before its repository is known
(`AttemptsOfRequest`), since that is when the proxy may still change.

`BuffersHaveOneUser` and `DocumentIsTheBody` are for any size of the body, any
`maxMetaBytes` and any way the reads are cut.  `ReadingInv` has what was read so
far in place at the start of the buffer (`Filled`), within the array and within
the body, and it bounds what others can hold until this goroutine returns its
buffer (`OneElsewhere`), so that a fresh array exists.  A parser that finds the
end of a document in such a prefix has the whole body.

### What a command works with

`EffectiveProofs` is about what the code computes before its first request, for
any command line and any files that are sequences of tokens and lists of entries
whose parts are texts, as a parser makes them (`SituationsAssumption`), and any
built-in properties that are texts (`BuiltinsAssumption`).  Nothing is assumed
of ids, patterns, references or the number of entries.

The code computes it by loops.  A loop is a recursive function over its steps,
`f[n]` made from `f[n - 1]`, and what holds of its last value is proved from its
first and from a step.  The induction is `LoopInduction`: a set of step numbers
that has 0, and with each number the next, has them all, since otherwise there
were a least one that it has not (`WFMin`); nothing is passed as an operator.
`LoopValues` says that such a function exists and has the values it should.

The actions keep `ConfigInv`: until the request, the line and the disk are a
situation's, what was loaded is the two files merged and the master password,
and the repositories are computed from that, none of them without its password.  Each property is then one of operators:

* `MirrorAsDeclared` and `CredentialsOfTarget`: the merge has the user's entries,
  in their order, and after them the global ones whose id the user has not
  (`Kept`, `Merged`), so that the first entry that passes a test is the one the
  property names.  `mirrorMatches` stops at an exclusion and nowhere else, so the
  order of its tokens does not matter.
* `PasswordOfTarget`: it says of the files what has to be sent, and not how the
  code finds out.  A value is decrypted only if it is one encrypted value and
  nothing else in braces (`Decrypted`), and so is the master password, in the
  file that is named or in the one that it names (`MasterHeld`, `MasterInForce`).
  It says what the code does, which is less than one might wish: a value whose
  first brace is escaped is sent as it was written, though encrypted parts may
  follow, and a wrong master password is noticed unless the padding happens to
  fit (`lucky`), in which case garbage is sent; security_test.go:117-120 says
  that it must be an error, of a value for which it is.  The passwords of proxies
  are sent as they are stored (client.go:71), as `Endpoint` has them, and are not
  meant.
* `IdleProfilesContributeNothing`: a selection from a list without some entries
  is the selection from the list, when none of them is selected (`Those`), and
  whether another profile is active does not depend on the idle one.
* `ExpandedUnlessCyclic`: after a pass a text refers to the successors of what it
  referred to, in the graph of the names.  The names from which one, two or more
  further steps can be made (`Going`) become fewer until they are always the
  same; with fewer names that refer to others than passes, that is the case
  before the last pass, and names from which steps lead only among each other
  are in a cycle or lead into one (`StaysInCycle`).
* `FlagsAnywhere`: `reorderArgs` decides which tokens are flags, values and
  arguments, and the flag package decides again on what `reorderArgs` made of
  them.  The tokens that go in front keep their order (`Drawn`), and a flag and
  its value remain neighbours (`Neighbours`), so both find the same values
  (`SameValuesInFront`), and the last mention of a flag on the one line is the
  last on the other (`MaxDrawn`).  The command's tokens are a sequence because
  they are a part of the line (`RestOfLine`).

Two of these statements became what they are when their proofs failed.
`FlagsAnywhere` excludes, besides lines with `-` or `--`, one kind of line, which
is accepted though it should not be: a flag at the end whose value is missing (`goven get other g:a:1 -o`) is
moved in front of the arguments and is given the first of them.
`ExpandedUnlessCyclic` speaks of references that lead into a cycle, and not only
of those that are in one: a text that refers to a name outside a cycle, which
refers to one inside, keeps a reference too.

### Files

`UploadsTheFile`: while nobody touches the file, everything made from it, in the
digest pass, in the channel, in the repository, is made from the same content
(`Untouched`), and `PutFile` goes on to the sidecars only with a digest it
received (`HandedOver`).

`Download`: each result of the search is sound wherever it is, with the finder,
in the channel or taken from it (`Sound`, `ResultsSound`): an error, a sidecar
that was published, or none; and as long as nobody deploys, the strongest one.
`Undisturbed` ties the body received to the sidecars until then, and `Verified`
says what may be installed.  `published` has the algorithms of which there
was a sidecar when the call began; deploys take none away, so that none is found
only if there was none, and a damaged body passes in no other way, deploys or
not.  The names of the algorithms are any; that a name for
no content differs from an empty file's content is assumed.  `CopyDownloads` shows
that `Promote` adds to `Download` without changing it, so that `CopyInv` can use
`DownloadInv`.

`Fetch`, for any number of repositories, builds and deploys: a repository left
behind though it offered the artifact is remembered as a failure (`LeftBehind`)
or was overtaken, and otherwise what was offered at the start is still there
under the name the walk asks for (`AskingRight`), because deploys take no file
away, and the document was written by deploys that had read it as it was.  The
outcomes are those that the command reports; the exit status is 1 for an error
and for "not found" alike (main.go:65-67).

### Only model-checked

* All liveness (`Returns`, `Ends`, `EverythingEnds`): out of the prover's reach,
  together with ENABLED.
* `UnderstoodAsMeant`: it compares the outcome with the items that the line was
  written as, a flag with its value or a token alone, and holds for lines that
  are written as such (no value that begins with `-D`, no flag without a value
  but at the end, and so on for every flag).  That is a condition on the
  command lines about as long as the property.  What of it is true of every line
  is `FlagsAnywhere`.
* That a mutant breaks each property, and the five findings, are TLC's too.

## What is open

* What remains true of `Deploy` when calls follow one another and answers are
  lost: `NothingForgotten` up to late writes of documents.
* The hazards without a property (`PROJECT.json`): a late write of a document and
  a body that stalls for ever.  The code has no protection there, so there is
  nothing to state but that it has none.

## Not modelled

* `doctor`, `help`, `version`: sequential, without state, their result a text.
  `doctor` asks each repository with a client of its own, without proxy and
  headers, so what it reports is not about the client modelled here.
* The XML encoding and decoding, and the cipher: pure functions of bytes.
* The POM template and the benchmark server: no state, no part in the protocol.
* `copyBufPool`: its buffers have one size, and live within one copy.
* The splitting of commas, colons and `=` in flag values.
* `LocalRepository`, which is merged and never used.
