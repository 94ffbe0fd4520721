--------------------------- MODULE DownloadProofs ---------------------------
(***************************************************************************)
(* Theorems about Download and Promote, for any checksum algorithms, any   *)
(* contents and any number of deploys meanwhile.                           *)
(***************************************************************************)
EXTENDS Promote, TLAPS

\* The constants, apart from the names of the algorithms.
LEMMA Constants ==
  /\ Contents \cap {Damaged, None, Old} = {} /\ Damaged # None /\ Old # None /\ Old # Damaged
  /\ MaxDeploys \in Nat
  /\ Len(Algos) \in Nat
<1>1. Algos \in Seq(STRING)
  BY DownloadAssumption
<1>2. Len(Algos) \in Nat
  BY <1>1
<1>3. QED
  BY <1>2, DownloadAssumption

USE Constants

Results == [algo : 0 .. Len(Algos), want : Contents \cup {None}, err : BOOLEAN]

\* A result of the search is an error, or names a sidecar that was there, or
\* says that there was none at the start; nobody deployed since, it is the
\* strongest.
Sound(r) ==
  /\ r \in Results
  /\ r.algo > 0 => r.want \in Contents /\ ~ r.err
  /\ r.algo = 0 => r.err \/ published = {}
  /\ deploys = 0 =>
       IF r.algo > 0
       THEN /\ r.want = sums[Algos[r.algo]]
            /\ \A i \in 1 .. r.algo - 1 : sums[Algos[i]] = None
       ELSE r.err \/ \A a \in AlgoSet : sums[a] = None

\* Wherever a result is: with the finder, in the channel, or taken from it.
ResultsSound ==
  /\ Sound(result) /\ Sound(found)
  /\ sidecar = <<>> \/ \E r \in Results : sidecar = <<r>> /\ Sound(r)

\* The finder has looked at each stronger sidecar, and starts with the first.
Looked ==
  /\ pc = "get" => finder = "off" /\ next = 1
  /\ finder = "search" /\ deploys = 0 => \A i \in 1 .. next - 1 : sums[Algos[i]] = None
  /\ finder = "search" => \A i \in 1 .. next - 1 : Algos[i] \notin published

\* A deploy replaces sidecars, and takes none away.
Kept ==
  /\ published \subseteq AlgoSet /\ \A a \in published : sums[a] # None
  /\ deploying # {} => body \in Contents

\* Until the file is deployed again, the repository is as it was at the start
\* and what was received is its body.
Undisturbed ==
  deploys = 0 =>
    /\ deploying = {}
    /\ \A a \in AlgoSet : sums[a] \in {body, None}
    /\ pc \notin {"get", "err"} => resp = body

\* What is received, verified and installed.
Verified ==
  /\ pc \notin {"get", "err"} => resp \in Contents
  /\ pc = "copy" => tmp = ""
  /\ pc \in {"receive", "verify"} => tmp \in {resp, Damaged}
  /\ pc \in {"verify", "ok"} => ~ found.err
  /\ pc = "ok" => dest \in {resp, Damaged} /\ (found.algo = 0 \/ found.want = dest)
  /\ pc # "ok" => dest \in {None, Old}

DownloadInv ==
  /\ TypeOK /\ ResultsSound /\ Looked /\ Kept /\ Undisturbed /\ Verified

-----------------------------------------------------------------------------
(* The operators.                                                          *)

LEMMA AlgoOf ==
  /\ \A i \in 1 .. Len(Algos) : Algos[i] \in AlgoSet
  /\ \A a \in AlgoSet : \E i \in 1 .. Len(Algos) : Algos[i] = a
BY DEF AlgoSet

\* The channel holds nothing or the one result.
LEMMA Channel ==
  /\ \A x : Append(<<>>, x) = <<x>> /\ Head(<<x>>) = x /\ Tail(<<x>>) = <<>>
            /\ <<x>> # <<>> /\ Len(<<x>>) = 1
  /\ Len(<<>>) = 0
OBVIOUS

LEMMA FailureSound == Failure \in Results /\ Sound(Failure)
<1>1. Failure \in Results
  BY AlgoOf DEF Failure, Results
<1>2. QED
  BY <1>1 DEF Failure, Sound

LEMMA SoundUnchanged ==
  ASSUME NEW r, Sound(r), deploys' = deploys, sums' = sums, published' = published
  PROVE  Sound(r)'
BY DEF Sound

\* A deploy makes no result unsound.
LEMMA SoundRedeployed ==
  ASSUME NEW r, Sound(r), deploys' # 0, published' = published
  PROVE  Sound(r)'
BY DEF Sound

LEMMA DownloadInit == Init => DownloadInv
<1> SUFFICES ASSUME Init PROVE DownloadInv
  OBVIOUS
<1>1. PICK S \in SUBSET AlgoSet : sums = [a \in AlgoSet |-> IF a \in S THEN body ELSE None]
  BY DEF Init
<1>2. sums \in [AlgoSet -> Contents \cup {None}] /\ \A a \in AlgoSet : sums[a] \in {body, None}
  BY <1>1 DEF Init
<1>3. TypeOK
  BY <1>2, AlgoOf, Channel DEF Init, TypeOK, Failure
<1>4. ResultsSound
  BY FailureSound DEF Init, ResultsSound
<1>5. QED
  BY <1>2, <1>3, <1>4 DEF Init, DownloadInv, Looked, Kept, Undisturbed, Verified

-----------------------------------------------------------------------------
(* Somebody deploys the file.                                              *)

LEMMA ResultsRedeployed ==
  ASSUME ResultsSound, deploys' # 0, UNCHANGED <<published, result, found, sidecar>>
  PROVE  ResultsSound'
BY SoundRedeployed DEF ResultsSound, Results

LEMMA RedeployStep ==
  ASSUME DownloadInv, NEW c \in Contents, Redeploy(c)
  PROVE  DownloadInv'
<1> USE DEF Redeploy, search, main, files
<1>1. deploys' \in 0 .. MaxDeploys /\ deploys' # 0
  BY DEF DownloadInv, TypeOK
<1>2. ResultsSound'
  BY <1>1, ResultsRedeployed DEF DownloadInv
<1>3. QED
  BY <1>1, <1>2 DEF DownloadInv, TypeOK, Looked, Kept, Undisturbed, Verified

LEMMA RedeploySumStep ==
  ASSUME DownloadInv, NEW a \in AlgoSet, RedeploySum(a)
  PROVE  DownloadInv'
<1> USE DEF RedeploySum, search, main, files
<1>1. deploys' # 0
  BY DEF DownloadInv, Undisturbed
<1>2. ResultsSound'
  BY <1>1, ResultsRedeployed DEF DownloadInv
<1>3. sums' \in [AlgoSet -> Contents \cup {None}]
  BY DEF DownloadInv, TypeOK
<1>4. QED
  BY <1>1, <1>2, <1>3 DEF DownloadInv, TypeOK, Looked, Kept, Undisturbed, Verified

-----------------------------------------------------------------------------
(* findChecksum.                                                           *)

\* A search that ends with a sound result keeps the invariant.
LEMMA SearchEnds ==
  ASSUME DownloadInv, finder = "search", finder' = "send", Sound(result'),
         UNCHANGED <<remote, next, sidecar, main, files>>
  PROVE  DownloadInv'
<1> USE DEF remote, main, files
<1>1. Sound(result)' /\ Sound(found)'
  BY SoundUnchanged DEF DownloadInv, ResultsSound, Sound
<1>2. ResultsSound'
  BY <1>1, SoundUnchanged DEF DownloadInv, ResultsSound
<1>3. TypeOK'
  BY <1>1 DEF DownloadInv, TypeOK, Sound, Results
<1>4. QED
  BY <1>2, <1>3 DEF DownloadInv, Looked, Kept, Undisturbed, Verified

LEMMA FindStep ==
  ASSUME DownloadInv, FindNone \/ FindGot \/ FindError
  PROVE  DownloadInv'
<1>1. next \in 1 .. Len(Algos) + 1 /\ sums \in [AlgoSet -> Contents \cup {None}]
  BY DEF DownloadInv, TypeOK
<1>2. finder = "search" /\ (deploys = 0 => \A i \in 1 .. next - 1 : sums[Algos[i]] = None)
  BY DEF DownloadInv, Looked, FindNone, FindGot, FindError
<1>3. CASE FindNone
  <2>1. deploys = 0 => \A a \in AlgoSet : sums[a] = None
    BY <1>1, <1>2, <1>3, AlgoOf DEF FindNone
  <2>2. Found(0, None) \in Results
    BY AlgoOf DEF Found, Results
  <2>3. published = {}
    BY <1>1, <1>2, <1>3, AlgoOf DEF FindNone, DownloadInv, Looked, Kept
  <2>4. Sound(Found(0, None))
    BY <2>1, <2>2, <2>3 DEF Found, Sound
  <2>5. QED
    BY <1>3, <2>4, SearchEnds DEF FindNone
<1>4. CASE FindGot
  <2>1. next \in 1 .. Len(Algos) /\ sums[Algos[next]] \in Contents
    BY <1>1, <1>4, AlgoOf DEF FindGot
  <2>2. Found(next, sums[Algos[next]]) \in Results
    BY <2>1 DEF Found, Results
  <2>3. Sound(Found(next, sums[Algos[next]]))
    BY <1>2, <2>1, <2>2 DEF Found, Sound
  <2>4. QED
    BY <1>4, <2>3, SearchEnds DEF FindGot
<1>5. CASE FindError
  BY <1>5, FailureSound, SearchEnds DEF FindError
<1>6. QED
  BY <1>3, <1>4, <1>5

LEMMA ResultsUnchanged ==
  ASSUME ResultsSound, UNCHANGED <<deploys, sums, published, result, found, sidecar>>
  PROVE  ResultsSound'
BY SoundUnchanged DEF ResultsSound, Results

LEMMA FindSkipStep ==
  ASSUME DownloadInv, FindSkip
  PROVE  DownloadInv'
<1> USE DEF FindSkip, remote, main, files
<1>1. next \in 1 .. Len(Algos) /\ next' = next + 1 /\ next' \in 1 .. Len(Algos) + 1
  BY AlgoOf DEF DownloadInv, TypeOK
<1>2. deploys = 0 => \A i \in 1 .. next' - 1 : sums[Algos[i]] = None
  BY <1>1 DEF DownloadInv, Looked
<1>3. ResultsSound'
  BY ResultsUnchanged DEF DownloadInv
<1>4. \A i \in 1 .. next' - 1 : Algos[i] \notin published
  BY <1>1 DEF DownloadInv, Looked, Kept
<1>5. QED
  BY <1>1, <1>2, <1>3, <1>4 DEF DownloadInv, TypeOK, Looked, Kept, Undisturbed, Verified

LEMMA FindSendStep ==
  ASSUME DownloadInv, FindSend
  PROVE  DownloadInv'
<1> USE DEF FindSend, remote, main, files
<1>1. sidecar = <<>>
  BY Channel DEF DownloadInv, ResultsSound
<1>2. sidecar' = <<result>>
  BY <1>1, Channel
<1>3. ResultsSound'
  BY <1>2, SoundUnchanged DEF DownloadInv, ResultsSound, Sound, Results
<1>4. Len(sidecar') <= 1
  BY <1>2, Channel
<1>5. TypeOK'
  BY <1>4 DEF DownloadInv, TypeOK
<1>6. QED
  BY <1>3, <1>5 DEF DownloadInv, Looked, Kept, Undisturbed, Verified

-----------------------------------------------------------------------------
(* Download.                                                               *)

\* Any failure leaves destFile alone and removes the temporary file.
LEMMA ErrorStep ==
  ASSUME DownloadInv, pc \notin {"ok", "err"}, Return("err"),
         UNCHANGED <<remote, search, found, resp, dest>>
  PROVE  DownloadInv'
<1> USE DEF Return, remote, search
<1>1. ResultsSound'
  BY ResultsUnchanged DEF DownloadInv
<1>2. QED
  BY <1>1 DEF DownloadInv, TypeOK, Looked, Kept, Undisturbed, Verified

LEMMA GetStep ==
  ASSUME DownloadInv, Get
  PROVE  DownloadInv'
<1> USE DEF Get, remote, files
<1>1. ResultsSound'
  BY ResultsUnchanged DEF DownloadInv
<1>2. resp' \in Contents
  BY DEF DownloadInv, TypeOK
<1>3. QED
  BY <1>1, <1>2 DEF DownloadInv, TypeOK, Looked, Kept, Undisturbed, Verified

LEMMA CreateStep ==
  ASSUME DownloadInv, CreateTemp
  PROVE  DownloadInv'
<1>1. CASE Return("err")
  BY <1>1, ErrorStep DEF CreateTemp
<1>2. CASE tmp' = "" /\ pc' = "copy"
  <2>1. ResultsSound'
    BY ResultsUnchanged DEF DownloadInv, CreateTemp, remote, search
  <2>2. tmp' # None
    BY <1>2, DownloadAssumption
  <2>3. TypeOK'
    BY <1>2, <2>2 DEF CreateTemp, remote, search, DownloadInv, TypeOK
  <2>4. QED
    BY <1>2, <2>1, <2>3
    DEF CreateTemp, remote, search, DownloadInv, Looked, Kept, Undisturbed, Verified
<1>3. QED
  BY <1>1, <1>2 DEF CreateTemp

LEMMA CopyStep ==
  ASSUME DownloadInv, Copy
  PROVE  DownloadInv'
<1> USE DEF Copy, remote, search
<1>1. ResultsSound'
  BY ResultsUnchanged DEF DownloadInv
<1>2. resp \in Contents /\ tmp' \in {resp, Damaged} /\ tmp' # None
  BY DEF DownloadInv, Verified
<1>3. QED
  BY <1>1, <1>2 DEF DownloadInv, TypeOK, Looked, Kept, Undisturbed, Verified

LEMMA ReceiveStep ==
  ASSUME DownloadInv, Receive
  PROVE  DownloadInv'
<1> USE DEF Receive, Return, remote
<1>1. PICK r \in Results : sidecar = <<r>> /\ Sound(r)
  BY DEF DownloadInv, ResultsSound
<1>2. found' = r /\ sidecar' = <<>>
  BY <1>1, Channel
<1>3. Sound(found)'
  BY <1>1, <1>2, SoundUnchanged DEF Sound
<1>4. ResultsSound'
  BY <1>2, <1>3, SoundUnchanged DEF DownloadInv, ResultsSound
<1>5. found'.algo \in 0 .. Len(Algos)
  BY <1>2 DEF Results
<1>6. Head(sidecar) = r
  BY <1>1, Channel
<1>7. Len(sidecar') <= 1
  BY <1>2, Channel
<1>8. QED
  BY <1>2, <1>4, <1>5, <1>6, <1>7 DEF DownloadInv, TypeOK, Looked, Kept, Undisturbed, Verified

LEMMA InstallStep ==
  ASSUME DownloadInv, Install
  PROVE  DownloadInv'
<1> USE DEF Install, Accepted, Return, remote, search
<1>1. ResultsSound'
  BY ResultsUnchanged DEF DownloadInv
<1>2. QED
  BY <1>1 DEF DownloadInv, TypeOK, Looked, Kept, Undisturbed, Verified

LEMMA DownloadNext == DownloadInv /\ [Next]_vars => DownloadInv'
<1> SUFFICES ASSUME DownloadInv, [Next]_vars PROVE DownloadInv'
  OBVIOUS
<1>1. CASE Finder
  BY <1>1, FindStep, FindSkipStep, FindSendStep DEF Finder
<1>2. CASE GetFailed \/ CopyFailed \/ VerifyFailed \/ InstallFailed
  BY <1>2, ErrorStep DEF GetFailed, CopyFailed, VerifyFailed, InstallFailed
<1>3. CASE Get \/ CreateTemp \/ Copy \/ Receive \/ Install
  BY <1>3, GetStep, CreateStep, CopyStep, ReceiveStep, InstallStep
<1>4. ASSUME NEW c \in Contents, Redeploy(c) PROVE DownloadInv'
  BY <1>4, RedeployStep
<1>5. ASSUME NEW a \in AlgoSet, RedeploySum(a) PROVE DownloadInv'
  BY <1>5, RedeploySumStep
<1>6. CASE UNCHANGED vars
  <2>1. ResultsSound'
    BY <1>6, ResultsUnchanged DEF vars, DownloadInv
  <2>2. TypeOK'
    BY <1>6 DEF vars, DownloadInv, TypeOK
  <2>3. QED
    BY <1>6, <2>1, <2>2 DEF vars, DownloadInv, Looked, Kept, Undisturbed, Verified
<1>7. QED
  BY <1>1, <1>2, <1>3, <1>4, <1>5, <1>6 DEF Next, Main, Stopped

LEMMA DownloadSafe == Spec => []DownloadInv
BY DownloadInit, DownloadNext, PTL DEF Spec

-----------------------------------------------------------------------------
\* Types: the channel never holds two results, and the temporary file exists
\* only between its creation and the return.
THEOREM DownloadTyped == Spec => []TypeOK
<1>1. DownloadInv => TypeOK
  BY DEF DownloadInv
<1>2. QED
  BY <1>1, DownloadSafe, PTL

\* destFile is never left truncated, and is untouched unless Download succeeds.
THEOREM DestWhole == Spec => []DestWholeOrUntouched
<1>1. DownloadInv => DestWholeOrUntouched
  BY DEF DownloadInv, Verified, DestWholeOrUntouched
<1>2. QED
  BY <1>1, DownloadSafe, PTL

LEMMA InvDetects == DownloadInv => DamageIsDetected
<1> SUFFICES ASSUME DownloadInv, pc = "ok", deploys = 0, NEW a \in AlgoSet, sums[a] # None
             PROVE  dest = body
  BY DEF DamageIsDetected
<1>1. Sound(found) /\ ~ found.err /\ (found.algo = 0 \/ found.want = dest)
  BY DEF DownloadInv, ResultsSound, Verified
<1>2. found.algo \in 1 .. Len(Algos) /\ found.want = dest
  BY <1>1, AlgoOf DEF Sound, Results
<1>3. dest \in Contents /\ dest = sums[Algos[found.algo]]
  BY <1>1, <1>2 DEF Sound
<1>4. QED
  BY <1>2, <1>3, AlgoOf DEF DownloadInv, Undisturbed

\* A damaged body is not installed if the repository publishes any sidecar.
THEOREM DamageDetected == Spec => []DamageIsDetected
BY InvDetects, DownloadSafe, PTL

\* Whatever deploys replace while Download reads, a damaged body is not installed
\* if the repository published any sidecar when the call began.
THEOREM DamageDetectedAmidDeploys == Spec => []DeploysHideNoDamage
<1>1. ASSUME DownloadInv, pc = "ok", dest = Damaged PROVE published = {}
  <2>1. Sound(found) /\ ~ found.err /\ (found.algo = 0 \/ found.want = dest)
    BY <1>1 DEF DownloadInv, ResultsSound, Verified
  <2>2. ~ found.algo > 0
    BY <1>1, <2>1 DEF Sound
  <2>3. QED
    BY <2>1, <2>2 DEF Sound, Results
<1>2. DownloadInv => DeploysHideNoDamage
  BY <1>1 DEF DeploysHideNoDamage
<1>3. QED
  BY <1>2, DownloadSafe, PTL

\* findChecksum passes over no sidecar that is published.
THEOREM SidecarIsStrongest == Spec => []StrongestFound
<1>1. DownloadInv => StrongestFound
  BY DEF DownloadInv, ResultsSound, Sound, StrongestFound
<1>2. QED
  BY <1>1, DownloadSafe, PTL

-----------------------------------------------------------------------------
(* Copy.                                                                   *)

Pieces == Contents \cup {None, Old, Damaged}

\* Beyond its start Copy has a release, beyond Download a file that Download
\* installed, and what it landed on the target is that file.
CopyInv ==
  /\ sourcePom \in Contents \cup {None}
  /\ target \in [main : Pieces, pom : Pieces, listed : BOOLEAN]
  /\ pom \in Pieces
  /\ job \in {"fetch", "pom", "deploy"} => ~ snapshot
  /\ job \in {"pom", "deploy"} => pc = "ok"
  /\ job = "deploy" => pom # None
  /\ target.main # None => pc = "ok" /\ target.main = dest /\ ~ snapshot /\ pom # None

LEMMA CopyInit == PromoteInit => CopyInv
<1> SUFFICES ASSUME PromoteInit PROVE CopyInv
  OBVIOUS
<1>1. target \in [main : Pieces, pom : Pieces, listed : BOOLEAN] /\ target.main = None
  BY DEF PromoteInit, Pieces
<1>2. job \in {"start", "fetch"} /\ (job = "fetch" => ~ snapshot)
  BY DEF PromoteInit
<1>3. sourcePom \in Contents \cup {None} /\ pom \in Pieces
  BY DEF PromoteInit, Pieces
<1>4. QED
  BY <1>1, <1>2, <1>3 DEF CopyInv

\* While Download runs, Copy has landed nothing.
LEMMA DownloadingStep == CopyInv /\ Downloading => CopyInv'
<1> SUFFICES ASSUME CopyInv, Downloading PROVE CopyInv'
  OBVIOUS
<1>1. UNCHANGED <<copying, snapshot, job, dir, sourcePom, pom, target>>
  BY DEF Downloading, promotion
<1>2. CASE pc = "ok"
  <2>1. ~ Main
    BY <1>2 DEF Main, GetFailed, Get, CreateTemp, Copy, CopyFailed, Receive, VerifyFailed,
                InstallFailed, Install
  <2>2. pc' = pc /\ dest' = dest
    BY <2>1 DEF Downloading, Finder, FindNone, FindSkip, FindGot, FindError, FindSend, Redeploy,
                RedeploySum, main, files
  <2>3. QED
    BY <1>1, <2>2 DEF CopyInv
<1>3. CASE pc # "ok"
  BY <1>1, <1>3 DEF CopyInv
<1>4. QED
  BY <1>2, <1>3

LEMMA LandStep == DownloadInv /\ CopyInv /\ Land => CopyInv'
<1> SUFFICES ASSUME DownloadInv, CopyInv, Land PROVE CopyInv'
  OBVIOUS
<1>1. dest \in Pieces
  BY DEF DownloadInv, Verified, Pieces
<1>2. target' \in [main : Pieces, pom : Pieces, listed : BOOLEAN]
      /\ target'.main \in {target.main, dest}
  BY <1>1 DEF Land, CopyInv
<1>3. QED
  BY <1>2 DEF Land, CopyInv, vars, call

LEMMA ProgramStep == CopyInv /\ Program => CopyInv'
<1> SUFFICES ASSUME CopyInv, Program PROVE CopyInv'
  OBVIOUS
<1>1. UNCHANGED vars
  BY DEF Program, Start, Fetched, GetPom, DeployReturns
<1>2. CASE Start
  BY <1>1, <1>2 DEF Start, Leave, call, vars, CopyInv
<1>3. CASE Fetched
  BY <1>1, <1>3 DEF Fetched, Leave, call, vars, CopyInv
<1>4. CASE GetPom
  BY <1>1, <1>4 DEF GetPom, Leave, call, vars, CopyInv, Pieces
<1>5. CASE DeployReturns
  BY <1>1, <1>5 DEF DeployReturns, Leave, call, vars, CopyInv
<1>6. QED
  BY <1>2, <1>3, <1>4, <1>5 DEF Program

LEMMA CopyNext ==
  DownloadInv /\ CopyInv /\ [PromoteNext]_<<vars, promotion>> => CopyInv'
<1> SUFFICES ASSUME DownloadInv, CopyInv, [PromoteNext]_<<vars, promotion>> PROVE CopyInv'
  OBVIOUS
<1>1. CASE Program \/ Land \/ Downloading
  BY <1>1, ProgramStep, LandStep, DownloadingStep
<1>2. ASSUME NEW c \in Contents, RedeployPom(c) PROVE CopyInv'
  BY <1>2 DEF RedeployPom, call, vars, CopyInv
<1>3. CASE UNCHANGED <<vars, promotion>>
  BY <1>3 DEF vars, promotion, CopyInv
<1>4. QED
  BY <1>1, <1>2, <1>3 DEF PromoteNext, Ended

\* Copy uses Download as it is: every step of Copy is a step of Download's
\* specification or leaves its variables alone, so what is proved of Download
\* holds inside Copy.
THEOREM CopyDownloads == PromoteSpec => Spec
<1>1. PromoteInit => Init
  BY DEF PromoteInit
<1>2. [PromoteNext]_<<vars, promotion>> => [Next]_vars
  <2> SUFFICES ASSUME [PromoteNext]_<<vars, promotion>> PROVE [Next]_vars
    OBVIOUS
  <2>1. CASE Program \/ Land \/ Ended \/ (\E c \in Contents : RedeployPom(c))
    BY <2>1 DEF Program, Start, Fetched, GetPom, DeployReturns, Land, Ended, RedeployPom
  <2>2. CASE Downloading
    BY <2>2 DEF Downloading, Next
  <2>3. QED
    BY <2>1, <2>2 DEF PromoteNext
<1>3. QED
  BY <1>1, <1>2, PTL DEF PromoteSpec, Spec

\* What Copy lands on the target is a release, has a POM, and is what the
\* source's strongest sidecar vouches for.
THEOREM PromotedIsVouched == PromoteSpec => []PromotesWhatSourceVouches
<1>1. DownloadInv /\ CopyInv => PromotesWhatSourceVouches
  <2> SUFFICES ASSUME DownloadInv, CopyInv, target.main # None
               PROVE  PromotesWhatSourceVouches
    BY DEF PromotesWhatSourceVouches
  <2>1. pc = "ok" /\ target.main = dest /\ ~ snapshot /\ pom # None
    BY DEF CopyInv
  <2>2. found.algo > 0 => dest = found.want
    BY <2>1 DEF DownloadInv, Verified
  <2>3. deploys = 0 /\ (\E a \in AlgoSet : sums[a] # None) => dest = body
    BY <2>1, InvDetects DEF DamageIsDetected
  <2>4. QED
    BY <2>1, <2>2, <2>3 DEF PromotesWhatSourceVouches
<1>2. QED
  BY <1>1, CopyDownloads, DownloadSafe, CopyInit, CopyNext, PTL DEF PromoteSpec
=============================================================================
