------------------------------ MODULE Download ------------------------------
(***************************************************************************)
(* Client.Download of internal/repo/client.go: a goroutine looks for the   *)
(* strongest checksum sidecar while the body is written to a temporary     *)
(* file, which is verified and renamed into place.                         *)
(*                                                                         *)
(* Meanwhile the file may be deployed again: PutFile replaces the body and *)
(* then, in any order, each sidecar.                                       *)
(***************************************************************************)
EXTENDS Naturals, Sequences

CONSTANTS
  Contents,     \* what has been, or will be, deployed at the path
  Algos,        \* checksumAlgos, strongest first
  Damaged,      \* a body that arrived, but not as it was sent
  None,         \* no such file
  Old,          \* what destFile held before
  MaxDeploys    \* bound on the deploys during the download

ASSUME DownloadAssumption ==
  /\ Contents \cap {Damaged, None, Old} = {}
  /\ Damaged # None /\ Old # None /\ Old # Damaged
  /\ None # ""   \* an empty file is a file
  /\ Algos \in Seq(STRING) /\ MaxDeploys \in Nat

AlgoSet == {Algos[i] : i \in 1 .. Len(Algos)}

VARIABLES
  body, sums,       \* the repository: the file and each of its sidecars
  deploys,          \* how often it was deployed since
  deploying,        \* the sidecars the running deploy has yet to write
  published,        \* history: the sidecars there were when the call began
  finder, next,     \* the goroutine, and the sidecar it looks for
  result,           \* what findChecksum returned
  sidecar,          \* the channel
  found,            \* the result taken from it
  pc,               \* Download
  resp,             \* the body of the response
  tmp, dest         \* the local files

remote == <<body, sums, deploys, deploying, published>>
search == <<finder, next, result, sidecar>>
main == <<found, pc, resp>>
files == <<tmp, dest>>
vars == <<body, sums, deploys, deploying, published, finder, next, result, sidecar, found, pc,
          resp, tmp, dest>>

\* sidecarResult: the algorithm's index, 0 if there is no sidecar, and the
\* digest, represented by what it is the digest of; or an error.
Found(i, want) == [algo |-> i, want |-> want, err |-> FALSE]
Failure == [algo |-> 0, want |-> None, err |-> TRUE]

\* A repository that publishes any set of sidecars, or has no such file.
Init ==
  /\ body \in Contents \cup {None}
  /\ \E S \in SUBSET AlgoSet : sums = [a \in AlgoSet |-> IF a \in S THEN body ELSE None]
  /\ published = {a \in AlgoSet : sums[a] # None}
  /\ deploys = 0
  /\ deploying = {}
  /\ finder = "off"
  /\ next = 1
  /\ result = Failure
  /\ sidecar = <<>>
  /\ found = Failure
  /\ pc = "get"
  /\ resp = None
  /\ tmp = None
  /\ dest \in {None, Old}

-----------------------------------------------------------------------------
(* Somebody deploys the file.                                              *)

Redeploy(c) ==
  /\ deploys < MaxDeploys
  /\ body' = c
  /\ deploys' = deploys + 1
  /\ deploying' = AlgoSet
  /\ UNCHANGED <<sums, published, search, main, files>>

RedeploySum(a) ==
  /\ a \in deploying
  /\ sums' = [sums EXCEPT ![a] = body]
  /\ deploying' = deploying \ {a}
  /\ UNCHANGED <<body, deploys, published, search, main, files>>

-----------------------------------------------------------------------------
(* findChecksum.                                                           *)

FindNone ==
  /\ finder = "search" /\ next > Len(Algos)
  /\ finder' = "send"
  /\ result' = Found(0, None)
  /\ UNCHANGED <<remote, next, sidecar, main, files>>

\* Mutant: the index is advanced past a sidecar not looked at.
FindSkipTwo ==
  /\ finder = "search" /\ next <= Len(Algos)
  /\ sums[Algos[next]] = None
  /\ next' = next + 2
  /\ UNCHANGED <<remote, finder, result, sidecar, main, files>>

\* A 404: the next weaker one.
FindSkip ==
  /\ finder = "search" /\ next <= Len(Algos)
  /\ sums[Algos[next]] = None
  /\ next' = next + 1
  /\ UNCHANGED <<remote, finder, result, sidecar, main, files>>

FindGot ==
  /\ finder = "search" /\ next <= Len(Algos)
  /\ sums[Algos[next]] # None
  /\ finder' = "send"
  /\ result' = Found(next, sums[Algos[next]])
  /\ UNCHANGED <<remote, next, sidecar, main, files>>

\* Mutant: an error while looking counts as absence.
FindErrorSkips ==
  /\ finder = "search" /\ next <= Len(Algos)
  /\ next' = next + 1
  /\ UNCHANGED <<remote, finder, result, sidecar, main, files>>

FindError ==
  /\ finder = "search" /\ next <= Len(Algos)
  /\ finder' = "send"
  /\ result' = Failure
  /\ UNCHANGED <<remote, next, sidecar, main, files>>

\* Mutant: the channel has no buffer, the send waits for the receiver.
FindSendUnbuffered ==
  /\ finder = "send"
  /\ pc = "receive"
  /\ sidecar' = Append(sidecar, result)
  /\ finder' = "done"
  /\ UNCHANGED <<remote, next, result, main, files>>

\* The channel's buffer holds the one result, whether anybody receives it.
FindSend ==
  /\ finder = "send"
  /\ Len(sidecar) < 1
  /\ sidecar' = Append(sidecar, result)
  /\ finder' = "done"
  /\ UNCHANGED <<remote, next, result, main, files>>

-----------------------------------------------------------------------------
(* Download.                                                               *)

\* The deferred os.Remove, whatever path returns.
Return(p) == pc' = p /\ tmp' = None

GetFailed ==
  /\ pc = "get"
  /\ Return("err")
  /\ UNCHANGED <<remote, search, found, resp, dest>>

Get ==
  /\ pc = "get" /\ body # None
  /\ resp' = body
  /\ finder' = "search"
  /\ pc' = "create"
  /\ UNCHANGED <<remote, next, result, sidecar, found, files>>

\* Mutant: the body is written to destFile itself.
CreateInPlace ==
  /\ pc = "create"
  /\ \/ tmp' = "" /\ dest' = "" /\ pc' = "copy"
     \/ Return("err") /\ UNCHANGED dest
  /\ UNCHANGED <<remote, search, found, resp>>

\* MkdirAll and CreateTemp.
CreateTemp ==
  /\ pc = "create"
  /\ \/ tmp' = "" /\ pc' = "copy"
     \/ Return("err")
  /\ UNCHANGED <<remote, search, found, resp, dest>>

\* copyPooled and Close.  What arrives may be damaged on the way.
Copy ==
  /\ pc = "copy"
  /\ tmp' \in {resp, Damaged}
  /\ pc' = "receive"
  /\ UNCHANGED <<remote, search, found, resp, dest>>

CopyFailed ==
  /\ pc = "copy"
  /\ Return("err")
  /\ UNCHANGED <<remote, search, found, resp, dest>>

\* sc := <-sidecar
Receive ==
  /\ pc = "receive" /\ sidecar # <<>>
  /\ found' = Head(sidecar)
  /\ sidecar' = Tail(sidecar)
  /\ IF Head(sidecar).err
     THEN Return("err")
     ELSE pc' = "verify" /\ UNCHANGED tmp
  /\ UNCHANGED <<remote, finder, next, result, resp, dest>>

\* Mutant: only the strongest algorithm is verified.
AcceptedWeak == found.algo # 1 \/ found.want = tmp

Accepted == found.algo = 0 \/ found.want = tmp

\* Mutant: a mismatch leaves the temporary file.
VerifyFailedKeeps ==
  /\ pc = "verify"
  /\ ~ Accepted
  /\ pc' = "err"
  /\ UNCHANGED <<remote, search, found, resp, files>>

VerifyFailed ==
  /\ pc = "verify"
  /\ ~ Accepted
  /\ Return("err")
  /\ UNCHANGED <<remote, search, found, resp, dest>>

\* hashFile or Rename fails.
InstallFailed ==
  /\ pc = "verify"
  /\ Return("err")
  /\ UNCHANGED <<remote, search, found, resp, dest>>

Install ==
  /\ pc = "verify"
  /\ Accepted
  /\ dest' = tmp
  /\ Return("ok")
  /\ UNCHANGED <<remote, search, found, resp>>

-----------------------------------------------------------------------------
Finder == FindNone \/ FindSkip \/ FindGot \/ FindError \/ FindSend

Main ==
  \/ GetFailed \/ Get \/ CreateTemp \/ Copy \/ CopyFailed \/ Receive
  \/ VerifyFailed \/ InstallFailed \/ Install

Stopped == pc \in {"ok", "err"} /\ finder \in {"off", "done"} /\ UNCHANGED vars

Next ==
  \/ Finder \/ Main \/ Stopped
  \/ \E c \in Contents : Redeploy(c)
  \/ \E a \in AlgoSet : RedeploySum(a)

Spec == Init /\ [][Next]_vars
-----------------------------------------------------------------------------
\* The finder's result is taken from the channel at most once, and the
\* temporary file exists only between its creation and the return.
TypeOK ==
  /\ body \in Contents \cup {None}
  /\ sums \in [AlgoSet -> Contents \cup {None}]
  /\ deploys \in 0 .. MaxDeploys
  /\ deploying \subseteq AlgoSet
  /\ finder \in {"off", "search", "send", "done"}
  /\ next \in 1 .. Len(Algos) + 1
  /\ result.algo \in 0 .. Len(Algos)
  /\ Len(sidecar) <= 1
  /\ found.algo \in 0 .. Len(Algos)
  /\ pc \in {"get", "create", "copy", "receive", "verify", "ok", "err"}
  /\ resp \in Contents \cup {None}
  /\ tmp = None <=> pc \in {"get", "create", "ok", "err"}

\* "destFile is never left truncated": at every moment, and so also if the
\* process dies then, destFile is what it was or a body that was received
\* whole, and an error leaves it as it was.
DestWholeOrUntouched ==
  IF pc = "ok" THEN dest \in Contents \cup {Damaged} ELSE dest \in {None, Old}

\* A damaged body is installed only if the repository publishes no sidecar
\* at all: an error of the search, a weak sidecar alone, or the order in
\* which the two goroutines run never let it pass.
DamageIsDetected ==
  pc = "ok" /\ deploys = 0 =>
    dest = body \/ \A a \in AlgoSet : sums[a] = None

\* Nor does a deploy that replaces the body and the sidecars one by one while
\* they are read: with a sidecar there from the start, what is installed is never
\* damaged, though the call may fail where the two do not belong together.
DeploysHideNoDamage ==
  pc = "ok" /\ dest = Damaged => published = {}

\* The sidecar used is the strongest published.
StrongestFound ==
  deploys = 0 /\ found.algo > 0 =>
    \A i \in 1 .. found.algo - 1 : sums[Algos[i]] = None
=============================================================================
