------------------------------- MODULE Upload -------------------------------
(***************************************************************************)
(* Client.PutFile of internal/repo/deploy.go: the digest pass runs on its  *)
(* own goroutine while the file is uploaded, and hands its result over on  *)
(* a channel that the caller reads only after a successful PUT.            *)
(*                                                                         *)
(* Each attempt of the PUT opens the local file anew, as does the digest   *)
(* pass, and streams it.  The file belongs to another process: a build may *)
(* replace it, remove it, or write it again between the open and the end.  *)
(***************************************************************************)
EXTENDS Naturals, Sequences

CONSTANTS
  Contents,     \* what the local file may hold
  Size,         \* Contents -> Nat
  Empty,        \* an upload of no bytes
  Cut,          \* an upload of the first `size' bytes of a longer file
  Mixed,        \* bytes of several contents, read while the file was written
  Gone,         \* there is no such file, or it cannot be opened
  Unread,       \* the file could be opened but not read to its end
  Attempts,     \* requests do makes before it gives up
  MaxChanges    \* bound on what other processes do to the file

ASSUME UploadAssumption ==
  /\ Size \in [Contents -> Nat]
  /\ Contents \cap {Empty, Cut, Mixed, Gone, Unread} = {}
  /\ {Empty, Cut, Mixed} \cap {Gone, Unread} = {}
  /\ Gone # Unread
  /\ Attempts \in Nat \ {0}
  /\ MaxChanges \in Nat

VARIABLES
  sequential, \* Client.Sequential
  file,       \* the local file now
  changes,    \* how often it changed since PutFile was called
  size,       \* info.Size()
  hasher,     \* the digest pass: "off", "open", "read", "send", "done"
  hashed,     \* what it opened
  digest,     \* what it found: a content or Mixed, or Gone or Unread for an error
  hashCh,     \* the channel
  pc,         \* PutFile
  attempt,    \* of the PUT
  source,     \* what the attempt opened
  body,       \* what the repository holds at path, Gone if nothing
  sidecars    \* the digest in the checksum sidecars, Gone if there are none

local == <<sequential, file, changes>>
hash == <<hasher, hashed, digest, hashCh>>
put == <<size, pc, attempt, source>>
remote == <<body, sidecars>>
vars == <<sequential, file, changes, size, hasher, hashed, digest, hashCh, pc, attempt,
          source, body, sidecars>>

\* os.Open: the file, and how often it had been changed.
Opened == [content |-> file, at |-> changes]

\* What reading an opened file to its end may give: what it held when it was
\* opened, which an unlinked file keeps, or after a change what it holds by now,
\* or some of each.
Seen(o) ==
  {o.content} \cup (IF changes = o.at THEN {} ELSE {Mixed} \cup ({file} \ {Gone}))

Init ==
  /\ sequential \in BOOLEAN
  /\ file \in Contents \cup {Gone}
  /\ changes = 0
  /\ size = 0
  /\ hasher = "off"
  /\ hashed = Opened
  /\ digest = Gone
  /\ hashCh = <<>>
  /\ pc = "stat"
  /\ attempt = 0
  /\ source = Opened
  /\ body = Gone
  /\ sidecars = Gone

\* Another process writes or removes the file.
Change(c) ==
  /\ changes < MaxChanges
  /\ c # file
  /\ file' = c
  /\ changes' = changes + 1
  /\ UNCHANGED <<sequential, hash, put, remote>>

Stat ==
  /\ pc = "stat"
  /\ IF file = Gone
     THEN pc' = "err" /\ UNCHANGED <<size, hasher>>
     ELSE /\ size' = Size[file]
          /\ hasher' = "open"
          /\ pc' = IF sequential THEN "hashing" ELSE "put"
  /\ UNCHANGED <<local, hashed, digest, hashCh, attempt, source, remote>>

-----------------------------------------------------------------------------
(* hashPass: inline when sequential, else on its own goroutine.            *)

HashOpen ==
  /\ hasher = "open"
  /\ hashed' = Opened
  /\ IF file = Gone
     THEN hasher' = "send" /\ digest' = Gone
     ELSE hasher' = "read" /\ UNCHANGED digest
  /\ UNCHANGED <<local, hashCh, put, remote>>

HashRead ==
  /\ hasher = "read"
  /\ hasher' = "send"
  /\ digest' \in Seen(hashed) \cup {Unread}
  /\ UNCHANGED <<local, hashed, hashCh, put, remote>>

\* Mutant: the channel has no buffer, the send waits for the receiver.
HashSendUnbuffered ==
  /\ hasher = "send"
  /\ pc = "receive"
  /\ hashCh' = Append(hashCh, digest)
  /\ hasher' = "done"
  /\ UNCHANGED <<local, hashed, digest, put, remote>>

\* The channel's buffer holds the one result, whether anybody receives it.
HashSend ==
  /\ hasher = "send"
  /\ Len(hashCh) < 1
  /\ hashCh' = Append(hashCh, digest)
  /\ hasher' = "done"
  /\ UNCHANGED <<local, hashed, digest, put, remote>>

\* Sequential: PutFile goes on when the pass returns.
HashReturned ==
  /\ pc = "hashing" /\ hasher = "done"
  /\ pc' = "put"
  /\ UNCHANGED <<local, hash, size, attempt, source, remote>>

-----------------------------------------------------------------------------
(* The PUT.                                                                *)

\* The body's factory runs once per attempt.
AttemptOpen ==
  /\ pc = "put"
  /\ attempt < Attempts
  /\ attempt' = attempt + 1
  /\ source' = Opened
  /\ pc' = "sending"
  /\ UNCHANGED <<local, hash, size, remote>>

\* What a request announced with `size' bytes makes of a content: one that has
\* shrunk never makes a complete request, and 0 stands for an unknown length.
Complete(c) ==
  IF c = Mixed \/ size = 0 \/ Size[c] = size THEN {c}
  ELSE IF Size[c] > size THEN {Cut} ELSE {}

\* Mutant: the attempts share one reader, which the first one drains.
SentOnce(o) ==
  IF attempt > 1 \/ o.content = Gone THEN {Empty}
  ELSE UNION {Complete(c) : c \in Seen(o)}

\* What an attempt can leave in the repository: the file as it was read, its
\* first bytes if it grew, nothing at all if it could not be opened.
Sent(o) ==
  IF o.content = Gone THEN {Empty}
  ELSE UNION {Complete(c) : c \in Seen(o)}

\* An attempt that is applied; its answer may be lost.
AttemptApplied ==
  /\ pc = "sending"
  /\ body' \in Sent(source)
  /\ pc' \in {"put", "receive"}
  /\ UNCHANGED <<local, hash, size, attempt, source, sidecars>>

\* An attempt that is not: refused for good, or to be made again.
AttemptFailed ==
  /\ pc = "sending"
  /\ pc' \in {"put", "err"}
  /\ UNCHANGED <<local, hash, size, attempt, source, remote>>

PutFailed ==
  /\ pc = "put" /\ attempt = Attempts
  /\ pc' = "err"
  /\ UNCHANGED <<local, hash, size, attempt, source, remote>>

\* Mutant: an error of the digest pass is overlooked.
ReceiveAnything ==
  /\ pc = "receive"
  /\ hashCh # <<>>
  /\ hashCh' = Tail(hashCh)
  /\ digest' = Head(hashCh)
  /\ pc' = "sums"
  /\ UNCHANGED <<local, hasher, hashed, size, attempt, source, remote>>

\* hr := <-hashCh
Receive ==
  /\ pc = "receive"
  /\ hashCh # <<>>
  /\ hashCh' = Tail(hashCh)
  /\ digest' = Head(hashCh)
  /\ pc' = IF Head(hashCh) \in {Gone, Unread} THEN "err" ELSE "sums"
  /\ UNCHANGED <<local, hasher, hashed, size, attempt, source, remote>>

\* putChecksums: module Deploy has its tasks.
PutChecksums ==
  /\ pc = "sums"
  /\ \/ sidecars' = digest /\ pc' = "ok"
     \/ sidecars' = sidecars /\ pc' = "err"
  /\ UNCHANGED <<local, hash, size, attempt, source, body>>

-----------------------------------------------------------------------------
Returned == pc \in {"ok", "err"}

Stopped == Returned /\ hasher \in {"off", "done"} /\ UNCHANGED vars

Hash == HashOpen \/ HashRead \/ HashSend
Main ==
  \/ Stat \/ HashReturned
  \/ AttemptOpen \/ AttemptApplied \/ AttemptFailed \/ PutFailed
  \/ Receive \/ PutChecksums

Next ==
  \/ Hash \/ Main \/ Stopped
  \/ \E c \in Contents \cup {Gone} : Change(c)

Spec == Init /\ [][Next]_vars

\* Both goroutines are scheduled.
FairSpec == Spec /\ WF_vars(Hash) /\ WF_vars(Main)
-----------------------------------------------------------------------------
Bodies == Contents \cup {Empty, Cut, Mixed, Gone}
Digests == Contents \cup {Mixed, Gone, Unread}
Opens == [content : Contents \cup {Gone}, at : 0 .. MaxChanges]

\* Sidecars never hold the digest of a failed pass, and only a file that was
\* changed during it gives them one of no content it had; the channel holds one
\* result at most.
TypeOK ==
  /\ file \in Contents \cup {Gone}
  /\ changes \in 0 .. MaxChanges
  /\ size \in Nat
  /\ hasher \in {"off", "open", "read", "send", "done"}
  /\ hashed \in Opens
  /\ digest \in Digests
  /\ hashCh = <<>> \/ hashCh \in {<<x>> : x \in Digests}
  /\ pc \in {"stat", "hashing", "put", "sending", "receive", "sums", "ok", "err"}
  /\ attempt \in 0 .. Attempts
  /\ source \in Opens
  /\ body \in Bodies
  /\ sidecars \in Contents \cup {Mixed, Gone}
  /\ sidecars = Mixed => changes > 0

\* If nobody touches the file meanwhile, a call that returns no error left
\* the file and the digest of that same file in the repository, whichever
\* attempt succeeded and however the digest pass and the upload interleave.
UploadsTheFile ==
  pc = "ok" /\ changes = 0 => body = file /\ sidecars = file

\* PutFile returns, and the goroutine it started ends too, even when PutFile
\* left without reading the channel.
EverythingEnds == <>[](Returned /\ hasher \in {"off", "done"})

\* "PutFile uploads a local file with checksum sidecars": a call that returns
\* no error uploaded a content the file had, at least.
NeverEmpty == pc = "ok" => body # Empty
=============================================================================
