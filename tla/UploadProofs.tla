---------------------------- MODULE UploadProofs ----------------------------
(***************************************************************************)
(* Theorems about Upload, for any contents of the file, any number of      *)
(* attempts and any moment at which the file is written or removed.        *)
(***************************************************************************)
EXTENDS Upload, TLAPS

USE UploadAssumption DEF Bodies, Digests, Opens

\* The digest pass sends once, and PutFile goes on to the sidecars with what
\* it received, which is no error.
HandedOver ==
  /\ pc = "stat" => hasher = "off"
  /\ hashCh # <<>> => hasher = "done"
  /\ pc \in {"sums", "ok"} => hasher = "done" /\ digest \notin {Gone, Unread}

\* As long as nobody touches the file, both goroutines see the same one.
Untouched ==
  changes = 0 =>
    /\ hasher = "read" => hashed = Opened
    /\ hasher \in {"send", "done"} => digest \in {file, Unread}
    /\ hashCh # <<>> => Head(hashCh) \in {file, Unread}
    /\ pc \notin {"stat", "err"} => file \in Contents /\ size = Size[file]
    /\ pc = "sending" => source = Opened
    /\ pc \in {"receive", "sums", "ok"} => body = file
    /\ pc = "ok" => sidecars = digest

UploadInv == TypeOK /\ HandedOver /\ Untouched

-----------------------------------------------------------------------------
\* The channel, which holds nothing or the one result.
LEMMA Channel ==
  /\ \A x : Append(<<>>, x) = <<x>> /\ Head(<<x>>) = x /\ Tail(<<x>>) = <<>> /\ <<x>> # <<>>
  /\ TypeOK /\ hashCh # <<>> => \E x \in Digests : hashCh = <<x>>
  /\ TypeOK /\ Len(hashCh) < 1 => hashCh = <<>>
<1>1. \A x : Append(<<>>, x) = <<x>> /\ Head(<<x>>) = x /\ Tail(<<x>>) = <<>> /\ <<x>> # <<>>
  OBVIOUS
<1>2. TypeOK /\ hashCh # <<>> => \E x \in Digests : hashCh = <<x>>
  BY DEF TypeOK
<1>3. \A x : Len(<<x>>) = 1
  OBVIOUS
<1>4. QED
  BY <1>1, <1>2, <1>3

\* What a file nobody touches gives: its content, to the digest pass and to an
\* attempt of the PUT.
LEMMA Reads ==
  ASSUME TypeOK, NEW o \in Opens
  PROVE  /\ o.content # Gone => Seen(o) \subseteq Contents \cup {Mixed}
         /\ o.at = changes => Seen(o) = {o.content}
         /\ Sent(o) \subseteq Bodies
         /\ o.at = changes /\ o.content \in Contents /\ size = Size[o.content] =>
              Sent(o) = {o.content}
<1>1. o.content # Gone => Seen(o) \subseteq Contents \cup {Mixed}
  BY DEF Seen, TypeOK
<1>2. o.at = changes => Seen(o) = {o.content}
  BY DEF Seen
<1>3. \A c \in Contents \cup {Mixed} : Complete(c) \subseteq Bodies
  BY DEF Complete
<1>4. Sent(o) \subseteq Bodies
  BY <1>1, <1>3 DEF Sent
<1>5. ASSUME o.at = changes, o.content \in Contents, size = Size[o.content]
      PROVE  Sent(o) = {o.content}
  <2>1. Complete(o.content) = {o.content}
    BY <1>5 DEF Complete
  <2>2. Sent(o) = UNION {Complete(c) : c \in {o.content}}
    BY <1>2, <1>5 DEF Sent
  <2>3. QED
    BY <2>1, <2>2
<1>6. QED
  BY <1>1, <1>2, <1>4, <1>5

LEMMA UploadInit == Init => UploadInv
<1> SUFFICES ASSUME Init PROVE UploadInv
  OBVIOUS
<1>1. 0 \in 0 .. MaxChanges /\ 0 \in 0 .. Attempts
  OBVIOUS
<1>2. hashed \in Opens /\ source \in Opens
  BY <1>1 DEF Init, Opened
<1>3. TypeOK
  BY <1>1, <1>2 DEF Init, TypeOK
<1>4. QED
  BY <1>3 DEF Init, UploadInv, HandedOver, Untouched

LEMMA StatStep == UploadInv /\ Stat => UploadInv'
<1> SUFFICES ASSUME UploadInv, Stat PROVE UploadInv'
  OBVIOUS
<1>1. file # Gone => Size[file] \in Nat
  BY DEF UploadInv, TypeOK
<1>2. QED
  BY <1>1 DEF Stat, Opened, local, remote, UploadInv, TypeOK, HandedOver, Untouched

LEMMA HashStep == UploadInv /\ Hash => UploadInv'
<1> SUFFICES ASSUME UploadInv, Hash PROVE UploadInv'
  OBVIOUS
<1>1. CASE HashOpen
  BY <1>1 DEF HashOpen, Opened, local, put, remote, UploadInv, TypeOK, HandedOver, Untouched
<1>2. CASE HashRead
  <2>1. digest' \in Digests /\ (changes = 0 => digest' \in {file, Unread})
    BY <1>2, Reads DEF HashRead, Opened, UploadInv, TypeOK, Untouched, Seen
  <2>2. QED
    BY <1>2, <2>1
    DEF HashRead, Opened, local, put, remote, UploadInv, TypeOK, HandedOver, Untouched
<1>3. CASE HashSend
  <2>1. hashCh' = <<digest>>
    BY <1>3, Channel DEF HashSend, UploadInv
  <2>2. QED
    BY <1>3, <2>1, Channel
    DEF HashSend, Opened, local, put, remote, UploadInv, TypeOK, HandedOver, Untouched
<1>4. QED
  BY <1>1, <1>2, <1>3 DEF Hash

LEMMA ReceiveStep == UploadInv /\ Receive => UploadInv'
<1> SUFFICES ASSUME UploadInv, Receive PROVE UploadInv'
  OBVIOUS
<1>1. PICK x \in Digests : hashCh = <<x>>
  BY Channel DEF UploadInv, Receive
<1>2. digest' = x /\ hashCh' = <<>> /\ pc' = IF x \in {Gone, Unread} THEN "err" ELSE "sums"
  BY <1>1, Channel DEF Receive
<1>3. Head(hashCh) = x /\ hashCh # <<>>
  BY <1>1, Channel
<1>4. QED
  BY <1>2, <1>3 DEF Receive, Opened, local, remote, UploadInv, TypeOK, HandedOver, Untouched

\* An attempt leaves the file, if nobody touches it.
LEMMA AttemptStep ==
  UploadInv /\ (AttemptOpen \/ AttemptApplied \/ AttemptFailed \/ PutFailed) => UploadInv'
<1> SUFFICES ASSUME UploadInv, AttemptOpen \/ AttemptApplied \/ AttemptFailed \/ PutFailed
             PROVE  UploadInv'
  OBVIOUS
<1>1. CASE AttemptApplied
  <2>1. body' \in Bodies /\ (changes = 0 => body' = file)
    BY <1>1, Reads DEF AttemptApplied, Opened, UploadInv, TypeOK, Untouched
  <2>2. QED
    BY <1>1, <2>1
    DEF AttemptApplied, Opened, local, hash, UploadInv, TypeOK, HandedOver, Untouched
<1>2. CASE AttemptFailed \/ PutFailed
  BY <1>2 DEF AttemptFailed, PutFailed, Opened, local, hash, remote, UploadInv, TypeOK, HandedOver,
              Untouched
<1>3. CASE AttemptOpen
  BY <1>3 DEF AttemptOpen, Opened, local, hash, remote, UploadInv, TypeOK, HandedOver, Untouched
<1>4. QED
  BY <1>1, <1>2, <1>3

LEMMA ReturnStep == UploadInv /\ (HashReturned \/ PutChecksums) => UploadInv'
BY DEF HashReturned, PutChecksums, Opened, local, hash, remote, UploadInv, TypeOK, HandedOver,
       Untouched

LEMMA ChangeStep ==
  ASSUME UploadInv, NEW c \in Contents \cup {Gone}, Change(c)
  PROVE  UploadInv'
BY DEF Change, Opened, hash, put, remote, UploadInv, TypeOK, HandedOver, Untouched

LEMMA UploadNext == UploadInv /\ [Next]_vars => UploadInv'
<1> SUFFICES ASSUME UploadInv, [Next]_vars PROVE UploadInv'
  OBVIOUS
<1>1. CASE Hash
  BY <1>1, HashStep
<1>2. CASE Main
  BY <1>2, StatStep, ReceiveStep, AttemptStep, ReturnStep DEF Main
<1>3. ASSUME NEW c \in Contents \cup {Gone}, Change(c) PROVE UploadInv'
  BY <1>3, ChangeStep
<1>4. CASE UNCHANGED vars
  BY <1>4 DEF vars, Opened, UploadInv, TypeOK, HandedOver, Untouched
<1>5. QED
  BY <1>1, <1>2, <1>3, <1>4 DEF Next, Stopped

LEMMA UploadSafe == Spec => []UploadInv
BY UploadInit, UploadNext, PTL DEF Spec

-----------------------------------------------------------------------------
\* Types; in particular the sidecars PutFile leaves are those of a content
\* the file had unless it was changed meanwhile, and a second result never
\* waits for the channel.
THEOREM UploadTyped == Spec => []TypeOK
<1>1. UploadInv => TypeOK
  BY DEF UploadInv
<1>2. QED
  BY <1>1, UploadSafe, PTL

\* A successful PutFile of a file that nobody touched left that file and its
\* digest, whichever attempt was applied and whenever the digest pass ran.
THEOREM UploadIsTheFile == Spec => []UploadsTheFile
<1>1. UploadInv => UploadsTheFile
  BY DEF UploadInv, HandedOver, Untouched, UploadsTheFile
<1>2. QED
  BY <1>1, UploadSafe, PTL
=============================================================================
