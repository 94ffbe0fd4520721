------------------------------- MODULE Reading -------------------------------
(***************************************************************************)
(* A small file read into memory: GetBytesInto of internal/repo/client.go, *)
(* with or without a buffer of metaBufPool, as ResolveVersion and          *)
(* fetchOrInitMetadata (deploy.go) use it; then the document is parsed and *)
(* the buffer goes back to the pool, from which another goroutine may have *)
(* it next.                                                                *)
(*                                                                         *)
(* The body is the cells 1 .. size, the last of which ends the document.   *)
(***************************************************************************)
EXTENDS Transport

CONSTANTS
  Arrays,       \* memory for buffers, enough to find a fresh one
  None,         \* no array
  MaxMeta,      \* maxMetaBytes
  MaxSize       \* bound on the size of a body

ASSUME ReadingAssumption ==
  /\ None \notin Arrays
  /\ \A a, b, c \in Arrays \cup {None} : ~ Arrays \subseteq {a, b, c}
  /\ MaxMeta \in Nat \ {0} /\ MaxSize \in Nat

Foreign == -1         \* a cell of another goroutine's document
NewCapacity == 1      \* of a buffer that metaBufPool makes

VARIABLES
  mem,            \* the contents of each array, as long as its capacity
  pool,           \* the arrays in metaBufPool
  theirs,         \* the array another goroutine has from it
  bp,             \* the array to put back: *bp
  array, len,     \* the slice buf
  reader,         \* where the reading goroutine is
  size, known,    \* the body, and whether Content-Length gives its size
  got,            \* how much of it was read
  document        \* what the parser made of it, <<>> if nothing

buffers == <<mem, pool, theirs, bp, array, len, reader, size, known, got, document>>
body == <<size, known, got>>

ReadingInit ==
  /\ TransportInit
  /\ mem = [a \in Arrays |-> <<>>]
  /\ pool = {} /\ theirs = None
  /\ bp = None /\ array = None /\ len = 0
  /\ reader = "idle"
  /\ size = 0 /\ known = FALSE /\ got = 0
  /\ document = <<>>

Fresh == CHOOSE a \in Arrays : a \notin pool \cup {theirs, bp, array}
Zeros(n) == [i \in 1 .. n |-> 0]
Cap(a) == IF a = None THEN 0 ELSE Len(mem[a])
Smaller(m, n) == IF m < n THEN m ELSE n

\* metaBufPool.Get, or a nil buffer (GetBytes).
TakeBuffer ==
  /\ reader = "idle"
  /\ \/ \E a \in pool : bp' = a /\ pool' = pool \ {a} /\ UNCHANGED mem
     \/ bp' = Fresh /\ mem' = [mem EXCEPT ![Fresh] = Zeros(NewCapacity)] /\ UNCHANGED pool
     \/ bp' = None /\ UNCHANGED <<mem, pool>>
  /\ array' = bp'
  /\ reader' = "request"
  /\ UNCHANGED <<vars, pooling, theirs, len, body, document>>

RequestStep == reader = "request" /\ TransportStep /\ UNCHANGED buffers

\* do returned an error.
NotRead ==
  /\ reader = "request" /\ outcome \in {"absent", "failed"}
  /\ reader' = "put"
  /\ UNCHANGED <<vars, pooling, mem, pool, theirs, bp, array, len, body, document>>

\* A length that is known and within the bound: a slice of that length.
Headers(n, k) ==
  /\ reader = "request" /\ outcome = "ok"
  /\ size' = n /\ known' = k /\ got' = 0
  /\ IF k /\ n \in 1 .. MaxMeta
     THEN /\ reader' = "full"
          /\ len' = n
          /\ IF Cap(array) < n
             THEN array' = Fresh /\ mem' = [mem EXCEPT ![Fresh] = Zeros(n)]
             ELSE UNCHANGED <<array, mem>>
     ELSE reader' = "loop" /\ len' = 0 /\ UNCHANGED <<array, mem>>
  /\ UNCHANGED <<vars, pooling, pool, theirs, bp, document>>

\* The next n cells of the body, written at offset at.
Fill(at, n) ==
  mem' = [mem EXCEPT ![array] =
            [i \in 1 .. Len(@) |-> IF i \in at + 1 .. at + n THEN got + i - at ELSE @[i]]]

\* Mutant: one Read in place of io.ReadFull.
ReadFullOnce ==
  /\ reader = "full"
  /\ \E n \in 1 .. size - got :
       /\ Fill(got, n)
       /\ got' = got + n
       /\ reader' = "parse"
  /\ UNCHANGED <<vars, pooling, pool, theirs, bp, array, len, size, known, document>>

\* io.ReadFull, one Read at a time.
ReadFull ==
  /\ reader = "full"
  /\ \E n \in 1 .. size - got :
       /\ Fill(got, n)
       /\ got' = got + n
       /\ reader' = IF got' = size THEN "parse" ELSE reader
  /\ UNCHANGED <<vars, pooling, pool, theirs, bp, array, len, size, known, document>>

\* Mutant: the outgrown buffer is put back, and once more at the end.
GrowReleases ==
  /\ reader = "loop" /\ len < MaxMeta /\ len = Cap(array)
  /\ \E c \in len + 1 .. 2 * len + 1 :
       mem' = [mem EXCEPT ![Fresh] = [i \in 1 .. c |-> IF i <= len THEN mem[array][i] ELSE 0]]
  /\ array' = Fresh
  /\ pool' = pool \cup ({array} \ {None})
  /\ UNCHANGED <<vars, pooling, theirs, bp, len, reader, body, document>>

\* append finds no room and moves the cells to a larger array.
Grow ==
  /\ reader = "loop" /\ len < MaxMeta /\ len = Cap(array)
  /\ \E c \in len + 1 .. 2 * len + 1 :
       mem' = [mem EXCEPT ![Fresh] = [i \in 1 .. c |-> IF i <= len THEN mem[array][i] ELSE 0]]
  /\ array' = Fresh
  /\ UNCHANGED <<vars, pooling, pool, theirs, bp, len, reader, body, document>>

\* A Read, which may return the end of the body with its last cells, or only
\* after them.  A body without a length may also end early, unnoticed.
Read ==
  /\ reader = "loop" /\ len < MaxMeta /\ len < Cap(array)
  /\ \E n \in 0 .. Smaller(Cap(array) - len, size - got), eof \in BOOLEAN :
       /\ (eof /\ known) => got + n = size
       /\ n > 0 \/ eof
       /\ Fill(len, n)
       /\ got' = got + n
       /\ len' = len + n
       /\ reader' = IF eof THEN "parse" ELSE reader
  /\ UNCHANGED <<vars, pooling, pool, theirs, bp, array, size, known, document>>

\* What is beyond the bound is left out.
Truncate ==
  /\ reader = "loop" /\ len >= MaxMeta
  /\ len' = MaxMeta
  /\ reader' = "parse"
  /\ UNCHANGED <<vars, pooling, mem, pool, theirs, bp, array, body, document>>

\* The connection fails.
ReadFailed ==
  /\ reader \in {"full", "loop"}
  /\ reader' = "put"
  /\ UNCHANGED <<vars, pooling, mem, pool, theirs, bp, array, len, body, document>>

\* *bp = raw; the parser finds the end of a document, or returns an error.
Parse ==
  /\ reader = "parse"
  /\ LET raw == SubSeq(mem[array], 1, len) IN
       document' = IF \E i \in 1 .. len : raw[i] \in {size, Foreign} THEN raw ELSE <<>>
  /\ bp' = IF bp = None THEN None ELSE array
  /\ reader' = "put"
  /\ UNCHANGED <<vars, pooling, mem, pool, theirs, array, len, body>>

\* The deferred metaBufPool.Put.
PutBack ==
  /\ reader = "put"
  /\ pool' = pool \cup ({bp} \ {None})
  /\ bp' = None /\ array' = None
  /\ reader' = "done"
  /\ UNCHANGED <<vars, pooling, mem, theirs, len, body, document>>

-----------------------------------------------------------------------------
(* Another goroutine, and the collector, which empties pools.              *)

TheirTake ==
  /\ theirs = None
  /\ \/ \E a \in pool : theirs' = a /\ pool' = pool \ {a} /\ UNCHANGED mem
     \/ /\ pool = {}
        /\ theirs' = Fresh /\ mem' = [mem EXCEPT ![Fresh] = Zeros(NewCapacity)]
        /\ UNCHANGED pool
  /\ UNCHANGED <<vars, pooling, bp, array, len, reader, body, document>>

TheirPut(c) ==
  /\ theirs # None
  /\ c >= Cap(theirs)
  /\ mem' = [mem EXCEPT ![theirs] = [i \in 1 .. c |-> Foreign]]
  /\ pool' = pool \cup {theirs}
  /\ theirs' = None
  /\ UNCHANGED <<vars, pooling, bp, array, len, reader, body, document>>

Collect(a) ==
  /\ a \in pool
  /\ pool' = pool \ {a}
  /\ mem' = [mem EXCEPT ![a] = <<>>]
  /\ UNCHANGED <<vars, pooling, theirs, bp, array, len, reader, body, document>>

-----------------------------------------------------------------------------
ReadingStep ==
  \/ TakeBuffer \/ RequestStep \/ NotRead \/ ReadFull \/ Grow \/ Read \/ Truncate
  \/ ReadFailed \/ Parse \/ PutBack
  \/ \E n \in 0 .. MaxSize, k \in BOOLEAN : Headers(n, k)

ReadingEnvironment ==
  \/ TransportEnvironment /\ UNCHANGED buffers
  \/ TheirTake
  \/ \E c \in 1 .. MaxSize : TheirPut(c)
  \/ \E a \in pool : Collect(a)
-----------------------------------------------------------------------------
\* A buffer has one user at a time: what is in the pool is nobody's, and no
\* two goroutines hold the same array, though it grows in their hands.
BuffersExclusive ==
  /\ pool \cap {theirs, bp, array} = {}
  /\ theirs # None => theirs \notin {bp, array}

\* A document that was parsed is the body of this response, whole and in
\* order: nothing of what the buffer held before or another goroutine wrote,
\* no part cut off at maxMetaBytes or by a lost connection.
ReadsWhatWasSent ==
  document # <<>> => document = [i \in 1 .. size |-> i]
=============================================================================
