---------------------------- MODULE SessionProofs ----------------------------
(***************************************************************************)
(* Theorems about a request, alone (Request) and inside a run of goven     *)
(* (Session): its attempts, the client they go through (Transport), and    *)
(* the buffer its answer is read into (Reading), for any command lines,    *)
(* files, proxies, attempts and sizes.                                     *)
(***************************************************************************)
EXTENDS Session, SequenceTheorems, TLAPS

-----------------------------------------------------------------------------
(* The request: Client.do.                                                 *)

\* An attempt was made for a URL that can be parsed, an answer given to an
\* attempt, and a 2xx to one that was applied.
AnswersTrue ==
  /\ attempt > 0 => target = "good"
  /\ waiting \/ answer # "none" => attempt > 0
  /\ answer = "ok" => applied # {}

\* The loop ends with the answer it ends for.
OutcomeTrue ==
  /\ outcome # "none" => ~ waiting
  /\ outcome = "ok" => answer \in {"ok", "moved"}

\* An attempt is served once.
ServedOnce == unserved \cap applied = {}

IInv ==
  /\ TypeOK
  /\ AnswersTrue
  /\ OutcomeTrue
  /\ ServedOnce
  /\ AbsentIsAnswered
  /\ FailsOnlyWhenItMust

LEMMA AttemptsType == Attempts \in Nat \ {0}
BY RequestAssumption DEF Attempts

LEMMA IInvInit == Init => IInv
<1> SUFFICES ASSUME Init PROVE IInv
  OBVIOUS
<1>1. TypeOK
  <2>1. attempt \in 0 .. Attempts
    BY AttemptsType DEF Init
  <2>2. QED
    BY <2>1 DEF Init, TypeOK, Statuses, Outcomes
<1>2. AnswersTrue /\ OutcomeTrue /\ AbsentIsAnswered /\ FailsOnlyWhenItMust
  BY DEF Init, AnswersTrue, OutcomeTrue, AbsentIsAnswered, FailsOnlyWhenItMust
<1>3. ServedOnce
  BY DEF Init, ServedOnce
<1>4. QED
  BY <1>1, <1>2, <1>3 DEF IInv

\* The steps of the loop, and of the server and the network.
LEMMA IInvNext == IInv /\ [Next]_vars => IInv'
<1> SUFFICES ASSUME IInv, [Next]_vars PROVE IInv'
  OBVIOUS
<1> USE AttemptsType DEF IInv, TypeOK, AnswersTrue, OutcomeTrue, ServedOnce, AbsentIsAnswered,
                         FailsOnlyWhenItMust, Statuses, Outcomes
<1>1. CASE Send
  BY <1>1 DEF Send
<1>2. CASE Receive
  BY <1>2 DEF Receive, Verdict
<1>3. CASE TransportError
  BY <1>3 DEF TransportError
<1>4. CASE GiveUp \/ BadTarget
  <2>1. CASE GiveUp
    BY <2>1 DEF GiveUp
  <2>2. CASE BadTarget
    <3>1. attempt = 0
      BY <2>2 DEF BadTarget
    <3>2. QED
      BY <2>2, <3>1 DEF BadTarget
  <2>3. QED
    BY <1>4, <2>1, <2>2
<1>5. ASSUME NEW n \in unserved, Drop(n) PROVE IInv'
  BY <1>5 DEF Drop
<1>6. ASSUME NEW n \in unserved, NEW status \in Statuses, NEW done \in BOOLEAN,
             Serve(n, status, done)
      PROVE IInv'
  BY <1>6 DEF Serve
<1>7. ASSUME NEW t \in {"good", "bad"}, Call(t) PROVE IInv'
  BY <1>7 DEF Call
<1>8. CASE UNCHANGED vars
  BY <1>8 DEF vars
<1>9. QED
  BY <1>1, <1>2, <1>3, <1>4, <1>5, <1>6, <1>7, <1>8 DEF Next, Client, Network, Done

LEMMA Invariance == Spec => []IInv
BY IInvInit, IInvNext, PTL DEF Spec

\* However many attempts are configured: there are never more of them, and
\* the server handles only those that were made.
THEOREM RequestTyped == Spec => []TypeOK
<1>1. IInv => TypeOK
  BY DEF IInv
<1>2. QED
  BY <1>1, Invariance, PTL

\* ErrNotFound is returned only for a 404 of the server to the last attempt.
THEOREM AbsentIsTrue == Spec => []AbsentIsAnswered
<1>1. IInv => AbsentIsAnswered
  BY DEF IInv
<1>2. QED
  BY <1>1, Invariance, PTL

\* A request fails only when its attempts are used up, when it was refused, or
\* without any attempt, when http.NewRequest does not take its URL.
THEOREM FailuresJustified == Spec => []FailsOnlyWhenItMust
<1>1. IInv => FailsOnlyWhenItMust
  BY DEF IInv
<1>2. QED
  BY <1>1, Invariance, PTL

-----------------------------------------------------------------------------
LEMMA TransferStep == IInv /\ [Next]_vars => [Promise!Next]_(Promise!transfer)
<1> SUFFICES ASSUME IInv, [Next]_vars PROVE [Promise!Next]_(Promise!transfer)
  OBVIOUS
<1> USE AttemptsType DEF IInv, TypeOK, Promise!transfer, Promise!Next, Promise!Report,
                         Promise!Effect, Reported
<1>1. CASE Send
  BY <1>1 DEF Send
<1>2. CASE Receive
  <2>1. Verdict(answer) \in {"none", "ok", "absent", "failed"}
    BY <1>2 DEF Receive, Verdict, Statuses
  <2>2. Verdict(answer) = "ok" /\ answer # "moved" => applied # {}
    BY <1>2 DEF Receive, Verdict, AnswersTrue, Statuses
  <2>3. outcome = "none" /\ Reported = "none"
    BY <1>2 DEF Receive, OutcomeTrue
  <2>4. outcome' = Verdict(answer) /\ UNCHANGED <<answer, applied>>
    BY <1>2 DEF Receive
  <2>5. QED
    BY <2>1, <2>2, <2>3, <2>4
<1>3. CASE TransportError
  BY <1>3 DEF TransportError
<1>4. CASE GiveUp \/ BadTarget
  BY <1>4 DEF GiveUp, BadTarget
<1>5. ASSUME NEW n \in unserved, Drop(n) PROVE [Promise!Next]_(Promise!transfer)
  BY <1>5 DEF Drop
<1>6. ASSUME NEW n \in unserved, NEW status \in Statuses, NEW done \in BOOLEAN,
             Serve(n, status, done)
      PROVE [Promise!Next]_(Promise!transfer)
  <2>1. UNCHANGED Reported
    BY <1>6 DEF Serve, OutcomeTrue
  <2>2. CASE done
    <3>1. n \in 1 .. Attempts /\ n \notin applied
      BY DEF ServedOnce
    <3>2. applied' = applied \cup {n}
      BY <1>6, <2>2 DEF Serve
    <3>3. QED
      BY <2>1, <3>1, <3>2
  <2>3. CASE ~ done
    <3>1. UNCHANGED applied
      BY <1>6, <2>3 DEF Serve
    <3>2. QED
      BY <2>1, <3>1
  <2>4. QED
    BY <2>2, <2>3
<1>7. ASSUME NEW t \in {"good", "bad"}, Call(t) PROVE [Promise!Next]_(Promise!transfer)
  BY <1>7 DEF Call
<1>8. CASE UNCHANGED vars
  BY <1>8 DEF vars
<1>9. QED
  BY <1>1, <1>2, <1>3, <1>4, <1>5, <1>6, <1>7, <1>8 DEF Next, Client, Network, Done

\* However many attempts are configured: the report of a success that was no
\* redirect (Reported) stands for an effect the server has performed, each
\* attempt has at most one effect, and a report stands.
THEOREM RequestRefinesTransfer == Spec => ImplementsTransfer
<1>1. Init => Promise!Init
  BY DEF Init, Promise!Init, Reported
<1>2. QED
  BY <1>1, Invariance, TransferStep, PTL DEF Spec, ImplementsTransfer, Promise!Spec

-----------------------------------------------------------------------------
(* Its client: httpClient.                                                 *)

ClientsByAddress == \A k \in DOMAIN clients : clients[k].address = k

\* No attempt is made before its repository is known.
AttemptsOfRequest ==
  /\ attempt \in Nat
  /\ stage # "request" => attempt = 0

ProxyInv == ClientsByAddress /\ AttemptsOfRequest /\ ThroughItsProxy

\* What the invariant is about.
routing == <<attempt, proxy, clients, via, stage>>

\* Looking a client up keeps the cache in order, and finds the right address.
LEMMA BuiltByAddress ==
  ASSUME NEW p, ClientsByAddress
  PROVE  /\ \A k \in DOMAIN Built(p) : Built(p)[k].address = k
         /\ HttpClient(p).address = p.address
BY DEF ClientsByAddress, Built, HttpClient, Key

LEMMA ProxyInvInit == SessionInit => ProxyInv
BY DEF SessionInit, ReadingInit, TransportInit, Init, ProxyInv, ClientsByAddress,
       AttemptsOfRequest, ThroughItsProxy

LEMMA RoutingUnchanged == ProxyInv /\ UNCHANGED routing => ProxyInv'
BY DEF ProxyInv, routing, ClientsByAddress, AttemptsOfRequest, ThroughItsProxy

\* Before a request no attempt is made, and the proxy may change.
LEMMA PrepareStep == ProxyInv /\ Prepare => ProxyInv'
<1> SUFFICES ASSUME ProxyInv, Prepare PROVE ProxyInv'
  OBVIOUS
<1>1. stage # "request" /\ attempt' = attempt /\ UNCHANGED <<clients, via>>
  BY DEF Prepare, ParseGlobalFlags, ParseFlags, Load, Resolve, DeployGivesUp, Begin, Call,
         requesting, vars, pooling, buffers
<1>2. QED
  BY <1>1 DEF ProxyInv, ClientsByAddress, AttemptsOfRequest, ThroughItsProxy

LEMMA SendStep == ProxyInv /\ SendVia /\ stage = "request" /\ UNCHANGED stage => ProxyInv'
<1> SUFFICES ASSUME ProxyInv, SendVia, stage = "request", UNCHANGED stage PROVE ProxyInv'
  OBVIOUS
<1>1. attempt' \in Nat
  BY DEF ProxyInv, AttemptsOfRequest, SendVia, Send
<1>2. ClientsByAddress' /\ via'.address = proxy'.address
  BY BuiltByAddress DEF ProxyInv, ClientsByAddress, SendVia
<1>3. QED
  BY <1>1, <1>2 DEF ProxyInv, AttemptsOfRequest, ThroughItsProxy

LEMMA OtherSendStep ==
  ASSUME NEW p, ProxyInv, OtherSend(p), UNCHANGED stage
  PROVE  ProxyInv'
<1>1. ClientsByAddress'
  BY BuiltByAddress DEF ProxyInv, ClientsByAddress, OtherSend
<1>2. QED
  BY <1>1 DEF OtherSend, vars, ProxyInv, AttemptsOfRequest, ThroughItsProxy

LEMMA ReadingStepInv ==
  ProxyInv /\ ReadingStep /\ stage = "request" /\ UNCHANGED stage => ProxyInv'
<1> SUFFICES ASSUME ProxyInv, ReadingStep, stage = "request", UNCHANGED stage PROVE ProxyInv'
  OBVIOUS
<1>1. CASE RequestStep
  <2>1. CASE SendVia
    BY <2>1, SendStep
  <2>2. CASE WithoutClient
    BY <2>2, RoutingUnchanged
    DEF WithoutClient, BadTarget, Receive, TransportError, GiveUp, pooling, routing
  <2>3. QED
    BY <1>1, <2>1, <2>2 DEF RequestStep, TransportStep
<1>2. CASE ReadingStep /\ ~ RequestStep
  <2>1. UNCHANGED routing
    BY <1>2 DEF ReadingStep, TakeBuffer, NotRead, ReadFull, Grow, Read, Truncate, ReadFailed,
                Parse, PutBack, Headers, routing, vars, pooling
  <2>2. QED
    BY <2>1, RoutingUnchanged
<1>3. QED
  BY <1>1, <1>2

LEMMA EnvironmentStep == ProxyInv /\ ReadingEnvironment /\ UNCHANGED stage => ProxyInv'
<1> SUFFICES ASSUME ProxyInv, ReadingEnvironment, UNCHANGED stage PROVE ProxyInv'
  OBVIOUS
<1>1. ASSUME NEW p \in OtherProxies, OtherSend(p) PROVE ProxyInv'
  BY <1>1, OtherSendStep
<1>2. ASSUME Network, UNCHANGED pooling PROVE ProxyInv'
  BY <1>2, RoutingUnchanged DEF Network, Drop, Serve, pooling, routing
<1>3. ASSUME \/ TheirTake
             \/ \E c \in 1 .. MaxSize : TheirPut(c)
             \/ \E a \in pool : Collect(a)
      PROVE ProxyInv'
  BY <1>3, RoutingUnchanged DEF TheirTake, TheirPut, Collect, vars, pooling, routing
<1>4. QED
  BY <1>1, <1>2, <1>3 DEF ReadingEnvironment, TransportEnvironment

LEMMA ProxyInvNext == ProxyInv /\ [SessionNext]_all => ProxyInv'
<1> SUFFICES ASSUME ProxyInv, [SessionNext]_all PROVE ProxyInv'
  OBVIOUS
<1>1. CASE Prepare
  BY <1>1, PrepareStep
<1>2. CASE Working
  BY <1>2, ReadingStepInv, EnvironmentStep DEF Working, setup
<1>3. CASE UNCHANGED all
  BY <1>3, RoutingUnchanged DEF all, setup, requesting, vars, pooling, routing
<1>4. QED
  BY <1>1, <1>2, <1>3 DEF SessionNext, Finished

\* Whatever the settings, the other repositories in use and the order of their
\* requests: an attempt goes to the address of its own repository's proxy.
THEOREM RoutedByAddress == SessionSpec => []ThroughItsProxy
<1>1. ProxyInv => ThroughItsProxy
  BY DEF ProxyInv
<1>2. QED
  BY <1>1, ProxyInvInit, ProxyInvNext, PTL DEF SessionSpec

-----------------------------------------------------------------------------
(* Every step of a run is a step of the request, or leaves it alone.       *)

LEMMA RequestOfSession == [SessionNext]_all => [Next]_vars
<1> SUFFICES ASSUME [SessionNext]_all PROVE [Next]_vars
  OBVIOUS
<1>1. CASE Prepare
  BY <1>1 DEF Prepare, ParseGlobalFlags, ParseFlags, Load, Resolve, DeployGivesUp, Begin,
              requesting, Next
<1>2. CASE ReadingStep
  <2>1. CASE RequestStep
    BY <2>1 DEF RequestStep, TransportStep, SendVia, WithoutClient, Next, Client
  <2>2. CASE ~ RequestStep
    BY <1>2, <2>2 DEF ReadingStep, TakeBuffer, NotRead, ReadFull, Grow, Read, Truncate,
                      ReadFailed, Parse, PutBack, Headers
  <2>3. QED
    BY <2>1, <2>2
<1>3. CASE ReadingEnvironment
  BY <1>3 DEF ReadingEnvironment, TransportEnvironment, OtherSend, TheirTake, TheirPut,
              Collect, Next
<1>4. CASE UNCHANGED all
  BY <1>4 DEF all, requesting
<1>5. QED
  BY <1>1, <1>2, <1>3, <1>4 DEF SessionNext, Working, Finished

\* A run of goven makes requests as Request has them, whatever led to them and
\* however the answer is read: what is proved of Request holds inside a run.
THEOREM SessionRequests == SessionSpec => Spec
<1>1. SessionInit => Init
  BY DEF SessionInit, ReadingInit, TransportInit
<1>2. QED
  BY <1>1, RequestOfSession, PTL DEF SessionSpec, Spec

\* In a run of goven too, whatever command makes the request and whichever URL
\* it has: the report of a success that was no redirect stands for an effect the
\* server has performed, and a report stands.
THEOREM SessionRefinesTransfer == SessionSpec => ImplementsTransfer
BY SessionRequests, RequestRefinesTransfer

-----------------------------------------------------------------------------
(* The buffer: GetBytesInto and metaBufPool.                               *)

Holders == Arrays \cup {None}

Memory ==
  /\ mem \in [Arrays -> Seq(Int)]
  /\ pool \subseteq Arrays
  /\ theirs \in Holders /\ bp \in Holders /\ array \in Holders
  /\ len \in Nat /\ size \in Nat /\ got \in Nat

\* Until this goroutine returns its buffer, the pool has made at most one
\* array for others, in use or put back.
OneElsewhere ==
  reader # "done" => \A a, b \in (pool \cup {theirs}) \ {None} : a = b

\* The buffer starts with the first n cells of this body.
Holds(n) ==
  /\ n <= size /\ n <= Cap(array)
  /\ \A i \in 1 .. n : mem[array][i] = i

\* What was read so far is in place.
Filled ==
  /\ reader = "full" => Holds(got) /\ got < size /\ len = size /\ len <= Cap(array)
  /\ reader = "loop" => Holds(got) /\ len = got
  /\ reader = "parse" => Holds(len)

\* The parser has not run.
Unparsed == reader \notin {"put", "done"} => document = <<>>

ReadingInv ==
  Memory /\ BuffersExclusive /\ OneElsewhere /\ Filled /\ Unparsed /\ ReadsWhatWasSent

LEMMA ReadingInvInit == SessionInit => ReadingInv
<1> SUFFICES ASSUME SessionInit PROVE ReadingInv
  OBVIOUS
<1> USE DEF SessionInit, ReadingInit
<1>1. Memory
  BY DEF Memory, Holders
<1>2. BuffersExclusive /\ OneElsewhere /\ Filled /\ Unparsed /\ ReadsWhatWasSent
  BY DEF BuffersExclusive, OneElsewhere, Filled, Unparsed, ReadsWhatWasSent
<1>3. QED
  BY <1>1, <1>2 DEF ReadingInv

\* There is memory for one more array.
LEMMA FreshExists ==
  ASSUME ReadingInv, reader # "done" \/ pool = {}
  PROVE  Fresh \in Arrays /\ Fresh \notin pool \cup {theirs, bp, array}
<1>1. PICK x : pool \cup {theirs} \subseteq {x, None} /\ x \in Holders
  <2>1. pool \cup {theirs} \subseteq Holders
    BY DEF ReadingInv, Memory, Holders
  <2>2. \A a, b \in (pool \cup {theirs}) \ {None} : a = b
    BY DEF ReadingInv, OneElsewhere
  <2>3. CASE pool \cup {theirs} \subseteq {None}
    BY <2>3 DEF Holders
  <2>4. ASSUME NEW x \in (pool \cup {theirs}) \ {None}
        PROVE  pool \cup {theirs} \subseteq {x, None} /\ x \in Holders
    BY <2>1, <2>2, <2>4
  <2>5. QED
    BY <2>3, <2>4
<1>2. ~ Arrays \subseteq {x, bp, array}
  BY <1>1, ReadingAssumption DEF ReadingInv, Memory, Holders
<1>3. \E a \in Arrays : a \notin pool \cup {theirs, bp, array}
  BY <1>1, <1>2, ReadingAssumption
<1>4. QED
  BY <1>3 DEF Fresh

LEMMA Blank == ASSUME NEW n \in Nat PROVE Zeros(n) \in Seq(Int) /\ Len(Zeros(n)) = n
BY DEF Zeros

\* The parser gets this body, whole, or nothing.
LEMMA ParseStep == ReadingInv /\ Parse => ReadingInv'
<1> SUFFICES ASSUME ReadingInv, Parse PROVE ReadingInv'
  OBVIOUS
<1> DEFINE raw == SubSeq(mem[array], 1, len)
<1> USE DEF ReadingInv, Parse
<1>1. Holds(len) /\ len \in Nat /\ size \in Nat
  BY DEF Filled, Memory
<1>2. \A i \in 1 .. len : mem[array][i] \in Int
  BY <1>1 DEF Holds
<1>3. /\ raw \in Seq(Int) /\ Len(raw) = len
      /\ \A i \in 1 .. len : raw[i] = i
  BY <1>1, <1>2, SubSeqProperties DEF Holds
<1>4. ASSUME NEW i \in 1 .. len, raw[i] \in {size, Foreign}
      PROVE  raw = [j \in 1 .. size |-> j]
  <2>1. len = size
    BY <1>1, <1>3, <1>4 DEF Holds, Foreign
  <2>2. [j \in 1 .. size |-> j] \in Seq(Int) /\ Len([j \in 1 .. size |-> j]) = size
    BY <1>1
  <2>3. QED
    BY <1>3, <2>1, <2>2, SeqEqual
<1>5. document' \in {<<>>, [j \in 1 .. size |-> j]}
  BY <1>4
<1>6. Memory' /\ Filled' /\ Unparsed'
  BY DEF body, Memory, Filled, Unparsed
<1>7. BuffersExclusive' /\ OneElsewhere'
  BY DEF BuffersExclusive, OneElsewhere, Memory, Holders
<1>8. ReadsWhatWasSent'
  BY <1>5 DEF body, ReadsWhatWasSent
<1>9. QED
  BY <1>6, <1>7, <1>8

LEMMA TakeStep == ReadingInv /\ TakeBuffer => ReadingInv'
<1> SUFFICES ASSUME ReadingInv, TakeBuffer PROVE ReadingInv'
  OBVIOUS
<1>1. Fresh \in Arrays /\ Fresh \notin pool \cup {theirs, bp, array}
  BY FreshExists DEF TakeBuffer
<1>2. Zeros(NewCapacity) \in Seq(Int)
  BY Blank DEF NewCapacity
<1> USE DEF ReadingInv, TakeBuffer
<1>3. Memory'
  BY <1>1, <1>2 DEF Memory, Holders, body
<1>4. BuffersExclusive'
  <2>1. /\ array' = bp' /\ theirs' = theirs /\ pool' \subseteq pool
        /\ bp' \notin pool' /\ (theirs # None => bp' # theirs)
    BY <1>1, ReadingAssumption DEF Memory, Holders, BuffersExclusive
  <2>2. pool \cap {theirs} = {}
    BY DEF BuffersExclusive
  <2>3. QED
    BY <2>1, <2>2 DEF BuffersExclusive
<1>5. OneElsewhere'
  BY DEF OneElsewhere
<1>6. Filled' /\ Unparsed' /\ ReadsWhatWasSent'
  BY DEF Filled, Unparsed, ReadsWhatWasSent, body
<1>7. QED
  BY <1>3, <1>4, <1>5, <1>6

LEMMA HeadersStep ==
  ASSUME ReadingInv, NEW n \in 0 .. MaxSize, NEW k \in BOOLEAN, Headers(n, k)
  PROVE  ReadingInv'
<1>1. Fresh \in Arrays /\ Fresh \notin pool \cup {theirs, bp, array}
  BY FreshExists DEF Headers
<1>2. n \in Nat /\ Zeros(n) \in Seq(Int) /\ Len(Zeros(n)) = n
  BY Blank, ReadingAssumption
<1>3. Memory /\ Cap(array) \in Nat
  BY DEF ReadingInv, Memory, Holders, Cap
<1>4. /\ UNCHANGED <<pool, theirs, bp, document>>
      /\ size' = n /\ got' = 0
  BY DEF Headers
<1>5. /\ mem' \in [Arrays -> Seq(Int)]
      /\ array' \in {array, Fresh} /\ Cap(array)' \in Nat
      /\ \/ reader' = "full" /\ len' = n /\ n > 0 /\ n <= Cap(array)'
         \/ reader' = "loop" /\ len' = 0
  <2>1. CASE k /\ n \in 1 .. MaxMeta /\ Cap(array) < n
    <3>1. array' = Fresh /\ mem' = [mem EXCEPT ![Fresh] = Zeros(n)]
      BY <2>1 DEF Headers
    <3>2. mem'[array'] = Zeros(n) /\ mem' \in [Arrays -> Seq(Int)]
      BY <1>1, <1>2, <1>3, <3>1 DEF Memory
    <3>3. array' # None
      BY <1>1, <3>1, ReadingAssumption
    <3>4. Cap(array)' = n
      BY <1>2, <3>2, <3>3 DEF Cap
    <3>5. QED
      BY <1>2, <2>1, <3>1, <3>2, <3>4 DEF Headers
  <2>2. CASE ~ (k /\ n \in 1 .. MaxMeta /\ Cap(array) < n)
    <3>1. UNCHANGED <<array, mem>>
      BY <2>2 DEF Headers
    <3>2. Cap(array)' = Cap(array)
      BY <3>1 DEF Cap
    <3>3. QED
      BY <1>2, <1>3, <2>2, <3>1, <3>2 DEF Headers, Memory
  <2>3. QED
    BY <2>1, <2>2
<1>6. Memory'
  BY <1>1, <1>2, <1>3, <1>4, <1>5 DEF Memory, Holders
<1>7. BuffersExclusive' /\ OneElsewhere'
  BY <1>1, <1>4, <1>5 DEF ReadingInv, BuffersExclusive, OneElsewhere, Headers
<1>8. Filled'
  BY <1>2, <1>4, <1>5 DEF Filled, Holds
<1>9. Unparsed' /\ ReadsWhatWasSent'
  BY <1>4, <1>5 DEF ReadingInv, Unparsed, ReadsWhatWasSent, Headers
<1>10. QED
  BY <1>6, <1>7, <1>8, <1>9 DEF ReadingInv

\* A Read puts the next cells where they belong, and nothing elsewhere.
LEMMA FillNext ==
  ASSUME ReadingInv, NEW n \in Nat, Fill(got, n), array \in Arrays,
         Holds(got), got + n <= Cap(array)
  PROVE  /\ mem' \in [Arrays -> Seq(Int)]
         /\ Len(mem'[array]) = Len(mem[array])
         /\ \A i \in 1 .. got + n : mem'[array][i] = i
<1> DEFINE cells == [i \in 1 .. Len(mem[array]) |->
                       IF i \in got + 1 .. got + n THEN got + i - got ELSE mem[array][i]]
<1>1. mem[array] \in Seq(Int) /\ got \in Nat /\ mem \in [Arrays -> Seq(Int)]
  BY DEF ReadingInv, Memory
<1>2. cells \in Seq(Int) /\ Len(cells) = Len(mem[array])
  BY <1>1
<1>3. mem' = [mem EXCEPT ![array] = cells]
  BY <1>1 DEF Fill
<1>4. mem'[array] = cells
  BY <1>1, <1>3
<1>5. \A i \in 1 .. got + n : cells[i] = i
  <2>1. got + n <= Len(mem[array])
    BY ReadingAssumption DEF Cap
  <2>2. \A i \in 1 .. got : mem[array][i] = i
    BY DEF Holds
  <2>3. QED
    BY <1>1, <2>1, <2>2
<1>6. mem' \in [Arrays -> Seq(Int)]
  BY <1>1, <1>2, <1>3
<1>7. QED
  BY <1>2, <1>4, <1>5, <1>6

LEMMA ReadFullStep == ReadingInv /\ ReadFull => ReadingInv'
<1> SUFFICES ASSUME ReadingInv, ReadFull PROVE ReadingInv'
  OBVIOUS
<1> USE DEF ReadingInv, ReadFull
<1>1. /\ Holds(got) /\ got < size /\ len = size /\ len <= Cap(array)
      /\ got \in Nat /\ size \in Nat /\ Cap(array) \in Nat
  BY DEF Filled, Memory, Cap, Holders
<1>2. PICK n \in 1 .. size - got :
        /\ Fill(got, n) /\ got' = got + n
        /\ reader' = IF got' = size THEN "parse" ELSE reader
  OBVIOUS
<1>3. array \in Arrays /\ array' = array
  BY <1>1 DEF Cap, Memory, Holders
<1>4. n \in Nat /\ got + n <= size /\ got + n <= Cap(array)
  BY <1>1
<1>5. /\ mem' \in [Arrays -> Seq(Int)]
      /\ Len(mem'[array]) = Len(mem[array])
      /\ \A i \in 1 .. got + n : mem'[array][i] = i
  BY <1>1, <1>2, <1>3, <1>4, FillNext
<1>6. Cap(array)' = Cap(array)
  BY <1>3, <1>5, ReadingAssumption DEF Cap
<1>7. Memory'
  BY <1>1, <1>2, <1>4, <1>5 DEF Memory
<1>8. BuffersExclusive' /\ OneElsewhere'
  BY DEF BuffersExclusive, OneElsewhere
<1>9. Filled'
  BY <1>1, <1>2, <1>3, <1>4, <1>5, <1>6 DEF Filled, Holds
<1>10. Unparsed' /\ ReadsWhatWasSent'
  BY DEF Unparsed, ReadsWhatWasSent
<1>11. QED
  BY <1>7, <1>8, <1>9, <1>10

LEMMA ReadStep == ReadingInv /\ Read => ReadingInv'
<1> SUFFICES ASSUME ReadingInv, Read PROVE ReadingInv'
  OBVIOUS
<1> USE DEF ReadingInv, Read
<1>1. Holds(got) /\ len = got /\ got \in Nat /\ size \in Nat /\ Cap(array) \in Nat
  BY DEF Filled, Memory, Cap, Holders
<1>2. PICK n \in 0 .. Smaller(Cap(array) - len, size - got), eof \in BOOLEAN :
        /\ Fill(len, n) /\ got' = got + n /\ len' = len + n
        /\ reader' = IF eof THEN "parse" ELSE reader
  OBVIOUS
<1>3. array \in Arrays /\ array' = array
  BY <1>1 DEF Cap, Memory, Holders
<1>4. n \in Nat /\ got + n <= size /\ got + n <= Cap(array)
  BY <1>1, <1>2 DEF Smaller, Holds
<1>5. /\ mem' \in [Arrays -> Seq(Int)]
      /\ Len(mem'[array]) = Len(mem[array])
      /\ \A i \in 1 .. got + n : mem'[array][i] = i
  BY <1>1, <1>2, <1>3, <1>4, FillNext
<1>6. Cap(array)' = Cap(array)
  BY <1>3, <1>5, ReadingAssumption DEF Cap
<1>7. Memory'
  BY <1>1, <1>2, <1>4, <1>5 DEF Memory
<1>8. BuffersExclusive' /\ OneElsewhere'
  BY DEF BuffersExclusive, OneElsewhere
<1>9. Filled'
  BY <1>1, <1>2, <1>3, <1>4, <1>5, <1>6 DEF Filled, Holds
<1>10. Unparsed' /\ ReadsWhatWasSent'
  BY <1>2 DEF Unparsed, ReadsWhatWasSent
<1>11. QED
  BY <1>7, <1>8, <1>9, <1>10

LEMMA GrowStep == ReadingInv /\ Grow => ReadingInv'
<1> SUFFICES ASSUME ReadingInv, Grow PROVE ReadingInv'
  OBVIOUS
<1>1. Fresh \in Arrays /\ Fresh \notin pool \cup {theirs, bp, array}
  BY FreshExists DEF Grow
<1>2. Memory /\ Holds(got) /\ len = got /\ len = Cap(array)
  BY DEF ReadingInv, Filled, Grow
<1>3. PICK c \in len + 1 .. 2 * len + 1 :
        mem' = [mem EXCEPT ![Fresh] = [i \in 1 .. c |-> IF i <= len THEN mem[array][i] ELSE 0]]
  BY DEF Grow
<1> DEFINE cells == [i \in 1 .. c |-> IF i <= len THEN mem[array][i] ELSE 0]
<1>4. c \in Nat /\ len \in Nat /\ len < c
  BY <1>2 DEF Memory
<1>5. \A i \in 1 .. c : i <= len => mem[array][i] = i
  BY <1>2, <1>4 DEF Holds
<1>6. cells \in Seq(Int) /\ Len(cells) = c /\ \A i \in 1 .. len : cells[i] = i
  BY <1>4, <1>5
<1>7. mem' \in [Arrays -> Seq(Int)] /\ array' = Fresh /\ mem'[array'] = cells
  BY <1>1, <1>2, <1>3, <1>6 DEF Memory, Grow
<1>8. Cap(array)' = c
  BY <1>1, <1>6, <1>7, ReadingAssumption DEF Cap
<1>9. UNCHANGED <<pool, theirs, bp, len, reader, size, got, document>>
  BY DEF Grow, body
<1>10. Memory'
  BY <1>1, <1>2, <1>7, <1>9 DEF Memory, Holders
<1>11. BuffersExclusive' /\ OneElsewhere'
  BY <1>1, <1>7, <1>9 DEF ReadingInv, BuffersExclusive, OneElsewhere
<1>12. Filled'
  <2>1. Holds(got)'
    <3>1. got' = got /\ size' = size /\ got <= size
      BY <1>2, <1>9 DEF Holds
    <3>2. got <= c
      BY <1>2, <1>4
    <3> HIDE DEF cells
    <3>3. \A i \in 1 .. got : mem'[array'][i] = i
      BY <1>2, <1>6, <1>7
    <3>4. QED
      BY <1>8, <3>1, <3>2, <3>3 DEF Holds
  <2>2. reader' = "loop" /\ len' = got'
    BY <1>2, <1>9 DEF Grow
  <2>3. QED
    BY <2>1, <2>2 DEF Filled
<1>13. Unparsed' /\ ReadsWhatWasSent'
  BY <1>9 DEF ReadingInv, Unparsed, ReadsWhatWasSent
<1>14. QED
  BY <1>10, <1>11, <1>12, <1>13 DEF ReadingInv

LEMMA TruncateStep == ReadingInv /\ Truncate => ReadingInv'
<1> SUFFICES ASSUME ReadingInv, Truncate PROVE ReadingInv'
  OBVIOUS
<1>1. Memory /\ Holds(got) /\ len = got /\ len >= MaxMeta /\ MaxMeta \in Nat
  BY ReadingAssumption DEF ReadingInv, Filled, Truncate
<1>2. UNCHANGED <<mem, pool, theirs, bp, array, size, got, document>>
  BY DEF Truncate, body
<1>3. len' = MaxMeta /\ reader' = "parse" /\ reader = "loop"
  BY DEF Truncate
<1>4. Cap(array)' = Cap(array) /\ Cap(array) \in Nat
  BY <1>1, <1>2 DEF Cap, Memory, Holders
<1>5. Filled'
  BY <1>1, <1>2, <1>3, <1>4 DEF Memory, Filled, Holds
<1>6. Memory' /\ BuffersExclusive' /\ OneElsewhere' /\ Unparsed' /\ ReadsWhatWasSent'
  BY <1>1, <1>2, <1>3 DEF ReadingInv, Memory, BuffersExclusive, OneElsewhere, Unparsed,
                          ReadsWhatWasSent
<1>7. QED
  BY <1>5, <1>6 DEF ReadingInv

\* An error, of the request or of the connection, leaves the buffer to PutBack.
LEMMA NotReadStep == ReadingInv /\ (NotRead \/ ReadFailed) => ReadingInv'
<1> SUFFICES ASSUME ReadingInv, NotRead \/ ReadFailed PROVE ReadingInv'
  OBVIOUS
<1>1. /\ UNCHANGED <<mem, pool, theirs, bp, array, len, size, got, document>>
      /\ reader' = "put" /\ reader \notin {"put", "done"}
  BY DEF NotRead, ReadFailed, body
<1>2. QED
  BY <1>1 DEF ReadingInv, Memory, BuffersExclusive, OneElsewhere, Filled, Unparsed,
              ReadsWhatWasSent

LEMMA PutBackStep == ReadingInv /\ PutBack => ReadingInv'
<1> SUFFICES ASSUME ReadingInv, PutBack PROVE ReadingInv'
  OBVIOUS
<1>1. /\ UNCHANGED <<mem, theirs, len, size, got, document>>
      /\ pool' = pool \cup ({bp} \ {None})
      /\ bp' = None /\ array' = None /\ reader' = "done"
  BY DEF PutBack, body
<1>2. Memory' /\ BuffersExclusive'
  BY <1>1, ReadingAssumption DEF ReadingInv, Memory, Holders, BuffersExclusive
<1>3. OneElsewhere' /\ Filled' /\ Unparsed' /\ ReadsWhatWasSent'
  BY <1>1 DEF ReadingInv, OneElsewhere, Filled, Unparsed, ReadsWhatWasSent
<1>4. QED
  BY <1>2, <1>3 DEF ReadingInv

\* What others do to arrays that are not in use here.
LEMMA OthersArrays ==
  ASSUME ReadingInv, NEW a \in Arrays, a # array, NEW cells \in Seq(Int),
         mem' = [mem EXCEPT ![a] = cells] \/ mem' = mem,
         UNCHANGED <<bp, array, len, reader, size, got, document>>
  PROVE  /\ mem' \in [Arrays -> Seq(Int)]
         /\ Filled' /\ Unparsed' /\ ReadsWhatWasSent'
<1>1. mem \in [Arrays -> Seq(Int)] /\ array \in Holders
  BY DEF ReadingInv, Memory
<1>2. mem' \in [Arrays -> Seq(Int)]
  BY <1>1
<1>3. array # None => mem'[array] = mem[array]
  BY <1>1 DEF Holders
<1>4. Cap(array)' = Cap(array)
  BY <1>3 DEF Cap
<1>5. \A n \in Nat : Holds(n) => Holds(n)'
  BY <1>3, <1>4 DEF Holds, Cap
<1>6. Filled'
  BY <1>4, <1>5 DEF ReadingInv, Memory, Filled
<1>7. QED
  BY <1>2, <1>6 DEF ReadingInv, Unparsed, ReadsWhatWasSent

LEMMA TheirTakeStep == ReadingInv /\ TheirTake => ReadingInv'
<1> SUFFICES ASSUME ReadingInv, TheirTake PROVE ReadingInv'
  OBVIOUS
<1>1. Memory /\ BuffersExclusive /\ OneElsewhere /\ theirs = None
  BY DEF ReadingInv, TheirTake
<1>2. UNCHANGED <<bp, array, len, reader, size, got, document>>
  BY DEF TheirTake, body
<1>3. ASSUME NEW a \in pool, theirs' = a, pool' = pool \ {a}, UNCHANGED mem
      PROVE  ReadingInv'
  <2>1. Memory' /\ BuffersExclusive' /\ OneElsewhere'
    BY <1>1, <1>2, <1>3, ReadingAssumption
       DEF Memory, Holders, BuffersExclusive, OneElsewhere
  <2>2. a \in Arrays /\ a # array /\ <<>> \in Seq(Int)
    BY <1>1, <1>3 DEF Memory, BuffersExclusive
  <2>3. QED
    BY <1>2, <1>3, <2>1, <2>2, OthersArrays DEF ReadingInv
<1>4. ASSUME pool = {}, theirs' = Fresh, pool' = pool,
             mem' = [mem EXCEPT ![Fresh] = Zeros(NewCapacity)]
      PROVE  ReadingInv'
  <2>1. Fresh \in Arrays /\ Fresh \notin {theirs, bp, array}
    BY <1>4, FreshExists
  <2>2. Zeros(NewCapacity) \in Seq(Int)
    BY Blank DEF NewCapacity
  <2>3. /\ mem' \in [Arrays -> Seq(Int)]
        /\ Filled' /\ Unparsed' /\ ReadsWhatWasSent'
    BY <1>2, <1>4, <2>1, <2>2, OthersArrays
  <2>4. Memory' /\ BuffersExclusive' /\ OneElsewhere'
    BY <1>1, <1>2, <1>4, <2>1, <2>3, ReadingAssumption
       DEF Memory, Holders, BuffersExclusive, OneElsewhere
  <2>5. QED
    BY <2>3, <2>4 DEF ReadingInv
<1>5. QED
  BY <1>3, <1>4 DEF TheirTake

LEMMA TheirPutStep ==
  ASSUME ReadingInv, NEW c \in 1 .. MaxSize, TheirPut(c)
  PROVE  ReadingInv'
<1>1. Memory /\ BuffersExclusive /\ OneElsewhere /\ theirs \in Arrays /\ theirs # array
  BY DEF ReadingInv, TheirPut, Memory, Holders, BuffersExclusive
<1>2. /\ UNCHANGED <<bp, array, len, reader, size, got, document>>
      /\ mem' = [mem EXCEPT ![theirs] = [i \in 1 .. c |-> Foreign]]
      /\ pool' = pool \cup {theirs} /\ theirs' = None
  BY DEF TheirPut, body
<1>3. [i \in 1 .. c |-> Foreign] \in Seq(Int)
  BY DEF Foreign
<1>4. /\ mem' \in [Arrays -> Seq(Int)]
      /\ Filled' /\ Unparsed' /\ ReadsWhatWasSent'
  BY <1>1, <1>2, <1>3, OthersArrays
<1>5. theirs # None /\ theirs \notin {bp, array} /\ None \notin pool
  BY <1>1, ReadingAssumption DEF Memory, BuffersExclusive
<1>6. Memory'
  BY <1>1, <1>2, <1>4 DEF Memory, Holders
<1>7. BuffersExclusive'
  BY <1>1, <1>2, <1>5 DEF BuffersExclusive
<1>8. OneElsewhere'
  <2>1. (pool' \cup {theirs'}) \ {None} = (pool \cup {theirs}) \ {None}
    BY <1>2, <1>5
  <2>2. QED
    BY <1>1, <1>2, <2>1 DEF OneElsewhere
<1>9. QED
  BY <1>4, <1>6, <1>7, <1>8 DEF ReadingInv

LEMMA CollectStep ==
  ASSUME ReadingInv, NEW a \in pool, Collect(a)
  PROVE  ReadingInv'
<1>1. Memory /\ BuffersExclusive /\ OneElsewhere /\ a \in Arrays /\ a # array
  BY DEF ReadingInv, Memory, BuffersExclusive
<1>2. /\ UNCHANGED <<theirs, bp, array, len, reader, size, got, document>>
      /\ mem' = [mem EXCEPT ![a] = <<>>] /\ pool' = pool \ {a}
  BY DEF Collect, body
<1>3. <<>> \in Seq(Int)
  OBVIOUS
<1>4. /\ mem' \in [Arrays -> Seq(Int)]
      /\ Filled' /\ Unparsed' /\ ReadsWhatWasSent'
  BY <1>1, <1>2, <1>3, OthersArrays
<1>5. Memory' /\ BuffersExclusive' /\ OneElsewhere'
  BY <1>1, <1>2, <1>4 DEF Memory, BuffersExclusive, OneElsewhere
<1>6. QED
  BY <1>4, <1>5 DEF ReadingInv

LEMMA BuffersUnchanged == ReadingInv /\ UNCHANGED buffers => ReadingInv'
<1> SUFFICES ASSUME ReadingInv, UNCHANGED buffers PROVE ReadingInv'
  OBVIOUS
<1> USE DEF ReadingInv, buffers
<1>1. Memory' /\ BuffersExclusive' /\ OneElsewhere' /\ Unparsed' /\ ReadsWhatWasSent'
  BY DEF Memory, BuffersExclusive, OneElsewhere, Unparsed, ReadsWhatWasSent
<1>2. Filled'
  BY DEF Filled, Holds, Cap
<1>3. QED
  BY <1>1, <1>2

LEMMA ReadingInvNext == ReadingInv /\ [SessionNext]_all => ReadingInv'
<1> SUFFICES ASSUME ReadingInv, [SessionNext]_all PROVE ReadingInv'
  OBVIOUS
<1>1. CASE UNCHANGED buffers
  BY <1>1, BuffersUnchanged
<1>2. CASE ReadingStep
  BY <1>1, <1>2, TakeStep, NotReadStep, HeadersStep, ReadFullStep, GrowStep, ReadStep,
     TruncateStep, ParseStep, PutBackStep DEF ReadingStep, RequestStep
<1>3. CASE ReadingEnvironment
  BY <1>1, <1>3, TheirTakeStep, TheirPutStep, CollectStep DEF ReadingEnvironment
<1>4. CASE Prepare
  BY <1>1, <1>4 DEF Prepare, ParseGlobalFlags, ParseFlags, Load, Resolve, DeployGivesUp, Begin,
                    requesting
<1>5. QED
  BY <1>1, <1>2, <1>3, <1>4 DEF SessionNext, Working, Finished, all, requesting

LEMMA ReadingSafe == SessionSpec => []ReadingInv
BY ReadingInvInit, ReadingInvNext, PTL DEF SessionSpec

\* However GetBytesInto grows its buffer, and whatever another goroutine and
\* the collector do to the pool: no array has two users.
THEOREM BuffersHaveOneUser == SessionSpec => []BuffersExclusive
<1>1. ReadingInv => BuffersExclusive
  BY DEF ReadingInv
<1>2. QED
  BY <1>1, ReadingSafe, PTL

\* For any size of the body and any maxMetaBytes, with or without a length
\* announced, and however the reads are cut: what was parsed is this body.
THEOREM DocumentIsTheBody == SessionSpec => []ReadsWhatWasSent
<1>1. ReadingInv => ReadsWhatWasSent
  BY DEF ReadingInv
<1>2. QED
  BY <1>1, ReadingSafe, PTL
=============================================================================
