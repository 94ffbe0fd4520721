------------------------------ MODULE Transport ------------------------------
(***************************************************************************)
(* Client.httpClient of internal/repo/client.go: HTTP clients are built on *)
(* demand, one per proxy address, kept for the life of the Client, and     *)
(* shared by the requests of all its goroutines to all repositories.  The  *)
(* mutex makes a lookup one step.  Every attempt of a request (Request)    *)
(* looks its client up again.                                              *)
(***************************************************************************)
EXTENDS Request

CONSTANTS
  Direct,         \* no proxy, which has the address ""
  OtherProxies    \* the proxies of the other repositories in use, or Direct

VARIABLES
  proxy,      \* RemoteRepo.Proxy of the repository the request goes to
  clients,    \* Client.transport: the proxy each client was built with
  via         \* the proxy of the client that sent the last attempt

pooling == <<proxy, clients, via>>

TransportInit ==
  /\ Init
  /\ proxy = Direct
  /\ clients = <<>>
  /\ via = Direct

\* Mutant: all clients are kept under one key.
KeyConstant(p) == ""

\* The proxy's host and port, "" without a proxy.
Key(p) == p.address

\* The cache once it has a client for that key.
Built(p) ==
  [k \in DOMAIN clients \cup {Key(p)} |-> IF k \in DOMAIN clients THEN clients[k] ELSE p]

\* The client for a repository with that proxy.
HttpClient(p) == Built(p)[Key(p)]

SendVia ==
  /\ Send
  /\ via' = HttpClient(proxy)
  /\ clients' = Built(proxy)
  /\ UNCHANGED proxy

\* A request of this Client to another repository, earlier or concurrent.
OtherSend(p) ==
  /\ Key(p) \notin DOMAIN clients
  /\ clients' = Built(p)
  /\ UNCHANGED <<vars, proxy, via>>

\* The request ends or goes on without an attempt.
WithoutClient == (BadTarget \/ Receive \/ TransportError \/ GiveUp) /\ UNCHANGED pooling

TransportStep == SendVia \/ WithoutClient

TransportEnvironment ==
  \/ Network /\ UNCHANGED pooling
  \/ \E p \in OtherProxies : OtherSend(p)
-----------------------------------------------------------------------------
\* A Client serves many repositories: whichever of them built the client that
\* an attempt finds in the cache, also one that failed before in the same
\* request, the attempt goes to the address of its own repository's proxy, or
\* directly if it has none.
ThroughItsProxy == attempt > 0 => via.address = proxy.address
=============================================================================
