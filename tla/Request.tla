------------------------------ MODULE Request -------------------------------
(***************************************************************************)
(* Client.do of internal/repo/client.go: one request, with its retries,    *)
(* against a server and a network that may refuse it, fail, apply it       *)
(* without answering, or apply it long after the client gave up.           *)
(*                                                                         *)
(* A call sends its attempts one at a time: an attempt ends with an        *)
(* answer, or with a transport error (refused connection, reset, timeout)  *)
(* that says nothing about what the server does with it.                   *)
(***************************************************************************)
EXTENDS Integers, Sequences

CONSTANTS
  Retries       \* Client.Retries, as configured

ASSUME RequestAssumption == Retries \in Int

\* max(cl.Retries, 1)
Attempts == IF Retries > 1 THEN Retries ELSE 1

\* The classes of status codes that do tells apart, and "moved": a redirect
\* that net/http hands back (a 307 or 308 of a PUT, whose body it cannot send
\* again; one that names no location), or that it follows as a GET (a 301, 302
\* or 303 of a PUT).  It is below 400, as "ok" is.
Statuses == {"ok", "moved", "absent", "refused", "busy"}
Outcomes == {"none", "ok", "absent", "failed"}

VARIABLES
  target,     \* whether the request's URL can be parsed, "none" before the call
  attempt,    \* how many attempts were started
  waiting,    \* the client waits for the answer to its last attempt
  unserved,   \* the attempts the server has not handled
  answer,     \* the status sent back for the last attempt, or "none"
  applied,    \* the attempts whose effect the server performed
  outcome     \* what do returned, "none" while it runs

vars == <<target, attempt, waiting, unserved, answer, applied, outcome>>

Init ==
  /\ target = "none"
  /\ attempt = 0
  /\ waiting = FALSE
  /\ unserved = {}
  /\ answer = "none"
  /\ applied = {}
  /\ outcome = "none"

\* do is called: the URL is the repository's and the path.
Call(t) ==
  /\ target = "none"
  /\ target' = t
  /\ UNCHANGED <<attempt, waiting, unserved, answer, applied, outcome>>

\* http.NewRequest fails: there is nothing to retry.
BadTarget ==
  /\ target = "bad"
  /\ outcome = "none" /\ ~ waiting
  /\ outcome' = "failed"
  /\ UNCHANGED <<target, attempt, waiting, unserved, answer, applied>>

\* Mutant: the loop has no end.
SendUncapped ==
  /\ target = "good"
  /\ outcome = "none" /\ ~ waiting
  /\ attempt' = attempt + 1
  /\ waiting' = TRUE
  /\ unserved' = unserved \cup {attempt + 1}
  /\ answer' = "none"
  /\ UNCHANGED <<target, applied, outcome>>

\* A new request, with a new body: the loop's next iteration.
Send ==
  /\ target = "good"
  /\ outcome = "none" /\ ~ waiting
  /\ attempt < Attempts
  /\ attempt' = attempt + 1
  /\ waiting' = TRUE
  /\ unserved' = unserved \cup {attempt + 1}
  /\ answer' = "none"
  /\ UNCHANGED <<target, applied, outcome>>

\* The server handles an attempt, also one the client gave up, whose answer
\* is lost.  It answers 2xx only if it did what was asked; what it redirects
\* it may have done or not, and a 5xx may follow a success.
Serve(n, status, done) ==
  /\ n \in unserved
  /\ status = "ok" => done
  /\ status \in {"absent", "refused"} => ~ done
  /\ unserved' = unserved \ {n}
  /\ answer' = IF n = attempt /\ waiting THEN status ELSE answer
  /\ applied' = IF done THEN applied \cup {n} ELSE applied
  /\ UNCHANGED <<target, attempt, waiting, outcome>>

\* Mutant: an overloaded server counts as an absent file.
VerdictBusyAbsent(status) ==
  CASE status \in {"ok", "moved"} -> "ok"
    [] status = "refused" -> "failed"
    [] OTHER -> "absent"

\* Mutant: only 4xx are told apart from success.
VerdictBusyOK(status) ==
  CASE status \in {"ok", "moved", "busy"} -> "ok"
    [] status = "absent" -> "absent"
    [] status = "refused" -> "failed"

\* A status that ends the loop, and what do returns for it.
Verdict(status) ==
  CASE status \in {"ok", "moved"} -> "ok"
    [] status = "absent"  -> "absent"
    [] status = "refused" -> "failed"
    [] status = "busy"    -> "none"

\* The answer to the attempt arrives.
Receive ==
  /\ waiting
  /\ answer # "none"
  /\ waiting' = FALSE
  /\ outcome' = Verdict(answer)
  /\ UNCHANGED <<target, attempt, unserved, answer, applied>>

\* Mutant: a transport error is not retried.
TransportErrorFatal ==
  /\ waiting
  /\ waiting' = FALSE
  /\ outcome' = "failed"
  /\ UNCHANGED <<target, attempt, unserved, answer, applied>>

\* No answer: the transport reports an error.
TransportError ==
  /\ waiting
  /\ waiting' = FALSE
  /\ UNCHANGED <<target, attempt, unserved, answer, applied, outcome>>

\* The request does not reach the server at all.
Drop(n) ==
  /\ n \in unserved
  /\ n = attempt => ~ waiting
  /\ unserved' = unserved \ {n}
  /\ UNCHANGED <<target, attempt, waiting, answer, applied, outcome>>

\* Mutant: off by one, the loop waits for an attempt it never makes.
GiveUpLate ==
  /\ target = "good"
  /\ outcome = "none" /\ ~ waiting
  /\ attempt > Attempts
  /\ outcome' = "failed"
  /\ UNCHANGED <<target, attempt, waiting, unserved, answer, applied>>

\* The loop ends without a verdict.
GiveUp ==
  /\ target = "good"
  /\ outcome = "none" /\ ~ waiting
  /\ attempt = Attempts
  /\ outcome' = "failed"
  /\ UNCHANGED <<target, attempt, waiting, unserved, answer, applied>>

Done ==
  /\ outcome # "none" /\ unserved = {}
  /\ UNCHANGED vars

Client == BadTarget \/ Send \/ Receive \/ TransportError \/ GiveUp

Network ==
  \E n \in unserved :
    \/ Drop(n)
    \/ \E status \in Statuses, done \in BOOLEAN : Serve(n, status, done)

Next ==
  \/ \E t \in {"good", "bad"} : Call(t)
  \/ Client \/ Network \/ Done

Spec == Init /\ [][Next]_vars
-----------------------------------------------------------------------------
\* No more attempts than Client.Retries allows are made, and the server
\* handles none that was not.
TypeOK ==
  /\ target \in {"none", "good", "bad"}
  /\ attempt \in 0 .. Attempts
  /\ waiting \in BOOLEAN
  /\ unserved \subseteq 1 .. attempt
  /\ answer \in Statuses \cup {"none"}
  /\ applied \subseteq 1 .. attempt
  /\ outcome \in Outcomes

\* Callers fall through to the next repository when do returns ErrNotFound:
\* it does so only when the server answered 404 to its last attempt, never
\* for an overloaded server, a lost answer or exhausted attempts.
AbsentIsAnswered ==
  outcome = "absent" => attempt > 0 /\ answer = "absent"

\* What a retry may still bring about is not given up: a call fails after its
\* last attempt, when the server refused one, or without any attempt, for a
\* URL that no attempt can be made with.
FailsOnlyWhenItMust ==
  outcome = "failed" =>
    \/ target = "bad" /\ attempt = 0
    \/ target = "good" /\ (attempt = Attempts \/ answer = "refused")

\* What a caller cannot tell: a success after a redirect.
Reported == IF outcome = "ok" /\ answer = "moved" THEN "redirected" ELSE outcome

\* The request is made at least once: do reports a success only after the
\* server did what was asked, unless the server redirected it, and never
\* revises its report, while attempts it gave up may take effect at any time,
\* at most once each.
Promise == INSTANCE Transfer WITH
  Tries <- 1 .. Attempts, effects <- applied, report <- Reported

ImplementsTransfer == Promise!Spec
=============================================================================
