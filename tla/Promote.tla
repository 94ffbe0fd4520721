------------------------------- MODULE Promote -------------------------------
(***************************************************************************)
(* Client.Copy of internal/repo/deploy.go: a release is downloaded to a    *)
(* temporary directory, its POM is read, and both are deployed to another  *)
(* repository; or a Download on its own.                                   *)
(*                                                                         *)
(* Client.Deploy is reduced to what lands on the target: the two files in  *)
(* any order, the version list after them, or an error anywhere (Deploy).  *)
(***************************************************************************)
EXTENDS Download

VARIABLES
  copying,      \* Copy, or Download only
  snapshot,     \* the version is a SNAPSHOT
  job,          \* how far the call is
  dir,          \* the temporary directory, where dest is, exists
  sourcePom,    \* the POM in the source repository
  pom,          \* the POM that was read
  target        \* what landed on the target

call == <<copying, snapshot>>
promotion == <<copying, snapshot, job, dir, sourcePom, pom, target>>

PromoteInit ==
  /\ Init
  /\ copying \in BOOLEAN
  /\ snapshot \in IF copying THEN BOOLEAN ELSE {FALSE}
  /\ copying => dest = None
  /\ job = IF copying THEN "start" ELSE "fetch"
  /\ dir = FALSE
  /\ sourcePom \in Contents \cup {None}
  /\ pom = None
  /\ target = [main |-> None, pom |-> None, listed |-> FALSE]

\* Every return of Copy removes the directory.
Leave(end) == job' = end /\ dir' = FALSE

\* SNAPSHOTs are refused; MkdirTemp.
Start ==
  /\ job = "start"
  /\ \/ ~ snapshot /\ job' = "fetch" /\ dir' = TRUE
     \/ Leave("err")
  /\ UNCHANGED <<vars, call, sourcePom, pom, target>>

\* Download returned.
Fetched ==
  /\ job = "fetch" /\ pc \in {"ok", "err"}
  /\ IF copying /\ pc = "ok" THEN job' = "pom" /\ UNCHANGED dir ELSE Leave(pc)
  /\ UNCHANGED <<vars, call, sourcePom, pom, target>>

\* Mutant: an artifact without a POM is promoted as well.
GetPomOptional ==
  /\ job = "pom"
  /\ pom' \in {sourcePom, Damaged}
  /\ job' = "deploy" /\ UNCHANGED dir
  /\ UNCHANGED <<vars, call, sourcePom, target>>

\* GetBytes, which verifies no checksum; without a POM nothing is promoted.
GetPom ==
  /\ job = "pom"
  /\ \/ /\ sourcePom # None
        /\ pom' \in {sourcePom, Damaged}
        /\ job' = "deploy" /\ UNCHANGED dir
     \/ Leave("err") /\ UNCHANGED pom
  /\ UNCHANGED <<vars, call, sourcePom, target>>

Land ==
  /\ job = "deploy"
  /\ \/ target' = [target EXCEPT !.main = dest]
     \/ target' = [target EXCEPT !.pom = pom]
     \/ None \notin {target.main, target.pom} /\ target' = [target EXCEPT !.listed = TRUE]
  /\ UNCHANGED <<vars, call, job, dir, sourcePom, pom>>

DeployReturns ==
  /\ job = "deploy"
  /\ Leave("err") \/ (target.listed /\ Leave("ok"))
  /\ UNCHANGED <<vars, call, sourcePom, pom, target>>

\* The source's POM is deployed again as well.
RedeployPom(c) ==
  /\ deploys > 0 /\ sourcePom # c
  /\ sourcePom' = c
  /\ UNCHANGED <<vars, call, job, dir, pom, target>>

Downloading ==
  /\ UNCHANGED promotion
  /\ \/ Finder
     \/ job = "fetch" /\ Main
     \/ \E c \in Contents : Redeploy(c)
     \/ \E a \in AlgoSet : RedeploySum(a)

Program == Start \/ Fetched \/ GetPom \/ DeployReturns

Ended ==
  /\ job \in {"ok", "err"} /\ finder \in {"off", "done"}
  /\ UNCHANGED <<vars, promotion>>

PromoteNext ==
  \/ Program \/ Land \/ Downloading \/ Ended
  \/ \E c \in Contents : RedeployPom(c)

PromoteSpec == PromoteInit /\ [][PromoteNext]_<<vars, promotion>>

\* Both goroutines are scheduled, and the requests they make end.
PromoteFair ==
  /\ PromoteSpec
  /\ WF_<<vars, promotion>>(Finder /\ UNCHANGED promotion)
  /\ WF_<<vars, promotion>>(job = "fetch" /\ Main /\ UNCHANGED promotion)
  /\ WF_<<vars, promotion>>(Program)
-----------------------------------------------------------------------------
\* Only a release with a POM is promoted, and what lands on the target is what
\* the source vouches for: the body that the strongest sidecar belongs to,
\* however the source is deployed meanwhile, and an undamaged one if the
\* source publishes any sidecar.
PromotesWhatSourceVouches ==
  target.main # None =>
    /\ ~ snapshot /\ pom # None
    /\ found.algo > 0 => target.main = found.want
    /\ deploys = 0 /\ (\E a \in AlgoSet : sums[a] # None) => target.main = body

\* Download and Copy return, and the goroutine they started ends too, even
\* when Download left without reading the channel.
EverythingEnds == <>[](job \in {"ok", "err"} /\ finder \in {"off", "done"})
=============================================================================
