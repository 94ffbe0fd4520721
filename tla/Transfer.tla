------------------------------ MODULE Transfer ------------------------------
(***************************************************************************)
(* What one request promises the code that makes it: at least once, from a *)
(* server that does not redirect it.                                       *)
(*                                                                         *)
(* The effect happens any number of times up to a bound, at any time after *)
(* the request was made, even after it was reported failed.  A success is  *)
(* reported after an effect; after an answer that redirects the request it *)
(* says nothing, which is told apart here and not by the caller.  Neither  *)
(* is revised.  Deploy's PutBody, LoseBody, FailBody and Land are these    *)
(* steps, for repositories that do not redirect a PUT.                     *)
(***************************************************************************)
EXTENDS Naturals

CONSTANT Tries          \* names of the effects there can be

VARIABLES effects, report

transfer == <<effects, report>>

Init == effects = {} /\ report = "none"

Effect(n) ==
  /\ n \notin effects
  /\ effects' = effects \cup {n}
  /\ UNCHANGED report

Report(r) ==
  /\ report = "none"
  /\ r = "ok" => effects # {}
  /\ report' = r
  /\ UNCHANGED effects

Next ==
  \/ \E n \in Tries : Effect(n)
  \/ \E r \in {"ok", "redirected", "absent", "failed"} : Report(r)

Spec == Init /\ [][Next]_transfer
=============================================================================
