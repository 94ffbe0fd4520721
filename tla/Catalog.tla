------------------------------ MODULE Catalog -------------------------------
(***************************************************************************)
(* What Deploy promises a caller who deploys one version after another:    *)
(* the catalog of a groupId:artifactId.                                    *)
(*                                                                         *)
(* A published build is numbered one above the last, replaces the entries  *)
(* of the files it brings and keeps the others; a listed version stays     *)
(* listed, and the release is the last release listed.  Nothing is ever    *)
(* forgotten.  The two documents change one at a time, because a call can  *)
(* die between its two metadata writes.                                    *)
(***************************************************************************)
EXTENDS Naturals

CONSTANTS
  Times, Versions, Snapshots, NoVersion,
  Keys          \* classifier and type of a file

NoBuild == [time |-> 0, build |-> 0]

VARIABLES
  builds,    \* for each SNAPSHOT, the last build and what each key resolves to
  listed,    \* the version list
  release

catalog == <<builds, listed, release>>

Init ==
  /\ builds = [v \in Snapshots |->
       [stamp |-> NoBuild, entries |-> [k \in Keys |-> NoBuild]]]
  /\ listed = {}
  /\ release = NoVersion

\* A new build of v, with the files K, made at t.
Build(v, K, t) ==
  LET stamp == [time |-> t, build |-> builds[v].stamp.build + 1] IN
  /\ builds' = [builds EXCEPT ![v] =
       [stamp |-> stamp,
        entries |-> [k \in Keys |-> IF k \in K THEN stamp ELSE @.entries[k]]]]
  /\ UNCHANGED <<listed, release>>

List(v) ==
  /\ listed' = listed \cup {v}
  /\ release' = IF v \in Snapshots THEN release ELSE v
  /\ UNCHANGED builds

Next ==
  \/ \E v \in Snapshots, K \in (SUBSET Keys) \ {{}}, t \in Times : Build(v, K, t)
  \/ \E v \in Versions : List(v)

Spec == Init /\ [][Next]_catalog
=============================================================================
