------------------------------ MODULE MCDeploy ------------------------------
(***************************************************************************)
(* Small instances of Deploy for TLC.                                      *)
(***************************************************************************)
EXTENDS Deploy, TLC

Jar == [classifier |-> "", type |-> "jar"]
Sources == [classifier |-> "sources", type |-> "jar"]
MCClassifiers == {"", "sources"}
MCTypes == {"jar", "pom"}

\* The calls are interchangeable.
Symmetry == Permutations(Deployers)

OnlyMain(k) == [s \in {"main"} |-> k]
MainAndAtt(k, a) == [s \in {"main", "att"} |-> IF s = "att" THEN a ELSE k]

Deploying(v, parts) == [version |-> v, parts |-> parts]

\* A SNAPSHOT and the release of it, one file each.
SnapshotAndRelease == {Deploying("1-SNAPSHOT", OnlyMain(Jar)),
                       Deploying("1", OnlyMain(Jar))}

\* Builds of a SNAPSHOT with different sets of files, and the release.
Mixed == {Deploying("1-SNAPSHOT", MainAndAtt(Jar, Sources)),
          Deploying("1-SNAPSHOT", OnlyMain(Sources)),
          Deploying("1", OnlyMain(Jar))}

=============================================================================
