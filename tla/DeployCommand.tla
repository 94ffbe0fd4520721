--------------------------- MODULE DeployCommand ---------------------------
(***************************************************************************)
(* The command line of goven deploy (cmd/goven/deploy.go): what runDeploy  *)
(* makes of its flags and -D properties, and the calls of Client.Deploy    *)
(* that follow.  Instances give Requests the value CommandRequests.        *)
(*                                                                         *)
(* A command names the main artifact by --gav or by properties; for both,  *)
(* "omitted" marks a packaging or a type that is not given.  Its POM is a  *)
(* file, or is generated or left out according to generatePom.             *)
(***************************************************************************)
EXTENDS Deploy

CONSTANTS
  Commands      \* the command lines under study

ASSUME CommandAssumption ==
  \A c \in Commands :
    /\ c.version \in Versions
    /\ c.classifier \in Classifiers
    /\ c.pomFile \in BOOLEAN
    /\ c.generatePom \in {"omitted", "true", "false"}
    /\ DOMAIN c.attach \subseteq AttSlots
    /\ \A s \in DOMAIN c.attach : c.attach[s].via \in {"attach", "files"}

\* The type of a file whose type or packaging is not given.
DefaultType(t) == IF t = "omitted" THEN "jar" ELSE t

\* deployCoords
MainKey(c) == [classifier |-> c.classifier, type |-> DefaultType(c.packaging)]

\* --attach needs a classifier; the property spelling does not.
AttachRefused(a) == a.via = "attach" /\ a.classifier = ""

\* An empty entry of -Dtypes counts as not given.
AttachKey(a) ==
  [classifier |-> a.classifier,
   type |-> IF a.via = "files" /\ a.type = "" THEN "jar" ELSE DefaultType(a.type)]

\* Mutant: the POM is generated whatever is deployed.
PomByDefault(c) == c.pomFile \/ c.generatePom # "false"

\* deployPOM: a POM file, or generation as asked, or generation for an
\* artifact without a classifier.
DeployPOM(c) ==
  \/ c.pomFile
  \/ c.generatePom = "true"
  \/ c.generatePom = "omitted" /\ c.classifier = ""

Refused(c) == \E s \in DOMAIN c.attach : AttachRefused(c.attach[s])

\* The arguments runDeploy passes to Client.Deploy, and the command itself.
RequestOf(c) ==
  [version |-> c.version,
   cmd     |-> c,
   parts   |-> [s \in {"main"} \cup DOMAIN c.attach
                      \cup (IF DeployPOM(c) THEN {"pom"} ELSE {}) |->
                  IF s = "main" THEN MainKey(c)
                  ELSE IF s = "pom" THEN PomKey
                  ELSE AttachKey(c.attach[s])]]

CommandRequests == {RequestOf(c) : c \in {x \in Commands : ~ Refused(x)}}

-----------------------------------------------------------------------------
AsksForPom(c) == c.pomFile \/ c.generatePom = "true"
AttachesPom(c) == \E s \in DOMAIN c.attach : AttachKey(c.attach[s]) = PomKey

\* "POM generation defaults OFF when a classifier is set, since the
\* classifier-less POM path would overwrite the main artifact's POM"
\* (deployPOM's comment): however the steps of a build interleave, fail and
\* crash, the POM of a release is one that a deploy of a classifier-less
\* artifact uploaded, or one that somebody asked for or attached.
PomStaysWithMain ==
  \A v \in Versions \ Snapshots :
    LET l == FileLoc(v, Literal, PomKey) IN
    l \in DOMAIN store =>
      LET c == req[store[l].by].cmd IN
      AsksForPom(c) \/ AttachesPom(c) \/ MainKey(c).classifier = ""

\* deploy_test.go: an attachment that "would overwrite main artifact" must be
\* rejected; deployPOM: a POM is not generated where its path "would overwrite
\* the main artifact's POM".  So nothing that a call uploads beside its main
\* artifact, but a POM that was asked for, has the main artifact's path.
NothingOverwritesMain ==
  \A d \in Deployers :
    phase[d] \in {"files", "meta"} =>
      \A s \in DOMAIN Parts(d) \ {"main"} :
        \/ s = "pom" /\ AsksForPom(req[d].cmd)
        \/ Loc(d, s) # Loc(d, "main")
=============================================================================
