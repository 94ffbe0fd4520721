-------------------------- MODULE MCDeployCommand --------------------------
(***************************************************************************)
(* Command lines for TLC: a main artifact, its classified files deployed   *)
(* in the same or another command, and a main artifact that is a POM.      *)
(***************************************************************************)
EXTENDS DeployCommand, TLC

MCClassifiers == {"", "sources"}
MCTypes == {"jar", "pom"}

NoAttachment == [s \in {} |-> [via |-> "attach", classifier |-> "", type |-> "jar"]]
Attach(v, k, t) == [s \in {"att"} |-> [via |-> v, classifier |-> k, type |-> t]]

Cmd(packaging, k, pomFile, generate, att) ==
  [version |-> "1", packaging |-> packaging, classifier |-> k,
   pomFile |-> pomFile, generatePom |-> generate, attach |-> att]

\* The steps of a build: the artifact with its generated POM, the sources in
\* a command of their own, and a SNAPSHOT.  Client.Deploy rejects the fourth
\* command, runDeploy the fifth.
BuildSteps ==
  {Cmd("omitted", "", FALSE, "omitted", NoAttachment),
   Cmd("jar", "sources", FALSE, "omitted", NoAttachment),
   [Cmd("jar", "", FALSE, "false", NoAttachment) EXCEPT !.version = "1-SNAPSHOT"],
   Cmd("jar", "", FALSE, "false", Attach("files", "", "jar")),
   Cmd("jar", "", FALSE, "false", Attach("attach", "", "jar"))}

\* A parent POM, deployed as deploy:deploy-file users do.
PomArtifact == {Cmd("pom", "", FALSE, "omitted", NoAttachment)}

\* Attachments that bear the name of the main artifact.
SameName ==
  {Cmd("jar", k, FALSE, "false", Attach(v, k, "omitted")) :
     k \in MCClassifiers, v \in {"attach", "files"}}

Overwriting == PomArtifact \cup SameName
=============================================================================
