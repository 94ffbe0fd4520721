------------------------------ MODULE Session -------------------------------
(***************************************************************************)
(* A run of goven, up to its first answer: main and the commands of        *)
(* cmd/goven parse the command line (Arguments), load the settings         *)
(* (Settings), compute the repositories (Effective) and ask one of them    *)
(* for a small file through the shared client (Reading, Transport,         *)
(* Request).                                                               *)
(*                                                                         *)
(* A command line is a sequence of items: a flag with its value, or a      *)
(* token alone.  Once a request begins, what led to it is forgotten.       *)
(***************************************************************************)
EXTENDS Reading, Effective, Arguments

CONSTANTS
  Situations    \* the command lines, and the disks they meet

\* A token of mirrorOf: an id, "*" or "external:*", and whether "!" precedes it.
Tokens == [not : BOOLEAN, name : STRING]

\* The lists of a settings.xml, of entries whose parts are lists and texts.
OfLists(s) ==
  /\ s = [part \in DOMAIN NoSettings |-> s[part]]
  /\ \A part \in DOMAIN NoSettings : s[part] \in Seq(Range(s[part]))
  /\ \A srv \in Range(s.servers) :
       IsText(srv.username) /\ IsText(srv.password) /\ IsText(srv.headers)
  /\ \A m \in Range(s.mirrors) : m.mirrorOf \in Seq(Tokens) /\ IsText(m.url)
  /\ \A p \in Range(s.profiles) :
       /\ {"repositories", "properties"} \subseteq DOMAIN p
       /\ p.repositories \in Seq(Range(p.repositories))
       /\ \A r \in Range(p.repositories) :
            {"url", "releases", "snapshots"} \subseteq DOMAIN r /\ IsText(r.url)
       /\ \A name \in DOMAIN p.properties : IsText(p.properties[name])

ASSUME SituationsAssumption ==
  \A x \in Situations :
    /\ x.line \in Seq(Seq(UNION {Range(item) : item \in Range(x.line)}))
    /\ \A item \in Range(x.line) : \A i \in DOMAIN item : IsText(item[i].text)
    /\ \A file \in Range(x.disk.files) :
         /\ file.kind \in {"missing", "broken", "document"}
         /\ file.kind = "document" /\ "settings" \in DOMAIN file => OfLists(file.settings)

VARIABLES
  stage,      \* how far the command is
  line,       \* os.Args, in items
  disk,       \* the files, and whether a wrong passphrase goes unnoticed
  opts,       \* globalOpts, and the command's own flags and arguments
  config,     \* what LoadSettings returned
  repos       \* the RemoteRepos the command works with

setup == <<stage, line, disk, opts, config, repos>>
requesting == <<vars, pooling, buffers>>
all == <<setup, requesting>>

Nothing == <<>>

SessionInit ==
  /\ ReadingInit
  /\ stage = "global"
  /\ \E x \in Situations : line = x.line /\ disk = x.disk
  /\ opts = Nothing /\ config = Nothing /\ repos = <<>>

-----------------------------------------------------------------------------
(* The command line.                                                       *)

\* The map each command gives to reorderArgs.  (doctor, which has no flags,
\* makes requests of its own, and is left out.)
ValueFlags ==
  [get |-> {"o", "repo"}, exists |-> {"repo"}, latest |-> {"repo"}, copy |-> {"from", "to"},
   deploy |-> {"gav", "pom", "repo", "attach"}]

BoolFlags ==
  [get |-> {}, exists |-> {"json"}, latest |-> {"json"}, copy |-> {}, deploy |-> {"serial"}]

\* The command ends without a request: an error, or help.
Leaves ==
  /\ stage' = "ended"
  /\ line' = <<>> /\ disk' = Nothing /\ opts' = Nothing /\ config' = Nothing /\ repos' = <<>>

\* main: parseGlobal, and the command's name.
ParseGlobalFlags ==
  /\ stage = "global"
  /\ LET g == ParseGlobal(FlattenSeq(line)) IN
       IF ~ g.ok \/ g.rest = <<>> \/ g.rest[1] \notin {Word(name) : name \in DOMAIN ValueFlags}
       THEN Leaves
       ELSE /\ opts' = g
            /\ stage' = "flags"
            /\ UNCHANGED <<line, disk, config, repos>>
  /\ UNCHANGED requesting

\* --name, as a repository.
Target(flags, name) == IF name \in DOMAIN flags THEN flags[name].target ELSE NoTarget

\* What -Dname gives, "" if it is not given.
Property(props, name) ==
  IF name \in DOMAIN props /\ props[name] # <<>> THEN props[name][1].is ELSE ""

\* runDeploy: --repo, or -Durl with or without -DrepositoryId.
DeployTarget(f, props) ==
  IF Target(f.flags, "repo") = NoTarget /\ Property(props, "url") # ""
  THEN [id |-> Property(props, "repositoryId"), url |-> props["url"]]
  ELSE Target(f.flags, "repo")

\* The repositories a command names; none, and it works with the effective
\* ones.
Targets(command, f, props) ==
  CASE command = "copy"   -> <<Target(f.flags, "from"), Target(f.flags, "to")>>
    [] command = "deploy" -> <<DeployTarget(f, props)>>
    [] OTHER -> IF Target(f.flags, "repo") = NoTarget THEN <<>>
                ELSE <<Target(f.flags, "repo")>>

\* deployCoords: a file and coordinates are given.
DeployUsable(f, props) ==
  /\ Len(f.args) = 1 \/ (f.args = <<>> /\ Property(props, "file") # "")
  /\ IF "gav" \in DOMAIN f.flags THEN ParseCoords(f.flags["gav"].list).ok
     ELSE \A name \in {"groupId", "artifactId", "version"} : Property(props, name) # ""

\* One artifact, for latest one of any version.
ArtifactGiven(command, f) ==
  /\ Len(f.args) = 1
  /\ IF command = "latest" THEN Len(f.args[1].list) = 2 /\ "" \notin Range(f.args[1].list)
     ELSE ParseCoords(f.args[1].list).ok

Usable(command, f, props) ==
  /\ IF command = "deploy" THEN DeployUsable(f, props) ELSE ArtifactGiven(command, f)
  /\ NoTarget \notin Range(Targets(command, f, props))

\* The command's flag set.
ParseFlags ==
  /\ stage = "flags"
  /\ LET command == opts.rest[1].name
         args    == ReorderArgs(Tail(opts.rest), ValueFlags[command])
         f       == FlagSetParse(args, ValueFlags[command], BoolFlags[command])
     IN IF ~ f.ok THEN Leaves
        ELSE IF ~ Usable(command, f, opts.props) THEN Leaves
        ELSE /\ opts' = [command |-> command, flags |-> f.flags, args |-> f.args,
                         targets |-> Targets(command, f, opts.props),
                         props |-> opts.props, profiles |-> opts.profiles,
                         userSettings |-> opts.userSettings,
                         globalSettings |-> opts.globalSettings]
             /\ stage' = "settings"
             /\ UNCHANGED <<line, disk, config, repos>>
  /\ UNCHANGED requesting

-----------------------------------------------------------------------------
(* effectiveRepos.                                                         *)

OrDefault(path, default) == IF path = "" THEN default ELSE path

UserFile == FileAt(disk.files, OrDefault(opts.userSettings, "user"))
GlobalFile == FileAt(disk.files, OrDefault(opts.globalSettings, "global"))

Load ==
  /\ stage = "settings"
  /\ LET c == LoadSettings(UserFile, GlobalFile, disk.files,
                OrDefault(Property(opts.props, "settings.security"), "security"))
     IN IF ~ c.ok THEN Leaves
        ELSE config' = c /\ stage' = "resolve" /\ UNCHANGED <<line, disk, opts, repos>>
  /\ UNCHANGED requesting

Resolved(s) ==
  IF opts.targets = <<>>
  THEN EffectiveRepos(s, config.master, disk.lucky, opts.profiles, opts.props)
  ELSE [i \in DOMAIN opts.targets |->
          OverrideRepo(s, config.master, disk.lucky, opts.profiles, opts.props, opts.targets[i])]

Resolve ==
  /\ stage = "resolve"
  /\ LET list == Resolved(config.settings) IN
       IF Refuses(list) THEN Leaves
       ELSE repos' = list /\ stage' = "repos" /\ UNCHANGED <<line, disk, opts, config>>
  /\ UNCHANGED requesting

\* deploy looks for its files: the artifact before it computes the
\* repositories, the POM and the attachments after.  It may not find one, or be
\* given a malformed list of them.
DeployGivesUp ==
  /\ \/ stage = "flags" /\ opts.rest[1].name = "deploy"
     \/ stage = "repos" /\ opts.command = "deploy"
  /\ Leaves
  /\ UNCHANGED requesting

-----------------------------------------------------------------------------
(* A request.                                                              *)

\* The URL that do builds names the repository's host, and a path made from the
\* coordinates, which may be misspelt too.
Begin(r) ==
  /\ stage = "repos"
  /\ \E t \in {"good", "bad"} : (Misspelt(r.url) => t = "bad") /\ Call(t)
  /\ proxy' = r.proxy
  /\ stage' = "request"
  /\ line' = <<>> /\ disk' = Nothing /\ opts' = Nothing /\ config' = Nothing /\ repos' = <<>>
  /\ UNCHANGED <<clients, via, buffers>>

Prepare ==
  \/ ParseGlobalFlags \/ ParseFlags \/ Load \/ Resolve \/ DeployGivesUp
  \/ \E i \in DOMAIN repos : Begin(repos[i])

Working ==
  /\ stage = "request"
  /\ ReadingStep \/ ReadingEnvironment
  /\ UNCHANGED setup

Finished ==
  /\ stage = "ended" \/ reader = "done"
  /\ UNCHANGED all

SessionNext == Prepare \/ Working \/ Finished

SessionSpec == SessionInit /\ [][SessionNext]_all

\* What the program does until it has an answer: dialling, the handshake and
\* the headers have timers.  That the body of an error answer, which do drains,
\* ends is assumed.
Asking == stage = "request" /\ (TakeBuffer \/ RequestStep) /\ UNCHANGED setup

FairSession == SessionSpec /\ WF_all(Asking)
-----------------------------------------------------------------------------
(* The command line.                                                       *)

ItemsOf(kind) == {i \in DOMAIN line : line[i][1].kind = kind}
Words == SelectSeq(line, LAMBDA item : item[1].kind = "word" \/ item[1] = Dash("-"))
Given(name, value) ==
  \E i \in DOMAIN line : \/ line[i] = <<Flag(name), value>>
                         \/ line[i] = <<FlagWith(name, value)>>

\* What a command's line says, its flags standing anywhere: each flag has what
\* its last mention gives it, and the arguments are what remains.
ReadAnywhere(args, valueFlags, boolFlags) ==
  LET own == {i \in DOMAIN args : IsFlag(args[i]) /\ ~ IsValue(args, valueFlags)[i]}
      Gives(i) == IF Takes(args[i], valueFlags) THEN args[i + 1] ELSE args[i]
  IN IF \E i \in own : args[i].name \notin valueFlags \cup boolFlags THEN [ok |-> FALSE]
     ELSE [ok |-> TRUE,
           flags |-> [f \in {args[i].name : i \in own} |->
                        Gives(Max({i \in own : args[i].name = f}))],
           args |-> Marked(args, Behind(args, valueFlags))]

\* The last token is a flag whose value is missing.
EndsInFlag(args, valueFlags) ==
  args # <<>> /\ Takes(Last(args), valueFlags) /\ ~ IsValue(args, valueFlags)[Len(args)]

\* reorderArgs decides which tokens are flags and values, and the flag package
\* decides again on what reorderArgs made of them: wherever flags, values and
\* arguments stand, both together read, or refuse, the line as it is.  (A flag
\* at the end whose value is missing is given the first argument; reorderArgs
\* takes "-" and "--", at which the flag package stops, for flags.)
FlagsAnywhere ==
  stage = "flags" =>
    LET args   == Tail(opts.rest)
        values == ValueFlags[opts.rest[1].name]
        bools  == BoolFlags[opts.rest[1].name]
    IN ~ EndsInFlag(args, values) /\ (\A t \in Range(args) : t.kind # "dash") =>
         FlagSetParse(ReorderArgs(args, values), values, bools)
           = ReadAnywhere(args, values, bools)

\* The words of the command and its arguments; one that was given to a flag at
\* the end comes first.
WordsRead ==
  LET last == Last(Last(line)) IN
  <<Word(opts.command)>>
    \o (IF Len(Last(line)) = 1 /\ Takes(last, ValueFlags[opts.command])
        THEN <<opts.flags[last.name]>> ELSE <<>>)
    \o opts.args

\* The items that are a flag, alone or with its value.
FlagItems == ItemsOf("flag") \cup ItemsOf("flag=")
Mentions(name) == {i \in FlagItems : line[i][1].name = name}
LastMention(name) == Last(line[Max(Mentions(name))])

\* Every item of a line that is accepted means what it says wherever it stands:
\* arguments, -D, -P, -s, -gs and the command's own flags, each of which has its
\* last mention; and nothing else is understood.
UnderstoodAsMeant ==
  stage = "settings" =>
       /\ WordsRead = FlattenSeq(Words)
       /\ DOMAIN opts.flags = {line[i][1].name : i \in FlagItems} \ {"P", "s", "gs"}
       /\ \A name \in DOMAIN opts.flags :
            \/ opts.flags[name] = LastMention(name)
            \/ Last(line) = <<Flag(name)>> /\ name \in ValueFlags[opts.command]
       /\ opts.userSettings = (IF Mentions("s") = {} THEN "" ELSE LastMention("s").name)
       /\ opts.globalSettings = (IF Mentions("gs") = {} THEN "" ELSE LastMention("gs").name)
       /\ DOMAIN opts.props = {line[i][1].name : i \in ItemsOf("define")}
       /\ \A name \in DOMAIN opts.props :
            opts.props[name] = line[Max({i \in ItemsOf("define") : line[i][1].name = name})][1].text
       /\ Range(opts.profiles) =
            UNION {Range(Last(line[i]).list) :
                     i \in ItemsOf("profiles") \cup {j \in ItemsOf("flag") : line[j][1].name = "P"}}
       /\ \A t \in Range(opts.targets) :
            \/ \E name \in {"repo", "from", "to"} : Given(name, TargetWord(t))
            \/ /\ ~ \E w \in Range(FlattenSeq(line)) : w.name = "repo"
               /\ t.url = opts.props["url"]
       /\ opts.targets = <<>> => ~ \E t \in Range(FlattenSeq(line)) : t.target # NoTarget

-----------------------------------------------------------------------------
(* The repositories.                                                       *)

Profiles(s) == ActiveProfiles(s, opts.profiles, opts.props)
Props(s) == EffectiveProps(Profiles(s), opts.props)

\* The entry the user's list or the global one has for an id: the user's first
\* one, the global one otherwise.
IdsOf(list, id) == {i \in DOMAIN list : list[i].id = id}

EntryOf(user, global, id) ==
  CASE IdsOf(user, id) # {} -> {user[Min(IdsOf(user, id))]}
    [] IdsOf(user, id) = {} /\ IdsOf(global, id) # {} -> {global[Min(IdsOf(global, id))]}
    [] OTHER -> {}

\* mirrorOf, whatever the order of its tokens.
Covers(pattern, r) ==
  LET names(not) == {pattern[i].name : i \in {j \in DOMAIN pattern : pattern[j].not = not}} IN
  /\ r.id \notin names(TRUE)
  /\ \/ names(FALSE) \cap {r.id, "*"} # {}
     \/ "external:*" \in names(FALSE) /\ External(r.url)

\* A repository is redirected to the first mirror that covers it, in the
\* user's settings and then in the global ones, whose mirrors give way to the
\* user's of the same id: exclusions win wherever they stand, and a repository
\* that no mirror covers is asked at its own URL.
MirrorAsDeclared ==
  stage = "repos" /\ opts.targets = <<>> =>
    LET user == Document(UserFile).mirrors
        global == Document(GlobalFile).mirrors
        props == Props(config.settings)
        declared == DeclaredRepos(Profiles(config.settings))
    IN \A n \in DOMAIN repos :
         LET r == [declared[n] EXCEPT !.url = Interpolate(@, props)]
             ours == {i \in DOMAIN user : Covers(user[i].mirrorOf, r)}
             theirs_ == {i \in DOMAIN global :
                           /\ Covers(global[i].mirrorOf, r)
                           /\ EntryOf(user, global, global[i].id) = {global[i]}}
             chosen == IF ours # {} THEN {user[Min(ours)]}
                       ELSE IF theirs_ # {} THEN {global[Min(theirs_)]} ELSE {}
         IN IF chosen = {} THEN repos[n].url = r.url
            ELSE \A m \in chosen : repos[n].url = Interpolate(m.url, props)

\* The server entry whose credentials a repository is sent is named by the
\* mirror it is redirected to, and by its own id only if that has no id: no
\* other server's name and headers reach it, and a user's entry is never mixed
\* with or replaced by a global one.
CredentialsOfTarget ==
  stage = "repos" =>
    \A i \in DOMAIN repos :
      LET id == IF opts.targets # <<>> THEN opts.targets[i].id
                ELSE IF repos[i].mirrorID # "" THEN repos[i].mirrorID ELSE repos[i].id
          server == EntryOf(Document(UserFile).servers, Document(GlobalFile).servers, id)
          names == {Interpolate(srv.username, Props(config.settings)) : srv \in server}
          headers == {Interpolate(srv.headers, Props(config.settings)) : srv \in server}
      IN IF server = {} THEN repos[i].cred = Anonymous
         ELSE repos[i].cred.username \in names /\ repos[i].cred.headers \in headers

\* The security file that holds the master password: the one that is named, or
\* the one that it names in place of a master password.
SecurityInForce ==
  LET named == FileAt(disk.files, OrDefault(Property(opts.props, "settings.security"), "security"))
  IN IF named.kind = "document" /\ named.master = <<>>
     THEN FileAt(disk.files, named.relocation) ELSE named

\* What it was encrypted from.
MasterPasswords ==
  LET held == IF SecurityInForce.kind = "document" THEN SecurityInForce.master ELSE <<>> IN
  {held[i].is : i \in {j \in DOMAIN held : held[j].kind = "cipher" /\ held[j].key = MasterKey}}

\* A password whose first brace is escaped, or that has none, is sent as it was
\* written.  Any other is one encrypted value, and what is sent is what it was
\* encrypted from, if that was done with the master password of the security
\* file in force: without one, with a reference left in it, or with several
\* parts, it goes nowhere.  Of a value encrypted with another master password
\* something may be sent, when the padding happens to fit, but not the value.
\* (The passwords of proxies are not decrypted, and not meant here.)
SentAsEncrypted(stored, sent) ==
  LET braced == {i \in DOMAIN stored : stored[i].kind \in {"ref", "cipher", "escaped"}} IN
  IF braced # {} => stored[Min(braced)].kind = "escaped" THEN sent = stored
  ELSE \E i \in braced :
         /\ braced = {i} /\ stored[i].kind = "cipher"
         /\ IF stored[i].key \in MasterPasswords THEN sent = Text(stored[i].is)
            ELSE disk.lucky /\ sent = Garbage

\* The password that a repository is sent is the one of the server entry its
\* name comes from, decrypted from what the settings and the security files
\* hold, through references and a relocation.
PasswordOfTarget ==
  stage = "repos" =>
    \A i \in DOMAIN repos :
      LET id == IF opts.targets # <<>> THEN opts.targets[i].id
                ELSE IF repos[i].mirrorID # "" THEN repos[i].mirrorID ELSE repos[i].id
      IN \A srv \in EntryOf(Document(UserFile).servers, Document(GlobalFile).servers, id) :
           SentAsEncrypted(Interpolate(srv.password, Props(config.settings)),
                           repos[i].cred.password)

\* A profile that -P !id deactivates, or one that is active by default while
\* another was activated, might as well be missing: none of its repositories
\* and properties shows in the outcome.
IdleProfilesContributeNothing ==
  stage = "repos" =>
    LET s == config.settings
        active(p) == /\ Activated(p, s, opts.profiles, opts.props)
                     /\ ~ Deactivated(p, opts.profiles)
    IN \A p \in Range(s.profiles) :
         \/ Deactivated(p, opts.profiles)
         \/ ~ active(p) /\ \E q \in Range(s.profiles) : active(q)
         => repos = Resolved([s EXCEPT !.profiles = Those(@, Range(@) \ {p})])

\* The names that a text refers to and that stand for something.
Refs(text, props) ==
  {text[i].is : i \in {j \in DOMAIN text : Resolvable(text[j], props)}}

Referring(props) ==
  {name \in DOMAIN props \cup DOMAIN Builtins : Refs(Lookup(name, props), props) # {}}

\* The names from which references lead into a cycle.
Cyclic(props) ==
  UNION {C \in SUBSET Referring(props) :
           \A name \in C : Refs(Lookup(name, props), props) \cap C # {}}

\* References are expanded all the way, through what they stand for, unless
\* they lead into a cycle: where one is left in what is sent, there is one that
\* does.  (The names that refer to others are fewer than the passes.)
ExpandedUnlessCyclic ==
  stage = "repos" =>
    LET props == Props(config.settings)
        Expanded(text) ==
          Refs(text, props) # {} => Refs(text, props) \cap Cyclic(props) # {}
    IN IsFiniteSet(Referring(props)) /\ Cardinality(Referring(props)) < MaxPasses =>
         \A i \in DOMAIN repos :
           /\ opts.targets = <<>> => Expanded(repos[i].url)
           /\ Expanded(repos[i].cred.username) /\ Expanded(repos[i].cred.headers)

\* A request that begins gets its outcome, however the server behaves, since
\* every attempt ends.
Ends == (stage = "request") ~> (outcome # "none")

-----------------------------------------------------------------------------
\* README: "servers, mirrors, proxies, and profiles work exactly as they do
\* with Maven", where every repository is reached through the proxy that the
\* settings have for its URL.
ProxyOfTheSettings ==
  stage = "repos" =>
    \A i \in DOMAIN repos :
      repos[i].proxy = SelectProxy(config.settings.proxies, repos[i].url)
=============================================================================
