----------------------------- MODULE MCSession ------------------------------
(***************************************************************************)
(* Command lines and disks for TLC.  Each family varies one part of the    *)
(* configuration, over every value that matters to it, and leaves the      *)
(* others as they are in User.                                             *)
(***************************************************************************)
EXTENDS Session

MCBuiltins ==
  ("env.HOME" :> Text("/home")) @@ ("user.home" :> Text("/home")) @@ ("env.REFERS" :> Ref("c"))

MCLabels ==
  [h \in {"repo", "mirror", "second", "localhost", "repo.maven"} |->
     CASE h = "repo.maven" -> <<"repo", ".", "maven">> [] OTHER -> <<h>>]

MCOtherProxies ==
  {NoProxy, [address |-> "px:1", username |-> "other", password |-> Text("pw")]}

-----------------------------------------------------------------------------
(* Documents.                                                              *)

Url(host) == Text("https") \o Text(host)
On(id) == [off |-> FALSE, id |-> id]
Off(id) == [off |-> TRUE, id |-> id]

DeclaredRepo(id, url) == [id |-> id, url |-> url, releases |-> "omitted", snapshots |-> "false"]
Never == [rule |-> "none", name |-> "", value |-> <<>>]
When(rule) == [rule |-> rule, name |-> "env", value |-> Text("prod")]
Profile(id, byDefault, when, repositories, properties) ==
  [id |-> id, byDefault |-> byDefault, when |-> when, repositories |-> repositories,
   properties |-> properties]
Server(id, name, pw) == [id |-> id, username |-> Text(name), password |-> pw, headers |-> <<>>]
Mirror(id, pattern, host) == [id |-> id, mirrorOf |-> pattern, url |-> Url(host)]
HTTPProxy(id, address) ==
  [id |-> id, active |-> "omitted", protocol |-> "https", address |-> address,
   username |-> "u", password |-> Cipher("secret", "master"), nonProxyHosts |-> {}]

Doc(settings) == [kind |-> "document", settings |-> settings]
Missing == [kind |-> "missing"]
Broken == [kind |-> "broken"]
Security(master, relocation) == [kind |-> "document", master |-> master, relocation |-> relocation]
Master == Cipher("master", MasterKey)

P1 == Profile("p1", FALSE, Never,
        <<DeclaredRepo("r1", Url("repo")), DeclaredRepo("local", Url("localhost"))>>, <<>>)
P2 == Profile("p2", FALSE, Never, <<DeclaredRepo("r2", Url("repo"))>>, <<>>)

User ==
  [servers |-> <<Server("r1", "u1", Cipher("secret", "master")), Server("m", "um", Text("pw"))>>,
   mirrors |-> <<>>, proxies |-> <<HTTPProxy("x", "px:1")>>, profiles |-> <<P1>>,
   activeProfiles |-> <<"p1">>]

Disk(user, global, security) ==
  [files |-> [user |-> user, global |-> global, security |-> security], lucky |-> FALSE]

BaseDisk == Disk(Doc(User), Missing, Security(Master, ""))
Coords == ListWord(<<"g", "a", "1">>)
Get == <<<<Word("get")>>, <<Coords>>>>

With(l, d) == [line |-> l, disk |-> d]

-----------------------------------------------------------------------------
(* Command lines.                                                          *)

Placed(lines, item) == UNION {{InsertAt(l, i, item) : i \in 1 .. Len(l) + 1} : l \in lines}
Tails(command, items) == {<<<<Word(command)>>>> \o t : t \in SetToSeqs(items)}
To(id) == TargetWord([id |-> id, url |-> Url("repo")])

GetLines ==
  UNION {Tails("get", {<<Coords>>, <<Flag("o"), Word("out")>>, repo}) :
           repo \in {<<Flag("repo"), To("r1")>>, <<FlagWith("repo", To(""))>>}}
    \cup Tails("get", {<<Coords>>, <<FlagWith("o", Word("out"))>>})

GlobalLines ==
  Placed(Placed(GetLines, <<Define("env", Text("prod"))>>),
         <<AttachedProfiles(<<Off("p1"), On("p2")>>)>>)
    \cup {<<<<Flag("P"), ListWord(<<On("p2")>>)>>, <<Flag("s"), Word("other")>>>> \o l : l \in GetLines}
    \cup Placed(Placed({Get}, <<Define("env", Text("prod"))>>), <<Define("env", Text("dev"))>>)
    \cup {l \o Get : l \in SetToSeqs({<<Flag("s"), Word("other")>>, <<Flag("gs"), Word("global")>>,
                                      <<Flag("s"), Word("user")>>})}

CopyLines ==
  Tails("copy", {<<Coords>>, <<Flag("from"), To("r1")>>, <<FlagWith("to", To("m"))>>})

DeployLines ==
  UNION {Placed(Placed(Tails("deploy", items), <<Define("url", Url("second"))>>),
                <<Define("repositoryId", Text("m"))>>) :
         items \in {{<<Word("file")>>, <<Flag("gav"), Coords>>},
                    {<<Word("file")>>, <<Flag("gav"), Coords>>, <<Flag("repo"), To("r1")>>}}}

DeployFlagLines ==
  Tails("deploy", {<<Word("file")>>, <<Flag("gav"), Coords>>, <<Flag("repo"), To("r1")>>,
                   <<Flag("serial")>>, <<Flag("pom"), Word("pom")>>})
    \cup Tails("deploy", {<<Word("file")>>, <<Flag("gav"), Coords>>, <<Flag("repo"), To("r1")>>,
                          <<Flag("attach"), Word("one")>>, <<FlagWith("attach", Word("two"))>>})

ExistsLines ==
  Tails("exists", {<<Coords>>, <<Flag("json")>>, <<Flag("repo"), To("r1")>>})
    \cup Tails("latest", {<<ListWord(<<"g", "a">>)>>, <<Flag("json")>>})

\* "-" and "--" anywhere, also as the value of a flag.
DashLines ==
  UNION {Placed(Tails("exists", {<<Coords>>, <<Flag("json")>>}), <<Dash(d)>>)
           \cup Tails("deploy", {<<Dash(d)>>, <<Flag("gav"), Coords>>, <<Flag("repo"), To("r1")>>})
           \cup Placed(Placed({Get}, <<Flag("o"), Dash(d)>>), <<Dash("--")>>) : d \in {"-", "--"}}

\* What is refused, or looks as if it should be.
OddLines ==
  {<<>>, <<<<Flag("P")>>>>, <<<<Word("install")>>>>,
   <<<<Word("get")>>>>, Append(Get, <<Word("other")>>), Append(Get, <<Flag("json")>>),
   Append(Get, <<Flag("o")>>), <<<<Word("get")>>, <<Word("other")>>, <<Coords>>, <<Flag("o")>>>>,
   Append(Get, <<Flag("s"), Word("other")>>),
   <<<<Word("get")>>, <<ListWord(<<"g", "a", "1", "jar", "sources">>)>>>>,
   <<<<Word("get")>>, <<ListWord(<<"g", "", "1">>)>>>>, <<<<Word("exists")>>, <<ListWord(<<"g", "a">>)>>>>,
   <<<<Word("latest")>>, <<Coords>>>>, <<<<Word("latest")>>, <<ListWord(<<"g", "a">>)>>>>, <<<<Word("deploy")>>, <<Word("file")>>>>,
   <<<<Word("copy")>>, <<Coords>>, <<Flag("to"), To("m")>>>>}

Lines ==
  GlobalLines \cup CopyLines \cup DeployLines \cup DeployFlagLines \cup ExistsLines \cup DashLines
    \cup OddLines

LineSituations == {With(l, BaseDisk) : l \in Lines}

-----------------------------------------------------------------------------
(* Mirrors and servers.                                                    *)

Token1 == {[not |-> FALSE, name |-> "r1"], [not |-> TRUE, name |-> "r1"],
           [not |-> FALSE, name |-> "*"], [not |-> FALSE, name |-> "external:*"]}
Patterns == {<<t>> : t \in Token1} \cup {<<t, u>> : t, u \in Token1}
All == <<[not |-> FALSE, name |-> "*"]>>

MirrorDisks ==
  {Disk(Doc([User EXCEPT !.mirrors = <<Mirror("m", p, "mirror")>>]),
        Doc([NoSettings EXCEPT !.mirrors = <<Mirror(id, All, "second"), Mirror("n", q, "repo")>>]),
        Security(Master, "")) :
     p \in Patterns, q \in {<<t>> : t \in Token1}, id \in {"m", "second"}}
    \cup
  {Disk(Doc([User EXCEPT !.mirrors = <<Mirror(id, p, "mirror"), Mirror("second", All, "second")>>]),
        Missing, Security(Master, "")) :
     p \in Patterns, id \in {"m", "", "r1"}}

ServersOf(ids, name) == SetToSeq({Server(id, name, Text("pw")) : id \in ids})

ServerDisks ==
  {Disk(Doc([User EXCEPT !.servers = ServersOf(ours, "user"), !.mirrors = ms]),
        Doc([NoSettings EXCEPT !.servers = ServersOf(theirs_, "global")]),
        Missing) :
     ours \in SUBSET {"r1", "m", ""}, theirs_ \in SUBSET {"r1", "m", ""},
     ms \in {<<>>, <<Mirror("m", All, "mirror")>>, <<Mirror("", All, "mirror")>>}}

-----------------------------------------------------------------------------
(* Passwords.                                                              *)

StoredPasswords ==
  {Text("pw"), Cipher("secret", "master"), Cipher("secret", "another"), Escaped("pw"),
   Ref("env.HOME"), Ref("env.UNSET"), Ref("pw"), Text("comment") \o Cipher("secret", "master"),
   Escaped("pw") \o Cipher("secret", "master"), Cipher("a", "master") \o Cipher("b", "master")}

SecurityFiles ==
  {Missing, Broken, Security(Master, ""), Security(<<>>, ""), Security(Master, "elsewhere"),
   Security(Cipher("master", "wrong"), ""), Security(Text("clear"), ""),
   Security(<<>>, "elsewhere"), Security(<<>>, "security")}

PasswordDisks ==
  {[files |-> [user |-> Doc([User EXCEPT !.servers = <<Server("r1", "u1", pw)>>]),
               global |-> Missing, security |-> sec, elsewhere |-> other],
    lucky |-> lucky] :
     pw \in StoredPasswords, sec \in SecurityFiles, lucky \in BOOLEAN,
     other \in {Missing, Security(Master, ""), Security(<<>>, "security")}}

PasswordLine == <<<<Define("pw", Cipher("secret", "master"))>>>> \o Get
SecurityLine == <<<<Define("settings.security", Text("elsewhere"))>>>> \o Get

-----------------------------------------------------------------------------
(* Profiles, properties and proxies.                                       *)

ProfileDisks ==
  {Disk(Doc([User EXCEPT
               !.profiles = <<[P1 EXCEPT !.when = w, !.byDefault = b1, !.properties = [x |-> Text("1")]],
                              [P2 EXCEPT !.byDefault = b2, !.properties = [x |-> Text("2")]]>>,
               !.activeProfiles = ids,
               !.servers = <<[Server("central", "u", <<>>) EXCEPT !.headers = Ref("x")]>>]),
        Missing, Missing) :
     w \in {Never} \cup {When(r) : r \in {"absent", "present", "equals", "differs"}},
     b1 \in BOOLEAN, b2 \in BOOLEAN, ids \in {<<>>, <<"p2">>}}

ProfileLines ==
  {defs \o <<<<AttachedProfiles(list)>>>> \o Get :
     defs \in {<<>>, <<<<Define("env", Text("prod"))>>>>, <<<<Define("env", Text("dev"))>>>>},
     list \in {<<>>, <<On("p1")>>, <<Off("p1")>>, <<On("p1"), Off("p1")>>, <<Off("p2"), On("p1")>>}}

PropertyTexts ==
  {Text("v"), Ref("a"), Ref("b"), Text("v") \o Ref("c"), Ref("a") \o Ref("b"), Ref("env.HOME"),
   Ref("env.REFERS")}

PropertyDisks ==
  {Disk(Doc([User EXCEPT
               !.profiles = <<[P1 EXCEPT !.repositories =
                                 <<DeclaredRepo("r1", Url("repo") \o Ref("a"))>>,
                               !.properties = [a |-> a, b |-> b, c |-> c]]>>,
               !.servers = <<[Server("r1", "u", <<>>) EXCEPT !.username = Ref("b"),
                                                              !.headers = Ref("c") \o Ref("none")]>>]),
        Missing, Missing) :
     a \in PropertyTexts, b \in PropertyTexts, c \in PropertyTexts}

\* A host that is a reference, to a property or to nothing.
HostDisks ==
  {Disk(Doc([User EXCEPT
               !.profiles = <<[P1 EXCEPT !.repositories =
                                 <<DeclaredRepo("r1", Text("https") \o Ref(name))>>,
                               !.properties = [host |-> Text("repo")]]>>]),
        Missing, Security(Master, "")) : name \in {"host", "none"}}

HostPatterns == {[star |-> "none", labels |-> <<"repo">>],
                 [star |-> "front", labels |-> <<".", "maven">>],
                 [star |-> "back", labels |-> <<"local">>]}

ProxyDisks ==
  {Disk(Doc([User EXCEPT !.proxies =
               <<[HTTPProxy("y", "px:1") EXCEPT !.active = f, !.protocol = t, !.nonProxyHosts = hosts],
                 [HTTPProxy("x", "px:1") EXCEPT !.nonProxyHosts = others]>>,
             !.mirrors = ms]),
        Missing, Security(Master, "")) :
     f \in {"omitted", "true", "false"}, t \in {"", "https"},
     hosts \in SUBSET HostPatterns, others \in {{}, HostPatterns},
     ms \in {<<>>, <<Mirror("m", <<[not |-> FALSE, name |-> "r1"]>>, "mirror")>>}}

FileDisks == {Disk(u, g, Missing) : u \in {Missing, Broken, Doc(NoSettings)},
                                    g \in {Missing, Broken, Doc([User EXCEPT !.servers = <<>>])}}

MCSituations ==
  LineSituations
    \cup {With(Get, d) : d \in MirrorDisks \cup ServerDisks \cup PropertyDisks \cup HostDisks
                                 \cup ProxyDisks \cup FileDisks}
    \cup {With(l, d) : l \in {PasswordLine, SecurityLine}, d \in PasswordDisks}
    \cup {With(l, d) : l \in ProfileLines, d \in ProfileDisks}

MCTargetSituations == {With(l, BaseDisk) : l \in {Get} \cup CopyLines}
=============================================================================
