------------------------------ MODULE Effective ------------------------------
(***************************************************************************)
(* effective.go of internal/repo and effectiveRepos of cmd/goven/get.go:   *)
(* from the settings, the active profiles and the -D properties to the     *)
(* repositories that requests go to, with their mirror, credentials and    *)
(* proxy.                                                                  *)
(*                                                                         *)
(* A URL is a text whose first pieces are the scheme and the host; a host  *)
(* is a sequence of labels, so that wildcards match whole labels.          *)
(***************************************************************************)
EXTENDS Settings

CONSTANTS
  Builtins,     \* what ${env.*} and ${user.home} stand for
  Labels        \* the labels of each host

ASSUME BuiltinsAssumption == \A name \in DOMAIN Builtins : IsText(Builtins[name])

\* Interpolate's bound on the passes.
MaxPasses == 10

-----------------------------------------------------------------------------
(* Profiles.  -P lists profiles, or "!" and a profile.                     *)

\* propertyActive
PropertyActive(when, props) ==
  LET given == when.name \in DOMAIN props IN
  CASE when.rule = "none"    -> FALSE
    [] when.rule = "absent"  -> ~ given
    [] when.rule = "present" -> given
    [] when.rule = "equals"  -> given /\ props[when.name] = when.value
    [] when.rule = "differs" -> given /\ props[when.name] # when.value

Deactivated(p, requested) == \E i \in DOMAIN requested : requested[i] = [off |-> TRUE, id |-> p.id]

Activated(p, s, requested, props) ==
  \/ \E i \in DOMAIN requested : requested[i] = [off |-> FALSE, id |-> p.id]
  \/ Contains(s.activeProfiles, p.id)
  \/ PropertyActive(p.when, props)

\* The profiles that are in a set, in their order.
Those(profiles, set) ==
  LET out[n \in 0 .. Len(profiles)] ==
        IF n = 0 THEN <<>>
        ELSE IF profiles[n] \in set THEN Append(out[n - 1], profiles[n]) ELSE out[n - 1]
  IN out[Len(profiles)]

\* Mutant: a default profile cannot be deactivated.
ActiveProfilesStubborn(s, requested, props) ==
  LET active == Those(s.profiles, {p \in Range(s.profiles) :
                  ~ Deactivated(p, requested) /\ Activated(p, s, requested, props)})
  IN IF active # <<>> THEN active
     ELSE Those(s.profiles, {p \in Range(s.profiles) : p.byDefault})

ActiveProfiles(s, requested, props) ==
  LET active == Those(s.profiles, {p \in Range(s.profiles) :
                  ~ Deactivated(p, requested) /\ Activated(p, s, requested, props)})
  IN IF active # <<>> THEN active
     ELSE Those(s.profiles, {p \in Range(s.profiles) : p.byDefault /\ ~ Deactivated(p, requested)})

\* Later profiles win among themselves, -D wins over all.
EffectiveProps(active, cmdProps) ==
  LET Having(name) == {i \in DOMAIN active : name \in DOMAIN active[i].properties} IN
  [name \in DOMAIN cmdProps \cup UNION {DOMAIN p.properties : p \in Range(active)} |->
     IF name \in DOMAIN cmdProps THEN cmdProps[name]
     ELSE active[Max(Having(name))].properties[name]]

-----------------------------------------------------------------------------
(* Interpolation.                                                          *)

\* lookupProperty, for a reference that has a value.
Resolvable(piece, props) ==
  piece.kind = "ref" /\ piece.is \in DOMAIN props \cup DOMAIN Builtins

Lookup(name, props) == IF name \in DOMAIN props THEN props[name] ELSE Builtins[name]

\* interpolateOnce; a reference without a value is left.
InterpolateOnce(text, props) ==
  FlattenSeq([i \in DOMAIN text |->
    IF Resolvable(text[i], props) THEN Lookup(text[i].is, props) ELSE <<text[i]>>])

\* Mutant: what a property stands for is not expanded again.
InterpolateShallow(text, props) == InterpolateOnce(text, props)

\* A pass that changes nothing is the last one, or all that follow change
\* nothing either.
Interpolate(text, props) ==
  LET pass[n \in 0 .. MaxPasses] ==
        IF n = 0 THEN text ELSE InterpolateOnce(pass[n - 1], props)
  IN pass[MaxPasses]

-----------------------------------------------------------------------------
(* URLs, mirrors and proxies.                                              *)

\* url.Parse finds a scheme and a host: no reference is left in them.
Parsed(url) == Len(url) >= 2 /\ url[1].kind = "text" /\ url[2].kind = "text"

\* What is left there makes http.NewRequest fail; a URL that is nothing but a
\* reference is a path, of which only the transport complains.
Misspelt(url) == Len(url) >= 2 /\ ~ Parsed(url)

\* isExternal
External(url) ==
  Parsed(url) => url[1].is # "file" /\ url[2].is \notin {"localhost", "127.0.0.1"}

\* Mutant: an exclusion only undoes the matches before it.
MirrorMatchesInOrder(pattern, r) ==
  FoldLeft(LAMBDA matched, tok :
             IF tok.not /\ tok.name = r.id THEN FALSE
             ELSE matched \/ (~ tok.not /\ \/ tok.name \in {r.id, "*"}
                                           \/ tok.name = "external:*" /\ External(r.url)),
           FALSE, pattern)

\* One token of mirrorMatches' loop, which an exclusion ends.
Judge(verdict, tok, r) ==
  IF verdict = "excluded" \/ (tok.not /\ tok.name = r.id) THEN "excluded"
  ELSE IF /\ ~ tok.not
          /\ \/ tok.name \in {r.id, "*"}
             \/ tok.name = "external:*" /\ External(r.url)
       THEN "matched"
  ELSE verdict

MirrorMatches(pattern, r) ==
  LET verdict[n \in 0 .. Len(pattern)] ==
        IF n = 0 THEN "unmatched" ELSE Judge(verdict[n - 1], pattern[n], r)
  IN verdict[Len(pattern)] = "matched"

\* The first mirror that matches, 0 if none does.
MatchMirror(mirrors, r) == SelectInSeq(mirrors, LAMBDA m : MirrorMatches(m.mirrorOf, r))

\* hostExempt
HostExempt(patterns, host) ==
  \E pat \in patterns :
    CASE pat.star = "none"  -> host = pat.labels
      [] pat.star = "front" -> IsSuffix(pat.labels, host)
      [] pat.star = "back"  -> IsPrefix(pat.labels, host)

NoProxy == [address |-> "", username |-> "", password |-> <<>>]

\* What the transport uses of a proxy.  Its password is sent as it is stored,
\* if there is a username: it is neither expanded nor decrypted.
Endpoint(p) ==
  [address |-> p.address, username |-> p.username,
   password |-> IF p.username = "" THEN <<>> ELSE p.password]

Serves(p, url) ==
  /\ p.active /\ Parsed(url) /\ p.protocol = url[1].is
  /\ ~ HostExempt(p.nonProxyHosts, Labels[url[2].is])

SelectProxy(proxies, url) ==
  LET i == SelectInSeq(proxies, LAMBDA p : Serves(p, url)) IN
  IF i = 0 THEN NoProxy ELSE Endpoint(proxies[i])

-----------------------------------------------------------------------------
(* Repositories.                                                           *)

Anonymous == [username |-> <<>>, password |-> <<>>, headers |-> <<>>]

\* The credentials of the first server of that id.
Credentials(s, id, props, master, lucky) ==
  LET i == SelectInSeq(s.servers, LAMBDA srv : srv.id = id) IN
  IF i = 0 THEN Anonymous
  ELSE [username |-> Interpolate(s.servers[i].username, props),
        password |-> ResolvePassword(Interpolate(s.servers[i].password, props), master, lucky),
        headers  |-> Interpolate(s.servers[i].headers, props)]

CentralURL == Text("https") \o Text("repo.maven")

Central ==
  [id |-> "central", url |-> CentralURL, releases |-> TRUE, snapshots |-> FALSE]

\* The profiles' repositories, and Central unless one of them has its id.
DeclaredRepos(active) ==
  LET repos == FlattenSeq([i \in DOMAIN active |-> active[i].repositories]) IN
  IF HasID(repos, "central") THEN repos ELSE Append(repos, Central)

\* Mutant: a redirected repository keeps the credentials of its own server.
CredIDOwn(id, mirrorID) == id

\* credID: a mirror with an id has its own server.
CredID(id, mirrorID) == IF mirrorID # "" THEN mirrorID ELSE id

\* The loop of EffectiveRepos, for one repository.
RemoteRepo(s, master, lucky, props, declared) ==
  LET r        == [declared EXCEPT !.url = Interpolate(@, props)]
      m        == MatchMirror(s.mirrors, r)
      url      == IF m = 0 THEN r.url ELSE Interpolate(s.mirrors[m].url, props)
      mirrorID == IF m = 0 THEN "" ELSE s.mirrors[m].id
  IN [id |-> r.id, url |-> url, releases |-> r.releases, snapshots |-> r.snapshots,
      mirrorID |-> mirrorID,
      cred |-> Credentials(s, CredID(r.id, mirrorID), props, master, lucky),
      proxy |-> SelectProxy(s.proxies, url)]

EffectiveRepos(s, master, lucky, requested, cmdProps) ==
  LET active == ActiveProfiles(s, requested, cmdProps)
      props  == EffectiveProps(active, cmdProps)
      repos  == DeclaredRepos(active)
  IN [i \in DOMAIN repos |-> RemoteRepo(s, master, lucky, props, repos[i])]

\* effectiveRepos for [id::]url: the URL as it is given, credentials by id,
\* neither mirror nor proxy.
OverrideRepo(s, master, lucky, requested, cmdProps, target) ==
  LET props == EffectiveProps(ActiveProfiles(s, requested, cmdProps), cmdProps) IN
  [id |-> IF target.id = "" THEN "override" ELSE target.id,
   url |-> target.url, releases |-> TRUE, snapshots |-> TRUE, mirrorID |-> "",
   cred |-> Credentials(s, target.id, props, master, lucky),
   proxy |-> NoProxy]

\* A password that cannot be decrypted is an error of the whole list.
Refuses(repos) == \E i \in DOMAIN repos : repos[i].cred.password = Failed
=============================================================================
