------------------------------ MODULE Settings ------------------------------
(***************************************************************************)
(* settings.go and security.go of internal/repo: the user's and the global *)
(* settings.xml merged into one, and the master password that              *)
(* settings-security.xml holds for the encrypted passwords in them.        *)
(*                                                                         *)
(* A string of the configuration is a sequence of pieces: literal text,    *)
(* ${...} references, {...} encrypted values, text in braces of which the  *)
(* first is escaped.  XML is left out: a file is missing, broken, or holds a  *)
(* document.  The cipher is abstract: a value opens with the passphrase    *)
(* that closed it, and with another one only if the padding happens to fit.*)
(***************************************************************************)
EXTENDS Integers, SequencesExt

Piece(kind, is, key) == <<[kind |-> kind, is |-> is, key |-> key]>>

IsText(t) == t \in Seq(Range(t))

Text(x) == Piece("text", x, "")
Ref(name) == Piece("ref", name, "")
Escaped(x) == Piece("escaped", x, "")
Cipher(plain, key) == Piece("cipher", plain, key)

\* What a wrong passphrase can yield, and an error.
Garbage == Piece("garbage", "", "")
Failed == Piece("failed", "", "")

-----------------------------------------------------------------------------
(* Documents.  A flag that is not given is "omitted".                      *)

\* policyEnabled, and the default of a proxy's active element.
Enabled(flag) == flag # "false"

ConvertRepo(r) == [r EXCEPT !.releases = Enabled(@), !.snapshots = Enabled(@)]

\* convertProfile
ConvertProfile(p) ==
  [p EXCEPT !.repositories = [i \in DOMAIN @ |-> ConvertRepo(@[i])]]

ConvertProxy(p) ==
  [p EXCEPT !.active = Enabled(@),
            !.protocol = IF @ = "" THEN "http" ELSE @]

ParseSettings(x) ==
  [x EXCEPT !.proxies = [i \in DOMAIN @ |-> ConvertProxy(@[i])],
            !.profiles = [i \in DOMAIN @ |-> ConvertProfile(@[i])]]

NoSettings ==
  [servers |-> <<>>, mirrors |-> <<>>, proxies |-> <<>>, profiles |-> <<>>,
   activeProfiles |-> <<>>]

HasID(list, id) == \E i \in DOMAIN list : list[i].id = id

\* hasID: an entry of an id that is there already is dropped.
AddNew(out, g) == IF HasID(out, g.id) THEN out ELSE Append(out, g)

\* The user's entries, and after them the global ones of other ids.
Merge(user, global) ==
  LET out[n \in 0 .. Len(global)] ==
        IF n = 0 THEN user ELSE AddNew(out[n - 1], global[n])
  IN out[Len(global)]

MergeSettings(user, global) ==
  [servers        |-> Merge(user.servers, global.servers),
   mirrors        |-> Merge(user.mirrors, global.mirrors),
   proxies        |-> Merge(user.proxies, global.proxies),
   profiles       |-> Merge(user.profiles, global.profiles),
   activeProfiles |-> user.activeProfiles \o global.activeProfiles]

-----------------------------------------------------------------------------
(* Passwords.                                                              *)

\* The pieces of a value that have braces.
Braced(value) == {i \in DOMAIN value : value[i].kind \in {"ref", "cipher", "escaped"}}

\* extractEncrypted looks at the first brace only: any value with braces is
\* encrypted unless that one is escaped, also one with a reference left in it.
IsEncrypted(value) ==
  \E i \in Braced(value) :
    value[i].kind # "escaped" /\ \A j \in Braced(value) : i <= j

\* DecryptPassword: what stands between the first brace and the last one must
\* be one encrypted value; lucky says whether a wrong passphrase goes unnoticed.
DecryptPassword(value, passphrase, lucky) ==
  LET Only(i) == Braced(value) = {i} /\ value[i].kind = "cipher" IN
  IF ~ \E i \in Braced(value) : Only(i) THEN Failed
  ELSE LET inner == value[CHOOSE i \in Braced(value) : Only(i)] IN
       IF inner.key = passphrase THEN Text(inner.is)
       ELSE IF lucky THEN Garbage ELSE Failed

\* Mutant: without a master password the value is taken as it is.
ResolvePasswordLenient(value, master, lucky) ==
  IF ~ IsEncrypted(value) \/ master = <<>> THEN value
  ELSE DecryptPassword(value, master[1].is, lucky)

ResolvePassword(value, master, lucky) ==
  IF ~ IsEncrypted(value) THEN value
  ELSE IF master = <<>> THEN Failed
  ELSE DecryptPassword(value, master[1].is, lucky)

MasterKey == "settings.security"

\* One reading of settings-security.xml that is not a relocation.
MasterOf(file) ==
  CASE file.kind = "missing" -> <<>>
    [] file.kind = "broken" -> Failed
    [] file.kind = "document" ->
         IF file.master = <<>> THEN <<>>
         ELSE DecryptPassword(file.master, MasterKey, FALSE)

Relocates(file) ==
  file.kind = "document" /\ file.relocation # "" /\ file.master = <<>>

\* A file of the disk, "" or a name without a file being none.
FileAt(files, path) ==
  IF path \in DOMAIN files THEN files[path] ELSE [kind |-> "missing"]

\* LoadMasterPassword follows one relocation; a second one is an error.
LoadMasterPassword(files, path) ==
  LET first  == FileAt(files, path)
      second == FileAt(files, first.relocation)
  IN IF ~ Relocates(first) THEN MasterOf(first)
     ELSE IF Relocates(second) THEN Failed ELSE MasterOf(second)

-----------------------------------------------------------------------------
(* LoadSettings.  Its result carries the master password, and ok.          *)

\* The elements of a document of another kind are not looked at.
Document(file) ==
  IF file.kind = "document" /\ "settings" \in DOMAIN file THEN ParseSettings(file.settings)
  ELSE NoSettings

LoadSettings(user, global, security, securityPath) ==
  LET master == LoadMasterPassword(security, securityPath) IN
  [ok       |-> user.kind # "broken" /\ global.kind # "broken" /\ master # Failed,
   settings |-> MergeSettings(Document(user), Document(global)),
   master   |-> master]
=============================================================================
