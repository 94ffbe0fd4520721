------------------------------ MODULE Arguments ------------------------------
(***************************************************************************)
(* The command line: parseGlobal and reorderArgs of cmd/goven/main.go, and *)
(* the flag package that the commands parse the rest with.                 *)
(*                                                                         *)
(* A token is a -Dkey=value, a -Pprofiles, another flag with or without    *)
(* "=value", or a word, which carries its readings: as a list, of profiles *)
(* (splitList) or of segments of coordinates, and as a repository          *)
(* ([id::]url).  "-" and "--" are tokens of their own.                     *)
(***************************************************************************)
EXTENDS Integers, SequencesExt

NoTarget == [id |-> "", url |-> <<>>]

Token(kind, name) ==
  [kind |-> kind, name |-> name, text |-> <<>>, list |-> <<>>, target |-> NoTarget]

Word(name) == Token("word", name)
ListWord(list) == [Token("word", "list") EXCEPT !.list = list]
TargetWord(t) == [Token("word", "target") EXCEPT !.target = t]
Flag(name) == Token("flag", name)
Dash(name) == Token("dash", name)        \* "-", "--"
FlagWith(name, w) == [w EXCEPT !.kind = "flag=", !.name = name]
Define(key, text) == [Token("define", key) EXCEPT !.text = text]
AttachedProfiles(list) == [Token("profiles", "P") EXCEPT !.list = list]

\* The tokens that are marked, in their order.
Marked(args, marks) ==
  LET out[n \in 0 .. Len(args)] ==
        IF n = 0 THEN <<>>
        ELSE IF marks[n] THEN Append(out[n - 1], args[n]) ELSE out[n - 1]
  IN out[Len(args)]

-----------------------------------------------------------------------------
(* parseGlobal.                                                            *)

Attached(t) == t.kind \in {"define", "profiles"}

\* -P, -s and -gs take the next token, whatever it is.
TakesGlobal(t) == t.kind = "flag" /\ t.name \in {"P", "s", "gs"}

\* The tokens that are no attached flag are read in pairs of a flag and its
\* value, up to the first that is no global flag: the command.
CommandAt(kept) ==
  Min({i \in 1 .. Len(kept) + 2 :
         i % 2 = 1 /\ (i > Len(kept) \/ ~ TakesGlobal(kept[i]))})

ValuesOf(kept, name) ==
  LET at == {i \in 1 .. CommandAt(kept) - 1 : i % 2 = 1 /\ kept[i].name = name} IN
  [n \in 1 .. Cardinality(at) |-> kept[SetToSortSeq(at, <)[n] + 1]]

LastName(values) == IF values = <<>> THEN "" ELSE Last(values).name

Lists(tokens) == FlattenSeq([i \in DOMAIN tokens |-> tokens[i].list])

\* Where -Dname stands.
Defining(args, name) == {i \in DOMAIN args : args[i].kind = "define" /\ args[i].name = name}

\* Mutant: the first -Dname wins.
DefinedFirst(args, name) == args[Min(Defining(args, name))].text

\* A map has what was put last.
DefinedAs(args, name) == args[Max(Defining(args, name))].text

\* A flag whose value is missing is an error.
ParseGlobal(args) ==
  LET kept == Marked(args, [i \in DOMAIN args |-> ~ Attached(args[i])])
      at   == CommandAt(kept)
  IN IF at > Len(kept) + 1 THEN [ok |-> FALSE]
     ELSE [ok |-> TRUE,
           props |-> [name \in {t.name : t \in {u \in Range(args) : u.kind = "define"}} |->
                        DefinedAs(args, name)],
           profiles |-> Lists(SelectSeq(args, LAMBDA t : t.kind = "profiles"))
                          \o Lists(ValuesOf(kept, "P")),
           userSettings |-> LastName(ValuesOf(kept, "s")),
           globalSettings |-> LastName(ValuesOf(kept, "gs")),
           rest |-> SubSeq(kept, at, Len(kept))]

-----------------------------------------------------------------------------
(* The rest: the command's flags and positional arguments.                 *)

\* What begins with a dash.
IsFlag(t) == t.kind \in {"flag", "flag=", "dash"}

\* Mutant: --flag=value takes the next argument too.
TakesGreedy(t, valueFlags) == t.kind \in {"flag", "flag="} /\ t.name \in valueFlags

Takes(t, valueFlags) == t.kind = "flag" /\ t.name \in valueFlags

\* Whether an argument is the value of the flag before it.
IsValue(args, valueFlags) ==
  LET value[i \in 0 .. Len(args)] ==
        i > 1 /\ ~ value[i - 1] /\ Takes(args[i - 1], valueFlags)
  IN value

\* What a token of the command's line is: a flag or the value of one, or else a
\* positional argument.
InFront(args, valueFlags) ==
  [i \in DOMAIN args |-> IsFlag(args[i]) \/ IsValue(args, valueFlags)[i]]

Behind(args, valueFlags) ==
  [i \in DOMAIN args |-> ~ InFront(args, valueFlags)[i]]

\* Flags and their values first, then the positional arguments.
ReorderArgs(args, valueFlags) ==
  Marked(args, InFront(args, valueFlags)) \o Marked(args, Behind(args, valueFlags))

\* flag.FlagSet.Parse stops at the first argument that is neither a flag nor
\* the value of one, such as "-", or "--", which it drops; an unknown flag or a
\* missing value is an error.  (A flag has what its last mention gives it;
\* deploy's --attach adds to a list, of which this is the end.)
FlagSetParse(args, valueFlags, boolFlags) ==
  LET Valued(i) == args[i].kind = "flag" /\ args[i].name \in valueFlags
      value[i \in 0 .. Len(args)] == i > 1 /\ ~ value[i - 1] /\ Valued(i - 1)
      end   == Min({i \in 1 .. Len(args) + 1 :
                      i = Len(args) + 1 \/ ~ (args[i].kind \in {"flag", "flag="} \/ value[i])})
      rest  == IF end <= Len(args) /\ args[end] = Dash("--") THEN end + 1 ELSE end
      flags == {i \in 1 .. end - 1 : ~ value[i]}
      Given(i)  == IF Valued(i) THEN args[i + 1] ELSE args[i]
  IN IF \E i \in flags : \/ args[i].name \notin valueFlags \cup boolFlags
                         \/ Valued(i) /\ i = Len(args)
     THEN [ok |-> FALSE]
     ELSE [ok |-> TRUE,
           flags |-> [f \in {args[i].name : i \in flags} |->
                        Given(Max({i \in flags : args[i].name = f}))],
           args |-> SubSeq(args, rest, Len(args))]

\* ParseCoords of internal/repo/coords.go, from the segments.
ParseCoords(parts) ==
  IF "" \in Range(parts) \/ Len(parts) \notin 3 .. 5 THEN [ok |-> FALSE]
  ELSE [ok |-> TRUE, groupId |-> parts[1], artifactId |-> parts[2], version |-> parts[3],
        type |-> IF Len(parts) >= 4 THEN parts[4] ELSE "jar",
        classifier |-> IF Len(parts) = 5 THEN parts[5] ELSE ""]
=============================================================================
