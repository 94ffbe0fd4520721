--------------------------- MODULE EffectiveProofs ---------------------------
(***************************************************************************)
(* What the loops of settings.go, effective.go and main.go compute, for    *)
(* lists of any length: mergeSettings, mirrorMatches, the selection of the *)
(* active profiles, the passes of Interpolate, and reorderArgs.  A loop is *)
(* a recursive function over its steps; what holds of its values is proved *)
(* from a first value and a step, by LoopInduction.                        *)
(***************************************************************************)
EXTENDS Session, SequenceTheorems, FiniteSetTheorems, WellFoundedInduction, TLAPS

-----------------------------------------------------------------------------
(* Loops.                                                                  *)

\* A set of numbers that has 0, and the next of each that it has, has all.
LEMMA SetInduction ==
  ASSUME NEW S, 0 \in S, \A n \in Nat : n \in S => n + 1 \in S
  PROVE  Nat \subseteq S
<1> DEFINE R == {p \in Nat \X Nat : p[1] < p[2]}
<1>1. IsWellFoundedOn(R, Nat)
  BY NatLessThanWellFounded DEF OpToRel
<1>2. SUFFICES ASSUME Nat \ S # {} PROVE FALSE
  OBVIOUS
<1>3. PICK x \in Nat \ S : \A y \in Nat \ S : ~ (<<y, x>> \in R)
  <2> HIDE DEF R
  <2> QED BY <1>1, <1>2, WFMin
<1>4. x - 1 \in Nat \ S
  BY <1>3
<1>5. <<x - 1, x>> \in R
  BY <1>4
<1> QED BY <1>3, <1>4, <1>5

\* What holds before a loop of N steps and is kept by each holds all along.
Inductive(S, N) == 0 \in S /\ \A n \in 1 .. N : n - 1 \in S => n \in S

LEMMA LoopInduction ==
  ASSUME NEW N \in Nat, NEW S, Inductive(S, N)
  PROVE  \A n \in 0 .. N : n \in S
<1> DEFINE T == {n \in Nat : n \in 0 .. N => n \in S}
<1>1. 0 \in T
  BY DEF Inductive
<1>2. ASSUME NEW n \in Nat, n \in T PROVE n + 1 \in T
  <2>1. CASE n + 1 \in 1 .. N
    <3>1. n \in S
      BY <1>2, <2>1
    <3>2. n + 1 - 1 \in S
      BY <3>1
    <3> QED BY <2>1, <3>2 DEF Inductive
  <2>2. CASE n + 1 \notin 1 .. N
    BY <2>2
  <2> QED BY <2>1, <2>2
<1>3. Nat \subseteq T
  <2> HIDE DEF T
  <2> QED BY <1>1, <1>2, SetInduction
<1> QED BY <1>3

\* The values of a loop's variable: a first one, and then one for each step.
Values(f, N, base, step) ==
  f[0] = base /\ \A n \in 1 .. N : f[n] = step[n][f[n - 1]]

LEMMA LoopValues ==
  ASSUME NEW N \in Nat, NEW D, NEW base \in D, NEW step \in [1 .. N -> [D -> D]]
  PROVE  \E f \in [0 .. N -> D] : Values(f, N, base, step)
<1> DEFINE S == {n \in 0 .. N : \E f \in [0 .. n -> D] : Values(f, n, base, step)}
<1>1. 0 \in S
  <2> DEFINE g == [i \in 0 .. 0 |-> base]
  <2>1. g \in [0 .. 0 -> D] /\ Values(g, 0, base, step)
    BY DEF Values
  <2> HIDE DEF g
  <2> QED BY <2>1
<1>2. ASSUME NEW n \in 1 .. N, n - 1 \in S PROVE n \in S
  <2>1. PICK f \in [0 .. n - 1 -> D] : Values(f, n - 1, base, step)
    BY <1>2
  <2> DEFINE last == step[n][f[n - 1]]
             g == [i \in 0 .. n |-> IF i = n THEN last ELSE f[i]]
  <2>2. last \in D
    OBVIOUS
  <2>3. g \in [0 .. n -> D]
    BY <2>2
  <2>4. g[0] = base /\ g[n] = last /\ g[n - 1] = f[n - 1]
    BY <2>1 DEF Values
  <2>5. \A i \in 1 .. n - 1 : g[i] = f[i] /\ g[i - 1] = f[i - 1]
    OBVIOUS
  <2>6. ASSUME NEW i \in 1 .. n PROVE g[i] = step[i][g[i - 1]]
    <3> HIDE DEF g
    <3>1. CASE i \in 1 .. n - 1
      BY <2>1, <2>5, <3>1 DEF Values
    <3>2. CASE i = n
      BY <2>4, <3>2
    <3> QED BY <3>1, <3>2
  <2>7. Values(g, n, base, step)
    BY <2>4, <2>6 DEF Values
  <2> HIDE DEF g
  <2> QED BY <2>3, <2>7
<1>3. Inductive(S, N)
  <2> HIDE DEF S
  <2> QED BY <1>1, <1>2 DEF Inductive
<1>4. N \in S
  <2> HIDE DEF S
  <2> QED BY <1>3, LoopInduction
<1> QED BY <1>4

\* Two loops that start alike and go on alike have the same values.
Alike(f, g, N) ==
  f[0] = g[0] /\ \A n \in 1 .. N : f[n - 1] = g[n - 1] => f[n] = g[n]

LEMMA SameValues ==
  ASSUME NEW N \in Nat, NEW f, NEW g, Alike(f, g, N)
  PROVE  \A n \in 0 .. N : f[n] = g[n]
<1> DEFINE S == {n \in 0 .. N : f[n] = g[n]}
<1>1. Inductive(S, N)
  BY DEF Inductive, Alike
<1>2. \A n \in 0 .. N : n \in S
  <2> HIDE DEF S
  <2> QED BY <1>1, LoopInduction
<1> QED BY <1>2

\* The least of some numbers.
LEMMA MinIsLeast ==
  ASSUME NEW S \in SUBSET Nat, S # {}
  PROVE  Min(S) \in S /\ \A x \in S : Min(S) <= x
<1> DEFINE R == {p \in Nat \X Nat : p[1] < p[2]}
<1>1. IsWellFoundedOn(R, Nat)
  BY NatLessThanWellFounded DEF OpToRel
<1>2. PICK x \in S : \A y \in S : ~ (<<y, x>> \in R)
  <2> HIDE DEF R
  <2>1. IsWellFoundedOn(R, Nat) /\ S # {} /\ S \subseteq Nat
    BY <1>1
  <2> QED BY <2>1, WFMin
<1>3. ASSUME NEW y \in S PROVE x <= y
  <2>1. x \in Nat /\ y \in Nat
    OBVIOUS
  <2>2. y < x => <<y, x>> \in R
    BY <2>1
  <2> QED BY <1>2, <2>1, <2>2
<1> QED BY <1>3 DEF Min

\* The greatest of some numbers that have a bound.
LEMMA MaxIsGreatest ==
  ASSUME NEW N \in Nat, NEW S \in SUBSET (0 .. N), S # {}
  PROVE  Max(S) \in S /\ \A x \in S : x <= Max(S)
<1> DEFINE T == {N - x : x \in S}
<1>1. T \in SUBSET Nat /\ T # {}
  <2>1. ASSUME NEW x \in S PROVE N - x \in Nat
    OBVIOUS
  <2> QED BY <2>1
<1>2. PICK least \in T : \A y \in T : least <= y
  <2> HIDE DEF T
  <2> QED BY <1>1, MinIsLeast
<1>3. PICK x \in S : least = N - x
  BY <1>2
<1>4. ASSUME NEW y \in S PROVE y <= x
  <2>1. N - y \in T /\ x \in 0 .. N /\ y \in 0 .. N
    OBVIOUS
  <2>2. N - x <= N - y
    BY <1>2, <1>3, <2>1
  <2> QED BY <2>1, <2>2
<1> QED BY <1>3, <1>4 DEF Max

\* The first of a sequence's elements that pass a test, the indexes of those
\* that do being given.
FirstOf(I) == IF I # {} THEN Min(I) ELSE 0

LEMMA FirstOfIs ==
  ASSUME NEW I \in SUBSET (Nat \ {0})
  PROVE  /\ FirstOf(I) = 0 <=> I = {}
         /\ I # {} => FirstOf(I) \in I /\ \A i \in I : FirstOf(I) <= i
BY MinIsLeast DEF FirstOf

-----------------------------------------------------------------------------
(* mergeSettings.                                                          *)

\* What the list is after each of the global entries.
LEMMA MergeLoop ==
  ASSUME NEW X, NEW user \in Seq(X), NEW global \in Seq(X)
  PROVE  \E out \in [0 .. Len(global) -> Seq(X)] :
           /\ out[0] = user
           /\ \A n \in 1 .. Len(global) : out[n] = AddNew(out[n - 1], global[n])
           /\ Merge(user, global) = out[Len(global)]
<1> DEFINE N == Len(global)
           D == Seq(X)
           step == [n \in 1 .. N |-> [v \in D |-> AddNew(v, global[n])]]
           Of(out) == out = [n \in 0 .. N |-> IF n = 0 THEN user ELSE AddNew(out[n - 1], global[n])]
           values == CHOOSE out : Of(out)
<1>1. N \in Nat /\ user \in D
  OBVIOUS
<1>2. \A n \in 1 .. N, v \in D : AddNew(v, global[n]) \in D
  BY DEF AddNew
<1>3. Merge(user, global) = values[N]
  BY Zenon DEF Merge
<1> HIDE DEF N, D
<1>4. /\ step \in [1 .. N -> [D -> D]]
      /\ \A n \in 1 .. N, v \in D : step[n][v] = AddNew(v, global[n])
  BY <1>2
<1> HIDE DEF step
<1>5. PICK f \in [0 .. N -> D] : Values(f, N, user, step)
  BY <1>1, <1>4, LoopValues
<1>6. f[0] = user /\ \A n \in 1 .. N : f[n] = AddNew(f[n - 1], global[n])
  BY <1>1, <1>4, <1>5 DEF Values
<1>7. Of(values)
  <2>1. Of(f)
    BY <1>1, <1>6
  <2> HIDE DEF Of
  <2> QED BY <2>1
<1> HIDE DEF values
<1>8. \A n \in 0 .. N : f[n] = values[n]
  <2>1. values[0] = user /\ \A n \in 1 .. N : values[n] = AddNew(values[n - 1], global[n])
    BY <1>1, <1>7
  <2>2. Alike(f, values, N)
    BY <1>1, <1>6, <2>1 DEF Alike
  <2> QED BY <1>1, <2>2, SameValues
<1> QED BY <1>1, <1>3, <1>6, <1>8 DEF N, D

\* The global entries that are the first of their id, which no user's entry has.
Kept(user, global) ==
  {j \in 1 .. Len(global) : /\ \A i \in 1 .. j - 1 : global[i].id # global[j].id
                            /\ ~ HasID(user, global[j].id)}

\* The list after n global entries: the user's, and then kept entries in
\* their order, src saying which.
Merged(user, global, n, out, src) ==
  /\ Len(user) <= Len(out)
  /\ \A i \in 1 .. Len(user) : out[i] = user[i]
  /\ \A k \in Len(user) + 1 .. Len(out) :
       /\ src[k] \in Kept(user, global) /\ src[k] <= n
       /\ out[k] = global[src[k]]
       /\ \A i \in Len(user) + 1 .. k - 1 : src[i] < src[k]
  /\ \A j \in 1 .. n : HasID(out, global[j].id)

LEMMA MergeStep ==
  ASSUME NEW X, NEW user \in Seq(X), NEW global \in Seq(X), NEW n \in 1 .. Len(global),
         NEW out \in Seq(X), NEW src, Merged(user, global, n - 1, out, src)
  PROVE  \E next : Merged(user, global, n, AddNew(out, global[n]), next)
<1>1. CASE HasID(out, global[n].id)
  <2>1. AddNew(out, global[n]) = out
    BY <1>1 DEF AddNew
  <2>2. \A j \in 1 .. n : j # n => j \in 1 .. n - 1
    OBVIOUS
  <2>3. \A k : src[k] \in Kept(user, global) /\ src[k] <= n - 1 => src[k] <= n
    BY DEF Kept
  <2>4. Merged(user, global, n, out, src)
    BY <1>1, <2>2, <2>3 DEF Merged
  <2> QED BY <2>1, <2>4
<1>2. CASE ~ HasID(out, global[n].id)
  <2> DEFINE added == Append(out, global[n])
             last == Len(out) + 1
             next == [k \in 1 .. last |-> IF k = last THEN n ELSE src[k]]
  <2>1. AddNew(out, global[n]) = added
    BY <1>2 DEF AddNew
  <2>2. /\ Len(added) = last /\ added[last] = global[n]
        /\ \A k \in 1 .. Len(out) : added[k] = out[k]
        /\ DOMAIN added = 1 .. last /\ DOMAIN out = 1 .. Len(out)
    OBVIOUS
  <2>3. next[last] = n /\ \A k \in 1 .. Len(out) : next[k] = src[k]
    OBVIOUS
  <2>4. Len(user) \in Nat /\ Len(out) \in Nat /\ Len(user) <= Len(out) /\ last = Len(out) + 1
        /\ DOMAIN user = 1 .. Len(user)
    BY DEF Merged
  <2> HIDE DEF added, next, last
  <2>5. n \in Kept(user, global)
    <3>1. ASSUME NEW i \in 1 .. n - 1 PROVE global[i].id # global[n].id
      BY <1>2 DEF Merged
    <3>2. ~ HasID(user, global[n].id)
      BY <1>2, <2>2, <2>4 DEF Merged, HasID
    <3> QED BY <3>1, <3>2 DEF Kept
  <2>6. \A i \in 1 .. Len(user) : added[i] = user[i]
    BY <2>2, <2>4 DEF Merged
  <2>7. ASSUME NEW k \in Len(user) + 1 .. last
        PROVE  /\ next[k] \in Kept(user, global) /\ next[k] <= n
               /\ added[k] = global[next[k]]
               /\ \A i \in Len(user) + 1 .. k - 1 : next[i] < next[k]
    <3>1. \A i \in Len(user) + 1 .. Len(out) : next[i] = src[i] /\ src[i] \in 1 .. n - 1
      BY <2>3, <2>4 DEF Merged, Kept
    <3>2. CASE k = last
      <4>1. \A i \in Len(user) + 1 .. k - 1 : i \in Len(user) + 1 .. Len(out)
        BY <2>4, <3>2
      <4>2. \A i \in Len(user) + 1 .. k - 1 : next[i] < n
        BY <3>1, <4>1
      <4>3. next[k] = n /\ added[k] = global[n] /\ n <= n
        BY <2>2, <2>3, <3>2
      <4> QED BY <2>5, <4>2, <4>3
    <3>3. CASE k # last
      <4>1. k \in Len(user) + 1 .. Len(out)
        BY <2>4, <3>3
      <4>2. /\ src[k] \in Kept(user, global) /\ out[k] = global[src[k]]
            /\ \A i \in Len(user) + 1 .. k - 1 : src[i] < src[k]
        BY <4>1 DEF Merged
      <4>3. next[k] = src[k] /\ src[k] \in 1 .. n - 1
        BY <3>1, <4>1
      <4>4. next[k] <= n
        BY <4>3
      <4>5. added[k] = out[k]
        BY <2>2, <2>4, <4>1
      <4>6. \A i \in Len(user) + 1 .. k - 1 : i \in Len(user) + 1 .. Len(out)
        BY <2>4, <4>1
      <4>7. \A i \in Len(user) + 1 .. k - 1 : next[i] < next[k]
        BY <3>1, <4>2, <4>3, <4>6
      <4> QED BY <4>2, <4>3, <4>4, <4>5, <4>7
    <3> QED BY <3>2, <3>3
  <2>8. ASSUME NEW j \in 1 .. n PROVE HasID(added, global[j].id)
    <3>1. CASE j = n
      BY <2>2, <2>4, <3>1 DEF HasID
    <3>2. CASE j # n
      <4>1. j \in 1 .. n - 1
        BY <3>2
      <4>2. HasID(out, global[j].id)
        BY <4>1 DEF Merged
      <4> QED BY <2>2, <2>4, <4>2 DEF HasID
    <3> QED BY <3>1, <3>2
  <2>9. Merged(user, global, n, added, next)
    BY <2>2, <2>4, <2>6, <2>7, <2>8 DEF Merged
  <2> QED BY <2>1, <2>9
<1> QED BY <1>1, <1>2

LEMMA MergeOrder ==
  ASSUME NEW X, NEW user \in Seq(X), NEW global \in Seq(X)
  PROVE  /\ Merge(user, global) \in Seq(X)
         /\ \E src : Merged(user, global, Len(global), Merge(user, global), src)
<1>1. PICK out \in [0 .. Len(global) -> Seq(X)] :
         /\ out[0] = user
         /\ \A n \in 1 .. Len(global) : out[n] = AddNew(out[n - 1], global[n])
         /\ Merge(user, global) = out[Len(global)]
  BY MergeLoop
<1> DEFINE S == {n \in 0 .. Len(global) : \E src : Merged(user, global, n, out[n], src)}
<1>2. 0 \in S
  <2>1. Merged(user, global, 0, out[0], <<>>)
    BY <1>1 DEF Merged
  <2> QED BY <2>1
<1>3. ASSUME NEW n \in 1 .. Len(global), n - 1 \in S PROVE n \in S
  <2>1. PICK src : Merged(user, global, n - 1, out[n - 1], src)
    BY <1>3
  <2>2. out[n - 1] \in Seq(X)
    BY <1>1
  <2>3. \E next : Merged(user, global, n, AddNew(out[n - 1], global[n]), next)
    BY <2>1, <2>2, MergeStep
  <2> QED BY <1>1, <2>3
<1>4. Len(global) \in S
  <2>1. Inductive(S, Len(global))
    <3> HIDE DEF S
    <3> QED BY <1>2, <1>3 DEF Inductive
  <2>2. Len(global) \in Nat
    OBVIOUS
  <2> HIDE DEF S
  <2> QED BY <2>1, <2>2, LoopInduction
<1> QED BY <1>1, <1>4

\* Every kept entry is in the merged list.
LEMMA KeptIsMerged ==
  ASSUME NEW X, NEW user \in Seq(X), NEW global \in Seq(X), NEW out \in Seq(X), NEW src,
         Merged(user, global, Len(global), out, src), NEW j \in Kept(user, global)
  PROVE  \E k \in Len(user) + 1 .. Len(out) : src[k] = j /\ out[k] = global[j]
<1>1. j \in 1 .. Len(global) /\ Len(user) \in Nat /\ Len(out) \in Nat
      /\ DOMAIN user = 1 .. Len(user) /\ DOMAIN out = 1 .. Len(out)
  BY DEF Kept
<1>2. PICK k \in DOMAIN out : out[k].id = global[j].id
  BY <1>1 DEF Merged, HasID
<1>3. k \notin 1 .. Len(user)
  <2>1. k \in 1 .. Len(user) => user[k].id = global[j].id
    BY <1>2 DEF Merged
  <2> QED BY <1>1, <2>1 DEF Kept, HasID
<1>4. k \in Len(user) + 1 .. Len(out)
  BY <1>1, <1>2, <1>3
<1>5. src[k] \in Kept(user, global) /\ out[k] = global[src[k]]
  BY <1>4 DEF Merged
<1>6. src[k] = j
  <2> DEFINE i == src[k]
  <2>1. global[i].id = global[j].id /\ i \in 1 .. Len(global)
    BY <1>2, <1>5 DEF Kept
  <2>2. ~ (i < j) /\ ~ (j < i)
    <3>1. i < j => i \in 1 .. j - 1
      BY <1>1, <2>1
    <3>2. j < i => j \in 1 .. i - 1
      BY <1>1, <2>1
    <3> QED BY <1>5, <2>1, <3>1, <3>2 DEF Kept
  <2> QED BY <1>1, <2>1, <2>2
<1> QED BY <1>4, <1>5, <1>6

\* What a kept entry is to its id.
LEMMA KeptIsEntry ==
  ASSUME NEW X, NEW user \in Seq(X), NEW global \in Seq(X), NEW id,
         IdsOf(user, id) = {}, IdsOf(global, id) # {}
  PROVE  /\ Min(IdsOf(global, id)) \in Kept(user, global)
         /\ \A j \in Kept(user, global) : global[j].id = id => j = Min(IdsOf(global, id))
<1> DEFINE m == Min(IdsOf(global, id))
<1>1. m \in IdsOf(global, id) /\ \A i \in IdsOf(global, id) : m <= i
  BY MinIsLeast DEF IdsOf
<1> HIDE DEF m
<1>2. m \in 1 .. Len(global) /\ global[m].id = id
  BY <1>1 DEF IdsOf
<1>3. m \in Kept(user, global)
  <2>1. ASSUME NEW i \in 1 .. m - 1 PROVE global[i].id # global[m].id
    <3>1. i \in 1 .. Len(global) /\ ~ (m <= i)
      BY <1>2
    <3> QED BY <1>1, <1>2, <3>1 DEF IdsOf
  <2>2. ~ HasID(user, global[m].id)
    BY <1>2 DEF HasID, IdsOf
  <2> QED BY <1>2, <2>1, <2>2 DEF Kept
<1>4. ASSUME NEW j \in Kept(user, global), global[j].id = id PROVE j = m
  <2>1. j \in 1 .. Len(global) /\ m <= j
    BY <1>1, <1>4 DEF Kept, IdsOf
  <2>2. m < j => m \in 1 .. j - 1
    BY <1>2, <2>1
  <2> QED BY <1>2, <1>4, <2>1, <2>2 DEF Kept
<1> QED BY <1>3, <1>4 DEF m

\* The first entry of the merged list that has an id is the entry that the two
\* lists have for it.
LEMMA MergedEntry ==
  ASSUME NEW X, NEW user \in Seq(X), NEW global \in Seq(X), NEW id
  PROVE  LET out == Merge(user, global)
             first == FirstOf(IdsOf(out, id))
         IN /\ first = 0 <=> EntryOf(user, global, id) = {}
            /\ first # 0 => EntryOf(user, global, id) = {out[first]}
<1> DEFINE out == Merge(user, global)
           ids == IdsOf(out, id)
<1>1. PICK src : Merged(user, global, Len(global), out, src)
  BY MergeOrder
<1>2. out \in Seq(X)
  BY MergeOrder
<1> HIDE DEF out
<1>3. /\ DOMAIN user = 1 .. Len(user) /\ DOMAIN out = 1 .. Len(out)
      /\ Len(user) \in Nat /\ Len(out) \in Nat /\ Len(user) <= Len(out)
      /\ \A i \in 1 .. Len(user) : out[i] = user[i]
  BY <1>1, <1>2 DEF Merged
<1>4. ids \in SUBSET (Nat \ {0})
  BY <1>3 DEF IdsOf
<1> HIDE DEF ids
<1>5. /\ FirstOf(ids) = 0 <=> ids = {}
      /\ ids # {} => FirstOf(ids) \in ids /\ \A i \in ids : FirstOf(ids) <= i
  BY <1>4, FirstOfIs
<1>6. CASE IdsOf(user, id) # {}
  <2> DEFINE m == Min(IdsOf(user, id))
  <2>1. IdsOf(user, id) \in SUBSET Nat
    BY <1>3 DEF IdsOf
  <2>2. m \in IdsOf(user, id) /\ \A i \in IdsOf(user, id) : m <= i
    BY <1>6, <2>1, MinIsLeast
  <2>3. EntryOf(user, global, id) = {user[m]}
    BY <1>6 DEF EntryOf
  <2> HIDE DEF m
  <2>4. m \in 1 .. Len(user) /\ m \in ids
    BY <1>3, <2>2 DEF IdsOf, ids
  <2>5. ASSUME NEW i \in ids, i < m PROVE FALSE
    <3>1. i \in 1 .. Len(user) /\ i \in IdsOf(user, id)
      BY <1>3, <1>4, <2>4, <2>5 DEF IdsOf, ids
    <3> QED BY <1>3, <2>2, <2>4, <2>5, <3>1
  <2>6. FirstOf(ids) = m
    <3>1. FirstOf(ids) \in ids /\ FirstOf(ids) <= m
      BY <1>5, <2>4
    <3>2. FirstOf(ids) \in Nat /\ m \in Nat
      BY <1>3, <1>4, <2>4, <3>1
    <3>3. ~ (FirstOf(ids) < m)
      BY <2>5, <3>1
    <3> QED BY <3>1, <3>2, <3>3
  <2>7. FirstOf(ids) # 0 /\ out[FirstOf(ids)] = user[m]
    BY <1>3, <2>4, <2>6
  <2> QED BY <2>3, <2>7 DEF out, ids
<1>7. CASE IdsOf(user, id) = {} /\ IdsOf(global, id) # {}
  <2> DEFINE m == Min(IdsOf(global, id))
  <2>1. EntryOf(user, global, id) = {global[m]}
    BY <1>7 DEF EntryOf
  <2>2. m \in Kept(user, global) /\ \A j \in Kept(user, global) : global[j].id = id => j = m
    BY <1>7, KeptIsEntry
  <2>3. global[m].id = id
    <3>1. IdsOf(global, id) \in SUBSET Nat
      BY DEF IdsOf
    <3>2. m \in IdsOf(global, id)
      BY <1>7, <3>1, MinIsLeast
    <3> HIDE DEF m
    <3> QED BY <3>2 DEF IdsOf
  <2> HIDE DEF m
  <2>4. ids # {}
    <3>1. PICK k \in Len(user) + 1 .. Len(out) : out[k] = global[m]
      BY <1>1, <1>2, <2>2, KeptIsMerged
    <3>2. k \in 1 .. Len(out)
      BY <1>3
    <3> QED BY <1>3, <2>3, <3>1, <3>2 DEF IdsOf, ids
  <2>5. ASSUME NEW i \in ids PROVE out[i] = global[m]
    <3>1. i \in 1 .. Len(out) /\ out[i].id = id
      BY <1>3 DEF IdsOf, ids
    <3>2. i \notin 1 .. Len(user)
      BY <1>3, <1>7, <3>1 DEF IdsOf
    <3>3. i \in Len(user) + 1 .. Len(out)
      BY <1>3, <3>1, <3>2
    <3>4. src[i] \in Kept(user, global) /\ out[i] = global[src[i]]
      BY <1>1, <3>3 DEF Merged
    <3>5. src[i] = m
      BY <2>2, <3>1, <3>4
    <3> QED BY <3>4, <3>5
  <2>6. FirstOf(ids) # 0 /\ out[FirstOf(ids)] = global[m]
    BY <1>5, <2>4, <2>5
  <2> QED BY <2>1, <2>6 DEF out, ids
<1>8. CASE IdsOf(user, id) = {} /\ IdsOf(global, id) = {}
  <2>1. EntryOf(user, global, id) = {}
    BY <1>8 DEF EntryOf
  <2>2. ASSUME NEW i \in ids PROVE FALSE
    <3>1. i \in 1 .. Len(out) /\ out[i].id = id
      BY <1>3 DEF IdsOf, ids
    <3>2. CASE i \in 1 .. Len(user)
      BY <1>3, <1>8, <3>1, <3>2 DEF IdsOf
    <3>3. CASE i \in Len(user) + 1 .. Len(out)
      <4>1. src[i] \in 1 .. Len(global) /\ out[i] = global[src[i]]
        BY <1>1, <3>3 DEF Merged, Kept
      <4> QED BY <1>8, <3>1, <4>1 DEF IdsOf
    <3> QED BY <1>3, <3>1, <3>2, <3>3
  <2>3. FirstOf(ids) = 0
    BY <1>5, <2>2
  <2> QED BY <2>1, <2>3 DEF out, ids
<1> QED BY <1>6, <1>7, <1>8 DEF out, ids

\* The first entry of the merged list that passes a test: the user's first one
\* that does, or the first global one that does and is the entry of its id.
Passing(list, T) == {i \in DOMAIN list : list[i] \in T}

PassingEntries(user, global, T) ==
  {i \in Passing(global, T) : EntryOf(user, global, global[i].id) = {global[i]}}

LEMMA MergedFirst ==
  ASSUME NEW X, NEW user \in Seq(X), NEW global \in Seq(X), NEW T
  PROVE  LET out == Merge(user, global)
             first == FirstOf(Passing(out, T))
             ours == Passing(user, T)
             theirs_ == PassingEntries(user, global, T)
         IN /\ ours # {} => first # 0 /\ out[first] = user[Min(ours)]
            /\ ours = {} /\ theirs_ # {} => first # 0 /\ out[first] = global[Min(theirs_)]
            /\ ours = {} /\ theirs_ = {} => first = 0
<1> DEFINE out == Merge(user, global)
           those == Passing(out, T)
           ours == Passing(user, T)
           theirs_ == PassingEntries(user, global, T)
<1>1. PICK src : Merged(user, global, Len(global), out, src)
  BY MergeOrder
<1>2. out \in Seq(X)
  BY MergeOrder
<1> HIDE DEF out
<1>3. /\ DOMAIN user = 1 .. Len(user) /\ DOMAIN out = 1 .. Len(out)
      /\ DOMAIN global = 1 .. Len(global) /\ Len(global) \in Nat
      /\ Len(user) \in Nat /\ Len(out) \in Nat /\ Len(user) <= Len(out)
      /\ \A i \in 1 .. Len(user) : out[i] = user[i]
  BY <1>1, <1>2 DEF Merged
<1>4. those \in SUBSET (Nat \ {0}) /\ ours \in SUBSET Nat /\ theirs_ \in SUBSET Nat
  BY <1>3 DEF Passing, PassingEntries
<1> HIDE DEF those, ours, theirs_
<1>5. /\ FirstOf(those) = 0 <=> those = {}
      /\ those # {} => FirstOf(those) \in those /\ \A i \in those : FirstOf(those) <= i
  BY <1>4, FirstOfIs
<1>6. ASSUME ours # {} PROVE FirstOf(those) # 0 /\ out[FirstOf(those)] = user[Min(ours)]
  <2> DEFINE m == Min(ours)
  <2>1. m \in ours /\ \A i \in ours : m <= i
    BY <1>4, <1>6, MinIsLeast
  <2> HIDE DEF m
  <2>2. m \in 1 .. Len(user) /\ m \in those
    BY <1>3, <2>1 DEF Passing, ours, those
  <2>3. ASSUME NEW i \in those, i < m PROVE FALSE
    <3>1. i \in 1 .. Len(user) /\ i \in ours
      BY <1>3, <1>4, <2>2, <2>3 DEF Passing, ours, those
    <3> QED BY <1>3, <2>1, <2>2, <2>3, <3>1
  <2>4. FirstOf(those) = m
    <3>1. FirstOf(those) \in those /\ FirstOf(those) <= m
      BY <1>5, <2>2
    <3>2. FirstOf(those) \in Nat /\ m \in Nat
      BY <1>3, <1>4, <2>2, <3>1
    <3>3. ~ (FirstOf(those) < m)
      BY <2>3, <3>1
    <3> QED BY <3>1, <3>2, <3>3
  <2> QED BY <1>3, <2>2, <2>4 DEF m
<1>7. ASSUME ours = {}, NEW i \in those
      PROVE  /\ i \in Len(user) + 1 .. Len(out)
             /\ src[i] \in theirs_ /\ out[i] = global[src[i]]
  <2>1. i \in 1 .. Len(out) /\ out[i] \in T
    BY <1>3 DEF Passing, those
  <2>2. i \notin 1 .. Len(user)
    BY <1>3, <1>7, <2>1 DEF Passing, ours
  <2>3. i \in Len(user) + 1 .. Len(out)
    BY <1>3, <2>1, <2>2
  <2>4. src[i] \in Kept(user, global) /\ out[i] = global[src[i]]
    BY <1>1, <2>3 DEF Merged
  <2> DEFINE j == src[i]
             id == global[j].id
  <2>5. j \in 1 .. Len(global) /\ IdsOf(user, id) = {} /\ j \in IdsOf(global, id)
    BY <1>3, <2>4 DEF Kept, HasID, IdsOf
  <2>6. j = Min(IdsOf(global, id))
    BY <2>4, <2>5, KeptIsEntry
  <2>7. EntryOf(user, global, id) = {global[j]}
    BY <2>5, <2>6 DEF EntryOf
  <2>8. j \in Passing(global, T)
    BY <1>3, <2>1, <2>4, <2>5 DEF Passing
  <2> QED BY <2>3, <2>4, <2>7, <2>8 DEF PassingEntries, theirs_
<1>8. ASSUME ours = {}, theirs_ # {}
      PROVE  FirstOf(those) # 0 /\ out[FirstOf(those)] = global[Min(theirs_)]
  <2> DEFINE m == Min(theirs_)
             id == global[m].id
             j == Min(IdsOf(global, id))
  <2>1. m \in theirs_ /\ \A i \in theirs_ : m <= i
    BY <1>4, <1>8, MinIsLeast
  <2> HIDE DEF m
  <2>2. m \in 1 .. Len(global) /\ global[m] \in T /\ m \in IdsOf(global, id)
        /\ EntryOf(user, global, id) = {global[m]}
    BY <1>3, <2>1 DEF Passing, PassingEntries, theirs_, IdsOf
  <2>3. IdsOf(user, id) = {}
    <3>1. SUFFICES ASSUME IdsOf(user, id) # {} PROVE FALSE
      OBVIOUS
    <3> DEFINE u == Min(IdsOf(user, id))
    <3>2. IdsOf(user, id) \in SUBSET Nat
      BY <1>3 DEF IdsOf
    <3>3. u \in IdsOf(user, id)
      BY <3>1, <3>2, MinIsLeast
    <3>4. EntryOf(user, global, id) = {user[u]}
      BY <3>1 DEF EntryOf
    <3> HIDE DEF u
    <3>5. u \in DOMAIN user /\ user[u] \in T
      BY <2>2, <3>3, <3>4 DEF IdsOf
    <3> QED BY <1>8, <3>5 DEF Passing, ours
  <2>4. j \in Kept(user, global) /\ EntryOf(user, global, id) = {global[j]}
    BY <2>2, <2>3, KeptIsEntry DEF EntryOf
  <2>5. j \in IdsOf(global, id) /\ j <= m
    <3>1. IdsOf(global, id) \in SUBSET Nat
      BY <1>3 DEF IdsOf
    <3> HIDE DEF id
    <3> QED BY <2>2, <3>1, MinIsLeast
  <2> HIDE DEF j
  <2>6. j \in theirs_
    <3>1. j \in DOMAIN global /\ global[j] = global[m]
      BY <2>2, <2>4, <2>5 DEF IdsOf
    <3> QED BY <2>2, <3>1 DEF Passing, PassingEntries, theirs_
  <2>7. j = m
    BY <1>4, <2>1, <2>5, <2>6
  <2>8. PICK k \in Len(user) + 1 .. Len(out) : src[k] = m /\ out[k] = global[m]
    BY <1>1, <1>2, <2>4, <2>7, KeptIsMerged
  <2>9. k \in those
    BY <1>3, <2>2, <2>8 DEF Passing, those
  <2> DEFINE first == FirstOf(those)
  <2>10. first \in those /\ first <= k /\ first # 0
    BY <1>4, <1>5, <2>9
  <2> HIDE DEF first
  <2>11. /\ first \in Len(user) + 1 .. Len(out)
         /\ src[first] \in theirs_ /\ out[first] = global[src[first]]
    BY <1>7, <1>8, <2>10
  <2>12. m <= src[first]
    BY <2>1, <2>11
  <2>13. first < k => src[first] < src[k]
    <3>1. first < k => first \in Len(user) + 1 .. k - 1
      BY <1>3, <2>8, <2>11
    <3> QED BY <1>1, <2>8, <3>1 DEF Merged
  <2>14. first = k
    <3>1. first \in Nat /\ k \in Nat /\ m \in Nat /\ src[first] \in Nat
      <4>1. m \in Nat /\ src[first] \in Nat /\ first \in Nat
        BY <1>4, <2>1, <2>10, <2>11
      <4>2. k \in Nat
        BY <1>3, <2>8
      <4> QED BY <4>1, <4>2
    <3>2. ~ (src[first] < src[k])
      BY <2>8, <2>12, <3>1
    <3> QED BY <2>10, <2>13, <3>1, <3>2
  <2> QED BY <2>8, <2>10, <2>14 DEF first, m
<1>9. ASSUME ours = {}, theirs_ = {} PROVE FirstOf(those) = 0
  BY <1>5, <1>7, <1>9
<1> QED BY <1>6, <1>8, <1>9 DEF out, those, ours, theirs_

-----------------------------------------------------------------------------
(* mirrorMatches.                                                          *)

Verdicts == {"unmatched", "matched", "excluded"}

\* The verdict after each of the tokens.
LEMMA MatchLoop ==
  ASSUME NEW X, NEW pattern \in Seq(X), NEW r
  PROVE  \E out \in [0 .. Len(pattern) -> Verdicts] :
           /\ out[0] = "unmatched"
           /\ \A n \in 1 .. Len(pattern) : out[n] = Judge(out[n - 1], pattern[n], r)
           /\ MirrorMatches(pattern, r) <=> out[Len(pattern)] = "matched"
<1> DEFINE N == Len(pattern)
           D == Verdicts
           step == [n \in 1 .. N |-> [v \in D |-> Judge(v, pattern[n], r)]]
           Of(out) == out = [n \in 0 .. N |-> IF n = 0 THEN "unmatched" ELSE Judge(out[n - 1], pattern[n], r)]
           values == CHOOSE out : Of(out)
<1>1. N \in Nat /\ "unmatched" \in D
  BY DEF Verdicts
<1>2. \A n \in 1 .. N, v \in D : Judge(v, pattern[n], r) \in D
  BY DEF Judge, Verdicts
<1>3. MirrorMatches(pattern, r) <=> values[N] = "matched"
  BY Zenon DEF MirrorMatches
<1> HIDE DEF N, D
<1>4. /\ step \in [1 .. N -> [D -> D]]
      /\ \A n \in 1 .. N, v \in D : step[n][v] = Judge(v, pattern[n], r)
  BY <1>2
<1> HIDE DEF step
<1>5. PICK f \in [0 .. N -> D] : Values(f, N, "unmatched", step)
  BY <1>1, <1>4, LoopValues
<1>6. f[0] = "unmatched" /\ \A n \in 1 .. N : f[n] = Judge(f[n - 1], pattern[n], r)
  BY <1>1, <1>4, <1>5 DEF Values
<1>7. Of(values)
  <2>1. Of(f)
    BY <1>1, <1>6
  <2> HIDE DEF Of
  <2> QED BY <2>1
<1> HIDE DEF values
<1>8. \A n \in 0 .. N : f[n] = values[n]
  <2>1. values[0] = "unmatched" /\ \A n \in 1 .. N : values[n] = Judge(values[n - 1], pattern[n], r)
    BY <1>1, <1>7
  <2>2. Alike(f, values, N)
    BY <1>1, <1>6, <2>1 DEF Alike
  <2> QED BY <1>1, <2>2, SameValues
<1> QED BY <1>1, <1>3, <1>6, <1>8 DEF N, D

\* What a token says of a repository.
Excludes(tok, r) == tok.not /\ tok.name = r.id

Includes(tok, r) ==
  /\ ~ tok.not
  /\ \/ tok.name \in {r.id, "*"}
     \/ tok.name = "external:*" /\ External(r.url)

\* The verdict after n tokens, whatever their order.
Judged(pattern, r, n, verdict) ==
  /\ verdict \in Verdicts
  /\ verdict = "excluded" <=> \E i \in 1 .. n : Excludes(pattern[i], r)
  /\ verdict = "matched" <=> /\ ~ \E i \in 1 .. n : Excludes(pattern[i], r)
                             /\ \E i \in 1 .. n : Includes(pattern[i], r)

LEMMA JudgeStep ==
  ASSUME NEW pattern, NEW r, NEW n \in Nat \ {0}, NEW verdict,
         Judged(pattern, r, n - 1, verdict)
  PROVE  Judged(pattern, r, n, Judge(verdict, pattern[n], r))
<1> DEFINE tok == pattern[n]
           after == Judge(verdict, tok, r)
           Excluded(k) == \E i \in 1 .. k : Excludes(pattern[i], r)
           Included(k) == \E i \in 1 .. k : Includes(pattern[i], r)
<1>1. /\ Excluded(n) <=> Excludes(tok, r) \/ Excluded(n - 1)
      /\ Included(n) <=> Includes(tok, r) \/ Included(n - 1)
  <2>1. n \in 1 .. n /\ \A i \in 1 .. n : i = n \/ i \in 1 .. n - 1
    OBVIOUS
  <2>2. \A i \in 1 .. n - 1 : i \in 1 .. n
    OBVIOUS
  <2> QED BY <2>1, <2>2
<1>2. after = IF verdict = "excluded" \/ Excludes(tok, r) THEN "excluded"
              ELSE IF Includes(tok, r) THEN "matched" ELSE verdict
  BY DEF Judge, Excludes, Includes
<1>3. /\ verdict \in Verdicts
      /\ verdict = "excluded" <=> Excluded(n - 1)
      /\ verdict = "matched" <=> ~ Excluded(n - 1) /\ Included(n - 1)
  BY DEF Judged
<1> HIDE DEF after, tok, Excluded, Included
<1>4. /\ after \in Verdicts
      /\ after = "excluded" <=> Excluded(n)
      /\ after = "matched" <=> ~ Excluded(n) /\ Included(n)
  BY <1>1, <1>2, <1>3 DEF Verdicts
<1> QED BY <1>4 DEF Judged, after, tok, Excluded, Included

\* A pattern matches a repository that one token includes and none excludes,
\* wherever they stand.
LEMMA MatchesWhatItCovers ==
  ASSUME NEW pattern \in Seq(Tokens), NEW r
  PROVE  MirrorMatches(pattern, r) <=> Covers(pattern, r)
<1> DEFINE N == Len(pattern)
<1>1. PICK out \in [0 .. N -> Verdicts] :
         /\ out[0] = "unmatched"
         /\ \A n \in 1 .. N : out[n] = Judge(out[n - 1], pattern[n], r)
         /\ MirrorMatches(pattern, r) <=> out[N] = "matched"
  BY MatchLoop
<1>2. N \in Nat /\ DOMAIN pattern = 1 .. N
  OBVIOUS
<1>3. \A i \in 1 .. N : pattern[i].not \in BOOLEAN
  BY DEF Tokens
<1> HIDE DEF N
<1> DEFINE S == {n \in 0 .. N : Judged(pattern, r, n, out[n])}
<1>4. 0 \in S
  BY <1>1, <1>2 DEF Judged, Verdicts
<1>5. ASSUME NEW n \in 1 .. N, n - 1 \in S PROVE n \in S
  BY <1>1, <1>5, JudgeStep
<1>6. Judged(pattern, r, N, out[N])
  <2>1. Inductive(S, N)
    <3> HIDE DEF S
    <3> QED BY <1>4, <1>5 DEF Inductive
  <2>2. N \in S
    <3> HIDE DEF S
    <3> QED BY <1>2, <2>1, LoopInduction
  <2> QED BY <2>2
<1>7. r.id \in {pattern[i].name : i \in {j \in DOMAIN pattern : pattern[j].not = TRUE}}
        <=> \E i \in 1 .. N : Excludes(pattern[i], r)
  BY <1>2, <1>3 DEF Excludes
<1>8. \A name : name \in {pattern[i].name : i \in {j \in DOMAIN pattern : pattern[j].not = FALSE}}
        <=> \E i \in 1 .. N : ~ pattern[i].not /\ pattern[i].name = name
  BY <1>2, <1>3
<1>9. Covers(pattern, r)
        <=> /\ ~ \E i \in 1 .. N : Excludes(pattern[i], r)
            /\ \E i \in 1 .. N : Includes(pattern[i], r)
  <2> DEFINE names == {pattern[i].name : i \in {j \in DOMAIN pattern : pattern[j].not = FALSE}}
  <2>1. \A name : name \in names <=> \E i \in 1 .. N : ~ pattern[i].not /\ pattern[i].name = name
    BY <1>8
  <2>2. Covers(pattern, r) <=> /\ ~ \E i \in 1 .. N : Excludes(pattern[i], r)
                              /\ \/ names \cap {r.id, "*"} # {}
                                 \/ "external:*" \in names /\ External(r.url)
    BY <1>7 DEF Covers
  <2> HIDE DEF names
  <2>3. names \cap {r.id, "*"} # {}
          <=> \E i \in 1 .. N : ~ pattern[i].not /\ pattern[i].name \in {r.id, "*"}
    BY <2>1
  <2>4. "external:*" \in names
          <=> \E i \in 1 .. N : ~ pattern[i].not /\ pattern[i].name = "external:*"
    BY <2>1
  <2> QED BY <2>2, <2>3, <2>4 DEF Includes
<1> QED BY <1>1, <1>6, <1>9 DEF Judged

-----------------------------------------------------------------------------
(* ActiveProfiles.                                                         *)

Keep(out, p, set) == IF p \in set THEN Append(out, p) ELSE out

\* What was selected after each of the profiles.
LEMMA ThoseLoop ==
  ASSUME NEW X, NEW profiles \in Seq(X), NEW set
  PROVE  \E out \in [0 .. Len(profiles) -> Seq(X)] :
           /\ out[0] = <<>>
           /\ \A n \in 1 .. Len(profiles) : out[n] = Keep(out[n - 1], profiles[n], set)
           /\ Those(profiles, set) = out[Len(profiles)]
<1> DEFINE N == Len(profiles)
           D == Seq(X)
           step == [n \in 1 .. N |-> [v \in D |-> Keep(v, profiles[n], set)]]
           Of(out) == out = [n \in 0 .. N |-> IF n = 0 THEN <<>> ELSE Keep(out[n - 1], profiles[n], set)]
           values == CHOOSE out : Of(out)
<1>1. N \in Nat /\ <<>> \in D
  OBVIOUS
<1>2. \A n \in 1 .. N, v \in D : Keep(v, profiles[n], set) \in D
  BY DEF Keep
<1>3. Those(profiles, set) = values[N]
  BY Zenon DEF Those, Keep
<1> HIDE DEF N, D
<1>4. /\ step \in [1 .. N -> [D -> D]]
      /\ \A n \in 1 .. N, v \in D : step[n][v] = Keep(v, profiles[n], set)
  BY <1>2
<1> HIDE DEF step
<1>5. PICK f \in [0 .. N -> D] : Values(f, N, <<>>, step)
  BY <1>1, <1>4, LoopValues
<1>6. f[0] = <<>> /\ \A n \in 1 .. N : f[n] = Keep(f[n - 1], profiles[n], set)
  BY <1>1, <1>4, <1>5 DEF Values
<1>7. Of(values)
  <2>1. Of(f)
    BY <1>1, <1>6
  <2> HIDE DEF Of
  <2> QED BY <2>1
<1> HIDE DEF values
<1>8. \A n \in 0 .. N : f[n] = values[n]
  <2>1. values[0] = <<>> /\ \A n \in 1 .. N : values[n] = Keep(values[n - 1], profiles[n], set)
    BY <1>1, <1>7
  <2>2. Alike(f, values, N)
    BY <1>1, <1>6, <2>1 DEF Alike
  <2> QED BY <1>1, <2>2, SameValues
<1> QED BY <1>1, <1>3, <1>6, <1>8 DEF N, D

\* Adding a profile adds it to the selection if it is in the set.
LEMMA ThoseAppend ==
  ASSUME NEW X, NEW profiles \in Seq(X), NEW p \in X, NEW set
  PROVE  Those(Append(profiles, p), set) = Keep(Those(profiles, set), p, set)
<1> DEFINE more == Append(profiles, p)
           N == Len(profiles)
<1>1. N \in Nat /\ more \in Seq(X) /\ Len(more) = N + 1 /\ more[N + 1] = p
      /\ \A n \in 1 .. N : more[n] = profiles[n]
  OBVIOUS
<1>2. PICK f \in [0 .. N -> Seq(X)] :
         /\ f[0] = <<>>
         /\ \A n \in 1 .. N : f[n] = Keep(f[n - 1], profiles[n], set)
         /\ Those(profiles, set) = f[N]
  BY ThoseLoop
<1> HIDE DEF more
<1>3. PICK g \in [0 .. Len(more) -> Seq(X)] :
         /\ g[0] = <<>>
         /\ \A n \in 1 .. Len(more) : g[n] = Keep(g[n - 1], more[n], set)
         /\ Those(more, set) = g[Len(more)]
  <2>1. more \in Seq(X)
    BY <1>1
  <2> QED BY <2>1, ThoseLoop
<1> HIDE DEF N
<1>4. Alike(f, g, N)
  <2>1. \A n \in 1 .. N : n \in 1 .. Len(more)
    BY <1>1
  <2> QED BY <1>1, <1>2, <1>3, <2>1 DEF Alike
<1>5. f[N] = g[N]
  BY <1>1, <1>4, SameValues
<1>6. g[N + 1] = Keep(g[N], more[N + 1], set)
  <2> DEFINE k == N + 1
  <2>1. k \in 1 .. Len(more) /\ k - 1 = N
    BY <1>1
  <2> HIDE DEF k
  <2>2. g[k] = Keep(g[k - 1], more[k], set)
    BY <1>3, <2>1
  <2> QED BY <2>1, <2>2 DEF k
<1> QED BY <1>1, <1>2, <1>3, <1>5, <1>6 DEF more

LEMMA ThoseOfNone ==
  ASSUME NEW set
  PROVE  Those(<<>>, set) = <<>>
<1> DEFINE none == <<>>
<1>1. none \in Seq({}) /\ Len(none) = 0
  OBVIOUS
<1> HIDE DEF none
<1>2. PICK out \in [0 .. Len(none) -> Seq({})] :
         /\ out[0] = <<>>
         /\ \A n \in 1 .. Len(none) : out[n] = Keep(out[n - 1], none[n], set)
         /\ Those(none, set) = out[Len(none)]
  BY <1>1, ThoseLoop
<1> QED BY <1>1, <1>2 DEF none

\* What holds of the empty list, and of each prefix if of the one before it,
\* holds of the list.
LEMMA PrefixInduction ==
  ASSUME NEW X, NEW profiles \in Seq(X), NEW S, <<>> \in S,
         \A l \in Seq(X), p \in X : l \in S => Append(l, p) \in S
  PROVE  profiles \in S
<1> DEFINE N == Len(profiles)
           prefix == [n \in 0 .. N |-> SubSeq(profiles, 1, n)]
           T == {n \in 0 .. N : prefix[n] \in S}
<1>1. N \in Nat /\ prefix[0] = <<>> /\ prefix[N] = profiles
  OBVIOUS
<1>2. ASSUME NEW n \in 1 .. N
      PROVE  /\ prefix[n - 1] \in Seq(X) /\ profiles[n] \in X
             /\ prefix[n] = Append(prefix[n - 1], profiles[n])
  OBVIOUS
<1> HIDE DEF prefix, N
<1>3. Inductive(T, N)
  <2>1. 0 \in T
    BY <1>1
  <2>2. ASSUME NEW n \in 1 .. N, n - 1 \in T PROVE n \in T
    <3>1. prefix[n - 1] \in S
      BY <2>2
    <3>2. Append(prefix[n - 1], profiles[n]) \in S
      BY <1>2, <3>1
    <3>3. prefix[n] = Append(prefix[n - 1], profiles[n])
      BY <1>2
    <3>4. prefix[n] \in S
      BY <3>2, <3>3
    <3>5. n \in 0 .. N
      BY <1>1
    <3> QED BY <3>4, <3>5
  <2> HIDE DEF T
  <2> QED BY <2>1, <2>2 DEF Inductive
<1>4. N \in T
  <2> HIDE DEF T
  <2> QED BY <1>1, <1>3, LoopInduction
<1> QED BY <1>1, <1>4

LEMMA RangeOfAppend ==
  ASSUME NEW X, NEW l \in Seq(X), NEW p \in X
  PROVE  Range(Append(l, p)) = Range(l) \cup {p}
<1> DEFINE more == Append(l, p)
           N == Len(l)
<1>1. /\ N \in Nat /\ DOMAIN l = 1 .. N /\ DOMAIN more = 1 .. N + 1
      /\ more[N + 1] = p /\ \A i \in 1 .. N : more[i] = l[i]
  OBVIOUS
<1> HIDE DEF more, N
<1>2. N + 1 \in 1 .. N + 1 /\ \A i \in 1 .. N + 1 : i = N + 1 \/ i \in 1 .. N
  BY <1>1
<1>3. \A i \in 1 .. N : i \in 1 .. N + 1
  BY <1>1
<1>4. Range(more) = Range(l) \cup {p}
  <2>1. \A x : x \in Range(more) <=> \E i \in 1 .. N + 1 : x = more[i]
    BY <1>1 DEF Range
  <2>2. \A x : x \in Range(l) <=> \E i \in 1 .. N : x = l[i]
    BY <1>1 DEF Range
  <2>3. \A x : x \in Range(more) => x \in Range(l) \cup {p}
    BY <1>1, <1>2, <2>1, <2>2
  <2>4. \A x : x \in Range(l) => x \in Range(more)
    BY <1>1, <1>3, <2>1, <2>2
  <2>5. p \in Range(more)
    BY <1>1, <1>2, <2>1
  <2> QED BY <2>3, <2>4, <2>5
<1> QED BY <1>4 DEF more

\* Selecting says which elements, and never adds one.
LEMMA ThoseAre ==
  ASSUME NEW X, NEW profiles \in Seq(X), NEW set
  PROVE  /\ Those(profiles, set) \in Seq(X)
         /\ Range(Those(profiles, set)) = Range(profiles) \cap set
         /\ Those(profiles, set) = <<>> <=> Range(profiles) \cap set = {}
<1> DEFINE Right(l) == /\ Those(l, set) \in Seq(X)
                       /\ Range(Those(l, set)) = Range(l) \cap set
                       /\ Those(l, set) = <<>> <=> Range(l) \cap set = {}
           S == {l \in Seq(X) : Right(l)}
<1>1. <<>> \in S
  <2>1. Range(<<>>) = {}
    BY DEF Range
  <2>2. Those(<<>>, set) = <<>>
    BY ThoseOfNone
  <2>3. <<>> \in Seq(X)
    OBVIOUS
  <2>4. Right(<<>>)
    BY <2>1, <2>2, <2>3
  <2> QED BY <2>3, <2>4
<1>2. ASSUME NEW l \in Seq(X), NEW p \in X, l \in S PROVE Append(l, p) \in S
  <2> DEFINE those == Those(l, set)
             more == Append(l, p)
  <2>1. Those(more, set) = Keep(those, p, set)
    BY ThoseAppend
  <2>2. those \in Seq(X) /\ Range(those) = Range(l) \cap set
        /\ (those = <<>> <=> Range(l) \cap set = {})
    BY <1>2
  <2>3. \A s \in Seq(X) : /\ Append(s, p) \in Seq(X) /\ Append(s, p) # <<>>
                          /\ Range(Append(s, p)) = Range(s) \cup {p}
    BY RangeOfAppend
  <2> HIDE DEF those
  <2>4. CASE p \in set
    <3>1. Those(more, set) = Append(those, p)
      BY <2>1, <2>4 DEF Keep
    <3> QED BY <2>2, <2>3, <2>4, <3>1
  <2>5. CASE p \notin set
    <3>1. Those(more, set) = those
      BY <2>1, <2>5 DEF Keep
    <3> QED BY <2>2, <2>3, <2>5, <3>1
  <2> QED BY <2>4, <2>5
<1>3. profiles \in S
  <2> HIDE DEF S
  <2> QED BY <1>1, <1>2, PrefixInduction
<1> QED BY <1>3

\* A selection can be made from a wider one.
LEMMA ThoseOfThose ==
  ASSUME NEW X, NEW profiles \in Seq(X), NEW wide, NEW set,
         Range(profiles) \cap set \subseteq wide
  PROVE  Those(Those(profiles, wide), set) = Those(profiles, set)
<1> DEFINE S == {l \in Seq(X) : Range(l) \cap set \subseteq wide =>
                                  Those(Those(l, wide), set) = Those(l, set)}
<1>1. <<>> \in S
  BY ThoseOfNone
<1>2. ASSUME NEW l \in Seq(X), NEW p \in X, l \in S PROVE Append(l, p) \in S
  <2> DEFINE more == Append(l, p)
  <2>1. SUFFICES ASSUME Range(more) \cap set \subseteq wide
                 PROVE  Those(Those(more, wide), set) = Those(more, set)
    OBVIOUS
  <2>2. p \in Range(more) /\ Range(l) \subseteq Range(more)
    BY RangeOfAppend
  <2>3. Those(Those(l, wide), set) = Those(l, set) /\ (p \in set => p \in wide)
    BY <1>2, <2>1, <2>2
  <2>4. Those(more, wide) = Keep(Those(l, wide), p, wide)
        /\ Those(more, set) = Keep(Those(l, set), p, set)
    BY ThoseAppend
  <2>5. Those(l, wide) \in Seq(X)
    BY ThoseAre
  <2>6. Those(Append(Those(l, wide), p), set) = Keep(Those(Those(l, wide), set), p, set)
    BY <2>5, ThoseAppend
  <2> HIDE DEF more
  <2>7. CASE p \in wide
    BY <2>3, <2>4, <2>6, <2>7 DEF Keep
  <2>8. CASE p \notin wide
    BY <2>3, <2>4, <2>8 DEF Keep
  <2> QED BY <2>7, <2>8
<1>3. profiles \in S
  <2> HIDE DEF S
  <2> QED BY <1>1, <1>2, PrefixInduction
<1> QED BY <1>3

-----------------------------------------------------------------------------
(* Texts.                                                                  *)

\* Joining lists: FlattenSeq, one list after the other.
LEMMA FlattenLoop ==
  ASSUME NEW X, NEW seqs \in Seq(Seq(X))
  PROVE  \E g \in [0 .. Len(seqs) -> Seq(X)] :
           /\ g[0] = <<>>
           /\ \A n \in 1 .. Len(seqs) : g[n] = g[n - 1] \o seqs[n]
           /\ FlattenSeq(seqs) = g[Len(seqs)]
<1> DEFINE N == Len(seqs)
           D == Seq(X)
           step == [n \in 1 .. N |-> [v \in D |-> v \o seqs[n]]]
           Of(out) == out = [n \in 1 .. N |-> IF n = 1 THEN seqs[n] ELSE out[n - 1] \o seqs[n]]
           flatten == CHOOSE out : Of(out)
<1>1. N \in Nat /\ <<>> \in D /\ \A n \in 1 .. N : seqs[n] \in D
  OBVIOUS
<1>2. \A n \in 1 .. N, v \in D : v \o seqs[n] \in D
  BY <1>1
<1>3. FlattenSeq(seqs) = IF N = 0 THEN seqs ELSE flatten[N]
  BY Zenon DEF FlattenSeq
<1>4. N = 0 => seqs = <<>>
  OBVIOUS
<1>5. \A s \in D : <<>> \o s = s
  OBVIOUS
<1> HIDE DEF D
<1>6. /\ step \in [1 .. N -> [D -> D]]
      /\ \A n \in 1 .. N, v \in D : step[n][v] = v \o seqs[n]
  BY <1>2
<1> HIDE DEF step
<1>7. PICK g \in [0 .. N -> D] : Values(g, N, <<>>, step)
  <2> HIDE DEF N
  <2> QED BY <1>1, <1>6, LoopValues
<1> HIDE DEF N
<1>8. g[0] = <<>> /\ \A n \in 1 .. N : g[n] = g[n - 1] \o seqs[n]
  <2>1. ASSUME NEW n \in 1 .. N PROVE g[n] = g[n - 1] \o seqs[n]
    <3>1. g[n] = step[n][g[n - 1]]
      BY <1>7 DEF Values
    <3>2. g[n - 1] \in D
      <4>1. n - 1 \in 0 .. N
        BY <1>1
      <4> QED BY <1>7, <4>1
    <3> QED BY <1>6, <3>1, <3>2
  <2> QED BY <1>7, <2>1 DEF Values
<1>9. ASSUME NEW n \in 1 .. N
      PROVE  g[n] = IF n = 1 THEN seqs[n] ELSE g[n - 1] \o seqs[n]
  <2>1. CASE n = 1
    <3>1. n - 1 = 0 /\ seqs[n] \in D
      BY <1>1, <2>1
    <3>2. g[n] = <<>> \o seqs[n]
      BY <1>8, <3>1
    <3> QED BY <1>5, <2>1, <3>1, <3>2
  <2>2. CASE n # 1
    BY <1>8, <2>2
  <2> QED BY <2>1, <2>2
<1>10. Of(flatten)
  <2> DEFINE f == [n \in 1 .. N |-> g[n]]
  <2>1. Of(f)
    BY <1>1, <1>9
  <2> HIDE DEF Of, f
  <2> QED BY <2>1
<1> HIDE DEF flatten
<1>11. \A n \in 1 .. N : flatten[n] = IF n = 1 THEN seqs[n] ELSE flatten[n - 1] \o seqs[n]
  BY <1>10
<1>12. N # 0 => flatten[N] = g[N]
  <2> DEFINE S == {n \in 0 .. N : n # 0 => flatten[n] = g[n]}
  <2>1. 0 \in S
    BY <1>1
  <2>2. ASSUME NEW n \in 1 .. N, n - 1 \in S PROVE n \in S
    BY <1>1, <1>9, <1>11, <2>2
  <2>3. Inductive(S, N)
    <3> HIDE DEF S
    <3> QED BY <2>1, <2>2 DEF Inductive
  <2>4. N \in S
    <3> HIDE DEF S
    <3> QED BY <1>1, <2>3, LoopInduction
  <2> QED BY <2>4
<1> QED BY <1>3, <1>4, <1>7, <1>8, <1>12 DEF N, D

LEMMA FlattenRange ==
  ASSUME NEW X, NEW seqs \in Seq(Seq(X))
  PROVE  /\ FlattenSeq(seqs) \in Seq(X)
         /\ Range(FlattenSeq(seqs)) = UNION {Range(seqs[i]) : i \in DOMAIN seqs}
<1> DEFINE N == Len(seqs)
<1>1. PICK g \in [0 .. N -> Seq(X)] :
         /\ g[0] = <<>>
         /\ \A n \in 1 .. N : g[n] = g[n - 1] \o seqs[n]
         /\ FlattenSeq(seqs) = g[N]
  BY FlattenLoop
<1>2. N \in Nat /\ DOMAIN seqs = 1 .. N /\ \A n \in 1 .. N : seqs[n] \in Seq(X)
  OBVIOUS
<1> HIDE DEF N
<1> DEFINE S == {n \in 0 .. N : Range(g[n]) = UNION {Range(seqs[i]) : i \in 1 .. n}}
<1>3. 0 \in S
  <2>1. Range(<<>>) = {} /\ UNION {Range(seqs[i]) : i \in 1 .. 0} = {}
    BY DEF Range
  <2> QED BY <1>1, <1>2, <2>1
<1>4. ASSUME NEW n \in 1 .. N, n - 1 \in S PROVE n \in S
  <2>1. Range(g[n]) = Range(g[n - 1]) \cup Range(seqs[n])
    <3>1. g[n - 1] \in Seq(X)
      <4>1. n - 1 \in 0 .. N
        BY <1>2
      <4> QED BY <1>1, <4>1
    <3>2. seqs[n] \in Seq(X)
      BY <1>2
    <3>3. g[n] = g[n - 1] \o seqs[n]
      BY <1>1
    <3> QED BY <3>1, <3>2, <3>3, RangeConcatenation
  <2>2. Range(g[n - 1]) = UNION {Range(seqs[i]) : i \in 1 .. n - 1}
    BY <1>4
  <2>3. \A i : i \in 1 .. n <=> i \in 1 .. n - 1 \/ i = n
    BY <1>2
  <2>4. Range(g[n]) = UNION {Range(seqs[i]) : i \in 1 .. n}
    BY <2>1, <2>2, <2>3
  <2> QED BY <1>2, <2>4
<1>5. Inductive(S, N)
  <2> HIDE DEF S
  <2> QED BY <1>3, <1>4 DEF Inductive
<1>6. N \in S
  <2> HIDE DEF S
  <2> QED BY <1>2, <1>5, LoopInduction
<1> QED BY <1>1, <1>2, <1>6

\* Any sequence is a text.
LEMMA TextIs ==
  ASSUME NEW X, NEW t \in Seq(X)
  PROVE  IsText(t)
BY SeqOfRange DEF IsText

\* Properties, each of which stands for a text.
TextProps(props) == \A name \in DOMAIN props : IsText(props[name])

-----------------------------------------------------------------------------
(* The files of a situation.                                               *)

\* What the loops above need of a document.
Listed(d) ==
  /\ d.servers \in Seq(Range(d.servers))
  /\ d.mirrors \in Seq(Range(d.mirrors))
  /\ d.profiles \in Seq(Range(d.profiles))
  /\ \A m \in Range(d.mirrors) : m.mirrorOf \in Seq(Tokens)

\* What expanding the references in a document's strings needs of it.
Located(r) == "url" \in DOMAIN r /\ IsText(r.url)

Written(p) ==
  /\ p.repositories \in Seq(Range(p.repositories))
  /\ \A r \in Range(p.repositories) : Located(r)
  /\ TextProps(p.properties)

Addressed(m) == IsText(m.url)

Signed(srv) == IsText(srv.username) /\ IsText(srv.password) /\ IsText(srv.headers)

Texts(d) ==
  /\ \A srv \in Range(d.servers) : Signed(srv)
  /\ \A m \in Range(d.mirrors) : Addressed(m)
  /\ \A p \in Range(d.profiles) : Written(p)

LEMMA ConvertedProfile ==
  ASSUME NEW p, {"repositories", "properties"} \subseteq DOMAIN p,
         p.repositories \in Seq(Range(p.repositories)),
         \A r \in Range(p.repositories) :
           {"url", "releases", "snapshots"} \subseteq DOMAIN r /\ IsText(r.url),
         TextProps(p.properties)
  PROVE  Written(ConvertProfile(p))
<1> DEFINE list == p.repositories
           next == [i \in DOMAIN list |-> ConvertRepo(list[i])]
<1>1. ConvertProfile(p) = [p EXCEPT !.repositories = next]
  BY DEF ConvertProfile
<1>2. DOMAIN list = 1 .. Len(list) /\ Len(list) \in Nat
  OBVIOUS
<1>3. ASSUME NEW i \in DOMAIN list PROVE Located(ConvertRepo(list[i]))
  <2>1. list[i] \in Range(p.repositories)
    BY DEF Range
  <2>2. {"url", "releases", "snapshots"} \subseteq DOMAIN list[i] /\ IsText(list[i].url)
    BY <2>1
  <2> HIDE DEF list
  <2> QED BY <2>2 DEF Located, ConvertRepo
<1>4. DOMAIN next = DOMAIN list /\ \A i \in DOMAIN list : next[i] = ConvertRepo(list[i])
  OBVIOUS
<1>5. next \in Seq(Range(next))
  <2>1. next \in [1 .. Len(list) -> Range(next)]
    BY <1>2, <1>4 DEF Range
  <2> HIDE DEF next, list
  <2> QED BY <1>2, <2>1
<1> HIDE DEF next, list
<1>6. \A r \in Range(next) : Located(r)
  BY <1>3, <1>4 DEF Range
<1> DEFINE q == [p EXCEPT !.repositories = next]
<1>7. q.repositories = next /\ q.properties = p.properties
  OBVIOUS
<1> HIDE DEF q
<1> QED BY <1>1, <1>5, <1>6, <1>7 DEF Written, q

LEMMA ParsedLists ==
  ASSUME NEW x, OfLists(x)
  PROVE  Listed(ParseSettings(x)) /\ Texts(ParseSettings(x))
<1> DEFINE d == ParseSettings(x)
           parts == {"servers", "mirrors", "proxies", "profiles", "activeProfiles"}
<1>1. DOMAIN NoSettings = parts
  BY DEF NoSettings
<1>2. x = [part \in parts |-> x[part]]
  BY <1>1 DEF OfLists
<1>3. DOMAIN x = parts
  <2> HIDE DEF parts
  <2> QED BY <1>2
<1>4. /\ d.servers = x.servers /\ d.mirrors = x.mirrors
      /\ d.profiles = [i \in DOMAIN x.profiles |-> ConvertProfile(x.profiles[i])]
  BY <1>3 DEF ParseSettings
<1>5. /\ x.servers \in Seq(Range(x.servers)) /\ x.mirrors \in Seq(Range(x.mirrors))
      /\ x.profiles \in Seq(Range(x.profiles))
  BY <1>1 DEF OfLists
<1>6. d.profiles \in Seq(Range(d.profiles))
  <2>1. DOMAIN x.profiles = 1 .. Len(x.profiles) /\ Len(x.profiles) \in Nat
    BY <1>5
  <2> DEFINE list == [i \in 1 .. Len(x.profiles) |-> ConvertProfile(x.profiles[i])]
  <2>2. list \in Seq(Range(list))
    BY <2>1 DEF Range
  <2> QED BY <1>4, <2>1, <2>2
<1>7. \A m \in Range(x.mirrors) : m.mirrorOf \in Seq(Tokens)
  BY DEF OfLists
<1>8. /\ \A srv \in Range(x.servers) : Signed(srv)
      /\ \A m \in Range(x.mirrors) : Addressed(m)
  BY DEF OfLists, Signed, Addressed
<1>9. ASSUME NEW p \in Range(d.profiles) PROVE Written(p)
  <2>1. PICK q \in Range(x.profiles) : p = ConvertProfile(q)
    BY <1>4 DEF Range
  <2>2. /\ {"repositories", "properties"} \subseteq DOMAIN q
        /\ q.repositories \in Seq(Range(q.repositories))
        /\ \A r \in Range(q.repositories) :
             {"url", "releases", "snapshots"} \subseteq DOMAIN r /\ IsText(r.url)
        /\ TextProps(q.properties)
    BY DEF OfLists, TextProps
  <2> QED BY <2>1, <2>2, ConvertedProfile
<1> HIDE DEF d
<1>10. Listed(d)
  BY <1>4, <1>5, <1>6, <1>7 DEF Listed
<1>11. Texts(d)
  BY <1>4, <1>8, <1>9 DEF Texts
<1> QED BY <1>10, <1>11 DEF d

LEMMA DocumentLists ==
  ASSUME NEW x \in Situations, NEW path
  PROVE  Listed(Document(FileAt(x.disk.files, path))) /\ Texts(Document(FileAt(x.disk.files, path)))
<1> DEFINE file == FileAt(x.disk.files, path)
<1>1. CASE file.kind = "document" /\ "settings" \in DOMAIN file
  <2>1. file \in Range(x.disk.files)
    BY <1>1 DEF FileAt, Range
  <2>2. OfLists(file.settings)
    BY <1>1, <2>1, SituationsAssumption
  <2> QED BY <1>1, <2>2, ParsedLists DEF Document
<1>2. CASE ~ (file.kind = "document" /\ "settings" \in DOMAIN file)
  <2>1. Document(file) = NoSettings
    BY <1>2 DEF Document
  <2>2. <<>> \in Seq(Range(<<>>)) /\ \A m : m \notin Range(<<>>)
    BY DEF Range
  <2> QED BY <2>1, <2>2 DEF Listed, Texts, NoSettings
<1> QED BY <1>1, <1>2

-----------------------------------------------------------------------------
(* Tokens that are taken out of a line.                                    *)

\* The marked ones of the first n elements, in their order, src saying which.
Drawn(args, marks, n, out, src) ==
  /\ \A k \in 1 .. Len(out) :
       /\ src[k] \in 1 .. n /\ marks[src[k]] /\ out[k] = args[src[k]]
       /\ \A i \in 1 .. k - 1 : src[i] < src[k]
  /\ \A i \in 1 .. n : marks[i] => \E k \in 1 .. Len(out) : src[k] = i

LEMMA DrawnStep ==
  ASSUME NEW T, NEW args \in Seq(T), NEW marks, NEW n \in 1 .. Len(args),
         NEW out \in Seq(T), NEW src, Drawn(args, marks, n - 1, out, src)
  PROVE  \E next : Drawn(args, marks, n, IF marks[n] THEN Append(out, args[n]) ELSE out, next)
<1>1. CASE ~ marks[n]
  <2>1. \A i \in 1 .. n : i # n => i \in 1 .. n - 1
    OBVIOUS
  <2>2. Drawn(args, marks, n, out, src)
    BY <1>1, <2>1 DEF Drawn
  <2> QED BY <1>1, <2>2
<1>2. CASE marks[n]
  <2> DEFINE more == Append(out, args[n])
             last == Len(out) + 1
             next == [k \in 1 .. last |-> IF k = last THEN n ELSE src[k]]
  <2>1. /\ Len(more) = last /\ more[last] = args[n] /\ Len(out) \in Nat
        /\ \A k \in 1 .. Len(out) : more[k] = out[k]
    OBVIOUS
  <2>2. next[last] = n /\ \A k \in 1 .. Len(out) : next[k] = src[k]
    OBVIOUS
  <2>3. last = Len(out) + 1
    OBVIOUS
  <2> HIDE DEF more, last, next
  <2>4. \A k \in 1 .. last : k = last \/ k \in 1 .. Len(out)
    BY <2>1, <2>3
  <2>5. \A k \in 1 .. Len(out) : next[k] \in 1 .. n - 1
    BY <2>2 DEF Drawn
  <2>6. ASSUME NEW k \in 1 .. last
        PROVE  /\ next[k] \in 1 .. n /\ marks[next[k]] /\ more[k] = args[next[k]]
               /\ \A i \in 1 .. k - 1 : next[i] < next[k]
    <3>1. CASE k = last
      <4>1. \A i \in 1 .. k - 1 : i \in 1 .. Len(out)
        BY <2>1, <2>3, <3>1
      <4>2. \A i \in 1 .. k - 1 : next[i] < n
        BY <2>5, <4>1
      <4> QED BY <1>2, <2>1, <2>2, <3>1, <4>2
    <3>2. CASE k \in 1 .. Len(out)
      <4>1. /\ src[k] \in 1 .. n - 1 /\ marks[src[k]] /\ out[k] = args[src[k]]
            /\ \A i \in 1 .. k - 1 : src[i] < src[k]
        BY <3>2 DEF Drawn
      <4>2. \A i \in 1 .. k - 1 : i \in 1 .. Len(out)
        BY <2>1, <3>2
      <4>3. next[k] = src[k] /\ more[k] = out[k] /\ \A i \in 1 .. k - 1 : next[i] = src[i]
        BY <2>1, <2>2, <3>2, <4>2
      <4>4. src[k] \in 1 .. n
        BY <4>1
      <4> QED BY <4>1, <4>3, <4>4
    <3> QED BY <2>4, <3>1, <3>2
  <2>7. ASSUME NEW i \in 1 .. n, marks[i] PROVE \E k \in 1 .. last : next[k] = i
    <3>1. CASE i = n
      BY <2>1, <2>2, <2>3, <3>1
    <3>2. CASE i # n
      <4>1. i \in 1 .. n - 1
        BY <3>2
      <4>2. PICK k \in 1 .. Len(out) : src[k] = i
        BY <2>7, <4>1 DEF Drawn
      <4>3. k \in 1 .. last
        BY <2>1, <2>3
      <4> QED BY <2>2, <4>2, <4>3
    <3> QED BY <3>1, <3>2
  <2>8. Drawn(args, marks, n, more, next)
    BY <2>1, <2>6, <2>7 DEF Drawn
  <2> QED BY <1>2, <2>8 DEF more
<1> QED BY <1>1, <1>2

KeepIf(marked, out, t) == IF marked THEN Append(out, t) ELSE out

LEMMA MarkedAre ==
  ASSUME NEW T, NEW args \in Seq(T), NEW marks
  PROVE  /\ Marked(args, marks) \in Seq(T)
         /\ \E src : Drawn(args, marks, Len(args), Marked(args, marks), src)
<1> DEFINE N == Len(args)
           D == Seq(T)
           Next_(v, n) == KeepIf(marks[n], v, args[n])
           step == [n \in 1 .. N |-> [v \in D |-> Next_(v, n)]]
           Of(out) == out = [n \in 0 .. N |-> IF n = 0 THEN <<>> ELSE KeepIf(marks[n], out[n - 1], args[n])]
           values == CHOOSE out : Of(out)
<1>1. N \in Nat /\ <<>> \in D
  OBVIOUS
<1>2. \A n \in 1 .. N, v \in D : Next_(v, n) \in D
  BY DEF KeepIf
<1>3. Marked(args, marks) = values[N]
  BY Zenon DEF Marked, KeepIf
<1> HIDE DEF N, D, Next_
<1>4. /\ step \in [1 .. N -> [D -> D]]
      /\ \A n \in 1 .. N, v \in D : step[n][v] = Next_(v, n)
  BY <1>2
<1> HIDE DEF step
<1>5. PICK f \in [0 .. N -> D] : Values(f, N, <<>>, step)
  BY <1>1, <1>4, LoopValues
<1>6. f[0] = <<>> /\ \A n \in 1 .. N : f[n] = Next_(f[n - 1], n)
  BY <1>1, <1>4, <1>5 DEF Values
<1>7. Of(values)
  <2>1. Of(f)
    BY <1>1, <1>6 DEF Next_
  <2> HIDE DEF Of
  <2> QED BY <2>1
<1> HIDE DEF values
<1>8. \A n \in 0 .. N : f[n] = values[n]
  <2>1. values[0] = <<>> /\ \A n \in 1 .. N : values[n] = Next_(values[n - 1], n)
    BY <1>1, <1>7 DEF Next_
  <2>2. Alike(f, values, N)
    BY <1>1, <1>6, <2>1 DEF Alike
  <2> QED BY <1>1, <2>2, SameValues
<1> DEFINE S == {n \in 0 .. N : \E src : Drawn(args, marks, n, f[n], src)}
<1>9. 0 \in S
  <2>1. Drawn(args, marks, 0, <<>>, <<>>)
    BY DEF Drawn
  <2> QED BY <1>1, <1>6, <2>1
<1>10. ASSUME NEW n \in 1 .. N, n - 1 \in S PROVE n \in S
  <2>1. PICK src : Drawn(args, marks, n - 1, f[n - 1], src)
    BY <1>10
  <2>2. f[n - 1] \in D
    <3>1. n - 1 \in 0 .. N
      BY <1>1
    <3> QED BY <1>5, <3>1
  <2>3. \E next : Drawn(args, marks, n, Next_(f[n - 1], n), next)
    BY <2>1, <2>2, DrawnStep DEF N, D, Next_, KeepIf
  <2>4. n \in 0 .. N
    BY <1>1
  <2> QED BY <1>6, <2>3, <2>4
<1>11. N \in S
  <2>1. Inductive(S, N)
    <3> HIDE DEF S
    <3> QED BY <1>9, <1>10 DEF Inductive
  <2> HIDE DEF S
  <2> QED BY <1>1, <2>1, LoopInduction
<1>12. N \in 0 .. N
  BY <1>1
<1> QED BY <1>3, <1>5, <1>8, <1>11, <1>12 DEF N, D

\* What follows the global flags is a part of the line.
LEMMA RestOfLine ==
  ASSUME NEW T, NEW args \in Seq(T), ParseGlobal(args).ok
  PROVE  ParseGlobal(args).rest \in Seq(T)
<1> DEFINE marks == [i \in DOMAIN args |-> ~ Attached(args[i])]
           kept == Marked(args, marks)
           at == CommandAt(kept)
           L == Len(kept)
           S == {i \in 1 .. L + 2 : i % 2 = 1 /\ (i > L \/ ~ TakesGlobal(kept[i]))}
<1>1. kept \in Seq(T)
  <2> HIDE DEF marks
  <2> QED BY MarkedAre
<1>2. ParseGlobal(args).rest = SubSeq(kept, at, L)
  BY DEF ParseGlobal
<1>3. at = Min(S)
  BY DEF CommandAt
<1> HIDE DEF kept, at
<1>4. L \in Nat
  BY <1>1
<1> HIDE DEF L
<1>5. S # {} /\ S \in SUBSET Nat
  <2>1. L % 2 = 0 \/ L % 2 = 1
    BY <1>4
  <2>2. L % 2 = 0 => L + 1 \in S
    BY <1>4
  <2>3. L % 2 = 1 => L + 2 \in S
    BY <1>4
  <2>4. \A i \in S : i \in Nat
    BY <1>4
  <2> HIDE DEF S
  <2> QED BY <2>1, <2>2, <2>3, <2>4
<1>6. Min(S) \in S
  <2> HIDE DEF S
  <2> QED BY <1>5, MinIsLeast
<1>7. at \in 1 .. L + 2
  BY <1>3, <1>6
<1> QED BY <1>1, <1>2, <1>4, <1>7 DEF L

-----------------------------------------------------------------------------
(* The settings that a command works with.                                 *)

SecurityPath == OrDefault(Property(opts.props, "settings.security"), "security")

\* Until the request, the command line and the disk are a situation's, and the
\* -D properties texts; the command and what follows it are a sequence; what was
\* loaded is the files' settings merged and the master password, and what the
\* command works with is computed from it, every password having been decrypted.
ConfigInv ==
  /\ stage \notin {"request", "ended"} =>
       \E x \in Situations : line = x.line /\ disk = x.disk
  /\ stage = "flags" => opts.rest # <<>> /\ opts.rest \in Seq(Range(opts.rest))
  /\ stage \in {"flags", "settings", "resolve", "repos"} => TextProps(opts.props)
  /\ stage \in {"resolve", "repos"} =>
       /\ config.settings = MergeSettings(Document(UserFile), Document(GlobalFile))
       /\ config.master = LoadMasterPassword(disk.files, SecurityPath)
       /\ config.master # Failed
  /\ stage = "repos" => repos = Resolved(config.settings) /\ ~ Refuses(repos)

\* The value of a -D property is the text of one of the tokens.
LEMMA DefinedTexts ==
  ASSUME NEW x \in Situations
  PROVE  LET g == ParseGlobal(FlattenSeq(x.line)) IN g.ok => TextProps(g.props)
<1> DEFINE X == UNION {Range(item) : item \in Range(x.line)}
           args == FlattenSeq(x.line)
           g == ParseGlobal(args)
           defined == {t.name : t \in {u \in Range(args) : u.kind = "define"}}
<1>1. x.line \in Seq(Seq(X))
      /\ \A item \in Range(x.line) : \A i \in DOMAIN item : IsText(item[i].text)
  BY SituationsAssumption
<1>2. args \in Seq(X) /\ Range(args) = UNION {Range(x.line[i]) : i \in DOMAIN x.line}
  <2> HIDE DEF X
  <2> QED BY <1>1, FlattenRange
<1>3. ASSUME NEW t \in Range(args) PROVE IsText(t.text)
  <2>1. PICK i \in DOMAIN x.line : t \in Range(x.line[i])
    BY <1>2
  <2>2. x.line[i] \in Range(x.line)
    BY DEF Range
  <2>3. PICK j \in DOMAIN x.line[i] : t = x.line[i][j]
    BY <2>1 DEF Range
  <2> QED BY <1>1, <2>2, <2>3
<1> HIDE DEF X, args
<1>4. SUFFICES ASSUME g.ok PROVE TextProps(g.props)
  BY DEF args
<1>5. g.props = [name \in defined |-> args[Max(Defining(args, name))].text]
  BY <1>4 DEF ParseGlobal, DefinedAs
<1>6. ASSUME NEW name \in defined PROVE args[Max(Defining(args, name))] \in Range(args)
  <2>1. Defining(args, name) # {}
    BY DEF Range, Defining
  <2>2. Defining(args, name) \in SUBSET (0 .. Len(args)) /\ Len(args) \in Nat
    BY <1>2 DEF Defining
  <2>3. Max(Defining(args, name)) \in Defining(args, name)
    BY <2>1, <2>2, MaxIsGreatest
  <2> QED BY <2>3 DEF Range, Defining
<1> HIDE DEF defined, g
<1> QED BY <1>3, <1>5, <1>6 DEF TextProps

LEMMA ConfigInit == SessionInit => ConfigInv
BY DEF SessionInit, ConfigInv

LEMMA ConfigUnchanged == ConfigInv /\ UNCHANGED setup => ConfigInv'
BY DEF ConfigInv, setup, UserFile, GlobalFile, SecurityPath, Resolved

LEMMA ConfigNext == ConfigInv /\ [SessionNext]_all => ConfigInv'
<1> SUFFICES ASSUME ConfigInv, [SessionNext]_all PROVE ConfigInv'
  OBVIOUS
<1>1. CASE Leaves
  BY <1>1 DEF Leaves, ConfigInv
<1>2. CASE ParseGlobalFlags /\ ~ Leaves
  <2>1. PICK x \in Situations : line = x.line /\ disk = x.disk
    BY <1>2 DEF ParseGlobalFlags, ConfigInv
  <2> DEFINE g == ParseGlobal(FlattenSeq(line))
  <2>2. g.ok => TextProps(g.props)
    BY <2>1, DefinedTexts
  <2>3. g.ok => \E T : g.rest \in Seq(T)
    <3> DEFINE T == UNION {Range(item) : item \in Range(line)}
    <3>1. line \in Seq(Seq(T))
      BY <2>1, SituationsAssumption
    <3> HIDE DEF T
    <3>2. FlattenSeq(line) \in Seq(T)
      BY <3>1, FlattenRange
    <3> QED BY <3>2, RestOfLine
  <2> HIDE DEF g
  <2>4. g.ok /\ g.rest # <<>> /\ opts' = g /\ stage' = "flags" /\ UNCHANGED <<line, disk>>
    BY <1>2 DEF ParseGlobalFlags, g
  <2>5. g.rest \in Seq(Range(g.rest))
    BY <2>3, <2>4 DEF Range
  <2> QED BY <2>1, <2>2, <2>4, <2>5 DEF ConfigInv
<1>3. CASE ParseFlags /\ ~ Leaves
  <2>1. opts'.props = opts.props /\ stage = "flags" /\ stage' = "settings"
        /\ UNCHANGED <<line, disk>>
    BY <1>3 DEF ParseFlags
  <2> QED BY <2>1 DEF ConfigInv
<1>4. CASE Load /\ ~ Leaves
  <2> DEFINE c == LoadSettings(UserFile, GlobalFile, disk.files, SecurityPath)
  <2>1. c.ok /\ config' = c /\ stage' = "resolve" /\ stage = "settings"
        /\ UNCHANGED <<line, disk, opts, repos>>
    BY <1>4 DEF Load, SecurityPath
  <2>2. /\ c.settings = MergeSettings(Document(UserFile), Document(GlobalFile))
        /\ c.master = LoadMasterPassword(disk.files, SecurityPath)
        /\ c.ok => c.master # Failed
    BY DEF LoadSettings
  <2> HIDE DEF c
  <2>3. UserFile' = UserFile /\ GlobalFile' = GlobalFile /\ SecurityPath' = SecurityPath
    BY <2>1 DEF UserFile, GlobalFile, SecurityPath
  <2> QED BY <2>1, <2>2, <2>3 DEF ConfigInv
<1>5. CASE Resolve /\ ~ Leaves
  BY <1>5 DEF Resolve, ConfigInv, Resolved, UserFile, GlobalFile, SecurityPath
<1>6. ASSUME NEW i \in DOMAIN repos, Begin(repos[i]) PROVE ConfigInv'
  BY <1>6 DEF Begin, ConfigInv
<1>7. CASE DeployGivesUp
  BY <1>1, <1>7 DEF DeployGivesUp
<1>8. CASE UNCHANGED setup
  BY <1>8, ConfigUnchanged
<1> QED BY <1>1, <1>2, <1>3, <1>4, <1>5, <1>6, <1>7, <1>8
        DEF SessionNext, Prepare, Working, Finished, all

LEMMA ConfigSafe == SessionSpec => []ConfigInv
BY ConfigInit, ConfigNext, PTL DEF SessionSpec

\* The lists that the two files contribute.
LEMMA MergedLists ==
  ASSUME ConfigInv, stage = "repos"
  PROVE  /\ Listed(Document(UserFile)) /\ Listed(Document(GlobalFile))
         /\ Texts(Document(UserFile)) /\ Texts(Document(GlobalFile))
         /\ TextProps(opts.props)
         /\ config.settings = MergeSettings(Document(UserFile), Document(GlobalFile))
         /\ repos = Resolved(config.settings)
<1>1. PICK x \in Situations : disk = x.disk
  BY DEF ConfigInv
<1>2. /\ Listed(Document(UserFile)) /\ Listed(Document(GlobalFile))
      /\ Texts(Document(UserFile)) /\ Texts(Document(GlobalFile))
  BY <1>1, DocumentLists DEF UserFile, GlobalFile
<1> QED BY <1>2 DEF ConfigInv

LEMMA TwoLists ==
  ASSUME NEW user, NEW global, user \in Seq(Range(user)), global \in Seq(Range(global))
  PROVE  /\ user \in Seq(Range(user) \cup Range(global))
         /\ global \in Seq(Range(user) \cup Range(global))
OBVIOUS

-----------------------------------------------------------------------------
(* Credentials.                                                            *)

LEMMA FirstServer ==
  ASSUME NEW X, NEW list \in Seq(X), NEW id
  PROVE  SelectInSeq(list, LAMBDA srv : srv.id = id) = FirstOf(IdsOf(list, id))
<1>1. DOMAIN list = 1 .. Len(list)
  OBVIOUS
<1>2. {i \in 1 .. Len(list) : list[i].id = id} = IdsOf(list, id)
  BY <1>1 DEF IdsOf
<1> QED BY <1>2 DEF SelectInSeq, FirstOf

\* The credentials for an id are those of the entry that the files have for it.
LEMMA CredentialsOfEntry ==
  ASSUME NEW user, NEW global, user \in Seq(Range(user)), global \in Seq(Range(global)),
         NEW s, s.servers = Merge(user, global), NEW id, NEW props, NEW master, NEW lucky
  PROVE  LET cred == Credentials(s, id, props, master, lucky)
             server == EntryOf(user, global, id)
         IN IF server = {} THEN cred = Anonymous
            ELSE /\ cred.username \in {Interpolate(srv.username, props) : srv \in server}
                 /\ cred.headers \in {Interpolate(srv.headers, props) : srv \in server}
<1> DEFINE X == Range(user) \cup Range(global)
           list == Merge(user, global)
           first == FirstOf(IdsOf(list, id))
           cred == Credentials(s, id, props, master, lucky)
           server == EntryOf(user, global, id)
<1>1. user \in Seq(X) /\ global \in Seq(X)
  BY TwoLists
<1> HIDE DEF X
<1>2. list \in Seq(X)
  BY <1>1, MergeOrder
<1>3. /\ first = 0 <=> server = {}
      /\ first # 0 => server = {list[first]}
  BY <1>1, MergedEntry
<1>4. SelectInSeq(s.servers, LAMBDA srv : srv.id = id) = first
  BY <1>2, FirstServer
<1>5. /\ first = 0 => cred = Anonymous
      /\ first # 0 => /\ cred.username = Interpolate(list[first].username, props)
                      /\ cred.headers = Interpolate(list[first].headers, props)
  BY <1>4 DEF Credentials
<1> HIDE DEF list, first, cred, server
<1>6. IF server = {} THEN cred = Anonymous
      ELSE /\ cred.username \in {Interpolate(srv.username, props) : srv \in server}
           /\ cred.headers \in {Interpolate(srv.headers, props) : srv \in server}
  BY <1>3, <1>5
<1> QED BY <1>6 DEF cred, server

LEMMA RemoteCredentials ==
  ASSUME NEW s, NEW master, NEW lucky, NEW props, NEW declared
  PROVE  LET r == RemoteRepo(s, master, lucky, props, declared)
         IN r.cred = Credentials(s, CredID(r.id, r.mirrorID), props, master, lucky)
BY DEF RemoteRepo

LEMMA EffectiveOnes ==
  ASSUME repos = Resolved(config.settings), opts.targets = <<>>
  PROVE  LET s == config.settings
             declared == DeclaredRepos(Profiles(s))
         IN repos = [i \in DOMAIN declared |->
                       RemoteRepo(s, config.master, disk.lucky, Props(s), declared[i])]
BY DEF Resolved, EffectiveRepos, Props, Profiles

\* The id that the credentials of a repository are looked up by.
LEMMA CredentialsLookup ==
  ASSUME repos = Resolved(config.settings), NEW i \in DOMAIN repos
  PROVE  LET id == IF opts.targets # <<>> THEN opts.targets[i].id
                   ELSE IF repos[i].mirrorID # "" THEN repos[i].mirrorID ELSE repos[i].id
         IN repos[i].cred = Credentials(config.settings, id, Props(config.settings),
                                        config.master, disk.lucky)
<1>1. CASE opts.targets = <<>>
  <2> DEFINE declared == DeclaredRepos(Profiles(config.settings))
  <2>1. repos[i] = RemoteRepo(config.settings, config.master, disk.lucky,
                              Props(config.settings), declared[i])
    BY <1>1, EffectiveOnes
  <2> HIDE DEF declared
  <2>2. repos[i].cred = Credentials(config.settings, CredID(repos[i].id, repos[i].mirrorID),
                                    Props(config.settings), config.master, disk.lucky)
    BY <2>1, RemoteCredentials
  <2> QED BY <1>1, <2>2 DEF CredID
<1>2. CASE opts.targets # <<>>
  BY <1>2 DEF Resolved, OverrideRepo, Props, Profiles
<1> QED BY <1>1, <1>2

LEMMA CredentialsRight == ConfigInv => CredentialsOfTarget
<1> SUFFICES ASSUME ConfigInv, stage = "repos", NEW i \in DOMAIN repos
             PROVE  LET id == IF opts.targets # <<>> THEN opts.targets[i].id
                              ELSE IF repos[i].mirrorID # "" THEN repos[i].mirrorID ELSE repos[i].id
                        server == EntryOf(Document(UserFile).servers, Document(GlobalFile).servers, id)
                        names == {Interpolate(srv.username, Props(config.settings)) : srv \in server}
                        headers == {Interpolate(srv.headers, Props(config.settings)) : srv \in server}
                    IN IF server = {} THEN repos[i].cred = Anonymous
                       ELSE repos[i].cred.username \in names /\ repos[i].cred.headers \in headers
  BY DEF CredentialsOfTarget
<1> DEFINE id == IF opts.targets # <<>> THEN opts.targets[i].id
                 ELSE IF repos[i].mirrorID # "" THEN repos[i].mirrorID ELSE repos[i].id
           user == Document(UserFile).servers
           global == Document(GlobalFile).servers
           props == Props(config.settings)
           server == EntryOf(user, global, id)
           names == {Interpolate(srv.username, props) : srv \in server}
           headers == {Interpolate(srv.headers, props) : srv \in server}
<1>1. user \in Seq(Range(user)) /\ global \in Seq(Range(global))
      /\ config.settings.servers = Merge(user, global)
  BY MergedLists DEF Listed, MergeSettings
<1>2. repos[i].cred = Credentials(config.settings, id, props, config.master, disk.lucky)
  BY MergedLists, CredentialsLookup
<1> HIDE DEF id, user, global, props
<1>3. IF server = {} THEN repos[i].cred = Anonymous
      ELSE repos[i].cred.username \in names /\ repos[i].cred.headers \in headers
  BY <1>1, <1>2, CredentialsOfEntry
<1> QED BY <1>3 DEF id, user, global, props

\* Whatever the two files hold, and however ids repeat in them: a repository is
\* sent the name and headers of the entry for its mirror's id, or for its own,
\* and of no other.
THEOREM CredentialsOfItsTarget == SessionSpec => []CredentialsOfTarget
BY ConfigSafe, CredentialsRight, PTL

-----------------------------------------------------------------------------
(* Mirrors.                                                                *)

Patterned(X) == \A m \in X : m.mirrorOf \in Seq(Tokens)

\* The mirrors that cover a repository, and the global ones of them that no
\* other entry of their id precedes.
Covering(list, r) == {i \in DOMAIN list : Covers(list[i].mirrorOf, r)}

CoveringEntries(user, global, r) ==
  {i \in DOMAIN global : /\ Covers(global[i].mirrorOf, r)
                         /\ EntryOf(user, global, global[i].id) = {global[i]}}

\* The mirror that is chosen from the merged list.
LEMMA ChosenMirror ==
  ASSUME NEW X, NEW user \in Seq(X), NEW global \in Seq(X), NEW r, Patterned(X)
  PROVE  LET mirrors == Merge(user, global)
             first == MatchMirror(mirrors, r)
             ours == Covering(user, r)
             theirs_ == CoveringEntries(user, global, r)
         IN /\ ours # {} => first # 0 /\ mirrors[first] = user[Min(ours)]
            /\ ours = {} /\ theirs_ # {} => first # 0 /\ mirrors[first] = global[Min(theirs_)]
            /\ ours = {} /\ theirs_ = {} => first = 0
<1> DEFINE T == {m \in X : MirrorMatches(m.mirrorOf, r)}
           mirrors == Merge(user, global)
<1>1. \A m \in X : m \in T <=> Covers(m.mirrorOf, r)
  BY MatchesWhatItCovers DEF Patterned
<1>2. mirrors \in Seq(X)
  BY MergeOrder
<1>3. MatchMirror(mirrors, r) = FirstOf(Passing(mirrors, T))
  <2>1. DOMAIN mirrors = 1 .. Len(mirrors) /\ \A i \in DOMAIN mirrors : mirrors[i] \in X
    BY <1>2
  <2> HIDE DEF mirrors
  <2>2. {i \in 1 .. Len(mirrors) : MirrorMatches(mirrors[i].mirrorOf, r)} = Passing(mirrors, T)
    BY <2>1 DEF Passing
  <2> QED BY <2>2 DEF MatchMirror, SelectInSeq, FirstOf
<1> HIDE DEF T
<1>4. Covering(user, r) = Passing(user, T)
  BY <1>1 DEF Covering, Passing
<1>5. CoveringEntries(user, global, r) = PassingEntries(user, global, T)
  BY <1>1 DEF CoveringEntries, Passing, PassingEntries
<1> DEFINE ours == Passing(user, T)
           theirs_ == PassingEntries(user, global, T)
           first == FirstOf(Passing(mirrors, T))
<1>6. /\ ours # {} => first # 0 /\ mirrors[first] = user[Min(ours)]
      /\ ours = {} /\ theirs_ # {} => first # 0 /\ mirrors[first] = global[Min(theirs_)]
      /\ ours = {} /\ theirs_ = {} => first = 0
  BY MergedFirst
<1> HIDE DEF ours, theirs_, first
<1> QED BY <1>3, <1>4, <1>5, <1>6 DEF ours, theirs_, first

\* A repository as the profiles declare it, at its expanded URL.
Expanded(declared, props) == [declared EXCEPT !.url = Interpolate(@, props)]

LEMMA RemoteURL ==
  ASSUME NEW s, NEW master, NEW lucky, NEW props, NEW declared
  PROVE  LET r == Expanded(declared, props)
             m == MatchMirror(s.mirrors, r)
         IN RemoteRepo(s, master, lucky, props, declared).url
              = IF m = 0 THEN r.url ELSE Interpolate(s.mirrors[m].url, props)
BY DEF RemoteRepo, Expanded

LEMMA MirrorRight == ConfigInv => MirrorAsDeclared
<1> DEFINE user == Document(UserFile).mirrors
           global == Document(GlobalFile).mirrors
           props == Props(config.settings)
           declared == DeclaredRepos(Profiles(config.settings))
           At(n) == Expanded(declared[n], props)
           Chosen(r) ==
             IF Covering(user, r) # {} THEN {user[Min(Covering(user, r))]}
             ELSE IF CoveringEntries(user, global, r) # {}
                  THEN {global[Min(CoveringEntries(user, global, r))]} ELSE {}
<1> SUFFICES ASSUME ConfigInv, stage = "repos", opts.targets = <<>>, NEW n \in DOMAIN repos
             PROVE  IF Chosen(At(n)) = {} THEN repos[n].url = At(n).url
                    ELSE \A m \in Chosen(At(n)) : repos[n].url = Interpolate(m.url, props)
  BY DEF MirrorAsDeclared, Covering, CoveringEntries, Expanded
<1> DEFINE X == Range(user) \cup Range(global)
           r == At(n)
           mirrors == Merge(user, global)
           first == MatchMirror(mirrors, r)
           ours == Covering(user, r)
           theirs_ == CoveringEntries(user, global, r)
<1>1. /\ user \in Seq(Range(user)) /\ global \in Seq(Range(global))
      /\ Patterned(X)
      /\ config.settings.mirrors = mirrors
  BY MergedLists DEF Listed, MergeSettings, Patterned
<1>2. repos[n].url = IF first = 0 THEN r.url ELSE Interpolate(mirrors[first].url, props)
  <2>1. repos[n] = RemoteRepo(config.settings, config.master, disk.lucky, props, declared[n])
    BY MergedLists, EffectiveOnes
  <2> HIDE DEF declared, props, mirrors
  <2> QED BY <1>1, <2>1, RemoteURL
<1> HIDE DEF user, global, props, declared, r
<1>3. user \in Seq(X) /\ global \in Seq(X)
  BY <1>1, TwoLists
<1> HIDE DEF X
<1>4. /\ ours # {} => first # 0 /\ mirrors[first] = user[Min(ours)]
      /\ ours = {} /\ theirs_ # {} => first # 0 /\ mirrors[first] = global[Min(theirs_)]
      /\ ours = {} /\ theirs_ = {} => first = 0
  BY <1>1, <1>3, ChosenMirror
<1> HIDE DEF first, mirrors, ours, theirs_
<1>5. Chosen(r) = IF ours # {} THEN {user[Min(ours)]}
                  ELSE IF theirs_ # {} THEN {global[Min(theirs_)]} ELSE {}
  BY DEF ours, theirs_
<1> HIDE DEF Chosen
<1>6. IF Chosen(r) = {} THEN repos[n].url = r.url
      ELSE \A m \in Chosen(r) : repos[n].url = Interpolate(m.url, props)
  BY <1>2, <1>4, <1>5
<1> QED BY <1>6 DEF r

\* Whatever the two files hold: a repository is redirected to the user's first
\* mirror that covers it, or else to the first global one that does and is not
\* overridden, wherever the exclusions stand in the patterns.
THEOREM RedirectedAsDeclared == SessionSpec => []MirrorAsDeclared
BY ConfigSafe, MirrorRight, PTL

-----------------------------------------------------------------------------
(* Profiles.                                                               *)

\* Settings that differ in the profiles only, of which some are selected.
Selecting(s, less, set) ==
  /\ less.profiles = Those(s.profiles, set)
  /\ less.activeProfiles = s.activeProfiles
  /\ less.servers = s.servers /\ less.mirrors = s.mirrors /\ less.proxies = s.proxies

\* Whether a profile contributes nothing.
ActiveIn(s, p) == Activated(p, s, opts.profiles, opts.props) /\ ~ Deactivated(p, opts.profiles)

Idle(s, p) ==
  \/ Deactivated(p, opts.profiles)
  \/ ~ ActiveIn(s, p) /\ \E q \in Range(s.profiles) : ActiveIn(s, q)

LEMMA ProfilesWithout ==
  ASSUME NEW X, NEW s, s.profiles \in Seq(X), NEW p \in Range(s.profiles), Idle(s, p),
         NEW less, Selecting(s, less, Range(s.profiles) \ {p})
  PROVE  Profiles(less) = Profiles(s)
<1> DEFINE all_ == Range(s.profiles)
           rest == Range(less.profiles)
           On_(set) == {q \in set : /\ ~ Deactivated(q, opts.profiles)
                                   /\ Activated(q, s, opts.profiles, opts.props)}
           Default(set) == {q \in set : q.byDefault /\ ~ Deactivated(q, opts.profiles)}
           these == Those(s.profiles, On_(all_))
           those == Those(less.profiles, On_(rest))
<1>1. rest = all_ \ {p}
  BY ThoseAre DEF Selecting
<1>2. \A q : Activated(q, less, opts.profiles, opts.props)
               <=> Activated(q, s, opts.profiles, opts.props)
  BY DEF Activated, Selecting
<1>3. Profiles(s) = IF these # <<>> THEN these ELSE Those(s.profiles, Default(all_))
  BY DEF Profiles, ActiveProfiles
<1>4. Profiles(less) = IF those # <<>> THEN those ELSE Those(less.profiles, Default(rest))
  <2>1. {q \in rest : /\ ~ Deactivated(q, opts.profiles)
                      /\ Activated(q, less, opts.profiles, opts.props)} = On_(rest)
    BY <1>2
  <2> QED BY <2>1 DEF Profiles, ActiveProfiles
<1>5. p \notin On_(all_)
  BY DEF Idle, ActiveIn
<1>6. On_(rest) = On_(all_)
  BY <1>1, <1>5
<1>7. those = these
  <2>1. all_ \cap On_(all_) \subseteq all_ \ {p}
    BY <1>5
  <2> HIDE DEF On_
  <2> QED BY <1>6, <2>1, ThoseOfThose DEF Selecting
<1>8. CASE Deactivated(p, opts.profiles)
  <2>1. p \notin Default(all_)
    BY <1>8
  <2>2. Default(rest) = Default(all_)
    BY <1>1, <2>1
  <2>3. all_ \cap Default(all_) \subseteq all_ \ {p}
    BY <2>1
  <2> HIDE DEF Default
  <2>4. Those(less.profiles, Default(rest)) = Those(s.profiles, Default(all_))
    BY <2>2, <2>3, ThoseOfThose DEF Selecting
  <2> HIDE DEF these, those
  <2> QED BY <1>3, <1>4, <1>7, <2>4
<1>9. CASE \E q \in all_ : ActiveIn(s, q)
  <2>1. all_ \cap On_(all_) # {}
    BY <1>9 DEF ActiveIn
  <2> HIDE DEF On_
  <2>2. these # <<>>
    BY <2>1, ThoseAre
  <2> HIDE DEF these, those
  <2> QED BY <1>3, <1>4, <1>7, <2>2
<1> QED BY <1>8, <1>9 DEF Idle

LEMMA ResolvedWithout ==
  ASSUME NEW X, NEW s, s.profiles \in Seq(X), NEW p \in Range(s.profiles), Idle(s, p),
         NEW less, Selecting(s, less, Range(s.profiles) \ {p})
  PROVE  Resolved(less) = Resolved(s)
<1>1. Profiles(less) = Profiles(s) /\ Props(less) = Props(s)
  BY ProfilesWithout DEF Props
<1>2. \A id, props, master, lucky :
        Credentials(less, id, props, master, lucky) = Credentials(s, id, props, master, lucky)
  BY DEF Credentials, Selecting
<1>3. ASSUME NEW props, NEW declared, NEW master, NEW lucky
      PROVE  RemoteRepo(less, master, lucky, props, declared) = RemoteRepo(s, master, lucky, props, declared)
  <2>1. less.mirrors = s.mirrors /\ less.proxies = s.proxies
    BY DEF Selecting
  <2>2. \A id : Credentials(less, id, props, master, lucky) = Credentials(s, id, props, master, lucky)
    BY <1>2
  <2> DEFINE r == Expanded(declared, props)
             First(x) == MatchMirror(x.mirrors, r)
             URL(x) == IF First(x) = 0 THEN r.url ELSE Interpolate(x.mirrors[First(x)].url, props)
             Id(x) == IF First(x) = 0 THEN "" ELSE x.mirrors[First(x)].id
             Repo(x) == [id |-> r.id, url |-> URL(x), releases |-> r.releases,
                         snapshots |-> r.snapshots, mirrorID |-> Id(x),
                         cred |-> Credentials(x, CredID(r.id, Id(x)), props, master, lucky),
                         proxy |-> SelectProxy(x.proxies, URL(x))]
  <2>3. RemoteRepo(s, master, lucky, props, declared) = Repo(s)
        /\ RemoteRepo(less, master, lucky, props, declared) = Repo(less)
    BY DEF RemoteRepo, Expanded
  <2>4. First(less) = First(s)
    BY <2>1
  <2> HIDE DEF First
  <2>5. URL(less) = URL(s) /\ Id(less) = Id(s)
    BY <2>1, <2>4
  <2> HIDE DEF URL, Id, r
  <2> QED BY <2>1, <2>2, <2>3, <2>5
<1>4. EffectiveRepos(less, config.master, disk.lucky, opts.profiles, opts.props)
        = EffectiveRepos(s, config.master, disk.lucky, opts.profiles, opts.props)
  BY <1>1, <1>3 DEF EffectiveRepos, Profiles, Props
<1>5. \A t :
        OverrideRepo(less, config.master, disk.lucky, opts.profiles, opts.props, t)
          = OverrideRepo(s, config.master, disk.lucky, opts.profiles, opts.props, t)
  BY <1>1, <1>2 DEF OverrideRepo, Profiles, Props
<1> QED BY <1>4, <1>5 DEF Resolved

LEMMA IdleRight == ConfigInv => IdleProfilesContributeNothing
<1> DEFINE s == config.settings
           Without(p) == [s EXCEPT !.profiles = Those(@, Range(@) \ {p})]
<1> SUFFICES ASSUME ConfigInv, stage = "repos", NEW p \in Range(s.profiles), Idle(s, p)
             PROVE  repos = Resolved(Without(p))
  BY DEF IdleProfilesContributeNothing, Idle, ActiveIn
<1> DEFINE user == Document(UserFile)
           global == Document(GlobalFile)
           X == Range(user.profiles) \cup Range(global.profiles)
<1>1. s = MergeSettings(user, global) /\ repos = Resolved(s)
  BY MergedLists
<1>2. s.profiles \in Seq(X)
  <2>1. user.profiles \in Seq(X) /\ global.profiles \in Seq(X)
    BY MergedLists, TwoLists DEF Listed
  <2>2. s.profiles = Merge(user.profiles, global.profiles)
    BY <1>1 DEF MergeSettings
  <2> HIDE DEF user, global, X, s
  <2> QED BY <2>1, <2>2, MergeOrder
<1>3. Selecting(s, Without(p), Range(s.profiles) \ {p})
  <2> HIDE DEF user, global
  <2> QED BY <1>1 DEF MergeSettings, Selecting
<1> HIDE DEF Without, s
<1> QED BY <1>1, <1>2, <1>3, ResolvedWithout

\* Whatever profiles the files declare: one that is deactivated, or that only
\* the default would have activated, changes nothing in the outcome.
THEOREM IdleProfilesIdle == SessionSpec => []IdleProfilesContributeNothing
BY ConfigSafe, IdleRight, PTL

-----------------------------------------------------------------------------
(* References.  What a text refers to after a pass are the successors of   *)
(* what it referred to before, in a graph of the names.                    *)

Images(P, succ, M) == \A k \in 1 .. M : P[k] = UNION {succ[n] : n \in P[k - 1]}

Busy(V, succ) == {n \in V : succ[n] # {}}

Circular(V, succ) ==
  UNION {C \in SUBSET Busy(V, succ) : \A n \in C : succ[n] \cap C # {}}

\* The names from which j further steps can be made.
Going(L, V, succ, M) ==
  /\ L[0] = Busy(V, succ)
  /\ \A j \in 1 .. M : L[j] = {n \in Busy(V, succ) : succ[n] \cap L[j - 1] # {}}

LEMMA GoingExists ==
  ASSUME NEW M \in Nat, NEW V, NEW succ
  PROVE  \E L \in [0 .. M -> SUBSET Busy(V, succ)] : Going(L, V, succ, M)
<1> DEFINE D == SUBSET Busy(V, succ)
           From(S) == {n \in Busy(V, succ) : succ[n] \cap S # {}}
           step == [j \in 1 .. M |-> [S \in D |-> From(S)]]
<1>1. Busy(V, succ) \in D /\ \A S \in D : From(S) \in D
  OBVIOUS
<1> HIDE DEF D, From
<1>2. step \in [1 .. M -> [D -> D]] /\ \A j \in 1 .. M, S \in D : step[j][S] = From(S)
  BY <1>1
<1> HIDE DEF step
<1>3. PICK L \in [0 .. M -> D] : Values(L, M, Busy(V, succ), step)
  BY <1>1, <1>2, LoopValues
<1>4. L[0] = Busy(V, succ) /\ \A j \in 1 .. M : L[j] = From(L[j - 1])
  BY <1>2, <1>3 DEF Values
<1>5. Going(L, V, succ, M)
  BY <1>4 DEF Going, From
<1> QED BY <1>3, <1>5 DEF D

LEMMA GoingShrinks ==
  ASSUME NEW M \in Nat, NEW V, NEW succ,
         NEW L \in [0 .. M -> SUBSET Busy(V, succ)], Going(L, V, succ, M)
  PROVE  \A k, j \in 0 .. M : k <= j => L[j] \subseteq L[k]
<1> DEFINE S == {n \in 0 .. M : n > 0 => L[n] \subseteq L[n - 1]}
<1>1. Inductive(S, M)
  <2>1. 0 \in S
    OBVIOUS
  <2>2. ASSUME NEW n \in 1 .. M, n - 1 \in S PROVE n \in S
    <3>1. L[n] = {m \in Busy(V, succ) : succ[m] \cap L[n - 1] # {}}
      BY DEF Going
    <3>2. CASE n = 1
      BY <3>1, <3>2 DEF Going
    <3>3. CASE n # 1
      <4>1. n - 1 \in 1 .. M
        BY <3>3
      <4>2. L[n - 1] = {m \in Busy(V, succ) : succ[m] \cap L[n - 1 - 1] # {}}
        BY <4>1 DEF Going
      <4>3. L[n - 1] \subseteq L[n - 1 - 1]
        BY <2>2, <4>1
      <4> QED BY <3>1, <4>2, <4>3
    <3> QED BY <3>2, <3>3
  <2> HIDE DEF S
  <2> QED BY <2>1, <2>2 DEF Inductive
<1>2. \A n \in 1 .. M : L[n] \subseteq L[n - 1]
  <2>1. \A n \in 0 .. M : n \in S
    <3> HIDE DEF S
    <3> QED BY <1>1, LoopInduction
  <2>2. \A n \in 1 .. M : n \in S /\ n > 0
    BY <2>1
  <2> QED BY <2>2
<1> SUFFICES ASSUME NEW k \in 0 .. M
             PROVE  \A j \in 0 .. M : k <= j => L[j] \subseteq L[k]
  OBVIOUS
<1> DEFINE T == {n \in 0 .. M : k <= n => L[n] \subseteq L[k]}
<1>3. Inductive(T, M)
  <2>1. 0 \in T
    OBVIOUS
  <2>2. ASSUME NEW n \in 1 .. M, n - 1 \in T PROVE n \in T
    <3>1. CASE k <= n - 1
      <4>1. L[n] \subseteq L[n - 1] /\ L[n - 1] \subseteq L[k]
        BY <1>2, <2>2, <3>1
      <4> QED BY <4>1
    <3>2. CASE k = n
      BY <3>2
    <3>3. CASE n < k
      BY <3>3
    <3> QED BY <3>1, <3>2, <3>3
  <2> HIDE DEF T
  <2> QED BY <2>1, <2>2 DEF Inductive
<1>4. \A n \in 0 .. M : n \in T
  <2> HIDE DEF T
  <2> QED BY <1>3, LoopInduction
<1> QED BY <1>4

\* Fewer names than steps: from some number on, no name is lost.
LEMMA GoingSettles ==
  ASSUME NEW M \in Nat, NEW V, NEW succ,
         NEW L \in [0 .. M -> SUBSET Busy(V, succ)], Going(L, V, succ, M),
         IsFiniteSet(Busy(V, succ)), Cardinality(Busy(V, succ)) < M
  PROVE  \E k \in 0 .. M - 1 : L[k + 1] = L[k]
<1> DEFINE N == Cardinality(Busy(V, succ))
<1>1. N \in Nat
  BY FS_CardinalityType
<1>2. \A j \in 0 .. M : IsFiniteSet(L[j]) /\ Cardinality(L[j]) \in Nat
  BY FS_Subset, FS_CardinalityType
<1> SUFFICES ASSUME \A k \in 0 .. M - 1 : L[k + 1] # L[k] PROVE FALSE
  OBVIOUS
<1> DEFINE S == {j \in 0 .. M : Cardinality(L[j]) <= N - j}
<1>3. Inductive(S, M)
  <2>1. 0 \in S
    BY <1>1 DEF Going
  <2>2. ASSUME NEW j \in 1 .. M, j - 1 \in S PROVE j \in S
    <3>1. j - 1 \in 0 .. M - 1 /\ j - 1 + 1 = j
      OBVIOUS
    <3>2. L[j] # L[j - 1] /\ L[j] \subseteq L[j - 1]
      <4>1. L[j] # L[j - 1]
        BY <3>1
      <4>2. j \in 0 .. M /\ j - 1 \in 0 .. M /\ j - 1 <= j
        OBVIOUS
      <4> QED BY <4>1, <4>2, GoingShrinks
    <3>3. Cardinality(L[j]) < Cardinality(L[j - 1])
      BY <1>2, <3>1, <3>2, FS_Subset
    <3>4. Cardinality(L[j - 1]) <= N - (j - 1)
      BY <2>2
    <3> QED BY <1>1, <1>2, <3>3, <3>4
  <2> HIDE DEF S
  <2> QED BY <2>1, <2>2 DEF Inductive
<1>4. M \in S
  <2> HIDE DEF S
  <2> QED BY <1>3, LoopInduction
<1> QED BY <1>1, <1>2, <1>4

\* When something is left after more steps than there are names that lead on,
\* what is left meets a cycle.
LEMMA StaysInCycle ==
  ASSUME NEW M \in Nat, NEW V, NEW succ, NEW P, P[0] \subseteq V,
         \A n \in V : succ[n] \subseteq V,
         Images(P, succ, M), P[M] # {},
         IsFiniteSet(Busy(V, succ)), Cardinality(Busy(V, succ)) < M
  PROVE  P[M] \cap Circular(V, succ) # {}
<1> DEFINE B == Busy(V, succ)
<1>1. PICK L \in [0 .. M -> SUBSET B] : Going(L, V, succ, M)
  BY GoingExists
<1>2. PICK k \in 0 .. M - 1 : L[k + 1] = L[k]
  BY <1>1, GoingSettles
<1>3. M > 0 /\ M - 1 \in 0 .. M /\ k \in 0 .. M /\ k + 1 \in 1 .. M
  BY <1>2
<1>4. \A n \in L[k] : succ[n] \cap L[k] # {}
  <2>1. L[k + 1] = {n \in B : succ[n] \cap L[k + 1 - 1] # {}}
    BY <1>1, <1>3 DEF Going
  <2>2. k + 1 - 1 = k
    BY <1>3
  <2> QED BY <1>2, <2>1, <2>2
<1>5. L[k] \subseteq Circular(V, succ)
  <2>1. L[k] \in SUBSET B
    BY <1>1, <1>3
  <2> QED BY <1>4, <2>1 DEF Circular
<1>6. L[M - 1] \subseteq L[k]
  BY <1>1, <1>2, <1>3, GoingShrinks
<1>7. \A j \in 0 .. M : P[j] \subseteq V
  <2> DEFINE S == {j \in 0 .. M : P[j] \subseteq V}
  <2>1. 0 \in S
    OBVIOUS
  <2>2. ASSUME NEW j \in 1 .. M, j - 1 \in S PROVE j \in S
    <3>1. P[j] = UNION {succ[n] : n \in P[j - 1]} /\ P[j - 1] \subseteq V
      BY <2>2 DEF Images
    <3> QED BY <3>1
  <2>3. Inductive(S, M)
    <3> HIDE DEF S
    <3> QED BY <2>1, <2>2 DEF Inductive
  <2>4. \A j \in 0 .. M : j \in S
    <3> HIDE DEF S
    <3> QED BY <2>3, LoopInduction
  <2> QED BY <2>4
\* Backwards: what is left was reached from names that go on for as long.
<1>8. P[0] \cap L[M - 1] # {}
  <2> DEFINE N == M - 1
             S == {j \in 0 .. N : P[N - j] \cap L[j] # {}}
  <2>1. N \in Nat
    BY <1>3
  <2>2. 0 \in S
    <3>1. P[M] = UNION {succ[n] : n \in P[M - 1]}
      BY <1>3 DEF Images
    <3>2. PICK n \in P[M - 1] : succ[n] # {}
      BY <3>1
    <3>3. n \in B
      BY <1>3, <1>7, <3>2 DEF Busy
    <3>4. n \in P[N - 0] \cap L[0]
      BY <1>1, <1>3, <3>2, <3>3 DEF Going
    <3> QED BY <2>1, <3>4
  <2>3. ASSUME NEW j \in 1 .. N, j - 1 \in S PROVE j \in S
    <3>1. PICK n \in P[N - (j - 1)] : n \in L[j - 1]
      BY <2>3
    <3> DEFINE i == N - (j - 1)
    <3>2. i \in 1 .. M /\ i - 1 = N - j /\ i - 1 \in 0 .. M /\ j \in 1 .. M
      BY <1>3
    <3> HIDE DEF i
    <3>3. P[i] = UNION {succ[m] : m \in P[i - 1]}
      BY <3>2 DEF Images
    <3>4. PICK m \in P[i - 1] : n \in succ[m]
      BY <3>1, <3>3 DEF i
    <3>5. m \in B
      BY <1>7, <3>2, <3>4 DEF Busy
    <3>6. L[j] = {x \in B : succ[x] \cap L[j - 1] # {}}
      BY <1>1, <3>2 DEF Going
    <3>7. m \in L[j]
      BY <3>1, <3>4, <3>5, <3>6
    <3> QED BY <3>2, <3>4, <3>7
  <2>4. Inductive(S, N)
    <3> HIDE DEF S, N
    <3> QED BY <2>2, <2>3 DEF Inductive
  <2>5. N \in S
    <3> HIDE DEF S, N
    <3> QED BY <2>1, <2>4, LoopInduction
  <2>6. P[N - N] \cap L[N] # {}
    BY <2>5
  <2> QED BY <2>1, <2>6
\* Forwards: a cycle is not left again.
<1>9. P[M] \cap L[k] # {}
  <2> DEFINE S == {j \in 0 .. M : P[j] \cap L[k] # {}}
  <2>1. 0 \in S
    BY <1>6, <1>8
  <2>2. ASSUME NEW j \in 1 .. M, j - 1 \in S PROVE j \in S
    <3>1. PICK n \in P[j - 1] : n \in L[k]
      BY <2>2
    <3>2. PICK m \in succ[n] : m \in L[k]
      BY <1>4, <3>1
    <3>3. m \in P[j]
      BY <3>1, <3>2 DEF Images
    <3> QED BY <3>2, <3>3
  <2>3. Inductive(S, M)
    <3> HIDE DEF S
    <3> QED BY <2>1, <2>2 DEF Inductive
  <2>4. M \in S
    <3> HIDE DEF S
    <3> QED BY <2>3, LoopInduction
  <2> QED BY <2>4
<1> QED BY <1>5, <1>9

-----------------------------------------------------------------------------
(* Interpolate.                                                            *)

Names(props) == DOMAIN props \cup DOMAIN Builtins

LEMMA LookupText ==
  ASSUME NEW props, TextProps(props), NEW name \in Names(props)
  PROVE  IsText(Lookup(name, props))
BY BuiltinsAssumption DEF TextProps, Lookup, Names

\* What a pass puts in the place of a piece.
Instead(p, props) == IF Resolvable(p, props) THEN Lookup(p.is, props) ELSE <<p>>

LEMMA InsteadText ==
  ASSUME NEW props, TextProps(props), NEW p
  PROVE  IsText(Instead(p, props))
<1>1. CASE Resolvable(p, props)
  BY <1>1, LookupText DEF Instead, Resolvable, Names
<1>2. CASE ~ Resolvable(p, props)
  <2>1. <<p>> \in Seq({p})
    OBVIOUS
  <2>2. IsText(<<p>>)
    BY <2>1, SeqOfRange DEF IsText
  <2> QED BY <1>2, <2>2 DEF Instead
<1> QED BY <1>1, <1>2

LEMMA OnceRange ==
  ASSUME NEW text, IsText(text), NEW props, TextProps(props)
  PROVE  /\ IsText(InterpolateOnce(text, props))
         /\ Range(InterpolateOnce(text, props)) = UNION {Range(Instead(p, props)) : p \in Range(text)}
<1> DEFINE parts == [i \in DOMAIN text |-> Instead(text[i], props)]
           X == UNION {Range(parts[i]) : i \in DOMAIN text}
           once == InterpolateOnce(text, props)
<1>1. text \in Seq(Range(text)) /\ DOMAIN text = 1 .. Len(text) /\ Len(text) \in Nat
  BY DEF IsText
<1>2. once = FlattenSeq(parts)
  BY DEF InterpolateOnce, Instead
<1>3. ASSUME NEW i \in DOMAIN text PROVE parts[i] \in Seq(X)
  <2>1. parts[i] \in Seq(Range(parts[i]))
    BY InsteadText DEF IsText
  <2>2. Range(parts[i]) \subseteq X
    OBVIOUS
  <2> HIDE DEF parts, X
  <2> QED BY <2>1, <2>2
<1>4. DOMAIN parts = DOMAIN text /\ \A i \in DOMAIN text : parts[i] = Instead(text[i], props)
  OBVIOUS
<1>5. parts \in Seq(Seq(X))
  <2>1. parts \in [1 .. Len(text) -> Seq(X)]
    <3> HIDE DEF X
    <3> QED BY <1>1, <1>3
  <2> HIDE DEF parts, X
  <2> QED BY <1>1, <2>1
<1> HIDE DEF parts
<1>6. once \in Seq(X) /\ Range(once) = UNION {Range(parts[i]) : i \in DOMAIN parts}
  <2> HIDE DEF X
  <2> QED BY <1>2, <1>5, FlattenRange
<1>7. Range(once) = UNION {Range(Instead(p, props)) : p \in Range(text)}
  BY <1>4, <1>6 DEF Range
<1>8. IsText(once)
  <2> HIDE DEF X, once
  <2> QED BY <1>6, SeqOfRange DEF IsText
<1> QED BY <1>7, <1>8

LEMMA RefsOfPieces ==
  ASSUME NEW text, NEW props
  PROVE  \A name : name \in Refs(text, props)
           <=> \E p \in Range(text) : Resolvable(p, props) /\ p.is = name
BY DEF Refs, Range

LEMMA RefsAreNames ==
  ASSUME NEW text, NEW props
  PROVE  Refs(text, props) \subseteq Names(props)
BY RefsOfPieces DEF Resolvable, Names

\* A pass replaces the names that a text refers to by those they refer to.
LEMMA OnceRefs ==
  ASSUME NEW text, IsText(text), NEW props, TextProps(props)
  PROVE  Refs(InterpolateOnce(text, props), props)
           = UNION {Refs(Lookup(n, props), props) : n \in Refs(text, props)}
<1> DEFINE once == InterpolateOnce(text, props)
<1>1. \A q : q \in Range(once) <=> \E p \in Range(text) : q \in Range(Instead(p, props))
  BY OnceRange
<1> HIDE DEF once
<1>2. ASSUME NEW name \in Refs(once, props)
      PROVE  \E n \in Refs(text, props) : name \in Refs(Lookup(n, props), props)
  <2>1. PICK q \in Range(once) : Resolvable(q, props) /\ q.is = name
    BY RefsOfPieces
  <2>2. PICK p \in Range(text) : q \in Range(Instead(p, props))
    BY <1>1
  <2>3. Resolvable(p, props)
    <3>1. SUFFICES ASSUME ~ Resolvable(p, props) PROVE FALSE
      OBVIOUS
    <3>2. Instead(p, props) = <<p>>
      BY <3>1 DEF Instead
    <3>3. \A x : x \in Range(<<p>>) => x = p
      BY DEF Range
    <3>4. q = p
      BY <2>2, <3>2, <3>3
    <3> QED BY <2>1, <3>1, <3>4
  <2>4. q \in Range(Lookup(p.is, props))
    BY <2>2, <2>3 DEF Instead
  <2>5. p.is \in Refs(text, props) /\ name \in Refs(Lookup(p.is, props), props)
    BY <2>1, <2>3, <2>4, RefsOfPieces
  <2> QED BY <2>5
<1>3. ASSUME NEW n \in Refs(text, props), NEW name \in Refs(Lookup(n, props), props)
      PROVE  name \in Refs(once, props)
  <2>1. PICK p \in Range(text) : Resolvable(p, props) /\ p.is = n
    BY RefsOfPieces
  <2>2. PICK q \in Range(Lookup(n, props)) : Resolvable(q, props) /\ q.is = name
    BY RefsOfPieces
  <2>3. q \in Range(Instead(p, props))
    BY <2>1, <2>2 DEF Instead
  <2>4. q \in Range(once)
    BY <1>1, <2>3
  <2> QED BY <2>2, <2>4, RefsOfPieces
<1> QED BY <1>2, <1>3 DEF once

\* What the text is after each of the passes.
LEMMA InterpolateLoop ==
  ASSUME NEW text, IsText(text), NEW props, TextProps(props)
  PROVE  \E pass : /\ pass[0] = text
                   /\ \A n \in 1 .. MaxPasses : pass[n] = InterpolateOnce(pass[n - 1], props)
                   /\ \A n \in 0 .. MaxPasses : IsText(pass[n])
                   /\ Interpolate(text, props) = pass[MaxPasses]
<1> DEFINE N == MaxPasses
           X == Range(text) \cup UNION {Range(Lookup(n, props)) : n \in Names(props)}
           D == Seq(X)
           step == [n \in 1 .. N |-> [v \in D |-> InterpolateOnce(v, props)]]
           Of(out) == out = [n \in 0 .. N |-> IF n = 0 THEN text ELSE InterpolateOnce(out[n - 1], props)]
           pass == CHOOSE out : Of(out)
<1>1. N \in Nat
  BY DEF MaxPasses
<1>2. text \in D
  <2>1. text \in Seq(Range(text)) /\ Range(text) \subseteq X
    BY DEF IsText
  <2> HIDE DEF X
  <2> QED BY <2>1
<1>3. Interpolate(text, props) = pass[N]
  BY Zenon DEF Interpolate
<1>4. ASSUME NEW v \in D PROVE IsText(v) /\ InterpolateOnce(v, props) \in D
  <2>1. IsText(v) /\ Range(v) \subseteq X
    <3> HIDE DEF X
    <3> QED BY SeqOfRange, RangeOfSeq DEF IsText
  <2> DEFINE once == InterpolateOnce(v, props)
  <2>2. once \in Seq(Range(once)) /\ \A q \in Range(once) : \E p \in Range(v) : q \in Range(Instead(p, props))
    BY <2>1, OnceRange DEF IsText
  <2>3. ASSUME NEW q \in Range(once) PROVE q \in X
    <3>1. PICK p \in Range(v) : q \in Range(Instead(p, props))
      BY <2>2
    <3>2. CASE Resolvable(p, props)
      <4>1. p.is \in Names(props) /\ q \in Range(Lookup(p.is, props))
        BY <3>1, <3>2 DEF Instead, Resolvable, Names
      <4> QED BY <4>1
    <3>3. CASE ~ Resolvable(p, props)
      <4>1. \A x : x \in Range(<<p>>) => x = p
        BY DEF Range
      <4>2. q = p
        BY <3>1, <3>3, <4>1 DEF Instead
      <4> QED BY <2>1, <4>2
    <3> QED BY <3>2, <3>3
  <2> HIDE DEF X, once
  <2>4. once \in Seq(X)
    BY <2>2, <2>3
  <2> QED BY <2>1, <2>4 DEF once
<1> HIDE DEF N, D
<1>5. /\ step \in [1 .. N -> [D -> D]]
      /\ \A n \in 1 .. N, v \in D : step[n][v] = InterpolateOnce(v, props)
  BY <1>4
<1> HIDE DEF step
<1>6. PICK f \in [0 .. N -> D] : Values(f, N, text, step)
  BY <1>1, <1>2, <1>5, LoopValues
<1>7. f[0] = text /\ \A n \in 1 .. N : f[n] = InterpolateOnce(f[n - 1], props)
  BY <1>1, <1>2, <1>5, <1>6 DEF Values
<1>8. Of(pass)
  <2>1. Of(f)
    BY <1>1, <1>7
  <2> HIDE DEF Of
  <2> QED BY <2>1
<1> HIDE DEF pass
<1>9. pass[0] = text /\ \A n \in 1 .. N : pass[n] = InterpolateOnce(pass[n - 1], props)
  BY <1>1, <1>8
<1>10. \A n \in 0 .. N : f[n] = pass[n]
  <2>1. Alike(f, pass, N)
    BY <1>1, <1>7, <1>9 DEF Alike
  <2> QED BY <1>1, <2>1, SameValues
<1>11. \A n \in 0 .. N : IsText(pass[n])
  BY <1>4, <1>6, <1>10
<1> QED BY <1>3, <1>9, <1>11 DEF N

\* Where something is left to expand, something in a cycle is.
Expanded_(text, props) ==
  Refs(text, props) # {} => Refs(text, props) \cap Cyclic(props) # {}

LEMMA InterpolateExpands ==
  ASSUME NEW text, IsText(text), NEW props, TextProps(props),
         IsFiniteSet(Referring(props)), Cardinality(Referring(props)) < MaxPasses
  PROVE  Expanded_(Interpolate(text, props), props)
<1> DEFINE M == MaxPasses
           V == Names(props)
           succ == [n \in V |-> Refs(Lookup(n, props), props)]
<1>1. PICK pass : /\ pass[0] = text
                  /\ \A n \in 1 .. M : pass[n] = InterpolateOnce(pass[n - 1], props)
                  /\ \A n \in 0 .. M : IsText(pass[n])
                  /\ Interpolate(text, props) = pass[M]
  BY InterpolateLoop
<1>2. M \in Nat
  BY DEF MaxPasses
<1> HIDE DEF M
<1> DEFINE P == [k \in 0 .. M |-> Refs(pass[k], props)]
<1>3. \A k \in 0 .. M : P[k] = Refs(pass[k], props)
  OBVIOUS
<1>4. \A n \in V : succ[n] = Refs(Lookup(n, props), props) /\ succ[n] \subseteq V
  BY RefsAreNames
<1> HIDE DEF P, succ
<1>5. ASSUME NEW k \in 1 .. M PROVE P[k] = UNION {succ[n] : n \in P[k - 1]}
  <2>1. k \in 0 .. M /\ k - 1 \in 0 .. M
    BY <1>2
  <2>2. P[k] = UNION {Refs(Lookup(n, props), props) : n \in Refs(pass[k - 1], props)}
    BY <1>1, <1>3, <2>1, OnceRefs
  <2>3. P[k - 1] = Refs(pass[k - 1], props) /\ P[k - 1] \subseteq V
    BY <1>3, <2>1, RefsAreNames
  <2>4. \A n \in P[k - 1] : succ[n] = Refs(Lookup(n, props), props)
    BY <1>4, <2>3
  <2> QED BY <2>2, <2>3, <2>4
<1>6. Images(P, succ, M)
  BY <1>5 DEF Images
<1>7. Busy(V, succ) = Referring(props)
  BY <1>4 DEF Busy, Referring, Names
<1>8. Circular(V, succ) = Cyclic(props)
  <2>1. \A n \in Referring(props) : succ[n] = Refs(Lookup(n, props), props)
    BY <1>4 DEF Referring, Names
  <2>2. {C \in SUBSET Referring(props) : \A n \in C : succ[n] \cap C # {}}
          = {C \in SUBSET Referring(props) : \A n \in C : Refs(Lookup(n, props), props) \cap C # {}}
    BY <2>1
  <2> QED BY <1>7, <2>2 DEF Circular, Cyclic
<1>9. P[0] \subseteq V /\ P[M] = Refs(Interpolate(text, props), props)
  <2>1. 0 \in 0 .. M /\ M \in 0 .. M
    BY <1>2
  <2> QED BY <1>1, <1>3, <2>1, RefsAreNames
<1>10. P[M] # {} => P[M] \cap Circular(V, succ) # {}
  <2>1. \A n \in V : succ[n] \subseteq V
    BY <1>4
  <2>2. IsFiniteSet(Busy(V, succ)) /\ Cardinality(Busy(V, succ)) < M
    BY <1>7 DEF M
  <2> HIDE DEF V
  <2> QED BY <1>2, <1>6, <1>9, <2>1, <2>2, StaysInCycle
<1> QED BY <1>8, <1>9, <1>10 DEF Expanded_

-----------------------------------------------------------------------------
(* What is sent.                                                           *)

\* Merging adds nothing of its own.
LEMMA MergeKeeps ==
  ASSUME NEW user, NEW global, user \in Seq(Range(user)), global \in Seq(Range(global)),
         NEW T, Range(user) \subseteq T, Range(global) \subseteq T
  PROVE  Merge(user, global) \in Seq(T)
<1>1. user \in Seq(T) /\ global \in Seq(T)
  OBVIOUS
<1> QED BY <1>1, MergeOrder

\* The settings that the command works with, whose strings are texts.
Readable(s) ==
  /\ s.servers \in Seq(Range(s.servers)) /\ s.mirrors \in Seq(Range(s.mirrors))
  /\ s.profiles \in Seq(Range(s.profiles))
  /\ Texts(s)

LEMMA MergedReadable ==
  ASSUME NEW u, NEW g, Listed(u), Listed(g), Texts(u), Texts(g)
  PROVE  Readable(MergeSettings(u, g))
<1> DEFINE s == MergeSettings(u, g)
           Servers == {srv \in Range(u.servers) \cup Range(g.servers) : Signed(srv)}
           Mirrors == {m \in Range(u.mirrors) \cup Range(g.mirrors) : Addressed(m)}
           Written_ == {p \in Range(u.profiles) \cup Range(g.profiles) : Written(p)}
<1>1. /\ Range(u.servers) \subseteq Servers /\ Range(g.servers) \subseteq Servers
      /\ Range(u.mirrors) \subseteq Mirrors /\ Range(g.mirrors) \subseteq Mirrors
      /\ Range(u.profiles) \subseteq Written_ /\ Range(g.profiles) \subseteq Written_
  BY DEF Texts
<1>2. /\ \A srv \in Servers : Signed(srv)
      /\ \A m \in Mirrors : Addressed(m)
      /\ \A p \in Written_ : Written(p)
  OBVIOUS
<1> HIDE DEF Servers, Mirrors, Written_
<1>3. s.servers \in Seq(Servers) /\ s.mirrors \in Seq(Mirrors) /\ s.profiles \in Seq(Written_)
  BY <1>1, MergeKeeps DEF Listed, MergeSettings
<1> HIDE DEF s
<1>4. \A S : \A t \in Seq(S) : t \in Seq(Range(t)) /\ Range(t) \subseteq S
  BY SeqOfRange, RangeOfSeq
<1>5. Texts(s)
  BY <1>2, <1>3, <1>4 DEF Texts
<1> QED BY <1>3, <1>4, <1>5 DEF Readable, s

\* The profiles that are active are the settings'.
LEMMA ActiveAre ==
  ASSUME NEW s, s.profiles \in Seq(Range(s.profiles)), NEW requested, NEW props
  PROVE  ActiveProfiles(s, requested, props) \in Seq(Range(s.profiles))
<1>1. \A set : Those(s.profiles, set) \in Seq(Range(s.profiles))
  BY ThoseAre
<1> QED BY <1>1 DEF ActiveProfiles

LEMMA EffectiveTexts ==
  ASSUME NEW X, NEW active \in Seq(X), \A p \in X : TextProps(p.properties),
         NEW cmdProps, TextProps(cmdProps)
  PROVE  TextProps(EffectiveProps(active, cmdProps))
<1> DEFINE Having(name) == {i \in DOMAIN active : name \in DOMAIN active[i].properties}
           names == DOMAIN cmdProps \cup UNION {DOMAIN p.properties : p \in Range(active)}
           Value(name) == IF name \in DOMAIN cmdProps THEN cmdProps[name]
                          ELSE active[Max(Having(name))].properties[name]
<1>1. EffectiveProps(active, cmdProps) = [name \in names |-> Value(name)]
  BY DEF EffectiveProps
<1>2. ASSUME NEW name \in names PROVE IsText(Value(name))
  <2>1. CASE name \in DOMAIN cmdProps
    BY <2>1 DEF TextProps
  <2>2. CASE name \notin DOMAIN cmdProps
    <3>1. Having(name) # {}
      BY <2>2 DEF Range
    <3>2. Having(name) \in SUBSET (0 .. Len(active)) /\ Len(active) \in Nat
      OBVIOUS
    <3>3. Max(Having(name)) \in Having(name)
      <4> HIDE DEF Having
      <4> QED BY <3>1, <3>2, MaxIsGreatest
    <3> DEFINE i == Max(Having(name))
    <3>4. i \in DOMAIN active /\ name \in DOMAIN active[i].properties
      BY <3>3
    <3> HIDE DEF i, Having
    <3>5. active[i] \in X
      BY <3>4
    <3>6. IsText(active[i].properties[name])
      BY <3>4, <3>5 DEF TextProps
    <3> QED BY <2>2, <3>6 DEF i
  <2> QED BY <2>1, <2>2
<1> HIDE DEF Value, names
<1> QED BY <1>1, <1>2 DEF TextProps

LEMMA DeclaredTexts ==
  ASSUME NEW X, NEW active \in Seq(X), \A p \in X : Written(p)
  PROVE  \A i \in DOMAIN DeclaredRepos(active) : Located(DeclaredRepos(active)[i])
<1> DEFINE L == UNION {Range(p.repositories) : p \in X}
           lists == [i \in DOMAIN active |-> active[i].repositories]
           all_ == FlattenSeq(lists)
<1>1. \A r \in L : Located(r)
  BY DEF Written
<1>2. ASSUME NEW p \in X PROVE p.repositories \in Seq(L)
  <2>1. p.repositories \in Seq(Range(p.repositories)) /\ Range(p.repositories) \subseteq L
    BY DEF Written
  <2> HIDE DEF L
  <2> QED BY <2>1
<1> HIDE DEF L
<1>3. lists \in Seq(Seq(L))
  <2>1. DOMAIN active = 1 .. Len(active) /\ Len(active) \in Nat
    OBVIOUS
  <2>2. lists \in [1 .. Len(active) -> Seq(L)]
    BY <1>2, <2>1
  <2> HIDE DEF lists
  <2> QED BY <2>1, <2>2
<1>4. all_ \in Seq(L)
  <2> HIDE DEF lists
  <2> QED BY <1>3, FlattenRange
<1>5. Located(Central)
  <2>1. IsText(CentralURL)
    <3>1. \A a, b : IsText(<<a>> \o <<b>>)
      <4>1. \A a, b : <<a>> \in Seq({a, b}) /\ <<b>> \in Seq({a, b})
        OBVIOUS
      <4>2. \A a, b : <<a>> \o <<b>> \in Seq({a, b})
        BY <4>1
      <4> QED BY <4>2, TextIs
    <3> QED BY <3>1 DEF CentralURL, Text, Piece
  <2> QED BY <2>1 DEF Located, Central
<1>6. DeclaredRepos(active) = IF HasID(all_, "central") THEN all_ ELSE Append(all_, Central)
  BY DEF DeclaredRepos
<1> HIDE DEF all_
<1>7. DeclaredRepos(active) \in Seq(L \cup {Central})
  BY <1>4, <1>6
<1> QED BY <1>1, <1>5, <1>7

\* As far as expanding reaches with these properties.
Settled(props) ==
  /\ TextProps(props)
  /\ IsFiniteSet(Referring(props)) /\ Cardinality(Referring(props)) < MaxPasses

LEMMA Settles ==
  ASSUME NEW props, Settled(props), NEW text, IsText(text)
  PROVE  Expanded_(Interpolate(text, props), props)
BY InterpolateExpands DEF Settled

LEMMA CredentialsExpanded ==
  ASSUME NEW s, Readable(s), NEW props, Settled(props), NEW id, NEW master, NEW lucky
  PROVE  LET cred == Credentials(s, id, props, master, lucky)
         IN Expanded_(cred.username, props) /\ Expanded_(cred.headers, props)
<1> DEFINE i == SelectInSeq(s.servers, LAMBDA srv : srv.id = id)
           cred == Credentials(s, id, props, master, lucky)
<1>1. s.servers \in Seq(Range(s.servers)) /\ \A srv \in Range(s.servers) : Signed(srv)
  BY DEF Readable, Texts
<1>2. i = FirstOf(IdsOf(s.servers, id))
  BY <1>1, FirstServer
<1>3. i # 0 => i \in DOMAIN s.servers
  <2>1. IdsOf(s.servers, id) \in SUBSET (Nat \ {0})
    BY <1>1 DEF IdsOf
  <2> QED BY <1>2, <2>1, FirstOfIs DEF IdsOf
<1>4. /\ i = 0 => cred = Anonymous
      /\ i # 0 => /\ cred.username = Interpolate(s.servers[i].username, props)
                  /\ cred.headers = Interpolate(s.servers[i].headers, props)
  BY DEF Credentials
<1> HIDE DEF i, cred
<1>5. CASE i = 0
  <2>1. Refs(<<>>, props) = {}
    BY DEF Refs
  <2>2. cred.username = <<>> /\ cred.headers = <<>>
    BY <1>4, <1>5 DEF Anonymous
  <2>3. Expanded_(cred.username, props) /\ Expanded_(cred.headers, props)
    BY <2>1, <2>2 DEF Expanded_
  <2> QED BY <2>3 DEF cred
<1>6. CASE i # 0
  <2>1. Signed(s.servers[i])
    BY <1>1, <1>3, <1>6 DEF Range
  <2>2. Expanded_(cred.username, props) /\ Expanded_(cred.headers, props)
    BY <1>4, <1>6, <2>1, Settles DEF Signed
  <2> QED BY <2>2 DEF cred
<1> QED BY <1>5, <1>6

LEMMA URLExpanded ==
  ASSUME NEW s, Readable(s), NEW props, Settled(props), NEW declared, Located(declared),
         NEW master, NEW lucky
  PROVE  Expanded_(RemoteRepo(s, master, lucky, props, declared).url, props)
<1> DEFINE r == Expanded(declared, props)
           m == MatchMirror(s.mirrors, r)
           url == RemoteRepo(s, master, lucky, props, declared).url
<1>1. url = IF m = 0 THEN r.url ELSE Interpolate(s.mirrors[m].url, props)
  BY RemoteURL
<1>2. r.url = Interpolate(declared.url, props)
  BY DEF Expanded, Located
<1>3. s.mirrors \in Seq(Range(s.mirrors)) /\ \A x \in Range(s.mirrors) : Addressed(x)
  BY DEF Readable, Texts
<1> HIDE DEF r
<1>4. m # 0 => m \in DOMAIN s.mirrors
  <2> DEFINE I == {k \in 1 .. Len(s.mirrors) : MirrorMatches(s.mirrors[k].mirrorOf, r)}
  <2>1. m = FirstOf(I)
    BY DEF MatchMirror, SelectInSeq, FirstOf
  <2>2. I \in SUBSET (Nat \ {0}) /\ I \subseteq DOMAIN s.mirrors
    BY <1>3
  <2> HIDE DEF I
  <2> QED BY <2>1, <2>2, FirstOfIs
<1> HIDE DEF m, url
<1>5. CASE m = 0
  <2>1. Expanded_(url, props)
    BY <1>1, <1>2, <1>5, Settles DEF Located
  <2> QED BY <2>1 DEF url
<1>6. CASE m # 0
  <2>1. Addressed(s.mirrors[m])
    BY <1>3, <1>4, <1>6 DEF Range
  <2>2. Expanded_(url, props)
    BY <1>1, <1>6, <2>1, Settles DEF Addressed
  <2> QED BY <2>2 DEF url
<1> QED BY <1>5, <1>6

\* What the references of a command's settings are looked up in.
LEMMA PropsAreTexts ==
  ASSUME ConfigInv, stage = "repos"
  PROVE  LET s == config.settings IN
         /\ Readable(s) /\ repos = Resolved(s) /\ TextProps(Props(s))
         /\ Profiles(s) \in Seq(Range(s.profiles))
         /\ \A p \in Range(s.profiles) : Written(p)
<1> DEFINE s == config.settings
           active == Profiles(s)
<1>1. Readable(s) /\ TextProps(opts.props) /\ repos = Resolved(s)
  <2>1. s = MergeSettings(Document(UserFile), Document(GlobalFile))
    BY MergedLists
  <2> HIDE DEF s
  <2> QED BY <2>1, MergedLists, MergedReadable DEF s
<1> HIDE DEF s
<1> DEFINE X == Range(s.profiles)
<1>2. active \in Seq(X) /\ \A p \in X : Written(p)
  <2>1. s.profiles \in Seq(Range(s.profiles))
    BY <1>1 DEF Readable
  <2>2. \A p \in X : Written(p)
    BY <1>1 DEF Readable, Texts
  <2> QED BY <2>1, <2>2, ActiveAre DEF Profiles
<1>3. TextProps(Props(s))
  <2>1. \A p \in X : TextProps(p.properties)
    BY <1>2 DEF Written
  <2> HIDE DEF X, active
  <2>2. TextProps(EffectiveProps(active, opts.props))
    BY <1>1, <1>2, <2>1, EffectiveTexts
  <2> QED BY <2>2 DEF Props, active
<1> QED BY <1>1, <1>2, <1>3 DEF s

LEMMA ExpandedRight == ConfigInv => ExpandedUnlessCyclic
<1> DEFINE s == config.settings
           props == Props(s)
           active == Profiles(s)
           declared == DeclaredRepos(active)
<1> SUFFICES ASSUME ConfigInv, stage = "repos",
                    IsFiniteSet(Referring(props)), Cardinality(Referring(props)) < MaxPasses,
                    NEW i \in DOMAIN repos
             PROVE  /\ opts.targets = <<>> => Expanded_(repos[i].url, props)
                    /\ Expanded_(repos[i].cred.username, props)
                    /\ Expanded_(repos[i].cred.headers, props)
  BY DEF ExpandedUnlessCyclic, Expanded_
<1> DEFINE X == Range(s.profiles)
<1>1. Readable(s) /\ repos = Resolved(s)
  BY PropsAreTexts
<1>2. active \in Seq(X) /\ \A p \in X : Written(p)
  BY PropsAreTexts
<1>3. Settled(props)
  BY PropsAreTexts DEF Settled
<1> HIDE DEF s
<1>4. \A k \in DOMAIN declared : Located(declared[k])
  <2> HIDE DEF X, active
  <2> QED BY <1>2, DeclaredTexts
<1> HIDE DEF X, props
<1>5. Expanded_(repos[i].cred.username, props) /\ Expanded_(repos[i].cred.headers, props)
  <2> DEFINE id == IF opts.targets # <<>> THEN opts.targets[i].id
                   ELSE IF repos[i].mirrorID # "" THEN repos[i].mirrorID ELSE repos[i].id
  <2>1. repos[i].cred = Credentials(s, id, props, config.master, disk.lucky)
    BY <1>1, CredentialsLookup DEF s, props
  <2> HIDE DEF id
  <2> QED BY <1>1, <1>3, <2>1, CredentialsExpanded
<1>6. ASSUME opts.targets = <<>> PROVE Expanded_(repos[i].url, props)
  <2>1. repos = [k \in DOMAIN declared |->
                   RemoteRepo(s, config.master, disk.lucky, props, declared[k])]
    BY <1>1, <1>6, EffectiveOnes DEF s, props
  <2> HIDE DEF declared
  <2>2. i \in DOMAIN declared
        /\ repos[i] = RemoteRepo(s, config.master, disk.lucky, props, declared[i])
    BY <2>1
  <2> QED BY <1>1, <1>3, <1>4, <2>2, URLExpanded
<1> QED BY <1>5, <1>6

\* Whatever properties refer to which others, as long as those that refer to
\* others are fewer than the passes: where a reference with a value is left in
\* a URL, a name or a header that is sent, there is one that leads into a cycle.
THEOREM ReferencesExpanded == SessionSpec => []ExpandedUnlessCyclic
BY ConfigSafe, ExpandedRight, PTL

-----------------------------------------------------------------------------
(* Passwords.                                                              *)

\* A value that was decrypted is one encrypted value.
LEMMA Decrypted ==
  ASSUME NEW value, NEW key, NEW lucky, DecryptPassword(value, key, lucky) # Failed
  PROVE  \E i \in DOMAIN value :
           /\ Braced(value) = {i} /\ value[i].kind = "cipher"
           /\ value[i].key = key => DecryptPassword(value, key, lucky) = Text(value[i].is)
           /\ value[i].key # key => lucky /\ DecryptPassword(value, key, lucky) = Garbage
<1> DEFINE Only(i) == Braced(value) = {i} /\ value[i].kind = "cipher"
           at == CHOOSE i \in Braced(value) : Only(i)
<1>1. \E i \in Braced(value) : Only(i)
  BY DEF DecryptPassword
<1>2. at \in Braced(value) /\ Only(at)
  BY <1>1
<1>3. DecryptPassword(value, key, lucky)
        = IF value[at].key = key THEN Text(value[at].is)
          ELSE IF lucky THEN Garbage ELSE Failed
  BY <1>1 DEF DecryptPassword
<1> HIDE DEF at
<1>4. at \in DOMAIN value
  BY <1>2 DEF Braced
<1> QED BY <1>2, <1>3, <1>4

Kinds == {"missing", "broken", "document"}

\* The values that a file's master password holds, encrypted with the key of
\* all master passwords.
HeldBy(file) ==
  {file.master[i].is : i \in {j \in DOMAIN file.master :
     file.master[j].kind = "cipher" /\ file.master[j].key = MasterKey}}

LEMMA MasterHeld ==
  ASSUME NEW file, file.kind \in Kinds, MasterOf(file) # <<>>, MasterOf(file) # Failed
  PROVE  /\ file.kind = "document" /\ file.master # <<>>
         /\ HeldBy(file) = {MasterOf(file)[1].is}
<1>1. file.kind # "missing" /\ file.kind # "broken"
  BY DEF MasterOf
<1>2. file.kind = "document"
  BY <1>1 DEF Kinds
<1>3. file.master # <<>> /\ MasterOf(file) = DecryptPassword(file.master, MasterKey, FALSE)
  BY <1>2 DEF MasterOf
<1>4. PICK i \in DOMAIN file.master :
         /\ Braced(file.master) = {i} /\ file.master[i].kind = "cipher"
         /\ file.master[i].key = MasterKey
         /\ MasterOf(file) = Text(file.master[i].is)
  <2> DEFINE value == file.master
             key == MasterKey
  <2>1. DecryptPassword(value, key, FALSE) # Failed
    BY <1>3
  <2> HIDE DEF value, key
  <2>2. \E i \in DOMAIN value :
           /\ Braced(value) = {i} /\ value[i].kind = "cipher"
           /\ value[i].key = key => DecryptPassword(value, key, FALSE) = Text(value[i].is)
           /\ value[i].key # key => FALSE /\ DecryptPassword(value, key, FALSE) = Garbage
    BY <2>1, Decrypted
  <2> QED BY <1>3, <2>2 DEF value, key
<1>5. MasterOf(file)[1].is = file.master[i].is
  <2>1. \A x : Text(x)[1].is = x
    BY DEF Text, Piece
  <2> QED BY <1>4, <2>1
<1>6. \A j \in DOMAIN file.master : file.master[j].kind = "cipher" => j = i
  BY <1>4 DEF Braced
<1>7. HeldBy(file) = {file.master[i].is}
  BY <1>4, <1>6 DEF HeldBy
<1> QED BY <1>2, <1>3, <1>5, <1>7

\* The master password that was loaded is the one of the file in force.
LEMMA MasterInForce ==
  ASSUME ConfigInv, stage = "repos", config.master # <<>>
  PROVE  MasterPasswords = {config.master[1].is}
<1> DEFINE first == FileAt(disk.files, SecurityPath)
           second == FileAt(disk.files, first.relocation)
           master == config.master
<1>1. master = LoadMasterPassword(disk.files, SecurityPath) /\ master # Failed
  BY DEF ConfigInv
<1>2. ASSUME NEW path PROVE FileAt(disk.files, path).kind \in Kinds
  <2>1. PICK x \in Situations : disk = x.disk
    BY DEF ConfigInv
  <2>2. CASE path \in DOMAIN disk.files
    <3>1. FileAt(disk.files, path) \in Range(x.disk.files)
      BY <2>1, <2>2 DEF FileAt, Range
    <3> QED BY <3>1, SituationsAssumption DEF Kinds
  <2>3. CASE path \notin DOMAIN disk.files
    BY <2>3 DEF FileAt, Kinds
  <2> QED BY <2>2, <2>3
<1>3. SecurityInForce = IF first.kind = "document" /\ first.master = <<>> THEN second ELSE first
  BY DEF SecurityInForce, SecurityPath
<1>4. first.kind \in Kinds /\ second.kind \in Kinds
  BY <1>2
<1>5. IF ~ Relocates(first) THEN master = MasterOf(first)
      ELSE ~ Relocates(second) /\ master = MasterOf(second)
  BY <1>1 DEF LoadMasterPassword
<1> HIDE DEF first, second, master
<1>6. ASSUME NEW file, SecurityInForce = file, file.kind = "document", HeldBy(file) = {master[1].is}
      PROVE  MasterPasswords = {master[1].is}
  BY <1>6 DEF MasterPasswords, HeldBy
<1>7. CASE ~ Relocates(first)
  <2>1. /\ first.kind = "document" /\ first.master # <<>>
        /\ HeldBy(first) = {master[1].is}
    BY <1>1, <1>4, <1>5, <1>7, MasterHeld DEF master
  <2> QED BY <1>3, <1>6, <2>1 DEF master
<1>8. CASE Relocates(first)
  <2>1. second.kind = "document" /\ HeldBy(second) = {master[1].is}
    BY <1>1, <1>4, <1>5, <1>8, MasterHeld DEF master
  <2>2. SecurityInForce = second
    BY <1>3, <1>8 DEF Relocates
  <2> QED BY <1>6, <2>1, <2>2 DEF master
<1> QED BY <1>7, <1>8

\* A password that was resolved went out as the one that was encrypted.
LEMMA ResolvedAsEncrypted ==
  ASSUME NEW value, IsText(value), NEW master,
         master # <<>> => MasterPasswords = {master[1].is},
         ResolvePassword(value, master, disk.lucky) # Failed
  PROVE  SentAsEncrypted(value, ResolvePassword(value, master, disk.lucky))
<1> DEFINE braced == Braced(value)
           sent == ResolvePassword(value, master, disk.lucky)
<1>1. braced \in SUBSET Nat
  BY DEF Braced, IsText
<1>2. braced # {} => Min(braced) \in braced /\ \A j \in braced : Min(braced) <= j
  BY <1>1, MinIsLeast
<1>3. IsEncrypted(value) <=> braced # {} /\ value[Min(braced)].kind # "escaped"
  <2>1. ASSUME NEW i \in braced, \A j \in braced : i <= j PROVE i = Min(braced)
    <3>1. Min(braced) \in braced /\ Min(braced) <= i
      BY <1>2
    <3>2. i <= Min(braced)
      BY <2>1, <3>1
    <3> HIDE DEF braced
    <3>3. i \in Nat /\ Min(braced) \in Nat
      BY <1>1, <3>1
    <3> QED BY <3>1, <3>2, <3>3
  <2> QED BY <1>2, <2>1 DEF IsEncrypted
<1>4. CASE ~ IsEncrypted(value)
  <2>1. sent = value
    BY <1>4 DEF ResolvePassword
  <2>2. braced # {} => value[Min(braced)].kind = "escaped"
    BY <1>3, <1>4
  <2> QED BY <2>1, <2>2 DEF SentAsEncrypted, Braced
<1>5. CASE IsEncrypted(value)
  <2>1. master # <<>> /\ sent = DecryptPassword(value, master[1].is, disk.lucky)
    BY <1>5 DEF ResolvePassword
  <2>2. PICK i \in DOMAIN value :
           /\ braced = {i} /\ value[i].kind = "cipher"
           /\ value[i].key = master[1].is => sent = Text(value[i].is)
           /\ value[i].key # master[1].is => disk.lucky /\ sent = Garbage
    BY <2>1, Decrypted
  <2>3. MasterPasswords = {master[1].is}
    BY <2>1
  <2>4. /\ i \in braced /\ braced = {i} /\ value[i].kind = "cipher"
        /\ IF value[i].key \in MasterPasswords THEN sent = Text(value[i].is)
           ELSE disk.lucky /\ sent = Garbage
    BY <2>2, <2>3
  <2>5. ~ (braced # {} => value[Min(braced)].kind = "escaped")
    BY <1>3, <1>5
  <2> HIDE DEF sent
  <2>6. SentAsEncrypted(value, sent)
    BY <2>4, <2>5 DEF SentAsEncrypted, Braced
  <2> QED BY <2>6 DEF sent
<1> QED BY <1>4, <1>5

\* The password for an id is that of the entry that the files have for it.
LEMMA PasswordOfEntry ==
  ASSUME NEW user, NEW global, user \in Seq(Range(user)), global \in Seq(Range(global)),
         NEW s, s.servers = Merge(user, global), NEW id, NEW props, NEW master, NEW lucky,
         NEW srv \in EntryOf(user, global, id)
  PROVE  /\ srv \in Range(s.servers)
         /\ Credentials(s, id, props, master, lucky).password
              = ResolvePassword(Interpolate(srv.password, props), master, lucky)
<1> DEFINE X == Range(user) \cup Range(global)
           list == Merge(user, global)
           first == FirstOf(IdsOf(list, id))
<1>1. user \in Seq(X) /\ global \in Seq(X)
  BY TwoLists
<1> HIDE DEF X
<1>2. list \in Seq(X)
  BY <1>1, MergeOrder
<1>3. first # 0 /\ srv = list[first]
  BY <1>1, MergedEntry
<1>4. first \in DOMAIN list
  <2>1. IdsOf(list, id) \in SUBSET (Nat \ {0})
    BY <1>2 DEF IdsOf
  <2> QED BY <1>3, <2>1, FirstOfIs DEF IdsOf
<1>5. SelectInSeq(s.servers, LAMBDA x : x.id = id) = first
  BY <1>2, FirstServer
<1>6. Credentials(s, id, props, master, lucky).password
        = ResolvePassword(Interpolate(list[first].password, props), master, lucky)
  BY <1>3, <1>5 DEF Credentials
<1> QED BY <1>3, <1>4, <1>6 DEF Range

LEMMA PasswordRight == ConfigInv => PasswordOfTarget
<1> SUFFICES ASSUME ConfigInv, stage = "repos", NEW i \in DOMAIN repos
             PROVE  LET id == IF opts.targets # <<>> THEN opts.targets[i].id
                              ELSE IF repos[i].mirrorID # "" THEN repos[i].mirrorID ELSE repos[i].id
                    IN \A srv \in EntryOf(Document(UserFile).servers,
                                          Document(GlobalFile).servers, id) :
                         SentAsEncrypted(Interpolate(srv.password, Props(config.settings)),
                                         repos[i].cred.password)
  BY DEF PasswordOfTarget
<1> DEFINE id == IF opts.targets # <<>> THEN opts.targets[i].id
                 ELSE IF repos[i].mirrorID # "" THEN repos[i].mirrorID ELSE repos[i].id
           user == Document(UserFile).servers
           global == Document(GlobalFile).servers
           s == config.settings
           props == Props(s)
<1>1. user \in Seq(Range(user)) /\ global \in Seq(Range(global))
      /\ s.servers = Merge(user, global)
  BY MergedLists DEF Listed, MergeSettings
<1>2. repos[i].cred = Credentials(s, id, props, config.master, disk.lucky)
  BY MergedLists, CredentialsLookup
<1>3. repos[i].cred.password # Failed
  BY DEF ConfigInv, Refuses
<1>4. TextProps(props) /\ \A srv \in Range(s.servers) : Signed(srv)
  BY PropsAreTexts DEF Readable, Texts
<1> HIDE DEF id, user, global, s, props
<1>5. ASSUME NEW srv \in EntryOf(user, global, id)
      PROVE  SentAsEncrypted(Interpolate(srv.password, props), repos[i].cred.password)
  <2> DEFINE value == Interpolate(srv.password, props)
  <2>1. srv \in Range(s.servers)
        /\ repos[i].cred.password = ResolvePassword(value, config.master, disk.lucky)
    BY <1>1, <1>2, PasswordOfEntry
  <2>2. IsText(srv.password)
    BY <1>4, <2>1 DEF Signed
  <2>3. IsText(value)
    <3>1. PICK pass : /\ \A n \in 0 .. MaxPasses : IsText(pass[n])
                      /\ value = pass[MaxPasses]
      BY <1>4, <2>2, InterpolateLoop
    <3>2. MaxPasses \in 0 .. MaxPasses
      BY DEF MaxPasses
    <3> QED BY <3>1, <3>2
  <2> HIDE DEF value
  <2>4. config.master # <<>> => MasterPasswords = {config.master[1].is}
    BY MasterInForce
  <2>5. SentAsEncrypted(value, ResolvePassword(value, config.master, disk.lucky))
    BY <1>3, <2>1, <2>3, <2>4, ResolvedAsEncrypted
  <2> QED BY <2>1, <2>5 DEF value
<1> QED BY <1>5 DEF id, user, global, s, props

\* Whatever the settings and the security files hold, through references, a
\* relocation and the user's entries over the global ones: the password that a
\* repository is sent was written unencrypted, or it is what the entry's value
\* was encrypted from, unless a wrong master password went unnoticed.
THEOREM PasswordsDecrypted == SessionSpec => []PasswordOfTarget
BY ConfigSafe, PasswordRight, PTL

-----------------------------------------------------------------------------
(* The command line.                                                       *)

\* Which tokens are the value of the flag before them, from left to right.
LEMMA ValueLoop ==
  ASSUME NEW T, NEW args \in Seq(T), NEW V
  PROVE  LET value == IsValue(args, V) IN
         /\ \A i \in 0 .. Len(args) : value[i] \in BOOLEAN
         /\ ~ value[0]
         /\ \A i \in 1 .. Len(args) :
              value[i] <=> i > 1 /\ ~ value[i - 1] /\ Takes(args[i - 1], V)
<1> DEFINE N == Len(args)
           D == BOOLEAN
           Next_(v, i) == i > 1 /\ ~ v /\ Takes(args[i - 1], V)
           step == [n \in 1 .. N |-> [v \in D |-> Next_(v, n)]]
           Of(out) == out = [i \in 0 .. N |-> i > 1 /\ ~ out[i - 1] /\ Takes(args[i - 1], V)]
           value == CHOOSE out : Of(out)
<1>1. N \in Nat /\ FALSE \in D
  OBVIOUS
<1>2. \A n \in 1 .. N, v \in D : Next_(v, n) \in D
  OBVIOUS
<1>3. IsValue(args, V) = value
  BY Zenon DEF IsValue
<1> HIDE DEF N, D, Next_
<1>4. /\ step \in [1 .. N -> [D -> D]]
      /\ \A n \in 1 .. N, v \in D : step[n][v] = Next_(v, n)
  BY <1>2
<1> HIDE DEF step
<1>5. PICK f \in [0 .. N -> D] : Values(f, N, FALSE, step)
  BY <1>1, <1>4, LoopValues
<1>6. f[0] = FALSE /\ \A n \in 1 .. N : f[n] = Next_(f[n - 1], n)
  BY <1>1, <1>4, <1>5 DEF Values
<1>7. Of(value)
  <2>1. \A i \in 0 .. N : f[i] = (i > 1 /\ ~ f[i - 1] /\ Takes(args[i - 1], V))
    <3>1. ASSUME NEW i \in 1 .. N PROVE f[i] = (i > 1 /\ ~ f[i - 1] /\ Takes(args[i - 1], V))
      BY <1>6 DEF Next_
    <3>2. f[0] = (0 > 1 /\ ~ f[0 - 1] /\ Takes(args[0 - 1], V))
      <4>1. ~ (0 > 1)
        OBVIOUS
      <4> QED BY <1>6, <4>1, Zenon
    <3> QED BY <1>1, <3>1, <3>2
  <2>2. Of(f)
    BY <1>5, <2>1
  <2> HIDE DEF Of
  <2> QED BY <2>2
<1> HIDE DEF value
<1>8. \A i \in 0 .. N : value[i] = (i > 1 /\ ~ value[i - 1] /\ Takes(args[i - 1], V))
  BY <1>7
<1>9. /\ \A i \in 0 .. N : value[i] \in BOOLEAN
      /\ ~ value[0]
      /\ \A i \in 1 .. N : value[i] <=> i > 1 /\ ~ value[i - 1] /\ Takes(args[i - 1], V)
  <2>1. 0 \in 0 .. N /\ ~ (0 > 1)
    BY <1>1
  <2>2. \A i \in 0 .. N : value[i] \in BOOLEAN
    BY <1>8
  <2>3. ~ value[0]
    BY <1>8, <2>1
  <2> QED BY <1>1, <1>8, <2>2, <2>3
<1> QED BY <1>3, <1>9 DEF N

\* A drawing goes from left to right.
Rising(src, m, n) ==
  \A k, l \in 1 .. m : /\ src[k] \in 1 .. n
                       /\ k < l => src[k] < src[l]
                       /\ src[k] = src[l] => k = l

LEMMA DrawnInOrder ==
  ASSUME NEW T, NEW args, NEW marks, NEW n \in Nat, NEW out \in Seq(T), NEW src,
         Drawn(args, marks, n, out, src)
  PROVE  Rising(src, Len(out), n)
<1>1. \A k \in 1 .. Len(out) : src[k] \in 1 .. n
  BY DEF Drawn
<1>2. ASSUME NEW k \in 1 .. Len(out), NEW l \in 1 .. Len(out), k < l PROVE src[k] < src[l]
  <2>1. k \in 1 .. l - 1
    BY <1>2
  <2> QED BY <2>1 DEF Drawn
<1>3. \A k, l \in 1 .. Len(out) : src[k] \in Nat /\ src[l] \in Nat /\ (k < l \/ l < k \/ k = l)
  BY <1>1
<1>4. ASSUME NEW k \in 1 .. Len(out), NEW l \in 1 .. Len(out), src[k] = src[l] PROVE k = l
  <2>1. ~ (k < l) /\ ~ (l < k)
    BY <1>1, <1>2, <1>4
  <2> QED BY <1>3, <2>1
<1> QED BY <1>1, <1>2, <1>4 DEF Rising

\* Before a value, and after a flag that takes one, the drawn tokens are
\* neighbours on the line.
LEMMA Neighbours ==
  ASSUME NEW T, NEW args \in Seq(T), NEW V, NEW F \in Seq(T), NEW src,
         Drawn(args, InFront(args, V), Len(args), F, src), NEW k \in 1 .. Len(F)
  PROVE  LET W == IsValue(args, V) IN
         /\ W[src[k]] => /\ k > 1 /\ src[k - 1] + 1 = src[k]
                         /\ ~ W[src[k - 1]] /\ Takes(args[src[k - 1]], V)
         /\ ~ W[src[k]] /\ Takes(args[src[k]], V) /\ src[k] < Len(args) =>
              k < Len(F) /\ src[k + 1] = src[k] + 1 /\ W[src[k + 1]]
<1> DEFINE W == IsValue(args, V)
           N == Len(args)
           M == Len(F)
<1>1. N \in Nat /\ M \in Nat /\ DOMAIN args = 1 .. N
  OBVIOUS
<1>2. \A i \in 1 .. N : W[i] <=> i > 1 /\ ~ W[i - 1] /\ Takes(args[i - 1], V)
  BY ValueLoop
<1>3. \A i \in 1 .. N : InFront(args, V)[i] <=> IsFlag(args[i]) \/ W[i]
  BY <1>1 DEF InFront
<1>4. \A i \in 1 .. N : IsFlag(args[i]) \/ W[i] => \E l \in 1 .. M : src[l] = i
  BY <1>3 DEF Drawn
<1>5. \A i, l \in 1 .. M : src[i] \in 1 .. N /\ (i < l => src[i] < src[l]) /\ (src[i] = src[l] => i = l)
  <2> DEFINE marks == InFront(args, V)
  <2>1. Drawn(args, marks, N, F, src)
    OBVIOUS
  <2> HIDE DEF marks, N, W
  <2>2. Rising(src, Len(F), N)
    BY <1>1, <2>1, DrawnInOrder
  <2> QED BY <2>2 DEF Rising
<1> HIDE DEF W, N, M
<1>6. ASSUME NEW l \in 1 .. M, W[src[l]]
      PROVE  l > 1 /\ src[l - 1] + 1 = src[l] /\ ~ W[src[l - 1]] /\ Takes(args[src[l - 1]], V)
  <2> DEFINE j == src[l] - 1
  <2>1. src[l] \in 1 .. N /\ j \in 1 .. N /\ ~ W[j] /\ Takes(args[j], V) /\ j + 1 = src[l]
    <3>1. src[l] \in 1 .. N
      BY <1>5
    <3>2. src[l] > 1 /\ ~ W[j] /\ Takes(args[j], V)
      BY <1>2, <1>6, <3>1, Zenon DEF j
    <3>3. j \in 1 .. N /\ j + 1 = src[l]
      BY <1>1, <3>1, <3>2
    <3> QED BY <3>1, <3>2, <3>3
  <2> HIDE DEF j
  <2>2. PICK m \in 1 .. M : src[m] = j
    BY <1>4, <2>1 DEF Takes, IsFlag
  <2>3. m < l
    <3>1. l < m => src[l] < src[m]
      BY <1>5
    <3>2. l # m
      BY <2>1, <2>2
    <3> QED BY <2>1, <2>2, <3>1, <3>2
  <2>4. m = l - 1
    <3>1. SUFFICES ASSUME m # l - 1 PROVE FALSE
      OBVIOUS
    <3>2. l - 1 \in 1 .. M /\ m < l - 1 /\ l - 1 < l
      BY <1>1, <2>3, <3>1
    <3>3. src[m] < src[l - 1] /\ src[l - 1] < src[l] /\ src[l - 1] \in Nat
      BY <1>5, <3>2
    <3> QED BY <2>1, <2>2, <3>3
  <2> QED BY <2>1, <2>2, <2>3, <2>4
<1>7. ASSUME ~ W[src[k]], Takes(args[src[k]], V), src[k] < N
      PROVE  k < M /\ src[k + 1] = src[k] + 1 /\ W[src[k + 1]]
  <2> DEFINE j == src[k] + 1
  <2>1. k \in 1 .. M /\ src[k] \in 1 .. N
    BY <1>5 DEF M
  <2>2. j \in 1 .. N /\ j > 1 /\ j - 1 = src[k]
    BY <1>1, <1>7, <2>1
  <2>3. W[j]
    <3> HIDE DEF j
    <3> QED BY <1>2, <1>7, <2>2
  <2> HIDE DEF j
  <2>4. PICK l \in 1 .. M : src[l] = j
    BY <1>4, <2>2, <2>3
  <2>5. l > 1 /\ src[l - 1] + 1 = src[l]
    BY <1>6, <2>3, <2>4
  <2>6. l - 1 \in 1 .. M /\ src[l - 1] \in 1 .. N
    BY <1>1, <1>5, <2>5
  <2>7. src[l - 1] = src[k]
    BY <2>1, <2>2, <2>4, <2>5, <2>6
  <2>8. l - 1 = k
    BY <1>5, <2>1, <2>6, <2>7
  <2>9. l = k + 1 /\ k < M
    BY <1>1, <2>1, <2>5, <2>8
  <2> QED BY <2>2, <2>3, <2>4, <2>9 DEF j
<1> QED BY <1>6, <1>7 DEF W, N, M

\* The flags and values of the line, up to where the arguments begin.
StartsWith(G, F) == Len(F) <= Len(G) /\ \A k \in 1 .. Len(F) : G[k] = F[k]

\* What is a value on the line is one in front too.
LEMMA SameValuesInFront ==
  ASSUME NEW T, NEW args \in Seq(T), NEW V, NEW F \in Seq(T), NEW src,
         Drawn(args, InFront(args, V), Len(args), F, src), NEW G \in Seq(T), StartsWith(G, F)
  PROVE  \A k \in 1 .. Len(F) : IsValue(G, V)[k] <=> IsValue(args, V)[src[k]]
<1> DEFINE W == IsValue(args, V)
           U == IsValue(G, V)
           N == Len(args)
           M == Len(F)
           S == {n \in 0 .. M : n = 0 \/ (U[n] <=> W[src[n]])}
<1>1. N \in Nat /\ M \in Nat /\ Len(G) \in Nat /\ M <= Len(G)
  BY DEF StartsWith
<1>2. \A i \in 1 .. M : U[i] <=> i > 1 /\ ~ U[i - 1] /\ Takes(G[i - 1], V)
  <2>1. \A i \in 1 .. M : i \in 1 .. Len(G)
    BY <1>1
  <2> QED BY <2>1, ValueLoop
<1>3. \A k \in 1 .. M : /\ src[k] \in 1 .. N /\ G[k] = args[src[k]]
                        /\ \A i \in 1 .. k - 1 : src[i] < src[k]
  BY DEF Drawn, StartsWith
<1>4. \A k \in 1 .. M :
         /\ W[src[k]] => k > 1 /\ ~ W[src[k - 1]] /\ Takes(args[src[k - 1]], V)
         /\ ~ W[src[k]] /\ Takes(args[src[k]], V) /\ src[k] < N => W[src[k + 1]]
  BY Neighbours
<1> HIDE DEF W, U, N, M
<1>5. 0 \in S
  BY <1>1
<1>6. ASSUME NEW n \in 1 .. M, n - 1 \in S PROVE n \in S
  <2>1. CASE n = 1
    <3>1. ~ U[n] /\ ~ W[src[n]]
      BY <1>2, <1>4, <2>1
    <3> QED BY <1>1, <3>1
  <2>2. CASE n > 1
    <3>1. n - 1 \in 1 .. M /\ n - 1 # 0 /\ n - 1 + 1 = n /\ n - 1 \in 1 .. n - 1
      BY <1>1, <2>2
    <3>2. U[n - 1] <=> W[src[n - 1]]
      BY <1>6, <3>1
    <3>3. G[n - 1] = args[src[n - 1]] /\ src[n - 1] < src[n]
          /\ src[n] \in 1 .. N /\ src[n - 1] \in 1 .. N
      BY <1>3, <3>1
    <3>4. src[n - 1] < N
      BY <1>1, <3>3
    <3>5. U[n] <=> ~ W[src[n - 1]] /\ Takes(args[src[n - 1]], V)
      BY <1>2, <2>2, <3>2, <3>3
    <3>6. W[src[n]] => ~ W[src[n - 1]] /\ Takes(args[src[n - 1]], V)
      BY <1>4
    <3>7. ~ W[src[n - 1]] /\ Takes(args[src[n - 1]], V) => W[src[n]]
      <4>1. ~ W[src[n - 1]] /\ Takes(args[src[n - 1]], V) => W[src[n - 1 + 1]]
        BY <1>4, <3>1, <3>4
      <4> QED BY <3>1, <4>1
    <3>8. U[n] <=> W[src[n]]
      BY <3>5, <3>6, <3>7
    <3> QED BY <1>1, <3>8
  <2> QED BY <1>1, <2>1, <2>2
<1>7. \A n \in 0 .. M : n \in S
  <2>1. Inductive(S, M)
    <3> HIDE DEF S
    <3> QED BY <1>5, <1>6 DEF Inductive
  <2> HIDE DEF S
  <2> QED BY <1>1, <2>1, LoopInduction
<1>8. \A k \in 1 .. M : k \in 0 .. M /\ k # 0
  BY <1>1
<1> QED BY <1>7, <1>8 DEF W, U, M

Gives(args, V, i) == IF Takes(args[i], V) THEN args[i + 1] ELSE args[i]

\* What a reading makes of the flags that it finds, and of the arguments.
Outcome(args, V, flags, rest) ==
  [ok |-> TRUE,
   flags |-> [f \in {args[i].name : i \in flags} |->
                Gives(args, V, Max({i \in flags : args[i].name = f}))],
   args |-> rest]

\* Where the flag package stops, and the flags before.
EndOf(args, V) ==
  Min({i \in 1 .. Len(args) + 1 :
         i = Len(args) + 1 \/ ~ (IsFlag(args[i]) \/ IsValue(args, V)[i])})
FlagsOf(args, V) == {i \in 1 .. EndOf(args, V) - 1 : ~ IsValue(args, V)[i]}
OwnOf(args, V) == {i \in DOMAIN args : IsFlag(args[i]) /\ ~ IsValue(args, V)[i]}

NoDash(args) == \A i \in DOMAIN args : args[i].kind # "dash"

\* The flag package's own account of it, by the kinds of the tokens.
StopOf(args, V) ==
  Min({i \in 1 .. Len(args) + 1 :
         i = Len(args) + 1 \/ ~ (args[i].kind \in {"flag", "flag="} \/ IsValue(args, V)[i])})
BeforeStop(args, V) == {i \in 1 .. StopOf(args, V) - 1 : ~ IsValue(args, V)[i]}
RestOf(args, V) ==
  IF StopOf(args, V) <= Len(args) /\ args[StopOf(args, V)] = Dash("--")
  THEN StopOf(args, V) + 1 ELSE StopOf(args, V)

LEMMA ParseShape ==
  ASSUME NEW args, NEW V, NEW B
  PROVE  FlagSetParse(args, V, B) =
           IF \E i \in BeforeStop(args, V) : \/ args[i].name \notin V \cup B
                                             \/ Takes(args[i], V) /\ i = Len(args)
           THEN [ok |-> FALSE]
           ELSE Outcome(args, V, BeforeStop(args, V), SubSeq(args, RestOf(args, V), Len(args)))
BY Zenon DEF FlagSetParse, BeforeStop, StopOf, RestOf, Outcome, Gives, IsValue, Takes

LEMMA StopIsEnd ==
  ASSUME NEW T, NEW args \in Seq(T), NEW V, NoDash(args)
  PROVE  StopOf(args, V) = EndOf(args, V) /\ RestOf(args, V) = EndOf(args, V)
<1> DEFINE U == IsValue(args, V)
           S == {i \in 1 .. Len(args) + 1 :
                   i = Len(args) + 1 \/ ~ (args[i].kind \in {"flag", "flag="} \/ U[i])}
           E == {i \in 1 .. Len(args) + 1 : i = Len(args) + 1 \/ ~ (IsFlag(args[i]) \/ U[i])}
<1>1. Len(args) \in Nat /\ DOMAIN args = 1 .. Len(args)
  OBVIOUS
<1>2. StopOf(args, V) = Min(S) /\ EndOf(args, V) = Min(E)
  BY Zenon DEF StopOf, EndOf
<1> HIDE DEF U
<1>3. \A i \in 1 .. Len(args) : IsFlag(args[i]) <=> args[i].kind \in {"flag", "flag="}
  BY <1>1 DEF IsFlag, NoDash
<1>4. S = E
  <2>1. \A i \in 1 .. Len(args) + 1 : i = Len(args) + 1 \/ i \in 1 .. Len(args)
    BY <1>1
  <2> QED BY <1>3, <2>1
<1>5. E \in SUBSET Nat /\ Len(args) + 1 \in E
  BY <1>1
<1> HIDE DEF S, E
<1>6. Min(E) \in Nat /\ Min(E) \in E
  BY <1>5, MinIsLeast
<1>7. Min(E) <= Len(args) => args[Min(E)] # Dash("--")
  <2>1. Min(E) <= Len(args) => Min(E) \in DOMAIN args
    BY <1>1, <1>6 DEF E
  <2>2. Dash("--").kind = "dash"
    BY DEF Dash, Token
  <2> QED BY <2>1, <2>2 DEF NoDash
<1> QED BY <1>2, <1>4, <1>7 DEF RestOf

LEMMA ParseIs ==
  ASSUME NEW T, NEW args \in Seq(T), NEW V, NEW B, NoDash(args)
  PROVE  FlagSetParse(args, V, B) =
           IF \E i \in FlagsOf(args, V) : \/ args[i].name \notin V \cup B
                                          \/ Takes(args[i], V) /\ i = Len(args)
           THEN [ok |-> FALSE]
           ELSE Outcome(args, V, FlagsOf(args, V), SubSeq(args, EndOf(args, V), Len(args)))
<1>1. StopOf(args, V) = EndOf(args, V) /\ RestOf(args, V) = EndOf(args, V)
  BY StopIsEnd
<1>2. BeforeStop(args, V) = FlagsOf(args, V)
  BY <1>1, Zenon DEF BeforeStop, FlagsOf
<1> QED BY <1>1, <1>2, ParseShape

LEMMA ReadIs ==
  ASSUME NEW args, NEW V, NEW B
  PROVE  ReadAnywhere(args, V, B) =
           IF \E i \in OwnOf(args, V) : args[i].name \notin V \cup B THEN [ok |-> FALSE]
           ELSE Outcome(args, V, OwnOf(args, V), Marked(args, Behind(args, V)))
BY Zenon DEF ReadAnywhere, OwnOf, Outcome, Gives

\* The greatest of some drawn numbers comes from the greatest place.
LEMMA MaxDrawn ==
  ASSUME NEW m \in Nat, NEW n \in Nat, NEW src, Rising(src, m, n),
         NEW K \in SUBSET (1 .. m), K # {}
  PROVE  Max(K) \in K /\ Max({src[k] : k \in K}) = src[Max(K)]
<1> DEFINE I == {src[k] : k \in K}
<1>1. Max(K) \in K /\ \A k \in K : k <= Max(K)
  <2>1. K \in SUBSET (0 .. m)
    OBVIOUS
  <2> QED BY <2>1, MaxIsGreatest
<1>2. \A k \in K : src[k] \in 1 .. n
  BY DEF Rising
<1>3. Max(I) \in I /\ \A i \in I : i <= Max(I)
  <2>1. \A i \in I : i \in 0 .. n
    <3>1. \A k \in K : src[k] \in 0 .. n
      BY <1>2
    <3> QED BY <3>1
  <2>2. I # {}
    OBVIOUS
  <2> HIDE DEF I
  <2>3. I \in SUBSET (0 .. n)
    BY <2>1
  <2> QED BY <2>2, <2>3, MaxIsGreatest
<1>4. PICK k \in K : src[k] = Max(I)
  BY <1>3
<1> DEFINE l == Max(K)
<1>5. src[l] <= Max(I)
  BY <1>1, <1>3
<1>6. k \in 1 .. m /\ l \in 1 .. m /\ k <= l
  BY <1>1
<1> HIDE DEF l, I
<1>7. k < l \/ k = l
  BY <1>6
<1>8. k < l => src[k] < src[l]
  BY <1>6 DEF Rising
<1>9. src[k] \in Nat /\ src[l] \in Nat
  BY <1>6 DEF Rising
<1>10. k = l
  BY <1>4, <1>5, <1>7, <1>8, <1>9
<1> QED BY <1>1, <1>4, <1>10 DEF l, I

\* What both readings find of a line is the same, its flags being drawn.
SameFlags(G, args, V, flags, own, src) ==
  /\ own = {src[k] : k \in flags}
  /\ \A k \in flags : G[k] = args[src[k]] /\ Gives(G, V, k) = Gives(args, V, src[k])

LEMMA SameOutcome ==
  ASSUME NEW m \in Nat, NEW n \in Nat, NEW src, Rising(src, m, n),
         NEW G, NEW args, NEW V, NEW flags \in SUBSET (1 .. m), NEW own,
         SameFlags(G, args, V, flags, own, src), NEW rest
  PROVE  Outcome(G, V, flags, rest) = Outcome(args, V, own, rest)
<1> DEFINE K(f) == {k \in flags : G[k].name = f}
           I(f) == {i \in own : args[i].name = f}
           names == {G[k].name : k \in flags}
<1>1. names = {args[i].name : i \in own}
  BY DEF SameFlags
<1>2. ASSUME NEW f \in names PROVE Gives(G, V, Max(K(f))) = Gives(args, V, Max(I(f)))
  <2>1. I(f) = {src[k] : k \in K(f)}
    BY DEF SameFlags
  <2>2. K(f) \in SUBSET (1 .. m) /\ K(f) # {}
    OBVIOUS
  <2>3. K(f) \subseteq flags
    OBVIOUS
  <2> HIDE DEF K, I
  <2>4. Max(K(f)) \in K(f) /\ Max(I(f)) = src[Max(K(f))]
    BY <2>1, <2>2, MaxDrawn
  <2> QED BY <2>3, <2>4 DEF SameFlags
<1>3. [f \in names |-> Gives(G, V, Max(K(f)))]
        = [f \in {args[i].name : i \in own} |-> Gives(args, V, Max(I(f)))]
  <2> HIDE DEF names, K, I
  <2>1. [f \in names |-> Gives(G, V, Max(K(f)))] = [f \in names |-> Gives(args, V, Max(I(f)))]
    BY <1>2
  <2> QED BY <1>1, <2>1 DEF names
<1> QED BY <1>3, Zenon DEF Outcome

\* Where flags and values end, on a line that has them in front.
Leading(G, V, m) ==
  /\ m <= Len(G)
  /\ \A k \in 1 .. m : IsFlag(G[k]) \/ IsValue(G, V)[k]
  /\ m < Len(G) => ~ IsFlag(G[m + 1]) /\ ~ IsValue(G, V)[m + 1]

LEMMA EndInFront ==
  ASSUME NEW T, NEW G \in Seq(T), NEW V, NEW m \in Nat, Leading(G, V, m)
  PROVE  EndOf(G, V) = m + 1
<1> DEFINE U == IsValue(G, V)
           L == Len(G)
           S == {i \in 1 .. L + 1 : i = L + 1 \/ ~ (IsFlag(G[i]) \/ U[i])}
<1>1. L \in Nat
  OBVIOUS
<1>2. EndOf(G, V) = Min(S)
  BY Zenon DEF EndOf
<1> HIDE DEF U, L
<1>3. m + 1 \in S
  <2>1. m + 1 \in 1 .. L + 1
    BY <1>1 DEF L, Leading
  <2>2. m = L \/ m < L
    BY <1>1 DEF L, Leading
  <2>3. m + 1 = L + 1 \/ ~ (IsFlag(G[m + 1]) \/ U[m + 1])
    BY <2>2, Zenon DEF U, L, Leading
  <2> QED BY <2>1, <2>3
<1>4. \A i \in S : i >= m + 1
  <2>1. SUFFICES ASSUME NEW i \in S, i < m + 1 PROVE FALSE
    BY <1>1
  <2>2. i \in 1 .. m /\ i # L + 1
    BY <1>1, <2>1 DEF L, Leading
  <2>3. IsFlag(G[i]) \/ U[i]
    BY <2>2 DEF U, Leading
  <2> QED BY <2>2, <2>3
<1>5. S \in SUBSET Nat
  BY <1>1
<1> HIDE DEF S
<1>6. Min(S) \in S /\ \A i \in S : Min(S) <= i
  BY <1>3, <1>5, MinIsLeast
<1>7. Min(S) <= m + 1 /\ Min(S) >= m + 1 /\ Min(S) \in Nat
  BY <1>3, <1>4, <1>5, <1>6
<1> QED BY <1>2, <1>7

\* How the flags that are put in front stand to their places on the line.
LEMMA FlagsInFront ==
  ASSUME NEW T, NEW args \in Seq(T), NEW V, ~ EndsInFlag(args, V), NEW F \in Seq(T), NEW src,
         Drawn(args, InFront(args, V), Len(args), F, src), NEW G \in Seq(T), StartsWith(G, F),
         NEW k \in 1 .. Len(F)
  PROVE  /\ G[k] = args[src[k]] /\ src[k] \in DOMAIN args
         /\ IsFlag(G[k]) \/ IsValue(G, V)[k]
         /\ IsValue(G, V)[k] <=> IsValue(args, V)[src[k]]
         /\ ~ IsValue(G, V)[k] => Gives(G, V, k) = Gives(args, V, src[k])
         /\ ~ IsValue(G, V)[k] /\ Takes(G[k], V) => k < Len(F)
<1> DEFINE W == IsValue(args, V)
           U == IsValue(G, V)
           N == Len(args)
           M == Len(F)
<1>1. N \in Nat /\ M \in Nat /\ Len(G) \in Nat /\ M <= Len(G) /\ DOMAIN args = 1 .. N
  BY DEF StartsWith
<1>2. G[k] = F[k] /\ F[k] = args[src[k]] /\ src[k] \in 1 .. N /\ InFront(args, V)[src[k]]
  BY DEF StartsWith, Drawn
<1>3. IsFlag(args[src[k]]) \/ W[src[k]]
  BY <1>1, <1>2 DEF InFront
<1>4. U[k] <=> W[src[k]]
  BY SameValuesInFront
<1>5. ASSUME ~ U[k], Takes(G[k], V)
      PROVE  k < M /\ args[src[k] + 1] = G[k + 1]
  <2>1. ~ W[src[k]] /\ Takes(args[src[k]], V)
    BY <1>2, <1>4, <1>5
  <2>2. src[k] # N
    <3>1. SUFFICES ASSUME src[k] = N PROVE FALSE
      OBVIOUS
    <3>2. args # <<>> /\ Last(args) = args[N]
      BY <1>1, <1>2 DEF Last
    <3>3. ~ W[N] /\ Takes(Last(args), V)
      BY <2>1, <3>1, <3>2
    <3> QED BY <3>2, <3>3, Zenon DEF EndsInFlag
  <2>3. src[k] < N
    BY <1>1, <1>2, <2>2
  <2>4. k < M /\ src[k + 1] = src[k] + 1
    BY <2>1, <2>3, Neighbours
  <2>5. k + 1 \in 1 .. M
    BY <1>1, <2>4
  <2>6. G[k + 1] = F[k + 1] /\ F[k + 1] = args[src[k + 1]]
    BY <2>5 DEF StartsWith, Drawn
  <2> QED BY <2>4, <2>6
<1> HIDE DEF W, U
<1>6. ASSUME ~ U[k] PROVE Gives(G, V, k) = Gives(args, V, src[k])
  BY <1>2, <1>5, <1>6 DEF Gives
<1>7. /\ G[k] = args[src[k]] /\ src[k] \in DOMAIN args
      /\ IsFlag(G[k]) \/ U[k]
  BY <1>1, <1>2, <1>3, <1>4
<1>8. ~ U[k] /\ Takes(G[k], V) => k < M
  BY <1>5
<1> QED BY <1>4, <1>6, <1>7, <1>8 DEF W, U

LEMMA ReadsAnywhere ==
  ASSUME NEW T, NEW args \in Seq(T), NEW V, NEW B, ~ EndsInFlag(args, V),
         \A t \in T : t.kind # "dash"
  PROVE  FlagSetParse(ReorderArgs(args, V), V, B) = ReadAnywhere(args, V, B)
<1> DEFINE W == IsValue(args, V)
           N == Len(args)
           F == Marked(args, InFront(args, V))
           P == Marked(args, Behind(args, V))
           G == F \o P
           M == Len(F)
           flags == FlagsOf(G, V)
           own == OwnOf(args, V)
<1>1. N \in Nat /\ DOMAIN args = 1 .. N
  OBVIOUS
<1>2. F \in Seq(T) /\ \E src : Drawn(args, InFront(args, V), N, F, src)
  <2> DEFINE marks == InFront(args, V)
  <2> HIDE DEF marks
  <2>1. Marked(args, marks) \in Seq(T) /\ \E src : Drawn(args, marks, N, Marked(args, marks), src)
    BY MarkedAre
  <2> QED BY <2>1 DEF marks
<1>3. P \in Seq(T) /\ \E from : Drawn(args, Behind(args, V), N, P, from)
  <2> DEFINE marks == Behind(args, V)
  <2> HIDE DEF marks
  <2>1. Marked(args, marks) \in Seq(T) /\ \E src : Drawn(args, marks, N, Marked(args, marks), src)
    BY MarkedAre
  <2> QED BY <2>1 DEF marks
<1>4. ReorderArgs(args, V) = G
  BY DEF ReorderArgs
<1>5. PICK src : Drawn(args, InFront(args, V), N, F, src)
  BY <1>2
<1>6. PICK from : Drawn(args, Behind(args, V), N, P, from)
  BY <1>3
<1>7. ReadAnywhere(args, V, B) =
        IF \E i \in own : args[i].name \notin V \cup B THEN [ok |-> FALSE]
        ELSE Outcome(args, V, own, P)
  BY ReadIs
<1> HIDE DEF F, P
<1>8. /\ G \in Seq(T) /\ StartsWith(G, F) /\ M \in Nat /\ Len(P) \in Nat /\ Len(G) = M + Len(P)
      /\ SubSeq(G, M + 1, Len(G)) = P
      /\ \A k \in 1 .. Len(P) : G[M + k] = P[k]
  <2>1. G \in Seq(T) /\ M \in Nat /\ Len(P) \in Nat /\ Len(G) = M + Len(P)
    BY <1>2, <1>3
  <2>2. (\A k \in 1 .. M : G[k] = F[k]) /\ \A k \in 1 .. Len(P) : G[M + k] = P[k]
    BY <1>2, <1>3
  <2>3. SubSeq(G, M + 1, Len(G)) = P
    BY <1>2, <1>3
  <2>4. StartsWith(G, F)
    BY <2>1, <2>2 DEF StartsWith
  <2> QED BY <2>1, <2>2, <2>3, <2>4
<1> DEFINE U == IsValue(G, V)
<1> HIDE DEF G
<1>9. \A k \in 1 .. M :
         /\ G[k] = args[src[k]] /\ src[k] \in DOMAIN args
         /\ IsFlag(G[k]) \/ U[k]
         /\ U[k] <=> W[src[k]]
         /\ ~ U[k] => Gives(G, V, k) = Gives(args, V, src[k])
         /\ ~ U[k] /\ Takes(G[k], V) => k < M
  BY <1>2, <1>5, <1>8, FlagsInFront DEF N
<1>10. ASSUME M < Len(G) PROVE ~ IsFlag(G[M + 1]) /\ ~ U[M + 1]
  <2>1. 1 \in 1 .. Len(P) /\ M + 1 \in 1 .. Len(G) /\ M + 1 - 1 = M
    BY <1>8, <1>10
  <2>2. G[M + 1] = P[1] /\ from[1] \in 1 .. N /\ Behind(args, V)[from[1]] /\ P[1] = args[from[1]]
    BY <1>6, <1>8, <2>1 DEF Drawn
  <2>3. ~ InFront(args, V)[from[1]]
    BY <1>1, <2>2 DEF Behind
  <2>4. ~ IsFlag(args[from[1]])
    BY <1>1, <2>2, <2>3 DEF InFront
  <2>5. U[M + 1] => M + 1 > 1 /\ ~ U[M] /\ Takes(G[M], V)
    <3>1. \A i \in 1 .. Len(G) : U[i] <=> i > 1 /\ ~ U[i - 1] /\ Takes(G[i - 1], V)
      BY <1>8, ValueLoop
    <3> HIDE DEF U
    <3>2. U[M + 1] => M + 1 > 1 /\ ~ U[M + 1 - 1] /\ Takes(G[M + 1 - 1], V)
      BY <2>1, <3>1
    <3> QED BY <2>1, <3>2
  <2> HIDE DEF U, W
  <2>6. ~ U[M + 1]
    <3>1. SUFFICES ASSUME M + 1 > 1, ~ U[M], Takes(G[M], V) PROVE FALSE
      BY <2>5
    <3>2. M \in 1 .. M
      BY <1>8, <3>1
    <3>3. M < M
      BY <1>9, <3>1, <3>2
    <3> QED BY <1>8, <3>3
  <2> QED BY <2>2, <2>4, <2>6
<1>11. EndOf(G, V) = M + 1
  <2>1. M <= Len(G)
    BY <1>8
  <2>2. \A k \in 1 .. M : IsFlag(G[k]) \/ U[k]
    BY <1>9
  <2>3. Leading(G, V, M)
    BY <1>10, <2>1, <2>2 DEF Leading
  <2> QED BY <1>8, <2>3, EndInFront
<1> HIDE DEF W, U, N, M
<1>12. flags = {k \in 1 .. M : ~ U[k]}
  <2>1. EndOf(G, V) - 1 = M
    <3> DEFINE end == EndOf(G, V)
    <3> HIDE DEF end
    <3>1. end = M + 1 /\ M \in Nat
      BY <1>8, <1>11 DEF end
    <3>2. end - 1 = M
      BY <3>1
    <3> QED BY <3>2 DEF end
  <2>2. flags = {k \in 1 .. EndOf(G, V) - 1 : ~ U[k]}
    BY Zenon DEF FlagsOf, U
  <2> HIDE DEF flags
  <2>3. 1 .. EndOf(G, V) - 1 = 1 .. M
    BY <2>1
  <2> QED BY <2>2, <2>3, Zenon
<1>13. own = {i \in 1 .. N : IsFlag(args[i]) /\ ~ W[i]}
  BY <1>1 DEF OwnOf, W
<1> HIDE DEF flags, own
<1>14. own = {src[k] : k \in flags}
  <2>1. ASSUME NEW i \in own PROVE \E k \in flags : src[k] = i
    <3>1. i \in 1 .. N /\ IsFlag(args[i]) /\ ~ W[i]
      BY <1>13
    <3>2. InFront(args, V)[i]
      BY <1>1, <3>1 DEF InFront
    <3>3. PICK k \in 1 .. M : src[k] = i
      BY <1>5, <3>1, <3>2 DEF Drawn, M
    <3> QED BY <1>9, <1>12, <3>1, <3>3
  <2>2. ASSUME NEW k \in flags PROVE src[k] \in own
    <3>1. k \in 1 .. M /\ ~ U[k]
      BY <1>12
    <3>2. src[k] \in 1 .. N /\ IsFlag(args[src[k]]) /\ ~ W[src[k]]
      BY <1>1, <1>9, <3>1
    <3> QED BY <1>13, <3>2
  <2> QED BY <2>1, <2>2
<1>15. SameFlags(G, args, V, flags, own, src)
  BY <1>9, <1>12, <1>14 DEF SameFlags
<1>16. Outcome(G, V, flags, P) = Outcome(args, V, own, P)
  <2>1. Rising(src, M, N)
    <3> DEFINE marks == InFront(args, V)
    <3>1. Drawn(args, marks, N, F, src)
      BY <1>5
    <3> HIDE DEF marks
    <3> QED BY <1>1, <1>2, <3>1, DrawnInOrder DEF M
  <2>2. flags \in SUBSET (1 .. M)
    BY <1>12
  <2> QED BY <1>1, <1>8, <1>15, <2>1, <2>2, SameOutcome
<1>17. (\E i \in flags : \/ G[i].name \notin V \cup B
                         \/ Takes(G[i], V) /\ i = Len(G))
         <=> \E i \in own : args[i].name \notin V \cup B
  <2>1. ASSUME NEW k \in flags PROVE ~ (Takes(G[k], V) /\ k = Len(G))
    <3>1. k \in 1 .. M /\ ~ U[k]
      BY <1>12
    <3>2. Takes(G[k], V) => k < M
      BY <1>9, <3>1
    <3> QED BY <1>8, <3>1, <3>2
  <2>2. \A k \in flags : G[k].name = args[src[k]].name
    BY <1>15 DEF SameFlags
  <2> QED BY <1>14, <2>1, <2>2
<1>18. FlagSetParse(G, V, B) =
         IF \E i \in flags : \/ G[i].name \notin V \cup B
                             \/ Takes(G[i], V) /\ i = Len(G)
         THEN [ok |-> FALSE]
         ELSE Outcome(G, V, flags, SubSeq(G, EndOf(G, V), Len(G)))
  <2>1. NoDash(G)
    BY <1>8 DEF NoDash
  <2> QED BY <1>8, <2>1, ParseIs DEF flags
<1> QED BY <1>4, <1>7, <1>8, <1>11, <1>16, <1>17, <1>18

LEMMA FlagsRight == ConfigInv => FlagsAnywhere
<1> DEFINE args == Tail(opts.rest)
           V == ValueFlags[opts.rest[1].name]
           B == BoolFlags[opts.rest[1].name]
<1>1. SUFFICES ASSUME ConfigInv, stage = "flags", ~ EndsInFlag(args, V),
                      \A t \in Range(args) : t.kind # "dash"
               PROVE  FlagSetParse(ReorderArgs(args, V), V, B) = ReadAnywhere(args, V, B)
  BY DEF FlagsAnywhere
<1>2. args \in Seq(Range(args))
  <2> DEFINE rest == opts.rest
             X == Range(rest)
  <2>1. rest \in Seq(X) /\ rest # <<>>
    BY <1>1 DEF ConfigInv
  <2> HIDE DEF rest, X
  <2>2. Tail(rest) \in Seq(X)
    BY <2>1, HeadTailProperties
  <2>3. ASSUME NEW seq \in Seq(X) PROVE seq \in Seq(Range(seq))
    BY <2>3 DEF Range
  <2>4. Tail(rest) \in Seq(Range(Tail(rest)))
    BY <2>2, <2>3
  <2> QED BY <2>4 DEF rest
<1> HIDE DEF args, V, B
<1> QED BY <1>1, <1>2, ReadsAnywhere

\* In any order of its flags, their values and its arguments, a command's line
\* that does not end in a flag whose value is missing, and has no "-" and no
\* "--", is read, or refused, as it is: what reorderArgs decides and what the
\* flag package decides agree.
THEOREM FlagsReadAnywhere == SessionSpec => []FlagsAnywhere
BY ConfigSafe, FlagsRight, PTL
=============================================================================
