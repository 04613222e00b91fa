----------------------------- MODULE SitesProofs -----------------------------
(***************************************************************************)
(* Theorems about Sites: the table, the hosts file and uninstall, for all  *)
(* folder names, all contents of the user's file and every bound.          *)
(*                                                                         *)
(* What Select keeps of a file is a fact about a recursive function.  It   *)
(* is proved by induction on the file, and that induction from the least   *)
(* element of a set of numbers.                                            *)
(***************************************************************************)
EXTENDS Sites, TLAPS, FiniteSetTheorems, SequenceTheorems, WellFoundedInduction

-----------------------------------------------------------------------------
(* Induction, for sets of numbers and of sequences.                          *)

LEMMA Least ==
  ASSUME NEW T \in SUBSET Nat, T # {}
  PROVE  \E n \in T : \A m \in T : n <= m
<1>1. IsWellFoundedOn(OpToRel(<, Nat), Nat)
  BY NatLessThanWellFounded
<1>2. PICK n \in T : \A m \in T : <<m, n>> \notin OpToRel(<, Nat)
  BY <1>1, WFMin
<1>3. \A m \in T : ~(m < n)
  BY <1>2 DEF OpToRel
<1> QED
  BY <1>3

LEMMA NumberInduction ==
  ASSUME NEW T \in SUBSET Nat, 0 \in T, \A n \in T : n + 1 \in T
  PROVE  T = Nat
<1> SUFFICES ASSUME Nat \ T # {} PROVE FALSE
  OBVIOUS
<1>1. PICK n \in Nat \ T : \A m \in Nat \ T : n <= m
  BY Least
<1>2. n # 0 /\ n - 1 \in Nat /\ n - 1 \notin Nat \ T
  BY <1>1
<1> QED
  BY <1>2

LEMMA SequenceInduction ==
  ASSUME NEW S, NEW T \in SUBSET Seq(S), <<>> \in T, \A s \in T, x \in S : Append(s, x) \in T
  PROVE  T = Seq(S)
<1> DEFINE N == {n \in Nat : \A s \in Seq(S) : Len(s) = n => s \in T}
<1>1. 0 \in N
  OBVIOUS
<1>2. ASSUME NEW n \in N, NEW s \in Seq(S), Len(s) = n + 1
      PROVE  s \in T
  <2>1. s # <<>>
    BY <1>2
  <2>2. PICK front \in Seq(S), last \in S : s = Append(front, last)
    BY <2>1, SequenceEmptyOrAppend
  <2>3. Len(front) = n
    BY <1>2, <2>2
  <2>4. front \in T
    BY <2>3
  <2> QED
    BY <2>2, <2>4
<1>3. ASSUME NEW n \in N PROVE n + 1 \in N
  <2>1. n + 1 \in Nat
    OBVIOUS
  <2> QED
    BY <1>2, <2>1
<1> HIDE DEF N
<1>4. N = Nat
  <2>1. N \in SUBSET Nat
    BY DEF N
  <2> QED
    BY <1>1, <1>3, <2>1, NumberInduction
<1>5. \A s \in Seq(S) : Len(s) \in N
  BY <1>4
<1> QED
  BY <1>5 DEF N

-----------------------------------------------------------------------------
(* Select: what its recursive function is, and what it keeps.                *)

Kept(s, tag, f) ==
  [n \in 0..Len(s) |->
     IF n = 0 THEN <<>>
     ELSE IF s[n].tag = tag THEN Append(f[n - 1], s[n]) ELSE f[n - 1]]

IsKept(s, tag, f) ==
  \A n \in 0..Len(s) :
    f[n] = IF n = 0 THEN <<>> ELSE IF s[n].tag = tag THEN Append(f[n - 1], s[n]) ELSE f[n - 1]

LEMMA KeptNext ==
  ASSUME NEW S, NEW tag, NEW s \in Seq(S), NEW x \in S,
         NEW f \in [0..Len(s) -> Seq(S)], IsKept(s, tag, f)
  PROVE  \E g \in [0..Len(Append(s, x)) -> Seq(S)] : IsKept(Append(s, x), tag, g)
<1> DEFINE t == Append(s, x)
           l == Len(s)
<1>1. \A n \in 0..Len(s) :
        f[n] = IF n = 0 THEN <<>> ELSE IF s[n].tag = tag THEN Append(f[n - 1], s[n]) ELSE f[n - 1]
  BY DEF IsKept
<1>2. t \in Seq(S) /\ l \in Nat /\ Len(t) = l + 1 /\ t[l + 1] = x /\ \A i \in 1..l : t[i] = s[i]
  OBVIOUS
<1>3. f[l] \in Seq(S)
  BY <1>2
<1> DEFINE last == IF x.tag = tag THEN Append(f[l], x) ELSE f[l]
           g    == [n \in 0..Len(t) |-> IF n <= l THEN f[n] ELSE last]
<1> HIDE DEF t
<1>4. last \in Seq(S)
  BY <1>3
<1> HIDE DEF last
<1>5. g \in [0..Len(t) -> Seq(S)]
  BY <1>2, <1>4
<1>6. (\A n \in 0..l : g[n] = f[n]) /\ g[l + 1] = last
  BY <1>2
<1> HIDE DEF g
<1>7. ASSUME NEW n \in 0..Len(t)
      PROVE  g[n] = IF n = 0 THEN <<>> ELSE IF t[n].tag = tag THEN Append(g[n - 1], t[n]) ELSE g[n - 1]
  <2>1. CASE n = 0
    BY <1>1, <1>2, <1>6, <2>1
  <2>2. CASE n \in 1..l
    <3>1. f[n] = IF s[n].tag = tag THEN Append(f[n - 1], s[n]) ELSE f[n - 1]
      BY <1>1, <2>2
    <3>2. g[n] = f[n] /\ g[n - 1] = f[n - 1] /\ t[n] = s[n] /\ n # 0
      BY <1>2, <1>6, <2>2
    <3> QED
      BY <3>1, <3>2
  <2>3. CASE n = l + 1
    <3>1. g[n - 1] = f[l] /\ t[n] = x /\ g[n] = last /\ n # 0
      BY <1>2, <1>6, <2>3
    <3> QED
      BY <3>1 DEF last
  <2> QED
    BY <1>2, <2>1, <2>2, <2>3
<1>8. IsKept(t, tag, g)
  BY <1>7 DEF IsKept
<1> QED
  BY <1>5, <1>8 DEF t

LEMMA KeptExists ==
  ASSUME NEW S, NEW tag
  PROVE  \A s \in Seq(S) : \E f \in [0..Len(s) -> Seq(S)] : IsKept(s, tag, f)
<1> DEFINE T == {s \in Seq(S) : \E f \in [0..Len(s) -> Seq(S)] : IsKept(s, tag, f)}
<1>1. <<>> \in T
  <2> DEFINE f == [n \in 0..0 |-> <<>>]
  <2>1. Len(<<>>) = 0 /\ <<>> \in Seq(S)
    OBVIOUS
  <2>2. f \in [0..0 -> Seq(S)]
    BY <2>1
  <2>3. IsKept(<<>>, tag, f)
    BY <2>1 DEF IsKept
  <2> QED
    BY <2>1, <2>2, <2>3
<1>2. ASSUME NEW s \in T, NEW x \in S PROVE Append(s, x) \in T
  <2>1. Append(s, x) \in Seq(S)
    OBVIOUS
  <2> QED
    BY <2>1, KeptNext
<1> HIDE DEF T
<1>3. T = Seq(S)
  <2>1. T \in SUBSET Seq(S)
    BY DEF T
  <2> QED
    BY <1>1, <1>2, <2>1, SequenceInduction
<1> QED
  BY <1>3 DEF T

(* It is the same for a sequence and for what begins with it.                *)
Begins(s, t) ==
  Len(s) \in Nat /\ Len(t) \in Nat /\ Len(s) <= Len(t) /\ \A i \in 1..Len(s) : s[i] = t[i]

LEMMA KeptAgrees ==
  ASSUME NEW s, NEW t, Begins(s, t), NEW tag, NEW f, NEW g,
         IsKept(s, tag, f), IsKept(t, tag, g)
  PROVE  \A n \in 0..Len(s) : f[n] = g[n]
<1> DEFINE N == {n \in Nat : n <= Len(s) => f[n] = g[n]}
<1>0. Len(s) \in Nat /\ Len(t) \in Nat /\ Len(s) <= Len(t) /\ \A i \in 1..Len(s) : s[i] = t[i]
  BY DEF Begins
<1>a. \A n \in 0..Len(s) :
        f[n] = IF n = 0 THEN <<>> ELSE IF s[n].tag = tag THEN Append(f[n - 1], s[n]) ELSE f[n - 1]
  BY DEF IsKept
<1>b. \A n \in 0..Len(t) :
        g[n] = IF n = 0 THEN <<>> ELSE IF t[n].tag = tag THEN Append(g[n - 1], t[n]) ELSE g[n - 1]
  BY DEF IsKept
<1>1. 0 \in N
  BY <1>0, <1>a, <1>b
<1>2. ASSUME NEW n \in N PROVE n + 1 \in N
  <2> SUFFICES ASSUME n + 1 <= Len(s) PROVE f[n + 1] = g[n + 1]
    OBVIOUS
  <2>1. n + 1 \in 0..Len(s) /\ n + 1 \in 0..Len(t) /\ n + 1 # 0 /\ (n + 1) - 1 = n /\ n + 1 \in 1..Len(s)
    BY <1>0
  <2>2. f[n] = g[n] /\ s[n + 1] = t[n + 1]
    BY <1>0, <2>1
  <2> QED
    BY <1>a, <1>b, <2>1, <2>2
<1> HIDE DEF N
<1>3. N = Nat
  <2>1. N \in SUBSET Nat
    BY DEF N
  <2> QED
    BY <1>1, <1>2, <2>1, NumberInduction
<1> QED
  BY <1>0, <1>3 DEF N

LEMMA SelectIs ==
  ASSUME NEW S, NEW s \in Seq(S), NEW tag, NEW f \in [0..Len(s) -> Seq(S)], IsKept(s, tag, f)
  PROVE  Select(s, tag) = f[Len(s)]
<1> DEFINE g == CHOOSE h : h = Kept(s, tag, h)
<1>0. f = Kept(s, tag, f)
  BY DEF IsKept, Kept
<1>1. IsKept(s, tag, g)
  <2>1. g = Kept(s, tag, g)
    BY <1>0
  <2> HIDE DEF g
  <2>2. \A n \in 0..Len(s) : g[n] = Kept(s, tag, g)[n]
    BY <2>1, Zenon
  <2> QED
    BY <2>2 DEF IsKept, Kept
<1>2. Select(s, tag) = g[Len(s)]
  BY DEF Select, Kept
<1>3. Len(s) \in 0..Len(s)
  OBVIOUS
<1> HIDE DEF g
<1>4. \A n \in 0..Len(s) : f[n] = g[n]
  <2>1. Begins(s, s)
    BY DEF Begins
  <2> QED
    BY <1>1, <2>1, KeptAgrees
<1> QED
  BY <1>2, <1>3, <1>4

LEMMA SelectEmpty == \A tag : Select(<<>>, tag) = <<>>
<1> TAKE tag
<1> DEFINE f == [n \in 0..0 |-> <<>>]
<1>1. IsKept(<<>>, tag, f) /\ f[0] = <<>>
  BY DEF IsKept
<1>2. <<>> \in Seq({}) /\ Len(<<>>) = 0
  OBVIOUS
<1>3. f \in [0..Len(<<>>) -> Seq({})]
  BY <1>2
<1> HIDE DEF f
<1>4. PICK s : s = <<>>
  OBVIOUS
<1>5. s \in Seq({}) /\ Len(s) = 0 /\ IsKept(s, tag, f) /\ f \in [0..Len(s) -> Seq({})]
  BY <1>1, <1>2, <1>3, <1>4
<1>6. Select(s, tag) = f[Len(s)]
  <2> HIDE <1>1, <1>2, <1>3, <1>4
  <2> QED
    BY <1>5, SelectIs
<1> QED
  BY <1>1, <1>4, <1>5, <1>6

LEMMA SelectAppend ==
  ASSUME NEW S, NEW s \in Seq(S), NEW x \in S, NEW tag
  PROVE  Select(Append(s, x), tag) =
           IF x.tag = tag THEN Append(Select(s, tag), x) ELSE Select(s, tag)
<1> DEFINE t == Append(s, x)
           l == Len(s)
<1>1. t \in Seq(S) /\ l \in Nat /\ Len(t) = l + 1 /\ t[l + 1] = x /\ \A i \in 1..l : s[i] = t[i]
  OBVIOUS
<1> HIDE DEF t
<1>0. \A q \in Seq(S) : \E f \in [0..Len(q) -> Seq(S)] : IsKept(q, tag, f)
  BY KeptExists
<1>2. PICK f \in [0..Len(s) -> Seq(S)] : IsKept(s, tag, f)
  BY <1>0
<1>3. PICK g \in [0..Len(t) -> Seq(S)] : IsKept(t, tag, g)
  BY <1>0, <1>1
<1>4. f[l] = g[l]
  <2>1. Begins(s, t)
    BY <1>1 DEF Begins
  <2>2. \A n \in 0..Len(s) : f[n] = g[n]
    BY <1>1, <1>2, <1>3, <2>1, KeptAgrees
  <2> QED
    BY <1>1, <2>2
<1>5. g[l + 1] = IF x.tag = tag THEN Append(g[l], x) ELSE g[l]
  <2>1. l + 1 \in 0..Len(t) /\ l + 1 # 0 /\ (l + 1) - 1 = l
    BY <1>1
  <2>2. g[l + 1] = IF l + 1 = 0 THEN <<>>
                   ELSE IF t[l + 1].tag = tag THEN Append(g[(l + 1) - 1], t[l + 1]) ELSE g[(l + 1) - 1]
    BY <1>3, <2>1 DEF IsKept
  <2> QED
    BY <1>1, <2>1, <2>2
<1>6. Select(s, tag) = f[l] /\ Select(t, tag) = g[l + 1]
  BY <1>1, <1>2, <1>3, SelectIs
<1> QED
  BY <1>4, <1>5, <1>6 DEF t

LEMMA SelectType ==
  ASSUME NEW S, NEW tag
  PROVE  \A s \in Seq(S) : Select(s, tag) \in Seq({x \in S : x.tag = tag})
<1> DEFINE R == {x \in S : x.tag = tag}
           T == {s \in Seq(S) : Select(s, tag) \in Seq(R)}
<1>1. <<>> \in T
  <2>1. Select(<<>>, tag) = <<>> /\ <<>> \in Seq(R) /\ <<>> \in Seq(S)
    BY SelectEmpty, EmptySeq
  <2> QED
    BY <2>1
<1>2. ASSUME NEW s \in T, NEW x \in S PROVE Append(s, x) \in T
  <2>1. Select(Append(s, x), tag) = IF x.tag = tag THEN Append(Select(s, tag), x) ELSE Select(s, tag)
    BY SelectAppend
  <2> QED
    BY <2>1
<1> HIDE DEF T
<1>3. T = Seq(S)
  <2>1. T \in SUBSET Seq(S)
    BY DEF T
  <2> QED
    BY <1>1, <1>2, <2>1, SequenceInduction
<1> QED
  BY <1>3 DEF T

LEMMA ConcatAppend ==
  ASSUME NEW S, NEW r \in Seq(S), NEW s \in Seq(S), NEW x \in S
  PROVE  r \o Append(s, x) = Append(r \o s, x)
<1>1. Append(s, x) = s \o <<x>> /\ Append(r \o s, x) = (r \o s) \o <<x>> /\ <<x>> \in Seq(S) /\ r \o s \in Seq(S)
  BY AppendIsConcat
<1> QED
  BY <1>1, ConcatAssociative

LEMMA SelectConcat ==
  ASSUME NEW S, NEW r \in Seq(S), NEW tag
  PROVE  \A s \in Seq(S) : Select(r \o s, tag) = Select(r, tag) \o Select(s, tag)
<1> DEFINE T == {s \in Seq(S) : Select(r \o s, tag) = Select(r, tag) \o Select(s, tag)}
<1>0. \A s \in Seq(S) : Select(s, tag) \in Seq(S)
  <2>1. Seq({x \in S : x.tag = tag}) \subseteq Seq(S)
    OBVIOUS
  <2> QED
    BY <2>1, SelectType
<1>1. <<>> \in T
  <2>1. r \o <<>> = r /\ Select(r, tag) \o <<>> = Select(r, tag)
    BY <1>0
  <2>2. Select(<<>>, tag) = <<>> /\ <<>> \in Seq(S)
    BY SelectEmpty, EmptySeq
  <2> QED
    BY <2>1, <2>2
<1>2. ASSUME NEW s \in T, NEW x \in S PROVE Append(s, x) \in T
  <2>1. r \o Append(s, x) = Append(r \o s, x) /\ r \o s \in Seq(S)
    BY ConcatAppend
  <2>2. Select(Append(r \o s, x), tag) = IF x.tag = tag THEN Append(Select(r \o s, tag), x) ELSE Select(r \o s, tag)
    BY <2>1, SelectAppend
  <2>3. Select(Append(s, x), tag) = IF x.tag = tag THEN Append(Select(s, tag), x) ELSE Select(s, tag)
    BY SelectAppend
  <2>4. Append(Select(r, tag) \o Select(s, tag), x) = Select(r, tag) \o Append(Select(s, tag), x)
    <3>1. Select(r, tag) \in Seq(S) /\ Select(s, tag) \in Seq(S)
      BY <1>0
    <3> QED
      BY <3>1, ConcatAppend
  <2>5. Append(s, x) \in Seq(S) /\ Select(r \o s, tag) = Select(r, tag) \o Select(s, tag)
    OBVIOUS
  <2> QED
    BY <2>1, <2>2, <2>3, <2>4, <2>5
<1> HIDE DEF T
<1>3. T = Seq(S)
  <2>1. T \in SUBSET Seq(S)
    BY DEF T
  <2> QED
    BY <1>1, <1>2, <2>1, SequenceInduction
<1> QED
  BY <1>3 DEF T

(* All of the lines, when all have the tag, and none when none has it.       *)
LEMMA SelectAll ==
  ASSUME NEW S, NEW tag, \A x \in S : x.tag = tag
  PROVE  \A s \in Seq(S) : Select(s, tag) = s
<1> DEFINE T == {s \in Seq(S) : Select(s, tag) = s}
<1>1. <<>> \in T
  BY SelectEmpty
<1>2. ASSUME NEW s \in T, NEW x \in S PROVE Append(s, x) \in T
  BY SelectAppend
<1> HIDE DEF T
<1>3. T = Seq(S)
  <2>1. T \in SUBSET Seq(S)
    BY DEF T
  <2> QED
    BY <1>1, <1>2, <2>1, SequenceInduction
<1> QED
  BY <1>3 DEF T

LEMMA SelectNone ==
  ASSUME NEW S, NEW tag, \A x \in S : x.tag # tag
  PROVE  \A s \in Seq(S) : Select(s, tag) = <<>>
<1>1. {x \in S : x.tag = tag} = {}
  OBVIOUS
<1>2. \A q \in Seq({}) : q = <<>>
  <2> SUFFICES ASSUME NEW q \in Seq({}), q # <<>> PROVE FALSE
    OBVIOUS
  <2> QED
    BY EmptySeq, ElementOfSeq
<1> QED
  BY <1>1, <1>2, SelectType

-----------------------------------------------------------------------------
(* The hosts file of a set of sites.                                         *)

Hostnames == {lowercase_ascii(n) : n \in Names}
UserLine  == [tag : {FALSE}, text : Range(UserLines)]
File(X)   == UserFile \o SiteLines(X)

LEMMA HostnamesFinite == IsFiniteSet(Hostnames)
<1> DEFINE f == [n \in Names |-> lowercase_ascii(n)]
<1>1. f \in Surjection(Names, Hostnames)
  BY DEF Surjection, Hostnames
<1> QED
  BY <1>1, FS_Surjection, DataAssumption

LEMMA FunctionIsSeq ==
  ASSUME NEW n \in Nat, NEW S, NEW f \in [1..n -> S]
  PROVE  f \in Seq(S)
OBVIOUS

LEMMA SetToSeqIs ==
  ASSUME NEW X, IsFiniteSet(X)
  PROVE  /\ Cardinality(X) \in Nat
         /\ SetToSeq(X) \in [1..Cardinality(X) -> X]
         /\ IsInjective(SetToSeq(X))
         /\ \A x \in X : \E i \in 1..Cardinality(X) : SetToSeq(X)[i] = x
<1> DEFINE n == Cardinality(X)
<1>1. n \in Nat /\ ExistsBijection(1..n, X)
  BY FS_CardinalityType
<1>2. \E f \in [1..n -> X] : IsInjective(f)
  BY <1>1 DEF ExistsBijection, Bijection, Injection
<1>3. SetToSeq(X) \in Injection(1..n, X)
  BY <1>2 DEF SetToSeq, Injection
<1>4. IsFiniteSet(1..n) /\ Cardinality(1..n) = n
  BY <1>1, FS_Interval
<1>5. SetToSeq(X) \in Surjection(1..n, X)
  BY <1>3, <1>4, FS_Injection
<1> QED
  BY <1>1, <1>3, <1>5 DEF Injection, Surjection

LEMMA SiteLinesAre ==
  ASSUME NEW X, IsFiniteSet(X)
  PROVE  /\ SiteLines(X) \in Seq([tag : {TRUE}, text : X])
         /\ {l.text : l \in Range(SiteLines(X))} = X
         /\ \A i, j \in DOMAIN SiteLines(X) : SiteLines(X)[i] = SiteLines(X)[j] => i = j
<1> DEFINE n == Cardinality(X)
           f == SetToSeq(X)
<1>1. n \in Nat /\ f \in [1..n -> X] /\ IsInjective(f) /\ \A x \in X : \E i \in 1..n : f[i] = x
  BY SetToSeqIs
<1>2. SiteLines(X) = [i \in 1..n |-> [tag |-> TRUE, text |-> f[i]]]
  BY DEF SiteLines, Tagged
<1> HIDE DEF n, f
<1>3. SiteLines(X) \in Seq([tag : {TRUE}, text : X])
  <2>1. SiteLines(X) \in [1..n -> [tag : {TRUE}, text : X]]
    BY <1>1, <1>2
  <2>2. n \in Nat
    BY <1>1
  <2> QED
    <3> DEFINE M == [tag : {TRUE}, text : X]
    <3>1. SiteLines(X) \in [1..n -> M]
      BY <2>1
    <3> HIDE DEF M
    <3>2. SiteLines(X) \in Seq(M)
      BY <2>2, <3>1, FunctionIsSeq
    <3> QED
      BY <3>2 DEF M
<1>4. {l.text : l \in Range(SiteLines(X))} = X
  <2>1. Range(SiteLines(X)) = {[tag |-> TRUE, text |-> f[i]] : i \in 1..n}
    BY <1>2 DEF Range
  <2>2. {l.text : l \in Range(SiteLines(X))} = {f[i] : i \in 1..n}
    <3>1. ASSUME NEW l \in Range(SiteLines(X)) PROVE l.text \in {f[i] : i \in 1..n}
      BY <2>1
    <3>2. ASSUME NEW i \in 1..n PROVE f[i] \in {l.text : l \in Range(SiteLines(X))}
      <4>1. [tag |-> TRUE, text |-> f[i]] \in Range(SiteLines(X))
        BY <2>1
      <4>2. [tag |-> TRUE, text |-> f[i]].text = f[i]
        OBVIOUS
      <4> QED
        BY <4>1, <4>2, Zenon
    <3> QED
      BY <3>1, <3>2
  <2> QED
    BY <1>1, <2>2
<1>5. \A i, j \in DOMAIN SiteLines(X) : SiteLines(X)[i] = SiteLines(X)[j] => i = j
  BY <1>1, <1>2 DEF IsInjective
<1> QED
  BY <1>3, <1>4, <1>5

LEMMA NoElements == \A q \in Seq({}) : q = <<>>
<1> SUFFICES ASSUME NEW q \in Seq({}), q # <<>> PROVE FALSE
  OBVIOUS
<1> QED
  BY EmptySeq, ElementOfSeq

LEMMA NoSiteLines == SiteLines({}) = <<>>
<1>1. IsFiniteSet({})
  BY FS_EmptySet
<1>2. SiteLines({}) \in Seq([tag : {TRUE}, text : {}])
  BY <1>1, SiteLinesAre
<1>3. [tag : {TRUE}, text : {}] = {}
  OBVIOUS
<1> DEFINE q == SiteLines({})
<1>4. q \in Seq({})
  BY <1>2, <1>3
<1> HIDE DEF q
<1>5. q = <<>>
  BY <1>4, NoElements
<1> QED
  BY <1>5 DEF q

LEMMA UserFileIs == UserFile \in Seq(UserLine)
<1>1. UserLines \in Seq(Range(UserLines))
  BY DataAssumption
<1>2. Len(UserLines) \in Nat /\ DOMAIN UserLines = 1..Len(UserLines)
  BY <1>1
<1>3. UserFile \in [1..Len(UserLines) -> UserLine]
  BY <1>2 DEF UserFile, Untagged, UserLine, Range
<1> QED
  BY <1>2, <1>3

LEMMA FileIs ==
  ASSUME NEW X \in SUBSET Hostnames
  PROVE  /\ SiteLines(X) \in Seq(Line)
         /\ File(X) \in Seq(Line)
         /\ Own(File(X)) = UserFile
         /\ Entries(File(X)) = SiteLines(X)
<1> DEFINE U == UserLine
           M == [tag : {TRUE}, text : X]
           L == Line
<1>1. IsFiniteSet(X)
  BY HostnamesFinite, FS_Subset
<1>2. UserFile \in Seq(U) /\ SiteLines(X) \in Seq(M)
  BY <1>1, UserFileIs, SiteLinesAre
<1>3. U \subseteq L /\ M \subseteq L
  BY DEF Line, UserLine, Hostnames
<1>4. (\A l \in U : l.tag = FALSE /\ l.tag # TRUE) /\ \A l \in M : l.tag = TRUE /\ l.tag # FALSE
  BY DEF UserLine
<1>5. UserFile \in Seq(L) /\ SiteLines(X) \in Seq(L)
  BY <1>2, <1>3, SeqMonotonic
<1> HIDE DEF U, M, L
<1>6. Select(UserFile, FALSE) = UserFile /\ Select(UserFile, TRUE) = <<>>
  BY <1>2, <1>4, SelectAll, SelectNone
<1>7. Select(SiteLines(X), TRUE) = SiteLines(X) /\ Select(SiteLines(X), FALSE) = <<>>
  BY <1>2, <1>4, SelectAll, SelectNone
<1>8. \A tag \in BOOLEAN : Select(File(X), tag) = Select(UserFile, tag) \o Select(SiteLines(X), tag)
  BY <1>5, SelectConcat DEF File
<1>9. File(X) \in Seq(L) /\ UserFile \o <<>> = UserFile /\ <<>> \o SiteLines(X) = SiteLines(X)
  BY <1>5 DEF File
<1> QED
  BY <1>5, <1>6, <1>7, <1>8, <1>9 DEF Own, Entries, L

LEMMA FileNone == File({}) = UserFile
BY NoSiteLines, UserFileIs, ConcatEmptySeq DEF File

-----------------------------------------------------------------------------
(* The table.                                                                *)
Steps == EngineSteps \union UninstallSteps

(* The steps of the hosts file and of uninstall leave the table alone and    *)
(* the Engine outside the rescan.                                            *)
Aside ==
  /\ UNCHANGED <<scanned, rows, open, tx>>
  /\ pc'[Engine] # pc[Engine] => pc[Engine] \notin {"down", "insert"} /\ pc'[Engine] \notin {"begin", "insert", "down"}
  /\ service' # service => service' # "stopped"

LEMMA GotoEngine ==
  ASSUME pc \in [Writers -> Steps], NEW step \in Steps, Goto(Engine, step)
  PROVE  pc' \in [Writers -> Steps] /\ pc'[Engine] = step
BY DEF Goto, Writers

LEMMA GotoUninstall ==
  ASSUME pc \in [Writers -> Steps], NEW step \in Steps, Goto(Uninstall, step)
  PROVE  pc' \in [Writers -> Steps] /\ pc'[Engine] = pc[Engine]
BY DEF Goto, Writers, Engine, Uninstall

LEMMA FailGoes ==
  ASSUME pc \in [Writers -> Steps], NEW w \in Writers, Fail(w)
  PROVE  /\ pc' \in [Writers -> Steps]
         /\ pc'[Engine] = IF w = Engine THEN "idle" ELSE pc[Engine]
BY GotoEngine, GotoUninstall DEF Fail, Writers, Engine, Uninstall, Steps, EngineSteps, UninstallSteps

LEMMA HostsAside ==
  ASSUME pc \in [Writers -> Steps], NEW w \in Writers, ReadHosts(w) \/ Truncate(w) \/ WriteHosts(w)
  PROVE  pc' \in [Writers -> Steps] /\ Aside
<1> USE DEF Aside, registry, At, Steps, EngineSteps, UninstallSteps
<1>1. ASSUME NEW step \in {"truncate", "write"}, Goto(w, step)
      PROVE  pc' \in [Writers -> Steps] /\ pc'[Engine] = IF w = Engine THEN step ELSE pc[Engine]
  BY <1>1, GotoEngine, GotoUninstall DEF Writers, Steps, EngineSteps
<1>2. CASE ReadHosts(w)
  <2>1. UNCHANGED <<registry, service>> /\ pc[w] = "read"
    BY <1>2 DEF ReadHosts
  <2>2. Goto(w, "truncate") \/ Fail(w)
    BY <1>2 DEF ReadHosts, Collect
  <2> QED
    BY <1>1, <2>1, <2>2, FailGoes
<1>3. CASE Truncate(w)
  BY <1>1, <1>3, FailGoes DEF Truncate
<1>4. CASE WriteHosts(w)
  <2>1. pc[w] = "write" /\ UNCHANGED <<scanned, rows, open, tx, service>>
    BY <1>4 DEF WriteHosts
  <2>2. CASE w = Engine
    <3>1. Goto(Engine, "idle")
      BY <1>4, <2>2 DEF WriteHosts
    <3>2. pc' \in [Writers -> Steps] /\ pc'[Engine] = "idle"
      BY <3>1, GotoEngine
    <3>3. pc[Engine] = "write"
      BY <2>1, <2>2
    <3> QED
      BY <2>1, <3>2, <3>3
  <2>3. CASE w = Uninstall /\ w # Engine
    <3>1. Goto(Uninstall, "certificates")
      BY <1>4, <2>3 DEF WriteHosts
    <3> QED
      BY <2>1, <3>1, GotoUninstall
  <2> QED
    BY <2>2, <2>3 DEF Writers
<1> QED
  BY <1>2, <1>3, <1>4

LEMMA UninstallAside ==
  ASSUME pc \in [Writers -> Steps], StopService \/ WaitForService \/ RemoveRest
  PROVE  pc' \in [Writers -> Steps] /\ Aside
BY GotoUninstall DEF Steps, EngineSteps, UninstallSteps, Aside, registry, At, StopService, WaitForService, RemoveRest

-----------------------------------------------------------------------------
(* Outside the statements of a rescan an open transaction, left behind by a  *)
(* DELETE that failed, holds the committed rows; it ends with the process.   *)
Table ==
  /\ pc \in [Writers -> Steps]
  /\ pc[Engine] = "insert" => open
  /\ pc[Engine] # "insert" /\ open => tx = rows
  /\ pc[Engine] = "down" => ~open
  /\ service = "stopped" => pc[Engine] = "down"

LEMMA TableStep == Table /\ [Next]_vars => Table'
<1> SUFFICES ASSUME Table, [Next]_vars PROVE Table'
  OBVIOUS
<1>1. Aside /\ pc' \in [Writers -> Steps] => Table'
  BY DEF Aside, Table
<1> USE DEF Table, At, registry, Steps, EngineSteps
<1>2. CASE Scan
  BY <1>2, GotoEngine, FailGoes DEF Scan, Writers
<1>3. CASE Begin
  BY <1>3, GotoEngine, FailGoes DEF Begin, Writers
<1>4. CASE Insert \/ Commit
  BY <1>4, GotoEngine, FailGoes DEF Insert, Commit, Ended, Writers
<1>5. CASE Configure
  BY <1>5, GotoEngine, FailGoes DEF Configure, Writers
<1>6. CASE ServiceStops \/ Crash
  <2>1. Goto(Engine, "down") /\ open' = FALSE
    BY <1>6 DEF ServiceStops, Crash, ProcessGone, Ended
  <2> QED
    BY <2>1, GotoEngine
<1>8. CASE StartService
  <2>1. Goto(Engine, "idle") /\ ~open /\ UNCHANGED open /\ service' = "running"
    BY <1>8 DEF StartService
  <2> QED
    BY <2>1, GotoEngine
<1>7. CASE FolderChanges \/ UNCHANGED vars
  BY <1>7 DEF FolderChanges, vars
<1> QED
  BY <1>1, <1>2, <1>3, <1>4, <1>5, <1>6, <1>7, <1>8, HostsAside, UninstallAside DEF Next

LEMMA InitTable == Init => Table
BY DEF Init, Table, Writers, Engine, Uninstall, Steps, EngineSteps, UninstallSteps

(* rescan: whatever statement of a rescan fails, list() goes on returning    *)
(* the rows of the last one that succeeded.                                  *)
THEOREM RowsKept == Spec => []FailedRescanKeepsRows
<1>1. Table => FailedRescanKeepsRows
  BY DEF Table, FailedRescanKeepsRows, list
<1> QED
  BY <1>1, InitTable, TableStep, PTL DEF Spec

-----------------------------------------------------------------------------
(* validate_dns_labels: of the folders it finds no fault with, no two have   *)
(* the same hostname, whatever the characters of the names.                  *)
LEMMA ScanDistinct ==
  ASSUME NEW F PROVE Distinct({Row(n, validate_dns_labels(F)[n]) : n \in F})
<1> DEFINE sound == {l \in F : validate_dns_label(l) = "none"}
<1> SUFFICES ASSUME NEW m \in F, NEW n \in F,
                    validate_dns_labels(F)[m] = "none", validate_dns_labels(F)[n] = "none",
                    lowercase_ascii(m) = lowercase_ascii(n)
             PROVE  m = n
  BY DEF Distinct, Row
<1>1. ASSUME NEW l \in F, validate_dns_labels(F)[l] = "none"
      PROVE  l \in sound /\ ~\E k \in sound \ {l} : lowercase_ascii(k) = lowercase_ascii(l)
  BY <1>1 DEF validate_dns_labels
<1> QED
  BY <1>1

Unique ==
  /\ Distinct(rows)
  /\ pc[Engine] \in {"begin", "insert"} => Distinct(scanned)
  /\ pc[Engine] = "insert" => tx \subseteq scanned

LEMMA UniqueStep == Table /\ Unique /\ [Next]_vars => Unique'
<1> SUFFICES ASSUME Table, Unique, [Next]_vars PROVE Unique'
  OBVIOUS
<1>1. Aside => Unique'
  BY DEF Aside, Unique, Distinct
<1>2. pc \in [Writers -> Steps]
  BY DEF Table
<1>3. \A S, T : Distinct(T) /\ S \subseteq T => Distinct(S)
  BY DEF Distinct
<1>4. rows' = rows => Distinct(rows)'
  BY DEF Unique, Distinct
<1>5. scanned' = scanned /\ Distinct(scanned) => Distinct(scanned)'
  BY DEF Distinct
<1> USE DEF At, registry, Steps, EngineSteps
<1>6. CASE Scan
  <2>1. CASE scanned' = {Row(n, validate_dns_labels(folders)[n]) : n \in folders}
    <3>1. Distinct(scanned)'
      BY <2>1, ScanDistinct DEF Distinct
    <3> QED
      BY <1>2, <1>4, <1>6, <3>1, GotoEngine, FailGoes DEF Scan, Unique, Writers
  <2>2. CASE Fail(Engine)
    BY <1>2, <1>4, <1>6, <2>2, FailGoes DEF Scan, Unique, Writers
  <2> QED
    BY <1>6, <2>1, <2>2 DEF Scan
<1>7. CASE Begin
  BY <1>2, <1>4, <1>5, <1>7, GotoEngine, FailGoes DEF Begin, Unique, Writers
<1>8. CASE Insert
  BY <1>2, <1>4, <1>5, <1>8, FailGoes DEF Insert, Unique, Writers
<1>9. CASE Commit
  <2>1. Distinct(rows)'
    BY <1>4, <1>9 DEF Commit, Unique, Distinct
  <2> QED
    BY <1>2, <1>9, <2>1, GotoEngine, FailGoes DEF Commit, Unique, Writers
<1>10. CASE Configure
  BY <1>2, <1>4, <1>10, GotoEngine, FailGoes DEF Configure, Unique, Writers
<1>11. CASE ServiceStops \/ Crash
  BY <1>2, <1>4, <1>11, GotoEngine DEF ServiceStops, Crash, ProcessGone, Unique
<1>12. CASE StartService
  <2>1. Distinct(rows)'
    BY <1>12 DEF StartService, Distinct
  <2>2. pc'[Engine] = "idle"
    BY <1>2, <1>12, GotoEngine DEF StartService
  <2> QED
    BY <2>1, <2>2 DEF Unique
<1>13. CASE FolderChanges \/ UNCHANGED vars
  BY <1>4, <1>5, <1>13 DEF FolderChanges, vars, Unique
<1> QED
  BY <1>1, <1>2, <1>6, <1>7, <1>8, <1>9, <1>10, <1>11, <1>12, <1>13, HostsAside, UninstallAside DEF Next

(* validate_dns_labels, rescan and list: the first part of                   *)
(* HostnamesAreUnique.  Of the rows any statement sees no two valid ones     *)
(* have the same hostname, for all folders, changes of them and failures.    *)
THEOREM RowsAreDistinct == Spec => []Distinct(list)
<1>1. Init => Unique
  BY DEF Init, Unique, Distinct, Writers, Engine
<1>2. Table /\ Unique => Distinct(list)
  BY DEF Table, Unique, Distinct, list
<1> QED
  BY <1>1, <1>2, InitTable, TableStep, UniqueStep, PTL DEF Spec

-----------------------------------------------------------------------------
(* The types.                                                                *)

PcTyped ==
  /\ pc \in [Writers -> Steps]
  /\ pc[Engine] \in EngineSteps /\ pc[Uninstall] \in UninstallSteps

LEMMA GoneTo ==
  ASSUME PcTyped, NEW w \in Writers,
         NEW step \in IF w = Engine THEN EngineSteps ELSE UninstallSteps, Goto(w, step)
  PROVE  PcTyped' /\ pc'[w] = step /\ \A v \in Writers \ {w} : pc'[v] = pc[v]
BY DEF PcTyped, Goto, Writers, Engine, Uninstall, Steps

LEMMA FailedTo ==
  ASSUME PcTyped, NEW w \in Writers, Fail(w)
  PROVE  /\ PcTyped'
         /\ pc'[w] = IF w = Engine THEN "idle" ELSE "failed"
         /\ \A v \in Writers \ {w} : pc'[v] = pc[v]
         /\ result' = IF w = Engine THEN "error" ELSE result
BY GoneTo DEF Fail, Writers, EngineSteps, UninstallSteps

LEMMA PcStep == PcTyped /\ [Next]_vars => PcTyped'
<1> SUFFICES ASSUME PcTyped, [Next]_vars PROVE PcTyped'
  OBVIOUS
<1>0. Engine \in Writers /\ Uninstall \in Writers /\ Engine # Uninstall
  BY DEF Writers, Engine, Uninstall
<1>1. \A step \in EngineSteps : Goto(Engine, step) => PcTyped'
  BY <1>0, GoneTo
<1>2. \A step \in UninstallSteps : Goto(Uninstall, step) => PcTyped'
  BY <1>0, GoneTo
<1>3. \A w \in Writers : Fail(w) => PcTyped'
  BY FailedTo
<1>4. pc' = pc => PcTyped'
  BY DEF PcTyped
<1>5. CASE Scan \/ Begin \/ Insert \/ Commit \/ Configure \/ ServiceStops \/ Crash \/ StartService
  BY <1>0, <1>1, <1>3, <1>4, <1>5 DEF EngineSteps, Scan, Begin, Insert, Commit, Configure, ServiceStops, Crash, StartService, ProcessGone
<1>6. CASE StopService \/ WaitForService \/ RemoveRest
  BY <1>2, <1>6 DEF UninstallSteps, StopService, WaitForService, RemoveRest
<1>7. ASSUME NEW w \in Writers, ReadHosts(w) \/ Truncate(w) \/ WriteHosts(w)
      PROVE  PcTyped'
  <2>1. CASE w = Engine
    BY <1>1, <1>3, <1>7, <2>1 DEF EngineSteps, ReadHosts, Collect, Truncate, WriteHosts
  <2>2. CASE w = Uninstall
    BY <1>0, <1>2, <1>3, <1>7, <2>2 DEF UninstallSteps, ReadHosts, Collect, Truncate, WriteHosts
  <2> QED
    BY <2>1, <2>2 DEF Writers
<1>8. CASE FolderChanges \/ UNCHANGED vars
  BY <1>4, <1>8 DEF FolderChanges, vars
<1> QED
  BY <1>5, <1>6, <1>7, <1>8 DEF Next

Data ==
  /\ folders \subseteq Names
  /\ scanned \subseteq Rows /\ rows \subseteq Rows
  /\ open \in BOOLEAN /\ tx \subseteq Rows
  /\ published \subseteq Hostnames
  /\ hosts \in Seq(Line) /\ lines \in [Writers -> Seq(Line)]
  /\ result \in {"none", "ok", "error"}
  /\ service \in {"running", "stopping", "stopped"}
  /\ torn \in BOOLEAN /\ clashed \in BOOLEAN /\ late \in BOOLEAN
  /\ short \in BOOLEAN /\ absent \in BOOLEAN
  /\ changes \in 0..MaxChanges /\ faults \in 0..MaxFaults /\ starts \in 0..MaxStarts

LEMMA ScanTyped ==
  ASSUME NEW F \in SUBSET Names
  PROVE  {Row(n, validate_dns_labels(F)[n]) : n \in F} \subseteq Rows
<1> SUFFICES ASSUME NEW n \in F
             PROVE  Row(n, validate_dns_labels(F)[n]) \in Rows
  OBVIOUS
<1>1. validate_dns_label(n) \in {"none", "empty", "long", "hyphen", "character"}
  BY DEF validate_dns_label
<1>2. validate_dns_labels(F)[n] \in {"none", "empty", "long", "hyphen", "character", "collision"}
  BY <1>1 DEF validate_dns_labels
<1> QED
  BY <1>2 DEF Row, Rows

LEMMA ValidHostsTyped ==
  ASSUME NEW sites \in SUBSET Rows
  PROVE  ValidHosts(sites) \in SUBSET Hostnames
BY DEF ValidHosts, Rows, Hostnames

LEMMA OwnTyped ==
  ASSUME NEW file \in Seq(Line)
  PROVE  Own(file) \in Seq(Line)
<1> DEFINE L == Line
<1> HIDE DEF L
<1>1. {x \in L : x.tag = FALSE} \subseteq L
  OBVIOUS
<1>2. Select(file, FALSE) \in Seq({x \in L : x.tag = FALSE})
  BY SelectType DEF L
<1> QED
  BY <1>1, <1>2, SeqMonotonic DEF Own, L

LEMMA DataStep == Data /\ Table /\ [Next]_vars => Data'
<1> SUFFICES ASSUME Data, Table, [Next]_vars PROVE Data'
  OBVIOUS
<1> DEFINE L == Line
<1>0. list \subseteq Rows
  BY DEF list, Data
<1>1. \A w \in Writers : Fail(w) => result' \in {"none", "ok", "error"}
  BY DEF Fail, Data
<1>2. Fault => faults' \in 0..MaxFaults
  BY BoundsAssumption DEF Fault, Data
<1>a. \A sites \in SUBSET list : \A w \in Writers : Wanted(w, sites) \/ Listed(sites) =>
        faults' \in 0..MaxFaults /\ short' \in BOOLEAN
  BY <1>2 DEF Wanted, Listed, Sound, Data
<1>3. Engine \in Writers /\ Uninstall \in Writers
  BY DEF Writers
<1>4. <<>> \in Seq(Line)
  BY EmptySeq
<1> USE DEF registry, history, partial, bounds, Sound
<1>5. CASE Scan
  <2>1. scanned' \subseteq Rows
    BY <1>5, ScanTyped DEF Scan, Data
  <2> QED
    BY <1>1, <1>2, <1>3, <1>5, <2>1 DEF Scan, Data
<1>6. CASE Begin
  BY <1>1, <1>2, <1>3, <1>6 DEF Begin, Data
<1>7. CASE Insert \/ Commit
  <2>1. CASE Insert
    BY <1>1, <1>2, <1>3, <2>1 DEF Insert, Ended, Data
  <2>2. CASE Commit
    BY <1>1, <1>2, <1>3, <2>2 DEF Commit, Ended, Data
  <2> QED
    BY <1>7, <2>1, <2>2
<1>8. CASE Configure
  <2>1. published' \in SUBSET Hostnames
    BY <1>0, <1>8, ValidHostsTyped DEF Configure, Data
  <2>2. faults' \in 0..MaxFaults /\ short' \in BOOLEAN /\ absent' \in BOOLEAN
    BY <1>2, <1>3, <1>a, <1>8 DEF Configure, Data
  <2>3. result' \in {"none", "ok", "error"}
    BY <1>1, <1>3, <1>8 DEF Configure, Data
  <2> QED
    BY <1>8, <2>1, <2>2, <2>3 DEF Configure, Data
<1>9. ASSUME NEW w \in Writers, ReadHosts(w)
      PROVE  Data'
  <2>1. ASSUME NEW own, own \in Seq(Line), NEW sites \in SUBSET list, Collect(w, own, sites)
        PROVE  lines' \in [Writers -> Seq(Line)]
    <3>1. SiteLines(ValidHosts(sites)) \in Seq(Line)
      BY <1>0, ValidHostsTyped, FileIs
    <3>2. own \o SiteLines(ValidHosts(sites)) \in Seq(Line)
      BY <2>1, <3>1, ConcatProperties
    <3> QED
      BY <2>1, <3>2 DEF Collect, Data
  <2>2. CASE UNCHANGED torn /\ \E sites \in SUBSET list : Wanted(w, sites) /\ Collect(w, Own(hosts), sites)
    <3>1. PICK sites \in SUBSET list : Wanted(w, sites) /\ Collect(w, Own(hosts), sites)
      BY <2>2
    <3>2. lines' \in [Writers -> Seq(Line)]
      BY <2>1, <3>1, OwnTyped DEF Data
    <3>3. faults' \in 0..MaxFaults /\ short' \in BOOLEAN
      BY <1>a, <3>1
    <3>4. result' = result /\ torn' = torn /\ clashed' \in BOOLEAN
      BY <2>2, <3>1 DEF Collect
    <3> QED
      BY <1>9, <3>2, <3>3, <3>4 DEF ReadHosts, Data
  <2>3. CASE /\ Fault /\ torn' = TRUE /\ UNCHANGED short
             /\ \E n \in 0..Len(hosts) : Collect(w, Own(SubSeq(hosts, 1, n)), IF w = Engine THEN list ELSE {})
    <3>1. PICK n \in 0..Len(hosts) : Collect(w, Own(SubSeq(hosts, 1, n)), IF w = Engine THEN list ELSE {})
      BY <2>3
    <3>2. SubSeq(hosts, 1, n) \in Seq(Line)
      <4> DEFINE M == Line
      <4>1. hosts \in Seq(M)
        BY DEF Data
      <4> HIDE DEF M
      <4>2. SubSeq(hosts, 1, n) \in Seq(M)
        BY <4>1
      <4> QED
        BY <4>2 DEF M
    <3>3. lines' \in [Writers -> Seq(Line)]
      <4>1. Own(SubSeq(hosts, 1, n)) \in Seq(Line)
        BY <3>2, OwnTyped
      <4>2. PICK sites \in SUBSET list : Collect(w, Own(SubSeq(hosts, 1, n)), sites)
        BY <3>1
      <4> QED
        BY <2>1, <4>1, <4>2
    <3>4. result' = result /\ torn' = TRUE /\ short' = short /\ clashed' \in BOOLEAN
      BY <2>3, <3>1 DEF Collect
    <3>5. faults' \in 0..MaxFaults
      BY <1>2, <2>3
    <3> QED
      BY <1>9, <3>3, <3>4, <3>5 DEF ReadHosts, Data
  <2>4. CASE Fault /\ Fail(w) /\ UNCHANGED <<lines, torn, clashed, short>>
    BY <1>1, <1>2, <1>9, <2>4 DEF ReadHosts, Data
  <2> QED
    BY <1>9, <2>2, <2>3, <2>4, Zenon DEF ReadHosts
<1>10. ASSUME NEW w \in Writers, Truncate(w)
       PROVE  Data'
  BY <1>1, <1>2, <1>4, <1>10 DEF Truncate, Data
<1>11. ASSUME NEW w \in Writers, WriteHosts(w)
       PROVE  Data'
  <2> DEFINE Over(k) == SubSeq(lines[w], 1, k) \o SubSeq(hosts, k + 1, Len(hosts))
  <2>1. ASSUME NEW k \in 0..Len(lines[w])
        PROVE  Over(k) \in Seq(Line)
    <3> HIDE DEF L
    <3>1. lines[w] \in Seq(L) /\ hosts \in Seq(L)
      BY DEF Data, L
    <3>2. SubSeq(lines[w], 1, k) \in Seq(L)
      BY <3>1
    <3>3. SubSeq(hosts, k + 1, Len(hosts)) \in Seq(L)
      BY <3>1
    <3> QED
      BY <3>2, <3>3, ConcatProperties DEF L
  <2>2. Len(lines[w]) \in Nat
    <3>1. lines[w] \in Seq(Line)
      BY DEF Data
    <3> QED
      BY <3>1, LenProperties
  <2>3. hosts' \in Seq(Line)
    <3>1. \E k \in 0..Len(lines[w]) : hosts' = Over(k)
      <4> HIDE DEF Over
      <4>1. hosts' = Over(Len(lines[w])) \/ \E k \in 0..Len(lines[w]) : hosts' = Over(k)
        BY <1>11, Zenon DEF WriteHosts, Over
      <4>2. Len(lines[w]) \in 0..Len(lines[w])
        BY <2>2
      <4> QED
        BY <4>1, <4>2
    <3> QED
      BY <2>1, <3>1
  <2>4. lines' \in [Writers -> Seq(Line)]
    BY <1>4, <1>11 DEF WriteHosts, Data
  <2>5. faults' \in 0..MaxFaults /\ torn' \in BOOLEAN
    BY <1>2, <1>11 DEF WriteHosts, Data
  <2>6. result' \in {"none", "ok", "error"}
    BY <1>11 DEF WriteHosts, Data
  <2> QED
    BY <1>11, <2>3, <2>4, <2>5, <2>6 DEF WriteHosts, Data
<1>12. CASE StopService \/ WaitForService \/ RemoveRest
  <2>1. CASE StopService
    BY <1>2, <2>1 DEF StopService, Data
  <2>2. CASE WaitForService
    BY <1>2, <2>2 DEF WaitForService, Data
  <2>3. CASE RemoveRest
    BY <1>2, <2>3 DEF RemoveRest, Data
  <2> QED
    BY <1>12, <2>1, <2>2, <2>3
<1>13. CASE ServiceStops \/ Crash
  <2>1. lines' \in [Writers -> Seq(Line)]
    BY <1>4, <1>13 DEF ServiceStops, Crash, ProcessGone, Data
  <2>2. torn' \in BOOLEAN
    BY <1>13 DEF ServiceStops, Crash, Data
  <2>3. starts' \in 0..MaxStarts
    BY <1>13, BoundsAssumption DEF ServiceStops, Crash, Data
  <2>4. open' = FALSE /\ tx' = {} /\ service' = "stopped" /\ scanned' = {} /\ result' = "none"
        /\ UNCHANGED <<folders, rows, published, hosts, clashed, late, short, absent, changes, faults>>
    BY <1>13, Zenon DEF ServiceStops, Crash, ProcessGone, Ended
  <2> QED
    BY <2>1, <2>2, <2>3, <2>4, Zenon DEF Data
<1>14. CASE StartService
  <2>1. late' \in BOOLEAN
    BY <1>14 DEF StartService
  <2>2. starts' \in 0..MaxStarts
    <3>1. starts < MaxStarts /\ starts' = starts + 1 /\ starts \in 0..MaxStarts
      BY <1>14, Zenon DEF StartService, Data
    <3> QED
      BY <3>1, BoundsAssumption
  <2> QED
    BY <1>14, <2>1, <2>2 DEF StartService, Data
<1>15. CASE FolderChanges
  BY <1>15, BoundsAssumption DEF FolderChanges, Data
<1>16. CASE UNCHANGED vars
  BY <1>16 DEF vars, Data
<1> QED
  BY <1>5, <1>6, <1>7, <1>8, <1>9, <1>10, <1>11, <1>12, <1>13, <1>14, <1>15, <1>16 DEF Next

LEMMA InitTyped == Init => PcTyped /\ Data
<1> SUFFICES ASSUME Init PROVE PcTyped /\ Data
  OBVIOUS
<1>1. PcTyped
  BY DEF Init, PcTyped, Writers, Engine, Uninstall, Steps, EngineSteps, UninstallSteps
<1>2. hosts \in Seq(Line)
  <2>1. UserLine \subseteq Line
    BY DEF UserLine, Line
  <2> QED
    BY <2>1, UserFileIs, SeqMonotonic DEF Init
<1>3. lines \in [Writers -> Seq(Line)]
  BY EmptySeq DEF Init
<1>4. changes \in 0..MaxChanges /\ faults \in 0..MaxFaults /\ starts \in 0..MaxStarts
  <2>1. changes = 0 /\ faults = 0 /\ starts = 0
    BY Zenon DEF Init
  <2> QED
    BY <2>1, BoundsAssumption
<1> QED
  BY <1>1, <1>2, <1>3, <1>4, Zenon DEF Init, Data

(* Every variable has its type; in particular each line of the hosts file is *)
(* one of the user's or the entry of a folder's hostname.                    *)
THEOREM TypeCorrect == Spec => []TypeOK
<1>1. PcTyped /\ Data /\ Table => TypeOK
  BY DEF PcTyped, Data, Table, TypeOK, Hostnames
<1> QED
  BY <1>1, InitTyped, PcStep, DataStep, InitTable, TableStep, PTL DEF Spec

-----------------------------------------------------------------------------
(* The hosts file.  As long as no rewriting was cut off and the two writers  *)
(* kept apart, at most one of them is between reading and the end of its     *)
(* writing; what it holds, and the file outside a write, is the user's lines *)
(* and the entries of some set of hostnames.                                 *)
Rewriting == {"truncate", "write"}

Whole ==
  ~torn /\ ~clashed =>
    /\ pc[Engine] \notin Rewriting \/ pc[Uninstall] \notin Rewriting
    /\ \A w \in Writers : pc[w] \in Rewriting => \E X \in SUBSET Hostnames : lines[w] = File(X)
    /\ (\E w \in Writers : pc[w] = "write") => hosts = <<>>
    /\ (\A w \in Writers : pc[w] # "write") => \E X \in SUBSET Hostnames : hosts = File(X)

LEMMA WritersAre ==
  /\ Engine \in Writers /\ Uninstall \in Writers /\ Engine # Uninstall
  /\ Writers = {Engine, Uninstall}
  /\ Other(Engine) = Uninstall /\ Other(Uninstall) = Engine
<1>1. Engine \in Writers /\ Uninstall \in Writers /\ Engine # Uninstall /\ Writers = {Engine, Uninstall}
  BY DEF Writers, Engine, Uninstall
<1>2. \A w \in Writers : Other(w) \in Writers /\ Other(w) # w
  BY <1>1 DEF Other
<1> QED
  BY <1>1, <1>2

(* The hostnames of the entries: when nothing was left out, those of all     *)
(* valid rows, and uninstall's none.                                         *)
NamesAre(w, X) ==
  /\ X \in SUBSET Hostnames
  /\ w = Engine /\ ~short' => ~short /\ X = ValidHosts(list)
  /\ w = Uninstall => X = {}

LEMMA WantedNames ==
  ASSUME Data, NEW w \in Writers, NEW sites \in SUBSET list, Wanted(w, sites)
  PROVE  NamesAre(w, ValidHosts(sites))
<1>1. sites \in SUBSET Rows
  BY DEF Data, list
<1>2. ValidHosts(sites) \in SUBSET Hostnames
  BY <1>1, ValidHostsTyped
<1>3. CASE w = Engine
  <2>1. (sites = list /\ short' = short) \/ short' = TRUE
    BY <1>3 DEF Wanted, Listed
  <2> QED
    BY <1>2, <1>3, <2>1, WritersAre DEF NamesAre
<1>4. CASE w = Uninstall
  <2>1. sites = {}
    BY <1>4, WritersAre DEF Wanted
  <2>2. ValidHosts(sites) = {}
    BY <2>1 DEF ValidHosts
  <2> QED
    BY <1>2, <1>4, <2>2, WritersAre DEF NamesAre
<1> QED
  BY <1>3, <1>4, WritersAre

(* What the three steps of sync_hosts do, to those who keep apart.           *)
LEMMA ReadHostsDoes ==
  ASSUME PcTyped, Data, NEW w \in Writers, ReadHosts(w)
  PROVE  /\ pc[w] = "read" /\ hosts' = hosts /\ published' = published /\ rows' = rows
         /\ late' = late /\ service' = service /\ absent' = absent
         /\ torn => torn'
         /\ w = Uninstall => short' = short
         /\ short => short'
         /\ \A v \in Writers \ {w} : pc'[v] = pc[v] /\ lines'[v] = lines[v]
         /\ \/ /\ pc'[w] = "truncate" /\ result' = result
               /\ clashed' = (clashed \/ pc[Other(w)] \in Rewriting)
               /\ ~torn' => \E X \in SUBSET Hostnames : NamesAre(w, X) /\ lines'[w] = Own(hosts) \o SiteLines(X)
            \/ /\ pc'[w] = IF w = Engine THEN "idle" ELSE "failed"
               /\ result' = IF w = Engine THEN "error" ELSE result
               /\ clashed' = clashed
<1>1. Goto(w, "truncate") => pc'[w] = "truncate" /\ \A v \in Writers \ {w} : pc'[v] = pc[v]
  BY GoneTo DEF EngineSteps, UninstallSteps
<1>2. /\ pc[w] = "read" /\ hosts' = hosts /\ published' = published /\ rows' = rows
      /\ late' = late /\ service' = service /\ absent' = absent
  BY DEF ReadHosts, At, registry
<1>3. ASSUME NEW own, NEW sites, Collect(w, own, sites)
      PROVE  /\ pc'[w] = "truncate" /\ result' = result
             /\ \A v \in Writers \ {w} : pc'[v] = pc[v] /\ lines'[v] = lines[v]
             /\ lines'[w] = own \o SiteLines(ValidHosts(sites))
             /\ clashed' = (clashed \/ pc[Other(w)] \in Rewriting)
  <2>1. Goto(w, "truncate") /\ result' = result
    BY <1>3 DEF Collect
  <2>2. /\ lines'[w] = own \o SiteLines(ValidHosts(sites))
        /\ \A v \in Writers \ {w} : lines'[v] = lines[v]
    BY <1>3 DEF Collect, Data
  <2>3. clashed' = (clashed \/ pc[Other(w)] \in Rewriting)
    BY <1>3, Zenon DEF Collect, Rewriting
  <2> QED
    BY <1>1, <2>1, <2>2, <2>3, Zenon
<1>4. CASE UNCHANGED torn /\ \E sites \in SUBSET list : Wanted(w, sites) /\ Collect(w, Own(hosts), sites)
  <2>1. PICK sites \in SUBSET list : Wanted(w, sites) /\ Collect(w, Own(hosts), sites)
    BY <1>4
  <2>2. NamesAre(w, ValidHosts(sites)) /\ ValidHosts(sites) \in SUBSET Hostnames
    BY <2>1, WantedNames DEF NamesAre
  <2>3. (w = Uninstall => short' = short) /\ (short => short')
    BY <2>1, WritersAre DEF Wanted, Listed
  <2>4. /\ pc'[w] = "truncate" /\ result' = result
        /\ \A v \in Writers \ {w} : pc'[v] = pc[v] /\ lines'[v] = lines[v]
        /\ lines'[w] = Own(hosts) \o SiteLines(ValidHosts(sites))
        /\ clashed' = (clashed \/ pc[Other(w)] \in Rewriting)
    BY <1>3, <2>1
  <2>5. torn => torn'
    BY <1>4
  <2> QED
    BY <1>2, <2>2, <2>3, <2>4, <2>5, Zenon
<1>5. CASE /\ Fault /\ torn' = TRUE /\ UNCHANGED short
           /\ \E n \in 0..Len(hosts) : Collect(w, Own(SubSeq(hosts, 1, n)), IF w = Engine THEN list ELSE {})
  <2>1. PICK own, sites : Collect(w, own, sites)
    BY <1>5
  <2>2. /\ pc'[w] = "truncate" /\ result' = result
        /\ \A v \in Writers \ {w} : pc'[v] = pc[v] /\ lines'[v] = lines[v]
        /\ clashed' = (clashed \/ pc[Other(w)] \in Rewriting)
    BY <1>3, <2>1
  <2> QED
    BY <1>2, <1>5, <2>2, Zenon
<1>6. CASE Fail(w) /\ UNCHANGED <<lines, torn, clashed, short>>
  BY <1>2, <1>6, FailedTo
<1> QED
  BY <1>4, <1>5, <1>6, Zenon DEF ReadHosts

LEMMA TruncateDoes ==
  ASSUME PcTyped, Data, NEW w \in Writers, Truncate(w)
  PROVE  /\ pc[w] = "truncate" /\ torn' = torn /\ clashed' = clashed /\ lines' = lines
         /\ published' = published /\ rows' = rows /\ late' = late /\ service' = service
         /\ short' = short /\ absent' = absent
         /\ \A v \in Writers \ {w} : pc'[v] = pc[v]
         /\ \/ pc'[w] = "write" /\ hosts' = <<>> /\ result' = result
            \/ /\ hosts' = hosts
               /\ pc'[w] = IF w = Engine THEN "idle" ELSE "failed"
               /\ result' = IF w = Engine THEN "error" ELSE result
<1>1. Goto(w, "write") => pc'[w] = "write" /\ \A v \in Writers \ {w} : pc'[v] = pc[v]
  BY GoneTo DEF EngineSteps, UninstallSteps
<1>2. /\ pc[w] = "truncate" /\ torn' = torn /\ clashed' = clashed /\ lines' = lines
      /\ published' = published /\ rows' = rows /\ late' = late /\ service' = service
      /\ short' = short /\ absent' = absent
  BY DEF Truncate, At, registry, history, partial
<1>3. CASE Goto(w, "write") /\ hosts' = <<>> /\ result' = result
  BY <1>1, <1>2, <1>3, Zenon
<1>4. CASE Fail(w) /\ hosts' = hosts
  BY <1>2, <1>4, FailedTo, Zenon
<1> QED
  BY <1>3, <1>4, Zenon DEF Truncate

LEMMA WriteHostsDoes ==
  ASSUME PcTyped, Data, NEW w \in Writers, WriteHosts(w)
  PROVE  /\ pc[w] = "write" /\ clashed' = clashed
         /\ published' = published /\ rows' = rows /\ late' = late /\ service' = service
         /\ short' = short /\ absent' = absent
         /\ torn => torn'
         /\ \A v \in Writers \ {w} : pc'[v] = pc[v] /\ lines'[v] = lines[v]
         /\ pc'[w] = IF w = Engine THEN "idle" ELSE "certificates"
         /\ result' = IF w = Engine THEN "ok" ELSE result
         /\ ~torn' /\ hosts = <<>> => hosts' = lines[w]
<1>1. Goto(w, IF w = Engine THEN "idle" ELSE "certificates") /\ result' = IF w = Engine THEN "ok" ELSE result
  BY DEF WriteHosts
<1>2. /\ pc'[w] = IF w = Engine THEN "idle" ELSE "certificates"
      /\ \A v \in Writers \ {w} : pc'[v] = pc[v]
  BY <1>1, GoneTo DEF EngineSteps, UninstallSteps
<1>3. \A v \in Writers \ {w} : lines'[v] = lines[v]
  BY DEF WriteHosts, Data
<1>4. /\ pc[w] = "write" /\ clashed' = clashed
      /\ published' = published /\ rows' = rows /\ late' = late /\ service' = service
      /\ short' = short /\ absent' = absent
      /\ torn => torn'
  <2>1. UNCHANGED <<registry, published, service, clashed, late, partial, changes, starts>> /\ pc[w] = "write"
    BY Zenon DEF WriteHosts, At
  <2>2. torn => torn'
    BY Zenon DEF WriteHosts
  <2> QED
    BY <2>1, <2>2 DEF registry, partial
<1>5. ASSUME ~torn', hosts = <<>> PROVE hosts' = lines[w]
  <2> DEFINE L == Line
             s == lines[w]
  <2>1. hosts' = SubSeq(s, 1, Len(s)) \o SubSeq(hosts, Len(s) + 1, Len(hosts))
    BY <1>5, Zenon DEF WriteHosts
  <2>2. s \in Seq(L)
    BY DEF Data
  <2> HIDE DEF s, L
  <2>3. SubSeq(s, 1, Len(s)) = s
    BY <2>2, SubSeqFull
  <2>4. SubSeq(<<>>, Len(s) + 1, 0) = <<>>
    BY <2>2, SubSeqEmpty
  <2>5. Len(hosts) = 0
    BY <1>5
  <2> QED
    BY <1>5, <2>1, <2>2, <2>3, <2>4, <2>5, ConcatEmptySeq DEF s
<1> QED
  BY <1>1, <1>2, <1>3, <1>4, <1>5, Zenon

LEMMA HistoryKept ==
  PcTyped /\ Data /\ [Next]_vars => (torn => torn') /\ (clashed => clashed') /\ (late => late')
<1> SUFFICES ASSUME PcTyped, Data, [Next]_vars
             PROVE  (torn => torn') /\ (clashed => clashed') /\ (late => late')
  OBVIOUS
<1>1. ASSUME NEW w \in Writers, ReadHosts(w)
      PROVE  (torn => torn') /\ (clashed => clashed') /\ (late => late')
  BY <1>1, ReadHostsDoes, Zenon
<1>2. ASSUME NEW w \in Writers, Truncate(w)
      PROVE  (torn => torn') /\ (clashed => clashed') /\ (late => late')
  BY <1>2, TruncateDoes, Zenon
<1>3. ASSUME NEW w \in Writers, WriteHosts(w)
      PROVE  (torn => torn') /\ (clashed => clashed') /\ (late => late')
  BY <1>3, WriteHostsDoes, Zenon
<1>4. CASE Begin \/ Insert \/ Commit \/ StopService \/ RemoveRest \/ ServiceStops \/ FolderChanges \/ UNCHANGED vars
  <2>1. UNCHANGED history
    BY <1>4 DEF Begin, Insert, Commit, StopService, RemoveRest, ServiceStops, FolderChanges, vars
  <2> QED
    BY <2>1 DEF history
<1>8. CASE Scan \/ Configure
  BY <1>8 DEF Scan, Configure
<1>5. CASE WaitForService
  <2>1. torn' = torn /\ clashed' = clashed
    BY <1>5 DEF WaitForService
  <2>2. late => late'
    BY <1>5 DEF WaitForService
  <2> QED
    BY <2>1, <2>2
<1>6. CASE Crash
  BY <1>6, Zenon DEF Crash
<1>7. CASE StartService
  BY <1>7, Zenon DEF StartService
<1> QED
  BY <1>1, <1>2, <1>3, <1>4, <1>5, <1>6, <1>7, <1>8 DEF Next

(* The other steps: nobody begins to rewrite, nobody leaves a write but by a *)
(* crash, which is history.                                                  *)
Quiet ==
  /\ hosts' = hosts
  /\ \A w \in Writers : /\ pc'[w] \in Rewriting => pc'[w] = pc[w] /\ lines'[w] = lines[w]
                        /\ pc[w] = "write" => pc'[w] = "write" \/ torn'

LEMMA QuietSteps ==
  ASSUME PcTyped, Data, Table, [Next]_vars
  PROVE  Quiet \/ \E w \in Writers : ReadHosts(w) \/ Truncate(w) \/ WriteHosts(w)
<1>0. Engine \in Writers /\ Uninstall \in Writers /\ Engine # Uninstall /\ Writers = {Engine, Uninstall}
  BY WritersAre
<1>1. ASSUME hosts' = hosts, UNCHANGED lines, NEW w \in Writers, NEW step \in {"idle", "begin", "insert", "configure", "read", "wait", "removed", "failed"},
             \A v \in Writers \ {w} : pc'[v] = pc[v], pc'[w] = step, pc[w] # "write"
      PROVE  Quiet
  BY <1>1 DEF Quiet, Rewriting
<1>2. ASSUME hosts' = hosts, UNCHANGED lines, UNCHANGED pc
      PROVE  Quiet
  BY <1>2 DEF Quiet
<1>3. ASSUME NEW step \in {"idle", "begin", "insert", "configure", "read"}, Goto(Engine, step)
      PROVE  pc'[Engine] = step /\ \A v \in Writers \ {Engine} : pc'[v] = pc[v]
  BY <1>0, <1>3, GoneTo DEF EngineSteps
<1>4. ASSUME NEW step \in {"wait", "read", "removed", "failed"}, Goto(Uninstall, step)
      PROVE  pc'[Uninstall] = step /\ \A v \in Writers \ {Uninstall} : pc'[v] = pc[v]
  BY <1>0, <1>4, GoneTo DEF UninstallSteps
<1>5. Fail(Engine) => Goto(Engine, "idle")
  BY DEF Fail
<1>6. CASE Scan \/ Begin \/ Insert \/ Commit \/ Configure
  <2>1. hosts' = hosts /\ UNCHANGED lines /\ pc[Engine] # "write"
    BY <1>6 DEF Scan, Begin, Insert, Commit, Configure, At
  <2>2. (\E step \in {"idle", "begin", "insert", "configure", "read"} : Goto(Engine, step)) \/ UNCHANGED pc
    BY <1>5, <1>6 DEF Scan, Begin, Insert, Commit, Configure
  <2> QED
    BY <1>0, <1>1, <1>2, <1>3, <2>1, <2>2
<1>7. CASE StopService \/ WaitForService \/ RemoveRest
  <2>1. hosts' = hosts /\ UNCHANGED lines /\ pc[Uninstall] # "write"
    BY <1>7 DEF StopService, WaitForService, RemoveRest, At
  <2>2. \E step \in {"wait", "read", "removed", "failed"} : Goto(Uninstall, step)
    BY <1>7 DEF StopService, WaitForService, RemoveRest
  <2> QED
    BY <1>0, <1>1, <1>4, <2>1, <2>2
<1>8. CASE ServiceStops \/ Crash
  <2>1. hosts' = hosts /\ Goto(Engine, "down") /\ lines' = [lines EXCEPT ![Engine] = <<>>]
    BY <1>8 DEF ServiceStops, Crash, ProcessGone
  <2>2. pc[Engine] = "write" => torn'
    BY <1>8 DEF ServiceStops, Crash, At
  <2>3. pc'[Engine] = "down" /\ pc'[Uninstall] = pc[Uninstall]
    BY <1>0, <2>1, GoneTo DEF EngineSteps
  <2>4. lines'[Uninstall] = lines[Uninstall]
    BY <1>0, <2>1 DEF Data
  <2> QED
    BY <1>0, <2>1, <2>2, <2>3, <2>4 DEF Quiet, Rewriting
<1>9. CASE StartService
  <2>1. hosts' = hosts /\ UNCHANGED lines /\ Goto(Engine, "idle") /\ service = "stopped"
    BY <1>9 DEF StartService
  <2>2. pc[Engine] # "write"
    BY <2>1 DEF Table
  <2> QED
    BY <1>0, <1>1, <1>3, <2>1, <2>2
<1>10. CASE FolderChanges \/ UNCHANGED vars
  BY <1>2, <1>10 DEF FolderChanges, vars
<1> QED
  BY <1>6, <1>7, <1>8, <1>9, <1>10 DEF Next

LEMMA WholeStep == PcTyped /\ Data /\ Table /\ Whole /\ [Next]_vars => Whole'
<1> SUFFICES ASSUME PcTyped, Data, Table, Whole, [Next]_vars, ~torn', ~clashed'
             PROVE  /\ pc'[Engine] \notin Rewriting \/ pc'[Uninstall] \notin Rewriting
                    /\ \A w \in Writers : pc'[w] \in Rewriting => \E X \in SUBSET Hostnames : lines'[w] = File(X)
                    /\ (\E w \in Writers : pc'[w] = "write") => hosts' = <<>>
                    /\ (\A w \in Writers : pc'[w] # "write") => \E X \in SUBSET Hostnames : hosts' = File(X)
  BY DEF Whole, Writers, Engine, Uninstall, Rewriting, File, UserFile, SiteLines
<1>0. Writers = {Engine, Uninstall} /\ Engine # Uninstall
  BY WritersAre
<1>1. ~torn /\ ~clashed
  BY HistoryKept
<1>2. /\ pc[Engine] \notin Rewriting \/ pc[Uninstall] \notin Rewriting
      /\ \A w \in Writers : pc[w] \in Rewriting => \E X \in SUBSET Hostnames : lines[w] = File(X)
      /\ (\E w \in Writers : pc[w] = "write") => hosts = <<>>
      /\ (\A w \in Writers : pc[w] # "write") => \E X \in SUBSET Hostnames : hosts = File(X)
  BY <1>1 DEF Whole
<1>3. CASE Quiet
  <2>1. \A w \in Writers : pc[w] = "write" <=> pc'[w] = "write"
    BY <1>3 DEF Quiet, Rewriting
  <2> QED
    BY <1>0, <1>2, <1>3, <2>1 DEF Quiet
<1>4. ASSUME NEW w \in Writers, ReadHosts(w)
      PROVE  /\ pc'[Engine] \notin Rewriting \/ pc'[Uninstall] \notin Rewriting
             /\ \A v \in Writers : pc'[v] \in Rewriting => \E X \in SUBSET Hostnames : lines'[v] = File(X)
             /\ (\E v \in Writers : pc'[v] = "write") => hosts' = <<>>
             /\ (\A v \in Writers : pc'[v] # "write") => \E X \in SUBSET Hostnames : hosts' = File(X)
  <2>1. pc[w] = "read" /\ hosts' = hosts /\ \A v \in Writers \ {w} : pc'[v] = pc[v] /\ lines'[v] = lines[v]
    BY <1>4, ReadHostsDoes
  <2>2. \/ pc'[w] \notin Rewriting
        \/ /\ pc'[w] = "truncate" /\ pc[Other(w)] \notin Rewriting
           /\ \E X \in SUBSET Hostnames : lines'[w] = Own(hosts) \o SiteLines(X)
    <3>1. \/ /\ pc'[w] = "truncate" /\ pc[Other(w)] \notin Rewriting
             /\ \E X \in SUBSET Hostnames : lines'[w] = Own(hosts) \o SiteLines(X)
          \/ pc'[w] = IF w = Engine THEN "idle" ELSE "failed"
      BY <1>4, ReadHostsDoes, Zenon
    <3>2. pc'[w] = (IF w = Engine THEN "idle" ELSE "failed") => pc'[w] \notin Rewriting
      BY DEF Rewriting
    <3> QED
      BY <3>1, <3>2, Zenon
  <2>3. \A v \in Writers : pc[v] = "write" <=> pc'[v] = "write"
    BY <2>1, <2>2 DEF Rewriting
  <2>4. pc'[Engine] \notin Rewriting \/ pc'[Uninstall] \notin Rewriting
    BY <1>0, <1>2, <2>1, <2>2, WritersAre
  <2>5. pc'[w] = "truncate" => \E X \in SUBSET Hostnames : lines'[w] = File(X)
    <3> SUFFICES ASSUME pc'[w] = "truncate" PROVE \E X \in SUBSET Hostnames : lines'[w] = File(X)
      OBVIOUS
    <3>1. pc[Other(w)] \notin Rewriting /\ \E X \in SUBSET Hostnames : lines'[w] = Own(hosts) \o SiteLines(X)
      BY <2>2 DEF Rewriting
    <3>2. \A v \in Writers : pc[v] # "write"
      BY <1>0, <2>1, <3>1, WritersAre DEF Rewriting
    <3>3. Own(hosts) = UserFile
      BY <1>2, <3>2, FileIs
    <3> QED
      BY <3>1, <3>3 DEF File
  <2>6. \A v \in Writers : pc'[v] \in Rewriting => \E X \in SUBSET Hostnames : lines'[v] = File(X)
    <3>1. pc'[w] \in Rewriting => \E X \in SUBSET Hostnames : lines'[w] = File(X)
      BY <2>2, <2>5
    <3> QED
      BY <1>2, <2>1, <3>1
  <2> QED
    BY <1>2, <2>1, <2>3, <2>4, <2>6
<1>5. ASSUME NEW w \in Writers, Truncate(w)
      PROVE  /\ pc'[Engine] \notin Rewriting \/ pc'[Uninstall] \notin Rewriting
             /\ \A v \in Writers : pc'[v] \in Rewriting => \E X \in SUBSET Hostnames : lines'[v] = File(X)
             /\ (\E v \in Writers : pc'[v] = "write") => hosts' = <<>>
             /\ (\A v \in Writers : pc'[v] # "write") => \E X \in SUBSET Hostnames : hosts' = File(X)
  <2>1. pc[w] = "truncate" /\ lines' = lines /\ \A v \in Writers \ {w} : pc'[v] = pc[v]
    BY <1>5, TruncateDoes
  <2>2. \/ pc'[w] = "write" /\ hosts' = <<>>
        \/ pc'[w] \notin Rewriting /\ hosts' = hosts
    <3>1. \/ pc'[w] = "write" /\ hosts' = <<>>
          \/ pc'[w] = (IF w = Engine THEN "idle" ELSE "failed") /\ hosts' = hosts
      BY <1>5, TruncateDoes, Zenon
    <3>2. pc'[w] = (IF w = Engine THEN "idle" ELSE "failed") => pc'[w] \notin Rewriting
      BY DEF Rewriting
    <3> QED
      BY <3>1, <3>2, Zenon
  <2>3. \A v \in Writers \ {w} : pc[v] \notin Rewriting
    BY <1>0, <1>2, <2>1 DEF Rewriting
  <2>4. \A v \in Writers : pc[v] # "write"
    BY <2>1, <2>3 DEF Rewriting
  <2> QED
    BY <1>0, <1>2, <2>1, <2>2, <2>3, <2>4 DEF Rewriting
<1>6. ASSUME NEW w \in Writers, WriteHosts(w)
      PROVE  /\ pc'[Engine] \notin Rewriting \/ pc'[Uninstall] \notin Rewriting
             /\ \A v \in Writers : pc'[v] \in Rewriting => \E X \in SUBSET Hostnames : lines'[v] = File(X)
             /\ (\E v \in Writers : pc'[v] = "write") => hosts' = <<>>
             /\ (\A v \in Writers : pc'[v] # "write") => \E X \in SUBSET Hostnames : hosts' = File(X)
  <2>1. pc[w] = "write" /\ pc'[w] \notin Rewriting /\ \A v \in Writers \ {w} : pc'[v] = pc[v] /\ lines'[v] = lines[v]
    BY <1>6, WriteHostsDoes DEF Rewriting
  <2>2. \A v \in Writers \ {w} : pc[v] \notin Rewriting
    BY <1>0, <1>2, <2>1 DEF Rewriting
  <2>3. hosts' = lines[w]
    BY <1>2, <1>6, <2>1, WriteHostsDoes
  <2> QED
    BY <1>0, <1>2, <2>1, <2>2, <2>3 DEF Rewriting
<1> QED
  BY <1>3, <1>4, <1>5, <1>6, QuietSteps

LEMMA InitWhole == Init => Whole
<1> SUFFICES ASSUME Init PROVE Whole
  OBVIOUS
<1>1. hosts = File({})
  BY FileNone DEF Init
<1>2. \A w \in Writers : pc[w] \notin Rewriting /\ pc[w] # "write"
  BY DEF Init, Rewriting
<1> QED
  BY <1>1, <1>2, WritersAre DEF Whole

LEMMA WholeAlways == Spec => [](PcTyped /\ Data /\ Table /\ Whole)
BY InitTyped, PcStep, DataStep, InitTable, TableStep, InitWhole, WholeStep, PTL DEF Spec

(* sync_hosts, by the Engine and by uninstall: the lines of the hosts file   *)
(* that are not Appytizer's are in it, in their order, whenever nobody is    *)
(* between truncating it and writing it, whatever the user has in the file   *)
(* and whichever calls fail.                                                 *)
THEOREM UserLinesKept == Spec => []UserLinesSurvive
<1>1. Whole => UserLinesSurvive
  BY FileIs DEF Whole, UserLinesSurvive
<1> QED
  BY <1>1, WholeAlways, PTL

(* list, validate_dns_labels and sync_hosts: two folders never share a       *)
(* hostname in the rows any statement sees, nor in the hosts file.           *)
THEOREM HostnamesUnique == Spec => []HostnamesAreUnique
<1>1. Whole => (~clashed /\ ~torn => \A i, j \in DOMAIN Entries(hosts) : Entries(hosts)[i] = Entries(hosts)[j] => i = j)
  <2> SUFFICES ASSUME Whole, ~clashed, ~torn
               PROVE  \A i, j \in DOMAIN Entries(hosts) : Entries(hosts)[i] = Entries(hosts)[j] => i = j
    OBVIOUS
  <2>1. CASE hosts = <<>>
    <3>1. Entries(hosts) = <<>>
      BY <2>1, SelectEmpty DEF Entries
    <3> QED
      BY <3>1
  <2>2. ASSUME NEW X \in SUBSET Hostnames, hosts = File(X)
        PROVE  \A i, j \in DOMAIN Entries(hosts) : Entries(hosts)[i] = Entries(hosts)[j] => i = j
    <3>1. IsFiniteSet(X)
      BY HostnamesFinite, FS_Subset
    <3>2. Entries(hosts) = SiteLines(X)
      BY <2>2, FileIs
    <3> QED
      BY ONLY <3>1, <3>2, SiteLinesAre
  <2> QED
    BY <2>1, <2>2 DEF Whole
<1> QED
  BY <1>1, WholeAlways, RowsAreDistinct, PTL DEF HostnamesAreUnique

-----------------------------------------------------------------------------
(* What the Engine's refresh publishes.  Before uninstall begins only the    *)
(* Engine writes the hosts file, and what it writes are the committed rows   *)
(* that are valid, which nginx was given when it was detected.               *)
Publishing ==
  \/ pc[Engine] \in {"read", "truncate", "write"}
  \/ pc[Engine] = "idle" /\ result = "ok"

Followed ==
  /\ pc[Uninstall] \in {"not run", "wait", "read"} => ~clashed
  /\ pc[Engine] = "down" => result = "none"
  /\ Publishing /\ ~short /\ ~absent => published = ValidHosts(rows)
  /\ pc[Uninstall] = "not run" /\ ~torn /\ ~short =>
       /\ pc[Engine] \in Rewriting => lines[Engine] = File(ValidHosts(rows))
       /\ pc[Engine] = "idle" /\ result = "ok" => hosts = File(ValidHosts(rows))

LEMMA FollowedStep ==
  PcTyped /\ Data /\ Table /\ Whole /\ Followed /\ [Next]_vars => Followed'
<1> SUFFICES ASSUME PcTyped, Data, Table, Whole, Followed, [Next]_vars PROVE Followed'
  OBVIOUS
<1>0. Engine \in Writers /\ Uninstall \in Writers /\ Engine # Uninstall /\ Writers = {Engine, Uninstall}
  BY WritersAre
<1>1. ASSUME NEW step \in EngineSteps, Goto(Engine, step)
      PROVE  pc'[Engine] = step /\ pc'[Uninstall] = pc[Uninstall]
  BY <1>0, <1>1, GoneTo
<1>2. ASSUME Fail(Engine)
      PROVE  pc'[Engine] = "idle" /\ pc'[Uninstall] = pc[Uninstall] /\ result' = "error"
  BY <1>0, <1>2, FailedTo
<1>3. ASSUME NEW step \in {"wait", "read", "removed", "failed"}, Goto(Uninstall, step)
      PROVE  pc'[Uninstall] = step /\ pc'[Engine] = pc[Engine]
  BY <1>0, <1>3, GoneTo DEF UninstallSteps
<1>4. list = rows \/ pc[Engine] = "insert"
  BY DEF list, Table
<1>5. rows' = rows => ValidHosts(rows)' = ValidHosts(rows) /\ File(ValidHosts(rows))' = File(ValidHosts(rows))
  BY DEF ValidHosts, File, UserFile, SiteLines
(* The Engine's steps before sync_hosts, and a refresh that fails.           *)
<1>6. ASSUME pc'[Uninstall] = pc[Uninstall], clashed' = clashed,
             pc'[Engine] \in {"begin", "insert", "configure"}
      PROVE  Followed'
  BY <1>6 DEF Followed, Publishing, Rewriting
<1>7. ASSUME pc'[Uninstall] = pc[Uninstall], clashed' = clashed,
             pc'[Engine] = "idle", result' \in {"none", "error"}
      PROVE  Followed'
  BY <1>7 DEF Followed, Publishing, Rewriting
<1>8. CASE Scan
  BY <1>1, <1>2, <1>6, <1>7, <1>8 DEF Scan, EngineSteps
<1>9. CASE Begin
  BY <1>1, <1>2, <1>6, <1>7, <1>9 DEF Begin, EngineSteps, history
<1>10. CASE Insert
  <2>1. pc[Engine] = "insert" /\ clashed' = clashed
    BY <1>10 DEF Insert, At, history
  <2>2. UNCHANGED pc \/ Fail(Engine)
    BY <1>10 DEF Insert
  <2> QED
    BY <1>2, <1>6, <1>7, <2>1, <2>2
<1>11. CASE Commit
  BY <1>1, <1>2, <1>6, <1>7, <1>11 DEF Commit, EngineSteps, history
<1>12. CASE Configure
  <2>1. clashed' = clashed /\ rows' = rows /\ pc[Engine] = "configure"
    BY <1>12 DEF Configure, registry, At
  <2>2. CASE Fail(Engine)
    BY <1>2, <1>7, <2>1, <2>2
  <2>3. CASE Goto(Engine, "read")
    <3>1. pc'[Engine] = "read" /\ pc'[Uninstall] = pc[Uninstall]
      BY <1>1, <2>3 DEF EngineSteps
    <3>2. ~short' /\ ~absent' => published' = ValidHosts(rows)'
      <4> SUFFICES ASSUME ~short', ~absent' PROVE published' = ValidHosts(rows)'
        OBVIOUS
      <4>1. PICK sites \in SUBSET list : Listed(sites) /\ published' = ValidHosts(sites)
        <5>1. ~Fail(Engine)
          BY <1>2, <3>1
        <5> QED
          BY <1>12, <5>1, Zenon DEF Configure
      <4>2. sites = list
        BY <4>1 DEF Listed
      <4> QED
        BY <1>4, <1>5, <2>1, <4>1, <4>2
    <3> QED
      BY <2>1, <3>1, <3>2 DEF Followed, Publishing, Rewriting
  <2> QED
    BY <1>12, <2>2, <2>3, Zenon DEF Configure
(* Uninstall's steps, once it has begun.                                     *)
<1>13. ASSUME pc'[Uninstall] # "not run", pc'[Uninstall] \in {"wait", "read"} => ~clashed',
              UNCHANGED <<published, rows, result, short, absent>>, pc'[Engine] = pc[Engine]
       PROVE  Followed'
  BY <1>5, <1>13 DEF Followed, Publishing
<1>14. CASE StopService
  BY <1>3, <1>13, <1>14 DEF StopService, At, Followed, registry, history, partial
<1>15. CASE WaitForService
  BY <1>3, <1>13, <1>15 DEF WaitForService, At, Followed, registry, partial
<1>16. CASE RemoveRest
  BY <1>3, <1>13, <1>16 DEF RemoveRest, registry, history, partial
<1>17. CASE ReadHosts(Uninstall)
  <2>1. /\ pc'[Uninstall] \in {"truncate", "failed"} /\ UNCHANGED <<published, rows, result, short, absent>>
        /\ pc'[Engine] = pc[Engine]
    BY <1>0, <1>17, ReadHostsDoes
  <2> QED
    BY <1>13, <2>1
<1>18. CASE Truncate(Uninstall)
  <2>1. /\ pc'[Uninstall] \in {"write", "failed"} /\ UNCHANGED <<published, rows, result, short, absent>>
        /\ pc'[Engine] = pc[Engine]
    BY <1>0, <1>18, TruncateDoes
  <2> QED
    BY <1>13, <2>1
<1>19. CASE WriteHosts(Uninstall)
  <2>1. /\ pc'[Uninstall] = "certificates" /\ UNCHANGED <<published, rows, result, short, absent>>
        /\ pc'[Engine] = pc[Engine]
    BY <1>0, <1>19, WriteHostsDoes
  <2> QED
    BY <1>13, <2>1
(* sync_hosts by the Engine.                                                 *)
<1>20. CASE ReadHosts(Engine)
  <2>1. pc[Engine] = "read" /\ pc'[Uninstall] = pc[Uninstall] /\ UNCHANGED <<hosts, published, rows, absent>>
    BY <1>0, <1>20, ReadHostsDoes
  <2>2. pc[Uninstall] \in {"not run", "wait", "read"} => ~clashed'
    <3> SUFFICES ASSUME pc[Uninstall] \in {"not run", "wait", "read"} PROVE ~clashed'
      OBVIOUS
    <3>1. ~clashed /\ pc[Other(Engine)] \notin Rewriting
      BY WritersAre DEF Followed, Rewriting
    <3> QED
      BY <1>0, <1>20, <3>1, ReadHostsDoes, Zenon
  <2>3. CASE pc'[Engine] = "idle" /\ result' = "error"
    BY <2>1, <2>2, <2>3 DEF Followed, Publishing, Rewriting
  <2>4. CASE /\ pc'[Engine] = "truncate"
             /\ ~torn' => \E X \in SUBSET Hostnames : NamesAre(Engine, X) /\ lines'[Engine] = Own(hosts) \o SiteLines(X)
    <3>1. ASSUME pc[Uninstall] = "not run", ~torn', ~short' PROVE lines'[Engine] = File(ValidHosts(rows))
      <4>1. PICK X \in SUBSET Hostnames : NamesAre(Engine, X) /\ lines'[Engine] = Own(hosts) \o SiteLines(X)
        BY <2>4, <3>1
      <4>2. X = ValidHosts(rows)
        BY <1>4, <2>1, <3>1, <4>1 DEF NamesAre
      <4>3. \E Y \in SUBSET Hostnames : hosts = File(Y)
        <5>1. \A w \in Writers : pc[w] # "write"
          BY <1>0, <2>1, <3>1
        <5>2. ~torn /\ ~clashed
          BY <3>1, HistoryKept DEF Followed
        <5> QED
          BY <5>1, <5>2 DEF Whole
      <4>4. Own(hosts) = UserFile
        BY <4>3, FileIs
      <4> QED
        BY <4>1, <4>2, <4>4 DEF File
    <3>2. ~short' => ~short
      BY <1>0, <1>20, ReadHostsDoes
    <3>3. ~short /\ ~absent => published = ValidHosts(rows)
      <4>1. Publishing
        BY <2>1 DEF Publishing
      <4> QED
        BY <4>1 DEF Followed
    <3>4. ValidHosts(rows)' = ValidHosts(rows) /\ File(ValidHosts(rows))' = File(ValidHosts(rows))
      BY <1>5, <2>1
    <3>5. ~short' /\ ~absent' => published' = ValidHosts(rows)'
      BY <2>1, <3>2, <3>3, <3>4
    <3> QED
      BY <2>1, <2>2, <2>4, <3>1, <3>4, <3>5 DEF Followed, Publishing, Rewriting
  <2> QED
    BY <1>0, <1>20, <2>3, <2>4, ReadHostsDoes, Zenon
<1>21. CASE Truncate(Engine)
  <2>1. /\ pc[Engine] = "truncate" /\ pc'[Uninstall] = pc[Uninstall]
        /\ UNCHANGED <<lines, torn, clashed, published, rows, short, absent>>
    BY <1>0, <1>21, TruncateDoes
  <2>2. \/ pc'[Engine] = "write"
        \/ pc'[Engine] = "idle" /\ result' = "error"
    BY <1>0, <1>21, TruncateDoes, Zenon
  <2>3. ValidHosts(rows)' = ValidHosts(rows) /\ File(ValidHosts(rows))' = File(ValidHosts(rows))
    BY <1>5, <2>1
  <2>4. ~short' /\ ~absent' => published' = ValidHosts(rows)'
    <3>1. Publishing
      BY <2>1 DEF Publishing
    <3>2. ~short /\ ~absent => published = ValidHosts(rows)
      BY <3>1 DEF Followed
    <3> QED
      BY <2>1, <2>3, <3>2
  <2>5. pc[Uninstall] = "not run" /\ ~torn' /\ ~short' => lines'[Engine] = File(ValidHosts(rows))
    BY <2>1 DEF Followed, Rewriting
  <2>6. pc'[Uninstall] \in {"not run", "wait", "read"} => ~clashed'
    BY <2>1 DEF Followed
  <2> QED
    BY <2>1, <2>2, <2>3, <2>4, <2>5, <2>6 DEF Followed, Publishing, Rewriting
<1>22. CASE WriteHosts(Engine)
  <2>1. /\ pc[Engine] = "write" /\ pc'[Uninstall] = pc[Uninstall] /\ pc'[Engine] = "idle"
        /\ UNCHANGED <<clashed, published, rows, short, absent>>
    BY <1>0, <1>22, WriteHostsDoes
  <2>2. ASSUME pc[Uninstall] = "not run", ~torn', ~short PROVE hosts' = File(ValidHosts(rows))
    <3>1. ~torn /\ ~clashed
      BY <2>2, HistoryKept DEF Followed
    <3>2. hosts = <<>>
      BY <1>0, <2>1, <3>1 DEF Whole
    <3>3. lines[Engine] = File(ValidHosts(rows))
      BY <2>1, <2>2, <3>1 DEF Followed, Rewriting
    <3> QED
      BY <1>0, <1>22, <2>2, <3>2, <3>3, WriteHostsDoes
  <2>3. ValidHosts(rows)' = ValidHosts(rows) /\ File(ValidHosts(rows))' = File(ValidHosts(rows))
    BY <1>5, <2>1
  <2>4. ~short' /\ ~absent' => published' = ValidHosts(rows)'
    <3>1. Publishing
      BY <2>1 DEF Publishing
    <3>2. ~short /\ ~absent => published = ValidHosts(rows)
      BY <3>1 DEF Followed
    <3> QED
      BY <2>1, <2>3, <3>2
  <2>5. pc'[Uninstall] \in {"not run", "wait", "read"} => ~clashed'
    BY <2>1 DEF Followed
  <2> QED
    BY <2>1, <2>2, <2>3, <2>4, <2>5 DEF Followed, Publishing, Rewriting
(* The process.                                                              *)
<1>23. CASE ServiceStops \/ Crash
  <2>1. Goto(Engine, "down") /\ result' = "none" /\ clashed' = clashed
    BY <1>23 DEF ServiceStops, Crash, ProcessGone, history
  <2>2. pc'[Engine] = "down" /\ pc'[Uninstall] = pc[Uninstall]
    BY <1>1, <2>1 DEF EngineSteps
  <2> QED
    BY <2>1, <2>2 DEF Followed, Publishing, Rewriting
<1>24. CASE StartService
  <2>1. Goto(Engine, "idle") /\ result' = result /\ clashed' = clashed /\ service = "stopped"
    BY <1>24 DEF StartService
  <2>2. result' = "none"
    BY <2>1 DEF Table, Followed
  <2> QED
    BY <1>1, <1>7, <2>1, <2>2 DEF EngineSteps
<1>25. CASE FolderChanges \/ UNCHANGED vars
  <2>1. UNCHANGED <<rows, published, hosts, pc, lines, result, torn, clashed, short, absent>>
    BY <1>25 DEF FolderChanges, vars, registry, history, partial
  <2> QED
    BY <1>5, <2>1 DEF Followed, Publishing
<1> QED
  BY <1>0, <1>8, <1>9, <1>10, <1>11, <1>12, <1>14, <1>15, <1>16, <1>17, <1>18, <1>19, <1>20, <1>21, <1>22,
     <1>23, <1>24, <1>25 DEF Next

LEMMA FollowedAlways == Spec => [](PcTyped /\ Data /\ Table /\ Whole /\ Followed)
<1>1. Init => Followed
  BY WritersAre DEF Init, Followed, Publishing, Rewriting
<1> QED
  BY <1>1, InitTyped, PcStep, DataStep, InitTable, TableStep, InitWhole, WholeStep, FollowedStep, PTL DEF Spec

(* Engine::refresh: after one that succeeded the hosts file names the        *)
(* committed rows that are valid and no others, and nginx, if detected, was  *)
(* given the same; for every set of folders and any number of failures, but  *)
(* for those the property names.                                             *)
THEOREM HostsFollow == Spec => []HostsFollowNginx
<1>1. Data /\ Followed => HostsFollowNginx
  <2> SUFFICES ASSUME Data, Followed, At(Engine, "idle"), result = "ok", ~torn, ~short, At(Uninstall, "not run")
               PROVE  /\ {l.text : l \in Range(Entries(hosts))} = ValidHosts(rows)
                      /\ ~absent => published = ValidHosts(rows)
    BY DEF HostsFollowNginx
  <2>1. hosts = File(ValidHosts(rows)) /\ (~absent => published = ValidHosts(rows))
    BY DEF Followed, Publishing, At
  <2>2. ValidHosts(rows) \in SUBSET Hostnames
    BY ValidHostsTyped DEF Data
  <2>3. Entries(hosts) = SiteLines(ValidHosts(rows))
    BY <2>1, <2>2, FileIs
  <2>4. IsFiniteSet(ValidHosts(rows))
    BY <2>2, HostnamesFinite, FS_Subset
  <2> QED
    BY <2>1, <2>3, <2>4, SiteLinesAre
<1> QED
  BY <1>1, FollowedAlways, PTL

-----------------------------------------------------------------------------
(* uninstall.  When it has waited for the service and nobody starts it again *)
(* no Engine runs: what it reads, writes and leaves is its own.              *)
Removed ==
  ~late /\ pc[Uninstall] \notin {"not run", "wait"} =>
    /\ service = "stopped" /\ ~clashed
    /\ ~torn /\ pc[Uninstall] \in Rewriting => lines[Uninstall] = UserFile
    /\ ~torn /\ pc[Uninstall] \in {"certificates", "removed"} => hosts = UserFile

LEMMA RemovedStep ==
  PcTyped /\ Data /\ Table /\ Whole /\ Followed /\ Removed /\ [Next]_vars => Removed'
<1> SUFFICES ASSUME PcTyped, Data, Table, Whole, Followed, Removed, [Next]_vars,
                    ~late', pc'[Uninstall] \notin {"not run", "wait"}
             PROVE  /\ service' = "stopped" /\ ~clashed'
                    /\ ~torn' /\ pc'[Uninstall] \in Rewriting => lines'[Uninstall] = UserFile
                    /\ ~torn' /\ pc'[Uninstall] \in {"certificates", "removed"} => hosts' = UserFile
  BY DEF Removed, UserFile, Rewriting, Untagged
<1>0. Engine \in Writers /\ Uninstall \in Writers /\ Engine # Uninstall /\ Writers = {Engine, Uninstall}
  BY WritersAre
<1>1. ~late
  BY HistoryKept
<1>2. ASSUME pc[Uninstall] \notin {"not run", "wait"}
      PROVE  /\ service = "stopped" /\ ~clashed /\ pc[Engine] = "down"
             /\ ~torn /\ pc[Uninstall] \in Rewriting => lines[Uninstall] = UserFile
             /\ ~torn /\ pc[Uninstall] \in {"certificates", "removed"} => hosts = UserFile
  BY <1>1, <1>2 DEF Removed, Table
<1>3. ASSUME NEW step \in {"wait", "read", "removed", "failed"}, Goto(Uninstall, step)
      PROVE  pc'[Uninstall] = step
  BY <1>0, <1>3, GoneTo DEF UninstallSteps
(* The Engine's own steps need one that runs.                                *)
<1>4. ASSUME pc[Engine] # "down", pc'[Uninstall] = pc[Uninstall]
      PROVE  FALSE
  BY <1>2, <1>4
<1>5. CASE Scan \/ Begin \/ Insert \/ Commit \/ Configure \/ ServiceStops \/ Crash
  <2>1. pc[Engine] # "down"
    BY <1>5 DEF Scan, Begin, Insert, Commit, Configure, ServiceStops, Crash, At
  <2>2. UNCHANGED pc \/ \E step \in EngineSteps : Goto(Engine, step)
    BY <1>5 DEF Scan, Begin, Insert, Commit, Configure, ServiceStops, Crash, ProcessGone, Fail, EngineSteps
  <2> QED
    BY <1>0, <1>4, <2>1, <2>2, GoneTo
<1>6. CASE ReadHosts(Engine) \/ Truncate(Engine) \/ WriteHosts(Engine)
  <2>1. pc[Engine] # "down" /\ pc'[Uninstall] = pc[Uninstall]
    BY <1>0, <1>6, ReadHostsDoes, TruncateDoes, WriteHostsDoes
  <2> QED
    BY <1>4, <2>1
<1>7. CASE StopService
  <2>1. pc'[Uninstall] = "wait"
    BY <1>3, <1>7 DEF StopService
  <2> QED
    BY <2>1
<1>8. CASE WaitForService
  <2>1. pc[Uninstall] = "wait" /\ pc'[Uninstall] = "read" /\ service' = service /\ clashed' = clashed
    BY <1>3, <1>8 DEF WaitForService, At
  <2>2. service = "stopped"
    BY <1>8, Zenon DEF WaitForService
  <2> QED
    BY <2>1, <2>2 DEF Followed, Rewriting
<1>9. CASE ReadHosts(Uninstall)
  <2>1. pc[Uninstall] = "read" /\ service' = service /\ (torn => torn')
    BY <1>9, WritersAre, ReadHostsDoes
  <2>2. pc[Other(Uninstall)] \notin Rewriting
    BY <1>2, <2>1, WritersAre DEF Rewriting
  <2>3. ~clashed'
    BY <1>0, <1>2, <1>9, <2>1, <2>2, ReadHostsDoes, Zenon
  <2>4. CASE pc'[Uninstall] = "failed"
    BY <1>2, <2>1, <2>3, <2>4 DEF Rewriting
  <2>5. CASE /\ pc'[Uninstall] = "truncate"
             /\ ~torn' => \E X \in SUBSET Hostnames :
                            NamesAre(Uninstall, X) /\ lines'[Uninstall] = Own(hosts) \o SiteLines(X)
    <3>1. ASSUME ~torn' PROVE lines'[Uninstall] = UserFile
      <4>1. \E X \in SUBSET Hostnames : hosts = File(X)
        BY <1>0, <1>2, <2>1, <3>1 DEF Whole
      <4>2. Own(hosts) = UserFile
        BY <4>1, FileIs
      <4>3. lines'[Uninstall] = Own(hosts) \o SiteLines({})
        BY <2>5, <3>1 DEF NamesAre
      <4> QED
        BY <4>2, <4>3, FileNone DEF File
    <3> QED
      BY <1>2, <2>1, <2>3, <2>5, <3>1
  <2> QED
    BY <1>0, <1>9, <2>4, <2>5, ReadHostsDoes, Zenon
<1>10. CASE Truncate(Uninstall)
  <2>1. pc[Uninstall] = "truncate" /\ UNCHANGED <<service, torn, clashed, lines>>
    BY <1>0, <1>10, TruncateDoes
  <2>2. pc'[Uninstall] \in {"write", "failed"}
    BY <1>0, <1>10, TruncateDoes
  <2> QED
    BY <1>2, <2>1, <2>2 DEF Rewriting
<1>11. CASE WriteHosts(Uninstall)
  <2>1. pc[Uninstall] = "write" /\ UNCHANGED <<service, clashed>> /\ pc'[Uninstall] = "certificates"
    BY <1>0, <1>11, WriteHostsDoes
  <2>2. ASSUME ~torn' PROVE hosts' = UserFile
    <3>1. ~torn /\ ~clashed
      BY <1>2, <2>1, <2>2, HistoryKept
    <3>2. hosts = <<>>
      BY <1>0, <2>1, <3>1 DEF Whole
    <3>3. lines[Uninstall] = UserFile
      BY <1>2, <2>1, <3>1 DEF Rewriting
    <3> QED
      BY <1>0, <1>11, <2>2, <3>2, <3>3, WriteHostsDoes
  <2> QED
    BY <1>2, <2>1, <2>2 DEF Rewriting
<1>12. CASE RemoveRest
  <2>1. pc[Uninstall] = "certificates" /\ UNCHANGED <<service, clashed, torn, hosts>>
    BY <1>12 DEF RemoveRest, At, history
  <2>2. pc'[Uninstall] \in {"removed", "failed"}
    BY <1>3, <1>12 DEF RemoveRest
  <2> QED
    BY <1>2, <2>1, <2>2 DEF Rewriting
<1>13. CASE StartService
  <2>1. late' = (late \/ pc[Uninstall] # "not run") /\ Goto(Engine, "idle")
    BY <1>13, Zenon DEF StartService, At
  <2>2. pc'[Uninstall] = pc[Uninstall]
    BY <1>0, <2>1, GoneTo DEF EngineSteps
  <2> QED
    BY <2>1, <2>2, Zenon
<1>14. CASE FolderChanges \/ UNCHANGED vars
  <2>1. UNCHANGED <<service, hosts, pc, lines, torn, clashed>>
    BY <1>14 DEF FolderChanges, vars, history
  <2> QED
    BY <1>2, <2>1
<1> QED
  BY <1>0, <1>5, <1>6, <1>7, <1>8, <1>9, <1>10, <1>11, <1>12, <1>13, <1>14 DEF Next

(* main.cpp, uninstall: when it succeeds no entry is left in the hosts file, *)
(* unless it stopped waiting for the Engine, somebody started the service    *)
(* meanwhile, or a write was cut off.                                        *)
THEOREM NoEntriesLeft == Spec => []UninstallLeavesNoEntries
<1>1. Init => Removed
  BY WritersAre DEF Init, Removed
<1>2. Removed => UninstallLeavesNoEntries
  BY DEF Removed, UninstallLeavesNoEntries, At
<1> QED
  BY <1>1, <1>2, FollowedAlways, RemovedStep, PTL DEF Spec
=============================================================================
