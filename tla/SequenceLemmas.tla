--------------------------- MODULE SequenceLemmas ---------------------------
(***************************************************************************)
(* Facts about the operators on sequences that the modules of this project *)
(* are built from: what they contain, and that they repeat nothing.        *)
(***************************************************************************)
EXTENDS Integers, Sequences, FiniteSets, FiniteSetsExt, SequencesExt,
        SequenceTheorems, FiniteSetTheorems, TLAPS

\* A set of natural numbers that is not empty has a least element, and Min names it.
LEMMA LeastNatural ==
    ASSUME NEW S \in SUBSET Nat, S # {}
    PROVE  /\ Min(S) \in S
           /\ \A y \in S : Min(S) <= y
<1>1. \A x, y \in Nat : x < y => <<x, y>> \in OpToRel(<, Nat)
  BY Zenon DEF OpToRel
<1>2. PICK x \in S : \A y \in S : ~ (<<y, x>> \in OpToRel(<, Nat))
  BY NatLessThanWellFounded, WFMin, Zenon
<1>3. \A y \in S : x <= y
  <2> TAKE y \in S
  <2>1. ~ (y < x)
    BY <1>1, <1>2
  <2> QED
    BY <2>1
<1> QED
  BY <1>3 DEF Min

\* What a sequence contains is what it maps its positions to.
LEMMA ToSetType ==
    ASSUME NEW S, NEW s \in Seq(S)
    PROVE  /\ ToSet(s) \subseteq S
           /\ ToSet(s) = {s[i] : i \in 1 .. Len(s)}
           /\ s = <<>> <=> ToSet(s) = {}
<1>1. /\ DOMAIN s = 1 .. Len(s) /\ Len(s) \in Nat
      /\ \A k \in 1 .. Len(s) : s[k] \in S
  BY LenProperties, ElementOfSeq
<1>2. ToSet(s) \subseteq S /\ ToSet(s) = {s[i] : i \in 1 .. Len(s)}
  BY <1>1 DEF ToSet
<1>3. s # <<>> => Len(s) # 0
  BY EmptySeq
<1>4. s # <<>> => s[1] \in ToSet(s)
  BY <1>1, <1>3 DEF ToSet
<1>5. s = <<>> => ToSet(s) = {}
  BY <1>1, <1>2
<1> QED
  BY <1>2, <1>4, <1>5

\* The empty sequence contains nothing and repeats nothing.
LEMMA SeqEmpty ==
    /\ ToSet(<<>>) = {}
    /\ IsInjective(<<>>)
    /\ Len(<<>>) = 0
<1>1. <<>> \in Seq({})
  OBVIOUS
<1>2. ToSet(<<>>) = {}
  BY <1>1, ToSetType
<1> QED
  BY <1>2 DEF IsInjective

\* Append adds its element, and repeats none unless it was there.
LEMMA SeqAppend ==
    ASSUME NEW S, NEW s \in Seq(S), NEW e \in S
    PROVE  /\ Append(s, e) \in Seq(S)
           /\ ToSet(Append(s, e)) = ToSet(s) \cup {e}
           /\ IsInjective(s) /\ e \notin ToSet(s) => IsInjective(Append(s, e))
<1> DEFINE t == Append(s, e)
<1>1. /\ t \in Seq(S)
      /\ Len(t) = Len(s) + 1
      /\ \A i \in 1 .. Len(s) : t[i] = s[i]
      /\ t[Len(s) + 1] = e
  BY AppendProperties
<1>2. /\ DOMAIN s = 1 .. Len(s) /\ Len(s) \in Nat
      /\ DOMAIN t = 1 .. Len(s) + 1
  BY <1>1, LenProperties
<1> HIDE DEF t
<1>3. ToSet(t) = ToSet(s) \cup {e}
  BY <1>1, <1>2 DEF ToSet
<1>4. IsInjective(s) /\ e \notin ToSet(s) => IsInjective(t)
  BY <1>1, <1>2 DEF ToSet, IsInjective
<1> QED
  BY <1>1, <1>3, <1>4 DEF t

\* The tail of a sequence that repeats nothing has lost its head.
LEMMA SeqTail ==
    ASSUME NEW S, NEW s \in Seq(S), s # <<>>, IsInjective(s)
    PROVE  /\ Head(s) \in S /\ Tail(s) \in Seq(S)
           /\ Head(s) \in ToSet(s)
           /\ ToSet(Tail(s)) = ToSet(s) \ {Head(s)}
           /\ IsInjective(Tail(s))
<1> DEFINE t == Tail(s)
<1>1. /\ t \in Seq(S)
      /\ Len(t) = Len(s) - 1
      /\ \A i \in 1 .. Len(t) : t[i] = s[i + 1]
      /\ Head(s) = s[1] /\ Head(s) \in S
  BY HeadTailProperties
<1>2. /\ DOMAIN s = 1 .. Len(s) /\ Len(s) \in Nat \ {0}
      /\ DOMAIN t = 1 .. Len(s) - 1
  BY <1>1, LenProperties, EmptySeq
<1> HIDE DEF t
<1>3. Head(s) \in ToSet(s)
  BY <1>1, <1>2 DEF ToSet
<1>4. IsInjective(t)
  <2> SUFFICES ASSUME NEW i \in DOMAIN t, NEW j \in DOMAIN t, t[i] = t[j]
               PROVE  i = j
    BY DEF IsInjective
  <2>1. /\ i + 1 \in DOMAIN s /\ j + 1 \in DOMAIN s
        /\ s[i + 1] = s[j + 1]
    BY <1>1, <1>2
  <2>2. i + 1 = j + 1
    BY <2>1 DEF IsInjective
  <2> QED
    BY <2>2, <1>2
<1>5. ToSet(t) = ToSet(s) \ {Head(s)}
  <2>1. \A j \in 1 .. Len(s) : j # 1 => j - 1 \in DOMAIN t /\ t[j - 1] = s[j]
    BY <1>1, <1>2
  <2>2. \A i \in DOMAIN t : i + 1 \in DOMAIN s /\ t[i] = s[i + 1] /\ i + 1 # 1
    BY <1>1, <1>2
  <2>3. \A i \in DOMAIN s : s[i] = Head(s) => i = 1
    BY <1>1, <1>2 DEF IsInjective
  <2>4. ASSUME NEW x \in ToSet(t) PROVE x \in ToSet(s) \ {Head(s)}
    <3>1. PICK i \in DOMAIN t : x = t[i]
      BY DEF ToSet
    <3> QED
      BY <3>1, <2>2, <2>3 DEF ToSet
  <2>5. ASSUME NEW x \in ToSet(s), x # Head(s) PROVE x \in ToSet(t)
    <3>1. PICK j \in DOMAIN s : x = s[j]
      BY DEF ToSet
    <3>2. j # 1
      BY <3>1, <2>5, <1>1
    <3> QED
      BY <3>1, <3>2, <2>1, <1>2 DEF ToSet
  <2> QED
    BY <2>4, <2>5
<1> QED
  BY <1>1, <1>3, <1>4, <1>5 DEF t

\* A concatenation contains what its parts contain, and repeats nothing if they
\* have nothing in common.
LEMMA SeqConcat ==
    ASSUME NEW S, NEW s \in Seq(S), NEW t \in Seq(S)
    PROVE  /\ s \o t \in Seq(S)
           /\ ToSet(s \o t) = ToSet(s) \cup ToSet(t)
           /\ IsInjective(s) /\ IsInjective(t) /\ ToSet(s) \cap ToSet(t) = {}
                => IsInjective(s \o t)
<1> DEFINE u == s \o t
<1>1. /\ u \in Seq(S)
      /\ Len(u) = Len(s) + Len(t)
      /\ \A i \in 1 .. Len(s) + Len(t) : u[i] = IF i <= Len(s) THEN s[i] ELSE t[i - Len(s)]
  BY ConcatProperties
<1>2. /\ DOMAIN s = 1 .. Len(s) /\ Len(s) \in Nat
      /\ DOMAIN t = 1 .. Len(t) /\ Len(t) \in Nat
      /\ DOMAIN u = 1 .. Len(s) + Len(t)
  BY <1>1, LenProperties
<1> HIDE DEF u
<1>3. /\ \A i \in DOMAIN s : i \in DOMAIN u /\ u[i] = s[i]
      /\ \A i \in DOMAIN t : i + Len(s) \in DOMAIN u /\ u[i + Len(s)] = t[i]
      /\ \A i \in DOMAIN u : \/ i \in DOMAIN s /\ u[i] = s[i]
                             \/ i - Len(s) \in DOMAIN t /\ u[i] = t[i - Len(s)]
  BY <1>1, <1>2
<1>4. ToSet(u) = ToSet(s) \cup ToSet(t)
  BY <1>3 DEF ToSet
<1>5. ASSUME IsInjective(s), IsInjective(t), ToSet(s) \cap ToSet(t) = {}
      PROVE  IsInjective(u)
  <2> SUFFICES ASSUME NEW i \in DOMAIN u, NEW j \in DOMAIN u, u[i] = u[j]
               PROVE  i = j
    BY DEF IsInjective
  <2>1. CASE i \in DOMAIN s /\ j \in DOMAIN s
    BY <2>1, <1>1, <1>2, <1>5 DEF IsInjective
  <2>2. CASE i \notin DOMAIN s /\ j \notin DOMAIN s
    <3>1. /\ i - Len(s) \in DOMAIN t /\ j - Len(s) \in DOMAIN t
          /\ t[i - Len(s)] = t[j - Len(s)]
      BY <2>2, <1>3
    <3>2. i - Len(s) = j - Len(s)
      BY <3>1, <1>5 DEF IsInjective
    <3> QED
      BY <3>2, <1>2
  <2>3. ASSUME NEW k \in DOMAIN s, NEW l \in DOMAIN t PROVE s[k] # t[l]
    BY <1>5 DEF ToSet
  <2> QED
    BY <2>1, <2>2, <2>3, <1>3
<1> QED
  BY <1>1, <1>4, <1>5 DEF u

\* A sequence that repeats nothing loses by RemoveAt the element at that position.
LEMMA SeqRemoveAt ==
    ASSUME NEW S, NEW s \in Seq(S), NEW i \in DOMAIN s, IsInjective(s)
    PROVE  /\ RemoveAt(s, i) \in Seq(S)
           /\ ToSet(RemoveAt(s, i)) = ToSet(s) \ {s[i]}
           /\ IsInjective(RemoveAt(s, i))
           /\ Len(RemoveAt(s, i)) = Len(s) - 1
           /\ \A k \in 1 .. Len(s) - 1 :
                RemoveAt(s, i)[k] = IF k < i THEN s[k] ELSE s[k + 1]
<1> DEFINE u == RemoveAt(s, i)
<1>1. /\ DOMAIN s = 1 .. Len(s) /\ Len(s) \in Nat
      /\ \A k \in 1 .. Len(s) : s[k] \in S
  BY LenProperties, ElementOfSeq
<1> DEFINE f == SubSeq(s, 1, i - 1)
           g == SubSeq(s, i + 1, Len(s))
<1>2. /\ f \in Seq(S)
      /\ Len(f) = i - 1
      /\ \A k \in 1 .. i - 1 : f[k] = s[k]
  BY <1>1, SubSeqProperties
<1>3. /\ g \in Seq(S)
      /\ Len(g) = Len(s) - i
      /\ \A k \in 1 .. Len(s) - i : g[k] = s[k + i]
  BY <1>1, SubSeqProperties
<1> HIDE DEF f, g
<1>4. /\ u \in Seq(S)
      /\ Len(u) = Len(s) - 1
      /\ \A k \in 1 .. Len(s) - 1 : u[k] = IF k < i THEN s[k] ELSE s[k + 1]
  <2>0. u = f \o g
    BY DEF RemoveAt, f, g
  <2> HIDE DEF u
  <2>1. /\ u \in Seq(S)
        /\ Len(u) = Len(f) + Len(g)
        /\ \A k \in 1 .. Len(f) + Len(g) : u[k] = IF k <= Len(f) THEN f[k] ELSE g[k - Len(f)]
    BY <2>0, <1>2, <1>3, ConcatProperties
  <2>2. ASSUME NEW k \in 1 .. Len(s) - 1
        PROVE  u[k] = IF k < i THEN s[k] ELSE s[k + 1]
    <3>1. CASE k < i
      BY <3>1, <2>1, <1>1, <1>2, <1>3
    <3>2. CASE ~(k < i)
      <4>1. i \in Nat /\ i - 1 \in Nat /\ Len(f) + Len(g) = Len(s) - 1
        BY <1>1, <1>2, <1>3
      <4>2. k - (i - 1) \in 1 .. Len(s) - i /\ ~ (k <= Len(f)) /\ (k - (i - 1)) + i = k + 1
        BY <4>1, <3>2, <1>1, <1>2
      <4>3. u[k] = g[k - (i - 1)]
        BY <4>1, <4>2, <2>1, <1>2
      <4> QED
        BY <4>2, <4>3, <3>2, <1>3
    <3> QED
      BY <3>1, <3>2
  <2>3. Len(u) = Len(s) - 1
    <3>1. i \in Int
      BY <1>1
    <3> QED
      BY <2>1, <1>1, <1>2, <1>3, <3>1
  <2>4. \A k \in 1 .. Len(s) - 1 : u[k] = IF k < i THEN s[k] ELSE s[k + 1]
    BY <2>2
  <2> QED
    BY <2>1, <2>3, <2>4
<1> HIDE DEF u
<1>5. DOMAIN u = 1 .. Len(s) - 1
  BY <1>1, <1>4, LenProperties
<1>6. IsInjective(u)
  <2> SUFFICES ASSUME NEW j \in DOMAIN u, NEW k \in DOMAIN u, u[j] = u[k]
               PROVE  j = k
    BY DEF IsInjective
  <2> QED
    BY <1>1, <1>4, <1>5 DEF IsInjective
<1>7. ToSet(u) = ToSet(s) \ {s[i]}
  <2>1. \A k \in DOMAIN s : k # i => \E j \in DOMAIN u : u[j] = s[k]
    <3> SUFFICES ASSUME NEW k \in DOMAIN s, k # i
                 PROVE  \E j \in DOMAIN u : u[j] = s[k]
      OBVIOUS
    <3>1. CASE k < i
      BY <1>1, <1>4, <1>5, <3>1
    <3>2. CASE k > i
      <4>1. k - 1 \in DOMAIN u /\ u[k - 1] = s[k]
        BY <1>1, <1>4, <1>5, <3>2
      <4> QED
        BY <4>1
    <3> QED
      BY <1>1, <3>1, <3>2
  <2>2. \A j \in DOMAIN u : \E k \in DOMAIN s : k # i /\ u[j] = s[k]
    <3> SUFFICES ASSUME NEW j \in DOMAIN u
                 PROVE  \E k \in DOMAIN s : k # i /\ u[j] = s[k]
      OBVIOUS
    <3>1. CASE j < i
      BY <1>1, <1>4, <1>5, <3>1
    <3>2. CASE j >= i
      <4>1. j + 1 \in DOMAIN s /\ j + 1 # i /\ u[j] = s[j + 1]
        BY <1>1, <1>4, <1>5, <3>2
      <4> QED
        BY <4>1
    <3> QED
      BY <1>1, <1>5, <3>1, <3>2
  <2> QED
    BY <2>1, <2>2 DEF ToSet, IsInjective
<1> QED
  BY <1>4, <1>6, <1>7 DEF u

\* InsertAt moves the elements from the position on by one.
LEMMA SeqInsertAt ==
    ASSUME NEW S, NEW s \in Seq(S), NEW i \in 1 .. Len(s) + 1, NEW e \in S
    PROVE  /\ InsertAt(s, i, e) \in Seq(S)
           /\ Len(InsertAt(s, i, e)) = Len(s) + 1
           /\ \A k \in 1 .. Len(s) + 1 :
                InsertAt(s, i, e)[k] = IF k < i THEN s[k] ELSE IF k = i THEN e ELSE s[k - 1]
<1>1. /\ DOMAIN s = 1 .. Len(s) /\ Len(s) \in Nat
      /\ \A k \in 1 .. Len(s) : s[k] \in S
  BY LenProperties, ElementOfSeq
<1> DEFINE f == SubSeq(s, 1, i - 1)
           g == SubSeq(s, i, Len(s))
<1>2. /\ f \in Seq(S)
      /\ Len(f) = i - 1
      /\ \A k \in 1 .. i - 1 : f[k] = s[k]
  BY <1>1, SubSeqProperties
<1>3. /\ g \in Seq(S)
      /\ Len(g) = Len(s) - i + 1
      /\ \A k \in 1 .. Len(s) - i + 1 : g[k] = s[i + k - 1]
  BY <1>1, SubSeqProperties
<1>4. /\ <<e>> \in Seq(S) /\ Len(<<e>>) = 1 /\ <<e>>[1] = e
  OBVIOUS
<1> HIDE DEF f, g
<1>5. /\ f \o <<e>> \in Seq(S)
      /\ Len(f \o <<e>>) = i
      /\ \A k \in 1 .. i : (f \o <<e>>)[k] = IF k < i THEN s[k] ELSE e
  BY <1>1, <1>2, <1>4, ConcatProperties
<1> DEFINE h == f \o <<e>>
<1> HIDE DEF h
<1>6. /\ h \in Seq(S)
      /\ Len(h) = i
      /\ \A k \in 1 .. i : h[k] = IF k < i THEN s[k] ELSE e
  BY <1>5 DEF h
<1>7. /\ h \o g \in Seq(S)
      /\ Len(h \o g) = Len(s) + 1
      /\ \A k \in 1 .. Len(s) + 1 :
           (h \o g)[k] = IF k < i THEN s[k] ELSE IF k = i THEN e ELSE s[k - 1]
  <2>1. /\ h \o g \in Seq(S)
        /\ Len(h \o g) = Len(h) + Len(g)
        /\ \A k \in 1 .. Len(h) + Len(g) :
             (h \o g)[k] = IF k <= Len(h) THEN h[k] ELSE g[k - Len(h)]
    BY <1>3, <1>6, ConcatProperties
  <2>2. ASSUME NEW k \in 1 .. Len(s) + 1, k > i
        PROVE  (h \o g)[k] = s[k - 1]
    <3>1. k - i \in 1 .. Len(s) - i + 1 /\ (h \o g)[k] = g[k - i]
      BY <2>1, <2>2, <1>1, <1>3, <1>6
    <3>2. i + (k - i) - 1 = k - 1
      BY <1>1
    <3> QED
      BY <3>1, <3>2, <1>3
  <2>3. ASSUME NEW k \in 1 .. Len(s) + 1, k <= i
        PROVE  (h \o g)[k] = IF k < i THEN s[k] ELSE e
    BY <2>1, <2>3, <1>1, <1>3, <1>6
  <2> QED
    BY <2>1, <2>2, <2>3, <1>1, <1>3, <1>6
<1> QED
  BY <1>7 DEF InsertAt, f, g, h

\* A sequence without repetitions is as long as the set of its elements is large.
LEMMA SeqCount ==
    ASSUME NEW S, NEW s \in Seq(S), IsInjective(s)
    PROVE  IsFiniteSet(ToSet(s)) /\ Cardinality(ToSet(s)) = Len(s)
<1>1. /\ DOMAIN s = 1 .. Len(s) /\ Len(s) \in Nat
      /\ ToSet(s) = {s[i] : i \in 1 .. Len(s)}
  BY LenProperties, ToSetType
<1>2. s \in [1 .. Len(s) -> ToSet(s)]
  BY <1>1
<1>3. s \in Bijection(1 .. Len(s), ToSet(s))
  BY <1>1, <1>2 DEF Bijection, Injection, Surjection, IsInjective
<1>4. ExistsBijection(1 .. Len(s), ToSet(s))
  BY <1>3 DEF ExistsBijection
<1>5. IsFiniteSet(1 .. Len(s))
  BY <1>1, FS_Interval
<1> QED
  BY <1>1, <1>4, <1>5, FS_Bijection, FS_CountingElements

\* The places on lists that have nothing in common are as many as there are elements on
\* them.
LEMMA PlacesCount ==
    ASSUME NEW S, IsFiniteSet(S), NEW R, NEW f \in [R -> Seq(S)],
           \A r \in R : IsInjective(f[r]),
           \A r, o \in R : r # o => ToSet(f[r]) \cap ToSet(f[o]) = {},
           NEW P, P = UNION {{r} \X DOMAIN f[r] : r \in R},
           NEW E, E = {e \in S : \E r \in R : e \in ToSet(f[r])}
    PROVE  /\ IsFiniteSet(P) /\ IsFiniteSet(E)
           /\ Cardinality(P) = Cardinality(E) /\ Cardinality(P) \in Nat
<1> DEFINE at == [x \in P |-> f[x[1]][x[2]]]
<1>1. \A x \in P : /\ x[1] \in R /\ x[2] \in DOMAIN f[x[1]]
                   /\ x = <<x[1], x[2]>>
  OBVIOUS
<1>2. \A r \in R : \A i \in DOMAIN f[r] : <<r, i>> \in P /\ f[r][i] \in E /\ f[r][i] \in ToSet(f[r])
  <2> SUFFICES ASSUME NEW r \in R, NEW i \in DOMAIN f[r]
               PROVE  <<r, i>> \in P /\ f[r][i] \in E /\ f[r][i] \in ToSet(f[r])
    OBVIOUS
  <2>1. <<r, i>> \in P
    OBVIOUS
  <2>2. f[r][i] \in ToSet(f[r]) /\ ToSet(f[r]) \subseteq S
    BY ToSetType DEF ToSet
  <2> QED
    BY <2>1, <2>2
<1>3. at \in [P -> E]
  BY <1>1, <1>2
<1>4. at \in Injection(P, E)
  <2> SUFFICES ASSUME NEW x \in P, NEW y \in P, at[x] = at[y] PROVE x = y
    BY <1>3 DEF Injection, IsInjective
  <2>1. x[1] = y[1]
    <3>1. at[x] \in ToSet(f[x[1]]) /\ at[y] \in ToSet(f[y[1]])
      BY <1>1, <1>2
    <3> QED
      BY <3>1, <1>1
  <2>2. x[2] = y[2]
    BY <2>1, <1>1 DEF IsInjective
  <2> QED
    BY <2>1, <2>2, <1>1
<1>5. at \in Surjection(P, E)
  <2> SUFFICES ASSUME NEW e \in E PROVE \E x \in P : at[x] = e
    BY <1>3 DEF Surjection
  <2>1. PICK r \in R : e \in ToSet(f[r])
    OBVIOUS
  <2>2. PICK i \in DOMAIN f[r] : f[r][i] = e
    BY <2>1 DEF ToSet
  <2>3. <<r, i>> \in P /\ at[<<r, i>>] = e
    BY <2>2, <1>2
  <2> QED
    BY <2>3
<1>6. IsFiniteSet(E)
  BY FS_Subset
<1>7. IsFiniteSet(P)
  BY <1>4, <1>6, FS_Injection
<1>8. ExistsBijection(P, E)
  BY <1>4, <1>5 DEF ExistsBijection, Bijection
<1> QED
  BY <1>6, <1>7, <1>8, FS_Bijection, FS_CardinalityType

-----------------------------------------------------------------------------
(* Sequences that are walked along links                                   *)

\* The k-th element of s, or null beside its ends.
Node(s, k, null) == IF k \in 1 .. Len(s) THEN s[k] ELSE null

\* Beside its ends a sequence has null, which is none of its elements, and one that
\* repeats nothing has each element at one position.
LEMMA NodePlaces ==
    ASSUME NEW S, NEW null, null \notin S, NEW s \in Seq(S), IsInjective(s)
    PROVE  /\ \A k \in 1 .. Len(s) : Node(s, k, null) = s[k] /\ s[k] \in S /\ s[k] # null
           /\ \A k \in Int : Node(s, k, null) # null <=> k \in 1 .. Len(s)
           /\ \A k \in Int : Node(s, k, null) \in S \cup {null}
           /\ \A j \in 1 .. Len(s), k \in Int : Node(s, k, null) = s[j] => k = j
<1>1. /\ DOMAIN s = 1 .. Len(s) /\ Len(s) \in Nat
      /\ \A k \in 1 .. Len(s) : s[k] \in S
  BY LenProperties, ElementOfSeq
<1>2. \A j, k \in 1 .. Len(s) : s[j] = s[k] => j = k
  BY <1>1 DEF IsInjective
<1> QED
  BY <1>1, <1>2 DEF Node

\* Without its first element every element is one place further to the front.
LEMMA NodeTail ==
    ASSUME NEW S, NEW null, NEW s \in Seq(S), s # <<>>
    PROVE  /\ Len(Tail(s)) = Len(s) - 1
           /\ \A k \in Nat : k > 0 => Node(Tail(s), k, null) = Node(s, k + 1, null)
<1>1. Len(s) \in Nat /\ Len(s) > 0
  BY EmptySeq, LenProperties
<1>2. /\ Len(Tail(s)) = Len(s) - 1
      /\ \A k \in 1 .. Len(s) - 1 : Tail(s)[k] = s[k + 1]
  BY HeadTailProperties
<1> QED
  BY <1>1, <1>2 DEF Node

\* With an element in front every other is one place further to the back.
LEMMA NodePrepend ==
    ASSUME NEW S, NEW null, NEW s \in Seq(S), NEW e \in S
    PROVE  /\ Len(<<e>> \o s) = Len(s) + 1
           /\ Node(<<e>> \o s, 1, null) = e
           /\ \A k \in Nat : k > 1 => Node(<<e>> \o s, k, null) = Node(s, k - 1, null)
<1>1. <<e>> \in Seq(S) /\ Len(<<e>>) = 1 /\ <<e>>[1] = e
  OBVIOUS
<1>2. Len(s) \in Nat
  BY LenProperties
<1> DEFINE u == <<e>> \o s
<1>3. /\ Len(u) = 1 + Len(s)
      /\ \A k \in 1 .. 1 + Len(s) : u[k] = IF k <= 1 THEN <<e>>[k] ELSE s[k - 1]
  <2> DEFINE h == <<e>>
  <2> HIDE DEF h
  <2>1. /\ Len(h \o s) = Len(h) + Len(s)
        /\ \A k \in 1 .. Len(h) + Len(s) :
             (h \o s)[k] = IF k <= Len(h) THEN h[k] ELSE s[k - Len(h)]
    BY <1>1, ConcatProperties DEF h
  <2> QED
    BY <2>1, <1>1 DEF h
<1> HIDE DEF u
<1>4. Len(u) = Len(s) + 1
  BY <1>2, <1>3
<1>5. Node(u, 1, null) = e
  BY <1>1, <1>2, <1>3 DEF Node
<1>6. ASSUME NEW k \in Nat, k > 1
      PROVE  Node(u, k, null) = Node(s, k - 1, null)
  BY <1>2, <1>3, <1>6 DEF Node
<1> QED
  BY <1>4, <1>5, <1>6 DEF u

\* The same for an insertion at any place, null included.
LEMMA NodeInsertAt ==
    ASSUME NEW S, NEW null, NEW s \in Seq(S), NEW i \in 1 .. Len(s) + 1, NEW e \in S
    PROVE  \A k \in Int :
             Node(InsertAt(s, i, e), k, null) =
                 IF k < i THEN Node(s, k, null) ELSE IF k = i THEN e ELSE Node(s, k - 1, null)
<1>1. Len(s) \in Nat
  BY LenProperties
<1> DEFINE u == InsertAt(s, i, e)
<1>2. /\ Len(u) = Len(s) + 1
      /\ \A k \in 1 .. Len(s) + 1 :
           u[k] = IF k < i THEN s[k] ELSE IF k = i THEN e ELSE s[k - 1]
  <2>1. Len(InsertAt(s, i, e)) = Len(s) + 1
    BY SeqInsertAt
  <2>2. \A k \in 1 .. Len(s) + 1 :
           InsertAt(s, i, e)[k] = IF k < i THEN s[k] ELSE IF k = i THEN e ELSE s[k - 1]
    <3> SUFFICES ASSUME NEW k \in 1 .. Len(s) + 1
                 PROVE  InsertAt(s, i, e)[k]
                          = IF k < i THEN s[k] ELSE IF k = i THEN e ELSE s[k - 1]
      OBVIOUS
    <3> QED
      BY SeqInsertAt
  <2> QED
    BY <2>1, <2>2
<1> HIDE DEF u
<1>3. ASSUME NEW k \in Int
      PROVE  Node(u, k, null) =
                 IF k < i THEN Node(s, k, null) ELSE IF k = i THEN e ELSE Node(s, k - 1, null)
  BY <1>1, <1>2 DEF Node
<1> QED
  BY <1>3 DEF u

\* The same for a removal.
LEMMA NodeRemoveAt ==
    ASSUME NEW S, NEW null, NEW s \in Seq(S), IsInjective(s), NEW i \in 1 .. Len(s)
    PROVE  \A k \in Int :
             Node(RemoveAt(s, i), k, null) =
                 IF k < i THEN Node(s, k, null) ELSE Node(s, k + 1, null)
<1>1. Len(s) \in Nat /\ i \in DOMAIN s
  BY LenProperties
<1> DEFINE u == RemoveAt(s, i)
<1>2. /\ Len(u) = Len(s) - 1
      /\ \A k \in 1 .. Len(s) - 1 : u[k] = IF k < i THEN s[k] ELSE s[k + 1]
  BY <1>1, SeqRemoveAt
<1> HIDE DEF u
<1>3. ASSUME NEW k \in Int
      PROVE  Node(u, k, null) = IF k < i THEN Node(s, k, null) ELSE Node(s, k + 1, null)
  BY <1>1, <1>2 DEF Node
<1> QED
  BY <1>3 DEF u

\* The walk at, of n places, starts at the first element of s, goes on from each to the
\* next, and stays at null behind the last.
Follows(at, s, n, null) ==
    /\ Len(s) <= n
    /\ at = [k \in 1 .. n |-> at[k]]
    /\ n > 0 => at[1] = Node(s, 1, null)
    /\ \A k \in 2 .. n :
         /\ \A j \in 1 .. Len(s) : at[k - 1] = s[j] => at[k] = Node(s, j + 1, null)
         /\ at[k - 1] = null => at[k] = null

\* Such a walk visits s.  A recursive function is known by its equation only: the least
\* position at which it differs from s contradicts that.
LEMMA WalkVisits ==
    ASSUME NEW S, NEW null, null \notin S, NEW s \in Seq(S), NEW n \in Nat,
           NEW at, Follows(at, s, n, null)
    PROVE  Restrict(at, {k \in DOMAIN at : at[k] # null}) = s
<1>0. /\ Len(s) <= n
      /\ at = [k \in 1 .. n |-> at[k]]
      /\ n > 0 => at[1] = Node(s, 1, null)
      /\ \A k \in 2 .. n :
           /\ \A j \in 1 .. Len(s) : at[k - 1] = s[j] => at[k] = Node(s, j + 1, null)
           /\ at[k - 1] = null => at[k] = null
  BY DEF Follows
<1>1. /\ DOMAIN s = 1 .. Len(s) /\ Len(s) \in Nat
      /\ \A k \in 1 .. Len(s) : s[k] \in S
  BY LenProperties, ElementOfSeq
<1>2. \A k \in 1 .. n : at[k] = Node(s, k, null)
  <2> DEFINE bad == {k \in 1 .. n : at[k] # Node(s, k, null)}
  <2> SUFFICES ASSUME bad # {}
               PROVE  FALSE
    OBVIOUS
  <2>0. bad \in SUBSET Nat
    OBVIOUS
  <2> HIDE DEF bad
  <2>1. PICK k \in bad : \A j \in bad : k <= j
    BY <2>0, LeastNatural
  <2>2. k \in Nat /\ k \in 1 .. n /\ at[k] # Node(s, k, null)
    BY <2>0 DEF bad
  <2>3. k \in 2 .. n /\ k - 1 \in 1 .. n /\ k - 1 \notin bad /\ (k - 1) + 1 = k
    BY <1>0, <2>0, <2>1, <2>2
  <2>4. at[k - 1] = Node(s, k - 1, null)
    BY <2>3 DEF bad
  <2>5. CASE k - 1 \in 1 .. Len(s)
    <3>1. at[k - 1] = s[k - 1]
      BY <2>4, <2>5 DEF Node
    <3>2. at[k] = Node(s, (k - 1) + 1, null)
      BY <1>0, <3>1, <2>3, <2>5
    <3> QED
      BY <3>2, <2>2, <2>3
  <2>6. CASE k - 1 \notin 1 .. Len(s)
    <3>1. at[k - 1] = null
      BY <2>4, <2>6 DEF Node
    <3>2. at[k] = null
      BY <1>0, <3>1, <2>3
    <3>3. Node(s, k, null) = null
      BY <2>2, <2>3, <2>6, <1>1 DEF Node
    <3> QED
      BY <3>2, <3>3, <2>2
  <2> QED
    BY <2>5, <2>6
<1>3. {k \in 1 .. n : at[k] # null} = 1 .. Len(s)
  BY <1>0, <1>1, <1>2 DEF Node
<1>4. DOMAIN at = 1 .. n
  BY <1>0
<1>5. Restrict(at, {k \in DOMAIN at : at[k] # null}) = [k \in 1 .. Len(s) |-> at[k]]
  BY <1>3, <1>4 DEF Restrict
<1>6. \A k \in 1 .. Len(s) : at[k] = s[k]
  BY <1>0, <1>1, <1>2 DEF Node
<1>7. s = [k \in 1 .. Len(s) |-> s[k]]
  BY <1>1
<1> QED
  BY <1>5, <1>6, <1>7

=============================================================================
