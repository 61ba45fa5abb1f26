------------------------- MODULE PooledLists_proofs -------------------------
(***************************************************************************)
(* That the free list of a pool and the lists made of its blocks stay      *)
(* whole, for every size of the pool and any lists, and implement a set    *)
(* and sequences.                                                          *)
(***************************************************************************)
EXTENDS PooledLists, SequenceLemmas

-----------------------------------------------------------------------------
(* The inductive invariant                                                 *)

\* The free list runs through s: from first_idx along free_list, to every block that
\* is not handed out.
FreeChain(s) ==
    /\ s \in Seq(Idx) /\ IsInjective(s)
    /\ ToSet(s) = {i \in Idx : free_list[i] # DetachedIdx}
    /\ first_idx = Node(s, 1, NullIdx)
    /\ \A k \in 1 .. Len(s) : free_list[s[k]] = Node(s, k + 1, NullIdx)
    /\ size = Len(s)

PoolTypes ==
    /\ free_list \in [Idx -> Idx \cup {NullIdx, DetachedIdx}]
    /\ block \in {Block(i) : i \in Idx} \cup {NullBlock}
    /\ result \in Results

PoolInv == PoolTypes /\ \E s \in Seq(Idx) : FreeChain(s)

\* List l runs through s: its head knows the ends and the length, every item its
\* neighbours, and s has the items that call l their home.
IsList(l, s) ==
    /\ s \in Seq(Idx) /\ IsInjective(s)
    /\ ToSet(s) = {x \in Idx : home[x] = l}
    /\ first[l] = Node(s, 1, NullIdx)
    /\ last[l] = Node(s, Len(s), NullIdx)
    /\ count[l] = Len(s)
    /\ \A k \in 1 .. Len(s) : /\ next[s[k]] = Node(s, k + 1, NullIdx)
                              /\ prev[s[k]] = Node(s, k - 1, NullIdx)

ListTypes ==
    /\ first \in [Lists -> Idx \cup {NullIdx}] /\ last \in [Lists -> Idx \cup {NullIdx}]
    /\ count \in [Lists -> Nat]
    /\ next \in [Idx -> Idx \cup {NullIdx}] /\ prev \in [Idx -> Idx \cup {NullIdx}]
    /\ home \in [Idx -> Lists \cup {NullIdx}]

ListInv ==
    /\ ListTypes
    /\ \A l \in Lists : \E s \in Seq(Idx) : IsList(l, s)
    /\ \A x \in Idx : home[x] = NullIdx => next[x] = NullIdx /\ prev[x] = NullIdx

\* Only blocks that are handed out are on lists.
OnlyAllocated == \A x \in Idx : home[x] # NullIdx => free_list[x] = DetachedIdx

PooledInv == PoolInv /\ ListInv /\ OnlyAllocated

-----------------------------------------------------------------------------
(* Blocks and their addresses                                              *)

\* The indices of blocks are as many as blocks, and none is one of the two marks.
LEMMA Constants ==
    /\ NumItems \in Nat /\ NumItems > 0
    /\ NullIdx \notin Idx /\ DetachedIdx \notin Idx /\ NullIdx # DetachedIdx
    /\ IsFiniteSet(Idx) /\ Cardinality(Idx) = NumItems
<1>1. NumItems \in Nat /\ NumItems > 0
  BY PoolAllocatorAssumption
<1>2. IsFiniteSet(0 .. NumItems - 1) /\ Cardinality(0 .. NumItems - 1) = NumItems
  <2>1. /\ IsFiniteSet(0 .. NumItems - 1)
        /\ Cardinality(0 .. NumItems - 1) = IF 0 > NumItems - 1 THEN 0 ELSE (NumItems - 1) - 0 + 1
    BY <1>1, FS_Interval
  <2> QED
    BY <2>1, <1>1
<1> QED
  BY <1>1, <1>2 DEF Idx, NullIdx, DetachedIdx

\* A sequence of blocks that repeats none is no longer than the pool.
LEMMA NoMoreThanItems ==
    ASSUME NEW s \in Seq(Idx), IsInjective(s)
    PROVE  Len(s) \in 0 .. NumItems
<1>1. IsFiniteSet(ToSet(s)) /\ Cardinality(ToSet(s)) = Len(s) /\ ToSet(s) \subseteq Idx
  BY SeqCount, ToSetType
<1>2. Cardinality(ToSet(s)) <= Cardinality(Idx)
  BY <1>1, Constants, FS_Subset
<1>3. Len(s) \in Nat
  BY LenProperties
<1> QED
  BY <1>1, <1>2, <1>3, Constants

\* Blocks do not overlap, and lie in the buffer.
LEMMA BlockAddress ==
    /\ \A i \in Idx : Block(i) \in Addresses /\ Block(i) # NullBlock
    /\ \A i, j \in Idx : Block(i) = Block(j) => i = j
<1>1. /\ ItemSize \in Nat /\ ItemSize > 0 /\ NumItems \in Nat /\ NumItems > 0
  BY PoolAllocatorAssumption
<1>2. ASSUME NEW i \in Nat
      PROVE  i * ItemSize \in Nat
  BY <1>1, <1>2
<1>3. ASSUME NEW i \in Nat, NEW j \in Nat, i < j
      PROVE  i * ItemSize + ItemSize <= j * ItemSize
  <2>1. i * ItemSize + ItemSize = (i + 1) * ItemSize
    BY <1>1
  <2>2. (i + 1) * ItemSize <= j * ItemSize
    <3>1. PICK d \in Nat : j = (i + 1) + d
      <4>1. j - (i + 1) \in Nat /\ j = (i + 1) + (j - (i + 1))
        BY <1>3
      <4> QED
        BY <4>1
    <3>2. j * ItemSize = (i + 1) * ItemSize + d * ItemSize
      BY <3>1, <1>1
    <3>3. d * ItemSize \in Nat /\ (i + 1) * ItemSize \in Nat
      BY <1>2
    <3> QED
      BY <3>2, <3>3
  <2> QED
    BY <2>1, <2>2
<1>4. ASSUME NEW i \in Idx
      PROVE  Block(i) \in Addresses /\ Block(i) # NullBlock
  <2>1. i \in Nat /\ i < NumItems + 1 /\ NumItems + 1 \in Nat
    BY <1>1 DEF Idx
  <2> DEFINE a == i * ItemSize
             b == (NumItems + 1) * ItemSize
  <2>2. a \in Nat /\ b \in Nat /\ a + ItemSize <= b
    BY <1>2, <1>3, <2>1
  <2> HIDE DEF a, b
  <2>3. a \in -ItemSize .. b - 1
    BY <2>2, <1>1
  <2>4. a # -1
    BY <2>2
  <2> QED
    BY <2>3, <2>4 DEF a, b, Block, Addresses, NullBlock
<1>5. ASSUME NEW i \in Idx, NEW j \in Idx, Block(i) = Block(j)
      PROVE  i = j
  <2>1. i \in Nat /\ j \in Nat /\ i * ItemSize = j * ItemSize
    BY <1>1, <1>5 DEF Idx, Block
  <2>2. CASE i < j
    BY <2>1, <2>2, <1>1, <1>2, <1>3
  <2>3. CASE j < i
    BY <2>1, <2>3, <1>1, <1>2, <1>3
  <2> QED
    BY <2>1, <2>2, <2>3
<1> QED
  BY <1>4, <1>5

\* The address that releaseBlock accepts is that of the block it computes.
LEMMA AlignedAddress ==
    ASSUME NEW b \in Addresses, b % ItemSize = 0, b \div ItemSize \in Idx
    PROVE  Block(b \div ItemSize) = b
<1>1. ItemSize \in Nat /\ ItemSize > 0 /\ NumItems \in Nat /\ b \in Int
  <2>1. (NumItems + 1) * ItemSize - 1 \in Int /\ -ItemSize \in Int
    BY PoolAllocatorAssumption
  <2> QED
    BY <2>1, PoolAllocatorAssumption DEF Addresses
<1>2. b = (ItemSize * (b \div ItemSize)) + (b % ItemSize)
  BY <1>1
<1> QED
  BY <1>1, <1>2 DEF Block, Idx

-----------------------------------------------------------------------------
(* The free list                                                           *)

\* The chain of the properties, a walk along free_list, is the sequence the free list
\* runs through.
LEMMA ChainIs ==
    ASSUME NEW s \in Seq(Idx), FreeChain(s)
    PROVE  Chain = s
<1> DEFINE Step(g) ==
             [k \in 1 .. NumItems |->
                IF k = 1 THEN first_idx
                ELSE IF g[k - 1] \in Idx THEN free_list[g[k - 1]] ELSE NullIdx]
           w == [k \in 1 .. NumItems |-> Node(s, k, NullIdx)]
<1>1. /\ Len(s) \in 0 .. NumItems /\ DOMAIN s = 1 .. Len(s)
      /\ first_idx = Node(s, 1, NullIdx)
      /\ \A k \in 1 .. Len(s) : free_list[s[k]] = Node(s, k + 1, NullIdx)
      /\ \A k \in 1 .. Len(s) : s[k] \in Idx
  BY NoMoreThanItems, LenProperties, ElementOfSeq DEF FreeChain
<1>2. w = Step(w)
  <2> SUFFICES ASSUME NEW k \in 1 .. NumItems
               PROVE  w[k] = Step(w)[k]
    OBVIOUS
  <2>1. CASE k = 1
    BY <2>1, <1>1
  <2>2. CASE k # 1
    <3>1. k - 1 \in 1 .. NumItems /\ (k - 1) + 1 = k /\ w[k - 1] = Node(s, k - 1, NullIdx)
      BY <2>2, Constants
    <3>2. CASE k - 1 \in 1 .. Len(s)
      BY <3>1, <3>2, <2>2, <1>1 DEF Node
    <3>3. CASE k - 1 \notin 1 .. Len(s)
      <4>1. Node(s, k - 1, NullIdx) = NullIdx
        BY <3>3 DEF Node
      <4>2. Node(s, k, NullIdx) = NullIdx
        BY <3>1, <3>3, <2>2, <1>1 DEF Node
      <4> QED
        BY <4>1, <4>2, <3>1, <2>2, Constants
    <3> QED
      BY <3>2, <3>3
  <2> QED
    BY <2>1, <2>2
<1>3. PICK at : at = Step(at) /\ Chain = Restrict(at, {k \in DOMAIN at : at[k] # NullIdx})
  <2> DEFINE c == CHOOSE g : g = Step(g)
  <2>1. c = Step(c)
    BY <1>2
  <2>2. Chain = Restrict(c, {k \in DOMAIN c : c[k] # NullIdx})
    BY DEF Chain, RestrictValues
  <2> QED
    BY <2>1, <2>2
<1>4. Follows(at, s, NumItems, NullIdx)
  <2>1. Len(s) <= NumItems /\ at = [k \in 1 .. NumItems |-> at[k]]
    BY <1>1, <1>3, Constants
  <2>2. NumItems > 0 => at[1] = Node(s, 1, NullIdx)
    BY <1>1, <1>3, Constants
  <2>3. ASSUME NEW k \in 2 .. NumItems
        PROVE  /\ \A j \in 1 .. Len(s) : at[k - 1] = s[j] => at[k] = Node(s, j + 1, NullIdx)
               /\ at[k - 1] = NullIdx => at[k] = NullIdx
    <3>1. at[k] = IF at[k - 1] \in Idx THEN free_list[at[k - 1]] ELSE NullIdx
      <4>1. k \in 1 .. NumItems /\ k # 1
        BY Constants
      <4> QED
        BY <4>1, <1>3
    <3> QED
      BY <3>1, <1>1, Constants
  <2> QED
    BY <2>1, <2>2, <2>3 DEF Follows
<1> HIDE DEF Step, w
<1> QED
  BY <1>3, <1>4, Constants, WalkVisits

\* What a chain that exists says of the state.
LEMMA PoolFacts ==
    ASSUME PoolTypes, NEW s \in Seq(Idx), FreeChain(s)
    PROVE  /\ first_idx \in Idx \cup {NullIdx}
           /\ first_idx = NullIdx <=> s = <<>>
           /\ first_idx # NullIdx => /\ Head(s) = first_idx
                                     /\ free_list[first_idx] # DetachedIdx
           /\ s = <<>> <=> \A i \in Idx : free_list[i] = DetachedIdx
           /\ size \in 0 .. NumItems
<1>1. /\ first_idx = Node(s, 1, NullIdx) /\ size = Len(s) /\ Len(s) \in 0 .. NumItems
      /\ ToSet(s) = {i \in Idx : free_list[i] # DetachedIdx}
      /\ DOMAIN s = 1 .. Len(s)
      /\ \A k \in 1 .. Len(s) : s[k] \in Idx
  BY NoMoreThanItems, LenProperties, ElementOfSeq DEF FreeChain
<1>2. s = <<>> <=> Len(s) = 0
  BY EmptySeq
<1>3. s # <<>> => first_idx = s[1] /\ Head(s) = s[1] /\ s[1] \in Idx /\ s[1] \in ToSet(s)
  BY <1>1, <1>2, Constants DEF Node, ToSet
<1>4. s = <<>> => first_idx = NullIdx
  BY <1>1, <1>2 DEF Node
<1>5. s = <<>> <=> ToSet(s) = {}
  BY ToSetType
<1> QED
  BY <1>1, <1>3, <1>4, <1>5, Constants

\* A getBlock takes the first block off the chain.
LEMMA GetKeepsChain ==
    ASSUME PoolTypes, NEW s \in Seq(Idx), FreeChain(s), PoolAllocator_getBlock
    PROVE  FreeChain(Tail(s))' /\ Tail(s) \in Seq(Idx) /\ PoolTypes'
<1>1. /\ first_idx # NullIdx /\ first_idx' = free_list[first_idx] /\ size' = size - 1
      /\ free_list' = [free_list EXCEPT ![first_idx] = DetachedIdx]
      /\ block' = Block(first_idx) /\ result' = result
  BY DEF PoolAllocator_getBlock, Detach
<1>2. /\ s # <<>> /\ Head(s) = first_idx /\ first_idx \in Idx
      /\ free_list \in [Idx -> Idx \cup {NullIdx, DetachedIdx}]
  BY <1>1, PoolFacts DEF PoolTypes
<1>3. /\ IsInjective(s) /\ ToSet(s) = {i \in Idx : free_list[i] # DetachedIdx}
      /\ first_idx = Node(s, 1, NullIdx) /\ size = Len(s)
      /\ \A k \in 1 .. Len(s) : free_list[s[k]] = Node(s, k + 1, NullIdx)
  BY DEF FreeChain
<1>4. /\ Len(s) \in Nat /\ Len(s) > 0
      /\ \A k \in 1 .. Len(s) : Node(s, k, NullIdx) = s[k] /\ s[k] \in Idx
      /\ \A j, k \in 1 .. Len(s) : s[k] = s[j] => k = j
  BY <1>2, <1>3, EmptySeq, LenProperties, NodePlaces, Constants
<1> DEFINE t == Tail(s)
<1>5. /\ t \in Seq(Idx) /\ IsInjective(t) /\ ToSet(t) = ToSet(s) \ {first_idx}
  BY <1>2, <1>3, SeqTail
<1>6. /\ Len(t) = Len(s) - 1
      /\ \A k \in Nat : k > 0 => Node(t, k, NullIdx) = Node(s, k + 1, NullIdx)
  BY <1>2, NodeTail
<1>7. \A k \in 1 .. Len(t) : t[k] = s[k + 1] /\ k + 1 \in 1 .. Len(s)
  BY <1>2, <1>4, <1>6, HeadTailProperties
<1> HIDE DEF t
<1>8. ToSet(t) = {i \in Idx : free_list'[i] # DetachedIdx}
  BY <1>1, <1>2, <1>3, <1>5
<1>9. first_idx = s[1] /\ first_idx' = Node(t, 1, NullIdx)
  <2>1. 1 \in 1 .. Len(s) /\ 1 + 1 = 2 /\ 1 \in Nat /\ 1 > 0
    BY <1>4
  <2>2. first_idx = s[1]
    BY <2>1, <1>3, <1>4
  <2>3. free_list[s[1]] = Node(s, 2, NullIdx)
    BY <2>1, <1>3
  <2>4. Node(t, 1, NullIdx) = Node(s, 2, NullIdx)
    BY <2>1, <1>6
  <2> QED
    BY <2>2, <2>3, <2>4, <1>1
<1>10. ASSUME NEW k \in 1 .. Len(t)
       PROVE  free_list'[t[k]] = Node(t, k + 1, NullIdx)
  <2>1. s[k + 1] # first_idx /\ s[k + 1] \in Idx /\ k \in Nat /\ k > 0
    BY <1>4, <1>7, <1>9
  <2>2. free_list'[s[k + 1]] = free_list[s[k + 1]]
    BY <2>1, <1>1, <1>2
  <2>3. free_list[s[k + 1]] = Node(s, (k + 1) + 1, NullIdx)
    BY <1>3, <1>7
  <2>4. k + 1 \in Nat /\ k + 1 > 0
    BY <2>1
  <2>5. Node(t, k + 1, NullIdx) = Node(s, (k + 1) + 1, NullIdx)
    BY <2>4, <1>6
  <2>6. t[k] = s[k + 1]
    BY <1>7
  <2> QED
    BY <2>2, <2>3, <2>5, <2>6
<1>11. size' = Len(t)
  BY <1>1, <1>3, <1>6
<1>12. PoolTypes'
  BY <1>1, <1>2 DEF PoolTypes
<1> QED
  BY <1>5, <1>8, <1>9, <1>10, <1>11, <1>12 DEF FreeChain, t

\* A releaseBlock that succeeds puts the block in front.
LEMMA ReleaseKeepsChain ==
    ASSUME PoolTypes, NEW s \in Seq(Idx), FreeChain(s), NEW b, Released(b)
    PROVE  /\ \E t \in Seq(Idx) : FreeChain(t)'
           /\ PoolTypes'
<1> DEFINE i == b \div ItemSize
<1>1. /\ i \in Idx /\ free_list[i] = DetachedIdx
      /\ result' = Success /\ size' = size + 1 /\ block' = block
      /\ free_list' = [free_list EXCEPT ![i] = first_idx] /\ first_idx' = i
  BY DEF Released, Verdict, Attach, Success, UnalignedFree, OutOfRange, DoubleFree
<1> HIDE DEF i
<1>2. /\ first_idx \in Idx \cup {NullIdx}
      /\ free_list \in [Idx -> Idx \cup {NullIdx, DetachedIdx}]
  BY PoolFacts DEF PoolTypes
<1>3. /\ IsInjective(s) /\ ToSet(s) = {j \in Idx : free_list[j] # DetachedIdx}
      /\ first_idx = Node(s, 1, NullIdx) /\ size = Len(s)
      /\ \A k \in 1 .. Len(s) : free_list[s[k]] = Node(s, k + 1, NullIdx)
  BY DEF FreeChain
<1>4. /\ Len(s) \in Nat /\ DOMAIN s = 1 .. Len(s)
      /\ \A k \in 1 .. Len(s) : Node(s, k, NullIdx) = s[k] /\ s[k] \in Idx /\ s[k] \in ToSet(s)
  BY <1>3, LenProperties, NodePlaces, Constants DEF ToSet
<1> DEFINE t == <<i>> \o s
<1>5. /\ Len(t) = Len(s) + 1 /\ Node(t, 1, NullIdx) = i
      /\ \A k \in Nat : k > 1 => Node(t, k, NullIdx) = Node(s, k - 1, NullIdx)
  BY <1>1, NodePrepend
<1>6. /\ t \in Seq(Idx) /\ IsInjective(t) /\ ToSet(t) = ToSet(s) \cup {i}
  <2>1. <<i>> \in Seq(Idx) /\ ToSet(<<i>>) = {i} /\ IsInjective(<<i>>)
    <3> HIDE DEF t
    <3>1. /\ Append(<<>>, i) = <<i>> /\ <<>> \in Seq(Idx)
          /\ ToSet(<<>>) = {} /\ IsInjective(<<>>) /\ i \notin ToSet(<<>>)
      BY SeqEmpty
    <3>2. /\ Append(<<>>, i) \in Seq(Idx)
          /\ ToSet(Append(<<>>, i)) = ToSet(<<>>) \cup {i}
          /\ IsInjective(Append(<<>>, i))
      BY ONLY <3>1, <1>1, SeqAppend, Zenon
    <3> QED
      BY <3>1, <3>2
  <2>2. i \notin ToSet(s)
    BY <1>1, <1>3
  <2>3. ToSet(<<i>>) \cap ToSet(s) = {}
    BY <2>1, <2>2
  <2> HIDE DEF t
  <2>4. /\ <<i>> \o s \in Seq(Idx)
        /\ ToSet(<<i>> \o s) = ToSet(<<i>>) \cup ToSet(s)
        /\ IsInjective(<<i>> \o s)
    BY ONLY <2>1, <2>3, <1>3, s \in Seq(Idx), SeqConcat, ZenonT(30)
  <2> QED
    BY <2>1, <2>4 DEF t
<1> HIDE DEF t
<1>7. ToSet(t) = {j \in Idx : free_list'[j] # DetachedIdx}
  BY <1>1, <1>2, <1>3, <1>6, Constants
<1>8. ASSUME NEW k \in 1 .. Len(t)
      PROVE  free_list'[t[k]] = Node(t, k + 1, NullIdx)
  <2>0. k \in Nat /\ k + 1 > 1 /\ k + 1 \in Nat /\ (k + 1) - 1 = k /\ t[k] = Node(t, k, NullIdx)
    BY <1>4, <1>5 DEF Node
  <2>1. Node(t, k + 1, NullIdx) = Node(s, k, NullIdx)
    BY <2>0, <1>5
  <2>2. CASE k = 1
    <3>1. t[k] = i /\ free_list'[i] = first_idx
      BY <2>0, <2>2, <1>1, <1>2, <1>5
    <3> QED
      BY <3>1, <2>1, <2>2, <1>3
  <2>3. CASE k # 1
    <3>1. k > 1 /\ k - 1 \in 1 .. Len(s) /\ (k - 1) + 1 = k
      BY <2>3, <2>0, <1>4, <1>5
    <3>2. t[k] = s[k - 1] /\ s[k - 1] \in Idx /\ s[k - 1] # i
      BY <3>1, <2>0, <1>1, <1>3, <1>4, <1>5
    <3>3. free_list'[s[k - 1]] = free_list[s[k - 1]]
      BY <3>2, <1>1, <1>2
    <3>4. free_list[s[k - 1]] = Node(s, (k - 1) + 1, NullIdx)
      BY <3>1, <1>3
    <3> QED
      BY <3>1, <3>2, <3>3, <3>4, <2>1
  <2> QED
    BY <2>2, <2>3
<1>9. size' = Len(t) /\ first_idx' = Node(t, 1, NullIdx)
  BY <1>1, <1>3, <1>5
<1>10. PoolTypes'
  BY <1>1, <1>2 DEF PoolTypes, Results
<1>11. FreeChain(t)'
  BY <1>6, <1>7, <1>8, <1>9 DEF FreeChain
<1> QED
  BY <1>6, <1>10, <1>11

-----------------------------------------------------------------------------
(* The lists                                                               *)

\* A walk of the properties that starts at the first node of s and follows links from
\* each node to the next visits s.
LEMMA WalkIs ==
    ASSUME NEW s \in Seq(Idx), IsInjective(s), NEW p, NEW link, p = Node(s, 1, NullIdx),
           \A k \in 1 .. Len(s) : link[s[k]] = Node(s, k + 1, NullIdx)
    PROVE  L!Walk(p, link) = s
<1> DEFINE Step(g) ==
             [k \in 1 .. Cardinality(Idx) |->
                IF k = 1 THEN p
                ELSE IF g[k - 1] = NullIdx THEN NullIdx ELSE link[g[k - 1]]]
           w == [k \in 1 .. Cardinality(Idx) |-> Node(s, k, NullIdx)]
<1>1. /\ Len(s) \in 0 .. NumItems /\ DOMAIN s = 1 .. Len(s) /\ Cardinality(Idx) = NumItems
      /\ \A k \in 1 .. Len(s) : s[k] \in Idx
  BY NoMoreThanItems, LenProperties, ElementOfSeq, Constants
<1>2. w = Step(w)
  <2> SUFFICES ASSUME NEW k \in 1 .. Cardinality(Idx)
               PROVE  w[k] = Step(w)[k]
    OBVIOUS
  <2>1. CASE k = 1
    BY <2>1, <1>1
  <2>2. CASE k # 1
    <3>1. /\ k - 1 \in 1 .. Cardinality(Idx) /\ (k - 1) + 1 = k
          /\ w[k - 1] = Node(s, k - 1, NullIdx)
      BY <2>2, <1>1, Constants
    <3>2. CASE k - 1 \in 1 .. Len(s)
      <4>1. Node(s, k - 1, NullIdx) = s[k - 1] /\ s[k - 1] # NullIdx
        BY <3>2, <1>1, Constants DEF Node
      <4>2. link[s[k - 1]] = Node(s, k, NullIdx)
        BY <3>1, <3>2
      <4> QED
        BY <4>1, <4>2, <3>1, <2>2
    <3>3. CASE k - 1 \notin 1 .. Len(s)
      <4>1. Node(s, k - 1, NullIdx) = NullIdx
        BY <3>3 DEF Node
      <4>2. Node(s, k, NullIdx) = NullIdx
        BY <3>1, <3>3, <2>2, <1>1, Constants DEF Node
      <4> QED
        BY <4>1, <4>2, <3>1, <2>2, Constants
    <3> QED
      BY <3>2, <3>3
  <2> QED
    BY <2>1, <2>2
<1>3. PICK at : /\ at = Step(at)
                /\ L!Walk(p, link) = Restrict(at, {k \in DOMAIN at : at[k] # NullIdx})
  <2> DEFINE c == CHOOSE g : g = Step(g)
  <2>1. c = Step(c)
    BY <1>2
  <2>2. L!Walk(p, link) = Restrict(c, {k \in DOMAIN c : c[k] # NullIdx})
    <3>1. L!Cardinality(Idx) = Cardinality(Idx)
      BY DEF L!Cardinality, Cardinality
    <3> QED
      BY <3>1 DEF L!Walk, L!RestrictValues, L!Restrict, Restrict
  <2> QED
    BY <2>1, <2>2
<1>4. Follows(at, s, NumItems, NullIdx)
  <2>1. Len(s) <= NumItems /\ at = [k \in 1 .. NumItems |-> at[k]]
    BY <1>1, <1>3, Constants
  <2>2. NumItems > 0 => at[1] = Node(s, 1, NullIdx)
    BY <1>1, <1>3, Constants
  <2>3. ASSUME NEW k \in 2 .. NumItems
        PROVE  /\ \A j \in 1 .. Len(s) : at[k - 1] = s[j] => at[k] = Node(s, j + 1, NullIdx)
               /\ at[k - 1] = NullIdx => at[k] = NullIdx
    <3>1. at[k] = IF at[k - 1] = NullIdx THEN NullIdx ELSE link[at[k - 1]]
      <4>1. k \in 1 .. Cardinality(Idx) /\ k # 1
        BY <1>1, Constants
      <4> QED
        BY <4>1, <1>3
    <3> QED
      BY <3>1, <1>1, Constants
  <2> QED
    BY <2>1, <2>2, <2>3 DEF Follows
<1> HIDE DEF Step, w
<1> QED
  BY <1>3, <1>4, Constants, WalkVisits

\* The chains of a list are its sequence, from either end.
LEMMA ListIs ==
    ASSUME NEW l, NEW s \in Seq(Idx), IsList(l, s)
    PROVE  L!Forward(l) = s /\ L!Backward(l) = Reverse(s)
<1>1. /\ IsInjective(s)
      /\ first[l] = Node(s, 1, NullIdx) /\ last[l] = Node(s, Len(s), NullIdx)
      /\ \A k \in 1 .. Len(s) : /\ next[s[k]] = Node(s, k + 1, NullIdx)
                                /\ prev[s[k]] = Node(s, k - 1, NullIdx)
      /\ Len(s) \in Nat /\ DOMAIN s = 1 .. Len(s)
      /\ \A k \in 1 .. Len(s) : s[k] \in Idx
  BY LenProperties, ElementOfSeq DEF IsList
<1>2. L!Forward(l) = s
  BY <1>1, WalkIs DEF L!Forward
<1> DEFINE t == Reverse(s)
           n == Len(s)
<1>3. t = [k \in 1 .. n |-> s[(n - k) + 1]]
  BY DEF Reverse
<1> HIDE DEF t, n
<1>4. /\ n \in Nat /\ \A k \in 1 .. n : (n - k) + 1 \in 1 .. n
  BY <1>1 DEF n
<1>5. t \in Seq(Idx) /\ Len(t) = n /\ \A k \in 1 .. n : t[k] = s[(n - k) + 1]
  <2>1. t \in [1 .. n -> Idx]
    BY <1>1, <1>3, <1>4 DEF n
  <2> QED
    BY <2>1, <1>3, <1>4, IsASeq
<1>6. IsInjective(t)
  <2>1. DOMAIN t = 1 .. n
    BY <1>3
  <2> SUFFICES ASSUME NEW j \in 1 .. n, NEW k \in 1 .. n, t[j] = t[k]
               PROVE  j = k
    BY <2>1 DEF IsInjective
  <2>2. (n - j) + 1 = (n - k) + 1
    <3>1. \A a, b \in 1 .. n : s[a] = s[b] => a = b
      BY <1>1 DEF IsInjective, n
    <3>2. s[(n - j) + 1] = s[(n - k) + 1]
      BY <1>5
    <3> QED
      BY <3>1, <3>2, <1>4
  <2> QED
    BY <2>2, <1>4
<1>7. last[l] = Node(t, 1, NullIdx)
  <2>1. CASE n = 0
    BY <2>1, <1>1, <1>5 DEF Node, n
  <2>2. CASE n # 0
    <3>1. 1 \in 1 .. n /\ (n - 1) + 1 = n /\ n \in 1 .. n
      BY <2>2, <1>4
    <3>2. Node(t, 1, NullIdx) = s[n]
      BY <3>1, <1>5 DEF Node
    <3> QED
      BY <3>1, <3>2, <1>1 DEF Node, n
  <2> QED
    BY <2>1, <2>2
<1>8. ASSUME NEW k \in 1 .. n
      PROVE  prev[t[k]] = Node(t, k + 1, NullIdx)
  <2>1. (n - k) + 1 \in 1 .. n /\ ((n - k) + 1) - 1 = n - k
    BY <1>4
  <2>2. prev[t[k]] = Node(s, n - k, NullIdx)
    BY <2>1, <1>1, <1>5 DEF n
  <2>3. CASE k = n
    BY <2>2, <2>3, <1>4, <1>5 DEF Node
  <2>4. CASE k # n
    <3>1. k + 1 \in 1 .. n /\ (n - (k + 1)) + 1 = n - k /\ n - k \in 1 .. n
      BY <2>4, <1>4
    <3>2. t[k + 1] = s[n - k]
      BY <3>1, <1>5
    <3> QED
      BY <3>1, <3>2, <2>2, <1>5 DEF Node, n
  <2> QED
    BY <2>3, <2>4
<1>9. L!Walk(last[l], prev) = t
  BY <1>5, <1>6, <1>7, <1>8, WalkIs
<1> QED
  BY <1>2, <1>9 DEF L!Backward, t

\* What a list that exists says of its items.
LEMMA ListFacts ==
    ASSUME ListTypes, NEW l \in Lists, NEW s \in Seq(Idx), IsList(l, s)
    PROVE  /\ l # NullIdx
           /\ Len(s) \in Nat
           /\ \A k \in 1 .. Len(s) : /\ Node(s, k, NullIdx) = s[k]
                                     /\ s[k] \in Idx /\ s[k] # NullIdx /\ home[s[k]] = l
           /\ \A k \in Int : Node(s, k, NullIdx) # NullIdx <=> k \in 1 .. Len(s)
           /\ \A k \in Int : Node(s, k, NullIdx) \in Idx \cup {NullIdx}
           /\ \A j \in 1 .. Len(s), k \in Int : Node(s, k, NullIdx) = s[j] => k = j
           /\ \A x \in Idx : home[x] = l => \E k \in 1 .. Len(s) : s[k] = x
<1>1. /\ IsInjective(s) /\ ToSet(s) = {x \in Idx : home[x] = l}
      /\ Len(s) \in Nat /\ ToSet(s) = {s[k] : k \in 1 .. Len(s)}
  BY LenProperties, ToSetType DEF IsList
<1>2. l # NullIdx
  BY PooledListsAssumption
<1>3. /\ \A k \in 1 .. Len(s) : Node(s, k, NullIdx) = s[k] /\ s[k] \in Idx /\ s[k] # NullIdx
      /\ \A k \in Int : Node(s, k, NullIdx) # NullIdx <=> k \in 1 .. Len(s)
      /\ \A k \in Int : Node(s, k, NullIdx) \in Idx \cup {NullIdx}
      /\ \A j \in 1 .. Len(s), k \in Int : Node(s, k, NullIdx) = s[j] => k = j
  BY <1>1, Constants, NodePlaces
<1>4. \A k \in 1 .. Len(s) : home[s[k]] = l
  BY <1>1
<1>5. \A x \in Idx : home[x] = l => \E k \in 1 .. Len(s) : s[k] = x
  BY <1>1
<1> QED
  BY <1>1, <1>2, <1>3, <1>4, <1>5

\* A list none of whose items a step touches, nor its head, stays as it is.
LEMMA OthersStay ==
    ASSUME ListTypes, NEW m \in Lists, NEW s \in Seq(Idx), IsList(m, s),
           first'[m] = first[m], last'[m] = last[m], count'[m] = count[m],
           \A x \in Idx : home'[x] = m <=> home[x] = m,
           \A x \in Idx : home[x] = m => next'[x] = next[x] /\ prev'[x] = prev[x]
    PROVE  IsList(m, s)'
<1>1. \A k \in 1 .. Len(s) : s[k] \in Idx /\ home[s[k]] = m
  BY ListFacts
<1>2. ToSet(s) = {x \in Idx : home'[x] = m}
  BY DEF IsList
<1>3. \A k \in 1 .. Len(s) : next'[s[k]] = next[s[k]] /\ prev'[s[k]] = prev[s[k]]
  BY <1>1
<1> QED
  BY <1>2, <1>3 DEF IsList

\* The item becomes the one behind the first i, in one list; the others stay.
LEMMA InsertKeepsLists ==
    ASSUME ListTypes, NEW l \in Lists, NEW s \in Seq(Idx), IsList(l, s), NEW i \in 0 .. Len(s),
           NEW x \in Idx, L!Linked(l, Node(s, i, NullIdx), x)
    PROVE  /\ IsList(l, InsertAt(s, i + 1, x))'
           /\ InsertAt(s, i + 1, x) \in Seq(Idx)
           /\ \A m \in Lists \ {l}, t \in Seq(Idx) : IsList(m, t) => IsList(m, t)'
           /\ ListTypes'
           /\ home[x] = NullIdx /\ home' = [home EXCEPT ![x] = l]
           /\ count' = [count EXCEPT ![l] = @ + 1]
           /\ \A y \in Idx : home'[y] = NullIdx => next'[y] = next[y] /\ prev'[y] = prev[y]
<1> DEFINE before == Node(s, i, NullIdx)
           after == Node(s, i + 1, NullIdx)
<1>1. /\ l # NullIdx /\ Len(s) \in Nat /\ i \in Nat /\ i <= Len(s)
      /\ \A k \in 1 .. Len(s) : /\ Node(s, k, NullIdx) = s[k]
                                /\ s[k] \in Idx /\ s[k] # NullIdx /\ home[s[k]] = l
      /\ \A k \in Int : Node(s, k, NullIdx) # NullIdx <=> k \in 1 .. Len(s)
      /\ \A k \in Int : Node(s, k, NullIdx) \in Idx \cup {NullIdx}
      /\ \A j \in 1 .. Len(s), k \in Int : Node(s, k, NullIdx) = s[j] => k = j
  BY ListFacts
<1>2. /\ IsInjective(s) /\ ToSet(s) = {y \in Idx : home[y] = l}
      /\ first[l] = Node(s, 1, NullIdx) /\ last[l] = Node(s, Len(s), NullIdx)
      /\ count[l] = Len(s)
      /\ \A k \in 1 .. Len(s) : /\ next[s[k]] = Node(s, k + 1, NullIdx)
                                /\ prev[s[k]] = Node(s, k - 1, NullIdx)
  BY DEF IsList
<1>3. /\ before \in Idx \cup {NullIdx} /\ after \in Idx \cup {NullIdx}
      /\ before # NullIdx => home[before] = l
      /\ after # NullIdx => home[after] = l
  <2>1. i \in Int /\ i + 1 \in Int
    BY <1>1
  <2> QED
    BY <2>1, <1>1
<1>4. after = IF before = NullIdx THEN first[l] ELSE next[before]
  <2>1. CASE i = 0
    BY <2>1, <1>1, <1>2
  <2>2. CASE i # 0
    <3>1. i \in 1 .. Len(s)
      BY <2>2, <1>1
    <3> QED
      BY <3>1, <1>1, <1>2
  <2> QED
    BY <2>1, <2>2
<1> HIDE DEF before, after
<1>5. /\ home[x] = NullIdx /\ home' = [home EXCEPT ![x] = l]
      /\ next' = [(IF before = NullIdx THEN next ELSE [next EXCEPT ![before] = x])
                     EXCEPT ![x] = after]
      /\ prev' = IF after = NullIdx THEN [prev EXCEPT ![x] = before]
                 ELSE [[prev EXCEPT ![x] = before] EXCEPT ![after] = x]
      /\ first' = IF before = NullIdx THEN [first EXCEPT ![l] = x] ELSE first
      /\ last' = IF after = NullIdx THEN [last EXCEPT ![l] = x] ELSE last
      /\ count' = [count EXCEPT ![l] = @ + 1]
  <2>1. L!Linked(l, before, x)
    BY DEF before
  <2>2. x # NullIdx
    BY Constants
  <2> QED
    BY <2>1, <2>2, <1>4 DEF L!Linked, L!List_insert, L!Set
<1>6. /\ first \in [Lists -> Idx \cup {NullIdx}] /\ last \in [Lists -> Idx \cup {NullIdx}]
      /\ count \in [Lists -> Nat]
      /\ next \in [Idx -> Idx \cup {NullIdx}] /\ prev \in [Idx -> Idx \cup {NullIdx}]
      /\ home \in [Idx -> Lists \cup {NullIdx}]
  BY DEF ListTypes
<1>7. /\ x # before /\ x # after
      /\ next'[x] = after /\ prev'[x] = before
      /\ before # NullIdx => next'[before] = x
      /\ after # NullIdx => prev'[after] = x
      /\ \A y \in Idx \ {x, before} : next'[y] = next[y]
      /\ \A y \in Idx \ {x, after} : prev'[y] = prev[y]
  BY <1>1, <1>3, <1>5, <1>6, Constants
<1>8. /\ first'[l] = IF before = NullIdx THEN x ELSE first[l]
      /\ last'[l] = IF after = NullIdx THEN x ELSE last[l]
      /\ count'[l] = Len(s) + 1
      /\ \A m \in Lists \ {l} : first'[m] = first[m] /\ last'[m] = last[m] /\ count'[m] = count[m]
      /\ \A y \in Idx : home'[y] = IF y = x THEN l ELSE home[y]
  BY <1>2, <1>5, <1>6
<1>9. ListTypes'
  <2>1. next' \in [Idx -> Idx \cup {NullIdx}] /\ prev' \in [Idx -> Idx \cup {NullIdx}]
    BY <1>3, <1>5, <1>6
  <2>2. first' \in [Lists -> Idx \cup {NullIdx}] /\ last' \in [Lists -> Idx \cup {NullIdx}]
    BY <1>5, <1>6
  <2>3. count' \in [Lists -> Nat] /\ home' \in [Idx -> Lists \cup {NullIdx}]
    BY <1>5, <1>6
  <2> QED
    BY <2>1, <2>2, <2>3 DEF ListTypes
<1>10. ASSUME NEW m \in Lists \ {l}, NEW t \in Seq(Idx), IsList(m, t)
       PROVE  IsList(m, t)'
  <2>1. m # NullIdx
    BY PooledListsAssumption
  <2>2. \A y \in Idx : home'[y] = m <=> home[y] = m
    BY <2>1, <1>5, <1>8
  <2>3. \A y \in Idx : home[y] = m => y # x /\ y # before /\ y # after
    BY <2>1, <1>3, <1>5, Constants
  <2> QED
    BY <2>2, <2>3, <1>7, <1>8, <1>10, OthersStay
<1> DEFINE t == InsertAt(s, i + 1, x)
<1>11. i + 1 \in 1 .. Len(s) + 1
  BY <1>1
<1>12. /\ t \in Seq(Idx) /\ Len(t) = Len(s) + 1
       /\ \A k \in 1 .. Len(s) + 1 :
            t[k] = IF k < i + 1 THEN s[k] ELSE IF k = i + 1 THEN x ELSE s[k - 1]
  <2> DEFINE j == i + 1
             u == InsertAt(s, j, x)
  <2>0. j \in 1 .. Len(s) + 1
    BY <1>11
  <2> HIDE DEF t, j
  <2>1. /\ u \in Seq(Idx) /\ Len(u) = Len(s) + 1
        /\ \A k \in 1 .. Len(s) + 1 :
             u[k] = IF k < j THEN s[k] ELSE IF k = j THEN x ELSE s[k - 1]
    BY <2>0, SeqInsertAt
  <2> QED
    BY <2>1 DEF t, j
<1>13. \A k \in Int :
         Node(t, k, NullIdx) =
            IF k < i + 1 THEN Node(s, k, NullIdx)
            ELSE IF k = i + 1 THEN x ELSE Node(s, k - 1, NullIdx)
  BY <1>11, NodeInsertAt
<1> HIDE DEF t
<1>14. ASSUME NEW k \in 1 .. Len(t)
       PROVE  /\ next'[t[k]] = Node(t, k + 1, NullIdx)
              /\ prev'[t[k]] = Node(t, k - 1, NullIdx)
  <2>1. CASE k = i + 1
    <3>1. t[k] = x
      BY <2>1, <1>12
    <3>2. Node(t, k + 1, NullIdx) = after
      BY <2>1, <1>1, <1>13 DEF after
    <3>3. Node(t, k - 1, NullIdx) = before
      BY <2>1, <1>1, <1>13 DEF before
    <3> QED
      BY <3>1, <3>2, <3>3, <1>7
  <2>2. CASE k < i + 1
    <3>1. /\ k \in 1 .. Len(s) /\ k \in Int /\ k - 1 \in Int /\ k + 1 \in Int
          /\ k # i + 1 /\ k - 1 < i + 1 /\ t[k] = s[k] /\ s[k] \in Idx
      BY <2>2, <1>1, <1>12
    <3>2. s[k] # x /\ s[k] # after
      <4>1. s[k] # x
        BY <3>1, <1>1, <1>5
      <4>2. i + 1 \in Int
        BY <1>1
      <4>3. s[k] # after
        BY <3>1, <4>2, <1>1 DEF after
      <4> QED
        BY <4>1, <4>3
    <3>3. prev'[s[k]] = Node(t, k - 1, NullIdx)
      BY <3>1, <3>2, <1>2, <1>7, <1>13
    <3>4. next'[s[k]] = Node(t, k + 1, NullIdx)
      <4>1. CASE k = i
        <5>1. before = s[k] /\ before # NullIdx
          BY <4>1, <3>1, <1>1 DEF before
        <5> QED
          BY <5>1, <4>1, <3>1, <1>7, <1>13
      <4>2. CASE k # i
        <5>1. s[k] # before /\ k + 1 < i + 1
          <6>1. i \in Int
            BY <1>1
          <6>2. s[k] # before
            BY <4>2, <6>1, <3>1, <1>1 DEF before
          <6> QED
            BY <6>2, <4>2, <2>2, <3>1, <1>1
        <5> QED
          BY <5>1, <3>1, <3>2, <1>2, <1>7, <1>13
      <4> QED
        BY <4>1, <4>2
    <3> QED
      BY <3>1, <3>3, <3>4
  <2>3. CASE k > i + 1
    <3>1. /\ k - 1 \in 1 .. Len(s) /\ k \in Int /\ k - 1 \in Int /\ k + 1 \in Int
          /\ (k + 1) - 1 = (k - 1) + 1 /\ k + 1 > i + 1 /\ k - 1 > i
          /\ t[k] = s[k - 1] /\ s[k - 1] \in Idx
      <4>1. k - 1 \in 1 .. Len(s)
        BY <2>3, <1>1, <1>12
      <4>2. t[k] = s[k - 1]
        BY <2>3, <1>1, <1>12
      <4> QED
        BY <4>1, <4>2, <2>3, <1>1
    <3>2. s[k - 1] # x /\ s[k - 1] # before
      <4>1. s[k - 1] # x
        BY <3>1, <1>1, <1>5
      <4>2. i \in Int
        BY <1>1
      <4>3. s[k - 1] # before
        BY <3>1, <4>2, <1>1 DEF before
      <4> QED
        BY <4>1, <4>3
    <3>3. next'[s[k - 1]] = Node(t, k + 1, NullIdx)
      <4>1. next'[s[k - 1]] = Node(s, (k - 1) + 1, NullIdx)
        BY <3>1, <3>2, <1>2, <1>7
      <4>2. Node(t, k + 1, NullIdx) = Node(s, (k + 1) - 1, NullIdx)
        BY <3>1, <1>1, <1>13
      <4> QED
        BY <3>1, <4>1, <4>2
    <3>4. prev'[s[k - 1]] = Node(t, k - 1, NullIdx)
      <4>1. CASE k - 1 = i + 1
        <5>1. after = s[k - 1] /\ after # NullIdx
          BY <4>1, <3>1, <1>1 DEF after
        <5>2. Node(t, k - 1, NullIdx) = x
          BY <4>1, <3>1, <1>13
        <5> QED
          BY <5>1, <5>2, <1>7
      <4>2. CASE k - 1 # i + 1
        <5>1. i + 1 \in Int /\ k - 1 > i + 1
          BY <4>2, <3>1, <1>1
        <5>2. s[k - 1] # after
          BY <4>2, <5>1, <3>1, <1>1 DEF after
        <5>3. prev'[s[k - 1]] = Node(s, (k - 1) - 1, NullIdx)
          BY <5>2, <3>1, <3>2, <1>2, <1>7
        <5>4. Node(t, k - 1, NullIdx) = Node(s, (k - 1) - 1, NullIdx)
          BY <5>1, <3>1, <1>13
        <5> QED
          BY <5>3, <5>4
      <4> QED
        BY <4>1, <4>2
    <3> QED
      BY <3>1, <3>3, <3>4
  <2> QED
    BY <2>1, <2>2, <2>3, <1>1
<1>15. ToSet(t) = {y \in Idx : home'[y] = l} /\ IsInjective(t)
  <2>1. ToSet(t) = {t[k] : k \in 1 .. Len(t)} /\ DOMAIN t = 1 .. Len(t)
    BY <1>12, ToSetType, LenProperties
  <2>2. ASSUME NEW k \in 1 .. Len(t)
        PROVE  t[k] \in Idx /\ home'[t[k]] = l
    <3>1. k < i + 1 => k \in 1 .. Len(s)
      BY <1>1
    <3>2. k > i + 1 => k - 1 \in 1 .. Len(s)
      BY <1>1, <1>12
    <3>3. t[k] = x \/ \E j \in 1 .. Len(s) : t[k] = s[j]
      BY <3>1, <3>2, <1>1, <1>12
    <3> QED
      BY <3>3, <1>1, <1>8
  <2>3. ASSUME NEW y \in Idx, home'[y] = l
        PROVE  \E k \in 1 .. Len(t) : t[k] = y
    <3>1. CASE y = x
      <4>1. ~ (i + 1 < i + 1) /\ i + 1 \in 1 .. Len(t)
        BY <1>1, <1>11, <1>12
      <4>2. t[i + 1] = x
        BY <4>1, <1>11, <1>12
      <4> QED
        BY <4>1, <4>2, <3>1
    <3>2. CASE y # x
      <4>1. y \in ToSet(s) /\ ToSet(s) = {s[k] : k \in 1 .. Len(s)}
        BY <3>2, <2>3, <1>2, <1>8, ToSetType
      <4>2. PICK k \in 1 .. Len(s) : s[k] = y
        BY <4>1
      <4>3. CASE k < i + 1
        BY <4>2, <4>3, <1>1, <1>12
      <4>4. CASE ~ (k < i + 1)
        <5>1. k + 1 \in 1 .. Len(s) + 1 /\ k + 1 > i + 1 /\ (k + 1) - 1 = k
          BY <4>4, <1>1
        <5>2. t[k + 1] = s[k] /\ k + 1 \in 1 .. Len(t)
          BY <5>1, <1>1, <1>12
        <5> QED
          BY <4>2, <5>2
      <4> QED
        BY <4>3, <4>4
    <3> QED
      BY <3>1, <3>2
  <2>4. IsInjective(t)
    <3> SUFFICES ASSUME NEW j \in 1 .. Len(t), NEW k \in 1 .. Len(t), t[j] = t[k]
                 PROVE  j = k
      BY <2>1 DEF IsInjective
    <3>1. \A a, b \in 1 .. Len(s) : s[a] = s[b] => a = b
      BY <1>1
    <3>2. \A a \in 1 .. Len(s) : s[a] # x
      BY <1>1, <1>5
    <3>3. \A a \in 1 .. Len(t) :
            \/ a < i + 1 /\ a \in 1 .. Len(s) /\ t[a] = s[a]
            \/ a = i + 1 /\ t[a] = x
            \/ a > i + 1 /\ a - 1 \in 1 .. Len(s) /\ t[a] = s[a - 1]
      BY <1>1, <1>12
    <3>4. \/ k < i + 1 /\ k \in 1 .. Len(s) /\ t[k] = s[k]
          \/ k = i + 1 /\ t[k] = x
          \/ k > i + 1 /\ k - 1 \in 1 .. Len(s) /\ t[k] = s[k - 1]
      BY <3>3
    <3>5. i \in Nat /\ Len(s) \in Nat /\ j \in Int /\ k \in Int
      BY <1>1
    <3>6. CASE j < i + 1 /\ j \in 1 .. Len(s) /\ t[j] = s[j]
      <4>1. k # i + 1
        <5> SUFFICES ASSUME k = i + 1
                     PROVE  FALSE
          OBVIOUS
        <5>1. t[k] = x
          BY <3>4, <3>5
        <5>2. s[j] = x
          BY <5>1, <3>6
        <5> QED
          BY <5>2, <3>2, <3>6
      <4>2. CASE k > i + 1 /\ k - 1 \in 1 .. Len(s) /\ t[k] = s[k - 1]
        <5>1. j = k - 1
          BY <4>2, <3>1, <3>6, t[j] = t[k]
        <5> QED
          BY <5>1, <4>2, <3>5, <3>6
      <4> QED
        BY <4>1, <4>2, <3>1, <3>4, <3>6, t[j] = t[k]
    <3>7. CASE j = i + 1 /\ t[j] = x
      BY <3>2, <3>4, <3>7, t[j] = t[k]
    <3>8. CASE j > i + 1 /\ j - 1 \in 1 .. Len(s) /\ t[j] = s[j - 1]
      <4>1. k # i + 1
        <5> SUFFICES ASSUME k = i + 1
                     PROVE  FALSE
          OBVIOUS
        <5>1. t[k] = x
          BY <3>4, <3>5
        <5>2. s[j - 1] = x
          BY <5>1, <3>8
        <5> QED
          BY <5>2, <3>2, <3>8
      <4>2. CASE k < i + 1 /\ k \in 1 .. Len(s) /\ t[k] = s[k]
        <5>1. k = j - 1
          BY <4>2, <3>1, <3>8, t[j] = t[k]
        <5> QED
          BY <5>1, <4>2, <3>5, <3>8
      <4>3. CASE k > i + 1 /\ k - 1 \in 1 .. Len(s) /\ t[k] = s[k - 1]
        <5>1. k - 1 = j - 1
          BY <4>3, <3>1, <3>8, t[j] = t[k]
        <5> QED
          BY <5>1, <3>5
      <4> QED
        BY <4>1, <4>2, <4>3, <3>4
    <3> QED
      BY <3>3, <3>6, <3>7, <3>8
  <2> QED
    BY <2>1, <2>2, <2>3, <2>4
<1>16. first'[l] = Node(t, 1, NullIdx) /\ last'[l] = Node(t, Len(t), NullIdx)
  <2>1. first'[l] = Node(t, 1, NullIdx)
    <3>1. CASE i = 0
      BY <3>1, <1>1, <1>8, <1>13 DEF before
    <3>2. CASE i # 0
      BY <3>2, <1>1, <1>2, <1>8, <1>13 DEF before
    <3> QED
      BY <3>1, <3>2
  <2>2. last'[l] = Node(t, Len(t), NullIdx)
    <3>1. Len(t) = Len(s) + 1 /\ Len(t) \in Int /\ Len(t) - 1 = Len(s) /\ i + 1 \in Int
      BY <1>1, <1>12
    <3>2. CASE i = Len(s)
      BY <3>1, <3>2, <1>1, <1>8, <1>13 DEF after
    <3>3. CASE i # Len(s)
      <4>0. i \in Nat /\ i <= Len(s) /\ Len(s) \in Nat
        BY <1>1
      <4>1. i + 1 \in 1 .. Len(s) /\ Len(t) > i + 1
        <5>1. i < Len(s)
          BY ONLY <4>0, <3>3
        <5>2. i + 1 \in 1 .. Len(s) /\ Len(s) + 1 > i + 1
          BY ONLY <4>0, <5>1
        <5> QED
          BY <5>2, <3>1
      <4>2. last'[l] = last[l]
        BY <4>1, <3>1, <1>1, <1>8 DEF after
      <4>3. Node(t, Len(t), NullIdx) = Node(s, Len(t) - 1, NullIdx)
        BY <4>1, <3>1, <1>13
      <4> QED
        BY <4>2, <4>3, <3>1, <1>2
    <3> QED
      BY <3>2, <3>3
  <2> QED
    BY <2>1, <2>2
<1>17. IsList(l, t)'
  BY <1>8, <1>12, <1>14, <1>15, <1>16 DEF IsList
<1>18. ASSUME NEW y \in Idx, home'[y] = NullIdx
       PROVE  next'[y] = next[y] /\ prev'[y] = prev[y]
  <2>1. y # x /\ y # NullIdx
    BY <1>18, <1>1, <1>8, Constants
  <2>2. home[y] = NullIdx
    BY <2>1, <1>18, <1>8
  <2>3. y # before /\ y # after
    BY <2>1, <2>2, <1>1, <1>3
  <2> QED
    BY <2>1, <2>3, <1>7
<1> QED
  BY <1>5, <1>9, <1>10, <1>12, <1>17, <1>18 DEF t

\* The i-th item leaves its list with its links cleared; the other lists stay.
LEMMA DetachKeepsLists ==
    ASSUME ListTypes, NEW l \in Lists, NEW s \in Seq(Idx), IsList(l, s), NEW i \in 1 .. Len(s),
           L!Detach(l, s[i])
    PROVE  /\ IsList(l, RemoveAt(s, i))'
           /\ RemoveAt(s, i) \in Seq(Idx)
           /\ \A m \in Lists \ {l}, t \in Seq(Idx) : IsList(m, t) => IsList(m, t)'
           /\ ListTypes'
           /\ s[i] \in Idx /\ home' = [home EXCEPT ![s[i]] = NullIdx]
           /\ count' = [count EXCEPT ![l] = @ - 1]
           /\ next'[s[i]] = NullIdx /\ prev'[s[i]] = NullIdx
           /\ \A y \in Idx \ {s[i]} :
                home[y] = NullIdx => next'[y] = next[y] /\ prev'[y] = prev[y]
<1> DEFINE before == Node(s, i - 1, NullIdx)
           after == Node(s, i + 1, NullIdx)
           x == s[i]
<1>1. /\ l # NullIdx /\ Len(s) \in Nat /\ i \in Int
      /\ \A k \in 1 .. Len(s) : /\ Node(s, k, NullIdx) = s[k]
                                /\ s[k] \in Idx /\ s[k] # NullIdx /\ home[s[k]] = l
      /\ \A k \in Int : Node(s, k, NullIdx) # NullIdx <=> k \in 1 .. Len(s)
      /\ \A k \in Int : Node(s, k, NullIdx) \in Idx \cup {NullIdx}
      /\ \A j \in 1 .. Len(s), k \in Int : Node(s, k, NullIdx) = s[j] => k = j
  BY ListFacts
<1>2. /\ IsInjective(s) /\ ToSet(s) = {y \in Idx : home[y] = l}
      /\ first[l] = Node(s, 1, NullIdx) /\ last[l] = Node(s, Len(s), NullIdx)
      /\ count[l] = Len(s)
      /\ \A k \in 1 .. Len(s) : /\ next[s[k]] = Node(s, k + 1, NullIdx)
                                /\ prev[s[k]] = Node(s, k - 1, NullIdx)
  BY DEF IsList
<1>3. /\ before \in Idx \cup {NullIdx} /\ after \in Idx \cup {NullIdx}
      /\ before # NullIdx => home[before] = l
      /\ after # NullIdx => home[after] = l
      /\ x \in Idx /\ x # NullIdx /\ home[x] = l
      /\ next[x] = after /\ prev[x] = before
      /\ x # before /\ x # after
  <2>1. i - 1 \in Int /\ i + 1 \in Int /\ i - 1 # i /\ i + 1 # i
    BY <1>1
  <2>2. before # x /\ after # x
    BY <2>1, <1>1
  <2> QED
    BY <2>1, <2>2, <1>1, <1>2, SMTT(30)
<1>4. \A k \in 1 .. Len(s) :
        /\ s[k] = x <=> k = i
        /\ s[k] = before <=> k = i - 1
        /\ s[k] = after <=> k = i + 1
  <2> SUFFICES ASSUME NEW k \in 1 .. Len(s)
               PROVE  /\ s[k] = x <=> k = i
                      /\ s[k] = before <=> k = i - 1
                      /\ s[k] = after <=> k = i + 1
    OBVIOUS
  <2>1. i - 1 \in Int /\ i + 1 \in Int /\ k \in Int /\ Node(s, k, NullIdx) = s[k]
    BY <1>1
  <2> QED
    BY <2>1, <1>1
<1>5. (x = first[l] <=> i = 1) /\ (x = last[l] <=> i = Len(s))
  <2>1. Node(s, i, NullIdx) = s[i]
    BY <1>1
  <2> QED
    BY <2>1, <1>1, <1>2
<1> HIDE DEF before, after
<1>6. /\ home' = [home EXCEPT ![x] = NullIdx]
      /\ next' = [(IF before = NullIdx THEN next ELSE [next EXCEPT ![before] = after])
                     EXCEPT ![x] = NullIdx]
      /\ prev' = [(IF after = NullIdx THEN prev ELSE [prev EXCEPT ![after] = before])
                     EXCEPT ![x] = NullIdx]
      /\ first' = IF x = first[l] THEN [first EXCEPT ![l] = after] ELSE first
      /\ last' = IF x = last[l] THEN [last EXCEPT ![l] = before] ELSE last
      /\ count' = [count EXCEPT ![l] = @ - 1]
  BY <1>3 DEF L!Detach, L!List_detach, L!Set
<1> HIDE DEF x
<1>7. /\ first \in [Lists -> Idx \cup {NullIdx}] /\ last \in [Lists -> Idx \cup {NullIdx}]
      /\ count \in [Lists -> Nat]
      /\ next \in [Idx -> Idx \cup {NullIdx}] /\ prev \in [Idx -> Idx \cup {NullIdx}]
      /\ home \in [Idx -> Lists \cup {NullIdx}]
  BY DEF ListTypes
<1>8. /\ next'[x] = NullIdx /\ prev'[x] = NullIdx
      /\ before # NullIdx => next'[before] = after
      /\ after # NullIdx => prev'[after] = before
      /\ \A y \in Idx \ {x, before} : next'[y] = next[y]
      /\ \A y \in Idx \ {x, after} : prev'[y] = prev[y]
  BY <1>3, <1>6, <1>7
<1>9. /\ first'[l] = IF i = 1 THEN after ELSE first[l]
      /\ last'[l] = IF i = Len(s) THEN before ELSE last[l]
      /\ count'[l] = Len(s) - 1
      /\ \A m \in Lists \ {l} : first'[m] = first[m] /\ last'[m] = last[m] /\ count'[m] = count[m]
      /\ \A y \in Idx : home'[y] = IF y = x THEN NullIdx ELSE home[y]
  BY <1>2, <1>5, <1>6, <1>7
<1>10. ListTypes'
  <2>1. next' \in [Idx -> Idx \cup {NullIdx}] /\ prev' \in [Idx -> Idx \cup {NullIdx}]
    BY <1>3, <1>6, <1>7
  <2>2. first' \in [Lists -> Idx \cup {NullIdx}] /\ last' \in [Lists -> Idx \cup {NullIdx}]
    BY <1>3, <1>6, <1>7
  <2>3. count' \in [Lists -> Nat]
    <3>1. count[l] - 1 \in Nat
      BY <1>1, <1>2
    <3> QED
      BY <3>1, <1>6, <1>7
  <2>4. home' \in [Idx -> Lists \cup {NullIdx}]
    BY <1>6, <1>7
  <2> QED
    BY <2>1, <2>2, <2>3, <2>4 DEF ListTypes
<1>11. ASSUME NEW m \in Lists \ {l}, NEW t \in Seq(Idx), IsList(m, t)
       PROVE  IsList(m, t)'
  <2>1. m # NullIdx
    BY PooledListsAssumption
  <2>2. \A y \in Idx : home'[y] = m <=> home[y] = m
    BY <2>1, <1>3, <1>9
  <2>3. \A y \in Idx : home[y] = m => y # x /\ y # before /\ y # after
    BY <2>1, <1>3, Constants
  <2> QED
    BY <2>2, <2>3, <1>8, <1>9, <1>11, OthersStay
<1> DEFINE t == RemoveAt(s, i)
<1>12. /\ t \in Seq(Idx) /\ ToSet(t) = ToSet(s) \ {x} /\ IsInjective(t)
       /\ Len(t) = Len(s) - 1
       /\ \A k \in 1 .. Len(s) - 1 : t[k] = IF k < i THEN s[k] ELSE s[k + 1]
  <2>1. i \in DOMAIN s /\ s \in Seq(Idx) /\ IsInjective(s) /\ x = s[i]
    BY <1>2, LenProperties DEF x
  <2> QED
    BY ONLY <2>1, SeqRemoveAt
<1>13. \A k \in Int :
         Node(t, k, NullIdx) = IF k < i THEN Node(s, k, NullIdx) ELSE Node(s, k + 1, NullIdx)
  BY <1>2, NodeRemoveAt
<1> HIDE DEF t
<1>14. ASSUME NEW k \in 1 .. Len(t)
       PROVE  /\ next'[t[k]] = Node(t, k + 1, NullIdx)
              /\ prev'[t[k]] = Node(t, k - 1, NullIdx)
  <2>1. CASE k < i
    <3>1. /\ k \in 1 .. Len(s) /\ k \in Int /\ k - 1 \in Int /\ k + 1 \in Int
          /\ k - 1 < i /\ k # i /\ k # i + 1
      BY <2>1, <1>1, <1>12
    <3>2. t[k] = s[k] /\ s[k] \in Idx /\ s[k] # x /\ s[k] # after
      BY <3>1, <2>1, <1>1, <1>4, <1>12
    <3>3. prev'[s[k]] = Node(t, k - 1, NullIdx)
      BY <3>1, <3>2, <1>2, <1>8, <1>13
    <3>4. next'[s[k]] = Node(t, k + 1, NullIdx)
      <4>1. CASE k = i - 1
        <5>1. before = s[k] /\ before # NullIdx
          BY <4>1, <3>1, <1>1, <1>4
        <5>2. ~ (k + 1 < i) /\ (k + 1) + 1 = i + 1
          BY <4>1, <1>1
        <5>3. Node(t, k + 1, NullIdx) = after
          BY <5>2, <3>1, <1>13 DEF after
        <5> QED
          BY <5>1, <5>3, <1>8
      <4>2. CASE k # i - 1
        <5>1. s[k] # before /\ k + 1 < i
          BY <4>2, <2>1, <3>1, <1>1, <1>4
        <5> QED
          BY <5>1, <3>1, <3>2, <1>2, <1>8, <1>13
      <4> QED
        BY <4>1, <4>2
    <3> QED
      BY <3>2, <3>3, <3>4
  <2>2. CASE ~ (k < i)
    <3>1. /\ k + 1 \in 1 .. Len(s) /\ k \in Int /\ k - 1 \in Int /\ k + 1 \in Int
          /\ k + 1 # i /\ k + 1 # i - 1 /\ ~ (k + 1 < i)
          /\ (k + 1) - 1 = k /\ (k - 1) + 1 = k
      BY <2>2, <1>1, <1>12
    <3>2. t[k] = s[k + 1] /\ s[k + 1] \in Idx /\ s[k + 1] # x /\ s[k + 1] # before
      BY <3>1, <2>2, <1>1, <1>4, <1>12
    <3>3. next'[s[k + 1]] = Node(t, k + 1, NullIdx)
      BY <3>1, <3>2, <1>2, <1>8, <1>13
    <3>4. prev'[s[k + 1]] = Node(t, k - 1, NullIdx)
      <4>1. CASE k = i
        <5>1. after = s[k + 1] /\ after # NullIdx
          BY <4>1, <3>1, <1>1, <1>4
        <5>2. k - 1 < i /\ k - 1 = i - 1
          BY <4>1, <1>1
        <5>3. Node(t, k - 1, NullIdx) = before
          BY <5>2, <3>1, <1>13 DEF before
        <5> QED
          BY <5>1, <5>3, <1>8
      <4>2. CASE k # i
        <5>1. s[k + 1] # after /\ ~ (k - 1 < i)
          BY <4>2, <2>2, <3>1, <1>1, <1>4
        <5>2. prev'[s[k + 1]] = Node(s, (k + 1) - 1, NullIdx)
          BY <5>1, <3>1, <3>2, <1>2, <1>8
        <5>3. Node(t, k - 1, NullIdx) = Node(s, (k - 1) + 1, NullIdx)
          BY <5>1, <3>1, <1>13
        <5> QED
          BY <5>2, <5>3, <3>1
      <4> QED
        BY <4>1, <4>2
    <3> QED
      BY <3>2, <3>3, <3>4
  <2> QED
    BY <2>1, <2>2
<1>15. ToSet(t) = {y \in Idx : home'[y] = l}
  BY <1>1, <1>2, <1>9, <1>12
<1>16. first'[l] = Node(t, 1, NullIdx)
  <2>1. CASE i = 1
    BY <2>1, <1>1, <1>9, <1>13 DEF after
  <2>2. CASE i # 1
    <3>1. 1 < i /\ 1 \in Int
      BY <2>2, <1>1
    <3> QED
      BY <3>1, <2>2, <1>2, <1>9, <1>13
  <2> QED
    BY <2>1, <2>2
<1>17. last'[l] = Node(t, Len(t), NullIdx)
  <2>1. Len(t) \in Int /\ Len(t) = Len(s) - 1 /\ Len(t) + 1 = Len(s)
    BY <1>1, <1>12
  <2>2. CASE i = Len(s)
    <3>1. Len(t) < i /\ Len(t) = i - 1
      BY <2>1, <2>2, <1>1
    <3> QED
      BY <3>1, <2>1, <2>2, <1>9, <1>13 DEF before
  <2>3. CASE i # Len(s)
    <3>1. ~ (Len(t) < i)
      BY <2>1, <2>3, <1>1
    <3> QED
      BY <3>1, <2>1, <2>3, <1>2, <1>9, <1>13
  <2> QED
    BY <2>2, <2>3
<1>18. IsList(l, t)'
  BY <1>9, <1>12, <1>14, <1>15, <1>16, <1>17 DEF IsList
<1>19. ASSUME NEW y \in Idx \ {x}, home[y] = NullIdx
       PROVE  next'[y] = next[y] /\ prev'[y] = prev[y]
  <2>1. y # before /\ y # after
    BY <1>19, <1>1, <1>3, Constants
  <2> QED
    BY <2>1, <1>8
<1> QED
  BY <1>3, <1>6, <1>8, <1>10, <1>11, <1>12, <1>18, <1>19 DEF t, x

-----------------------------------------------------------------------------
(* The invariant is inductive                                              *)

\* Every call on a list inserts a block behind one of its items, or in front of all, or
\* detaches the item at some position.
LEMMA CallsArePositions ==
    ASSUME ListInv, ListCall
    PROVE  /\ UNCHANGED vars
           /\ \E l \in Lists, s \in Seq(Idx) :
                /\ IsList(l, s)
                /\ \/ \E i \in 0 .. Len(s), x \in Allocated : L!Linked(l, Node(s, i, NullIdx), x)
                   \/ \E i \in 1 .. Len(s) : L!Detach(l, s[i])
<1> DEFINE Inserts(l, s) ==
             \E i \in 0 .. Len(s), x \in Allocated : L!Linked(l, Node(s, i, NullIdx), x)
           Detaches(l, s) == \E i \in 1 .. Len(s) : L!Detach(l, s[i])
<1>1. PICK l \in Lists :
        \/ \E x \in Allocated : L!PushBack(l, x) \/ L!PushFront(l, x) \/ L!Detach(l, x)
        \/ \E x, before \in Allocated : L!Insert(l, before, x)
        \/ L!PopFront(l)
  BY DEF ListCall
<1>2. PICK s \in Seq(Idx) : IsList(l, s)
  BY DEF ListInv
<1>3. /\ Len(s) \in Nat
      /\ \A k \in 1 .. Len(s) : Node(s, k, NullIdx) = s[k]
      /\ \A x \in Idx : home[x] = l => \E k \in 1 .. Len(s) : s[k] = x
      /\ first[l] = Node(s, 1, NullIdx) /\ last[l] = Node(s, Len(s), NullIdx)
  <2>1. ListTypes
    BY DEF ListInv
  <2>2. first[l] = Node(s, 1, NullIdx) /\ last[l] = Node(s, Len(s), NullIdx)
    BY <1>2 DEF IsList
  <2> QED
    BY <2>1, <2>2, <1>2, ListFacts
<1>4. Node(s, 0, NullIdx) = NullIdx /\ 0 \in 0 .. Len(s) /\ Len(s) \in 0 .. Len(s)
  BY <1>3 DEF Node
<1>5. Allocated \subseteq Idx
  BY DEF Allocated
<1>6. Inserts(l, s) \/ Detaches(l, s)
  <2>1. CASE \E x \in Allocated : L!PushBack(l, x)
    BY <2>1, <1>3, <1>4 DEF L!PushBack
  <2>2. CASE \E x \in Allocated : L!PushFront(l, x)
    BY <2>2, <1>4 DEF L!PushFront
  <2>3. CASE \E x \in Allocated : L!Detach(l, x)
    <3>1. PICK x \in Allocated : L!Detach(l, x)
      BY <2>3
    <3>2. home[x] = l
      BY <3>1 DEF L!Detach
    <3> QED
      BY <3>1, <3>2, <1>3, <1>5
  <2>4. CASE \E x, before \in Allocated : L!Insert(l, before, x)
    <3>1. PICK x \in Allocated, before \in Allocated : L!Insert(l, before, x)
      BY <2>4
    <3>2. home[before] = l /\ L!Linked(l, before, x)
      BY <3>1 DEF L!Insert
    <3>3. PICK k \in 1 .. Len(s) : s[k] = before
      BY <3>2, <1>3, <1>5
    <3>4. k \in 0 .. Len(s) /\ Node(s, k, NullIdx) = before
      BY <3>3, <1>3
    <3> QED
      BY <3>2, <3>4
  <2>5. CASE L!PopFront(l)
    <3>1. first[l] # NullIdx /\ L!Detach(l, first[l])
      BY <2>5 DEF L!PopFront
    <3>2. 1 \in 1 .. Len(s) /\ first[l] = s[1]
      BY <3>1, <1>3 DEF Node
    <3> QED
      BY <3>1, <3>2
  <2> QED
    BY <1>1, <2>1, <2>2, <2>3, <2>4, <2>5
<1> QED
  BY <1>2, <1>6 DEF ListCall

\* A call on a list keeps every list.
LEMMA CallKeepsLists ==
    ASSUME ListInv, OnlyAllocated, ListCall
    PROVE  ListInv' /\ OnlyAllocated'
<1>1. UNCHANGED vars
  BY CallsArePositions
<1>2. PICK l \in Lists, s \in Seq(Idx) :
        /\ IsList(l, s)
        /\ \/ \E i \in 0 .. Len(s), x \in Allocated : L!Linked(l, Node(s, i, NullIdx), x)
           \/ \E i \in 1 .. Len(s) : L!Detach(l, s[i])
  BY CallsArePositions
<1>3. /\ ListTypes /\ \A m \in Lists : \E t \in Seq(Idx) : IsList(m, t)
      /\ \A y \in Idx : home[y] = NullIdx => next[y] = NullIdx /\ prev[y] = NullIdx
  BY DEF ListInv
<1>4. free_list' = free_list
  BY <1>1 DEF vars
<1>5. CASE \E i \in 0 .. Len(s), x \in Allocated : L!Linked(l, Node(s, i, NullIdx), x)
  <2>1. PICK i \in 0 .. Len(s), x \in Allocated : L!Linked(l, Node(s, i, NullIdx), x)
    BY <1>5
  <2>2. x \in Idx /\ free_list[x] = DetachedIdx
    BY DEF Allocated
  <2>3. /\ IsList(l, InsertAt(s, i + 1, x))' /\ InsertAt(s, i + 1, x) \in Seq(Idx)
        /\ \A m \in Lists \ {l}, t \in Seq(Idx) : IsList(m, t) => IsList(m, t)'
        /\ ListTypes'
        /\ home' = [home EXCEPT ![x] = l]
        /\ \A y \in Idx : home'[y] = NullIdx => next'[y] = next[y] /\ prev'[y] = prev[y]
    BY <1>2, <1>3, <2>1, <2>2, InsertKeepsLists
  <2>4. \A m \in Lists : \E t \in Seq(Idx) : IsList(m, t)'
    BY <1>3, <2>3
  <2>5. \A y \in Idx : home'[y] = IF y = x THEN l ELSE home[y]
    BY <2>3, <1>3 DEF ListTypes
  <2>6. ASSUME NEW y \in Idx, home'[y] = NullIdx
        PROVE  next'[y] = NullIdx /\ prev'[y] = NullIdx
    <3>1. home[y] = NullIdx
      BY <2>5, <2>6, PooledListsAssumption
    <3> QED
      BY <3>1, <2>3, <2>6, <1>3
  <2>7. OnlyAllocated'
    BY <2>2, <2>5, <1>4 DEF OnlyAllocated
  <2> QED
    BY <2>3, <2>4, <2>6, <2>7 DEF ListInv
<1>6. CASE \E i \in 1 .. Len(s) : L!Detach(l, s[i])
  <2>1. PICK i \in 1 .. Len(s) : L!Detach(l, s[i])
    BY <1>6
  <2> DEFINE x == s[i]
  <2>2. /\ IsList(l, RemoveAt(s, i))' /\ RemoveAt(s, i) \in Seq(Idx)
        /\ \A m \in Lists \ {l}, t \in Seq(Idx) : IsList(m, t) => IsList(m, t)'
        /\ ListTypes'
        /\ x \in Idx /\ home' = [home EXCEPT ![x] = NullIdx]
        /\ next'[x] = NullIdx /\ prev'[x] = NullIdx
        /\ \A y \in Idx \ {x} :
             home[y] = NullIdx => next'[y] = next[y] /\ prev'[y] = prev[y]
    BY <1>2, <1>3, <2>1, DetachKeepsLists
  <2> HIDE DEF x
  <2>3. \A m \in Lists : \E t \in Seq(Idx) : IsList(m, t)'
    BY <1>3, <2>2
  <2>4. \A y \in Idx : home'[y] = IF y = x THEN NullIdx ELSE home[y]
    BY <2>2, <1>3 DEF ListTypes
  <2>5. ASSUME NEW y \in Idx, home'[y] = NullIdx
        PROVE  next'[y] = NullIdx /\ prev'[y] = NullIdx
    BY <2>2, <2>4, <2>5, <1>3
  <2>6. OnlyAllocated'
    BY <2>4, <1>4 DEF OnlyAllocated
  <2> QED
    BY <2>2, <2>3, <2>5, <2>6 DEF ListInv
<1> QED
  BY <1>2, <1>5, <1>6

\* The lists do not change while their variables do not.
LEMMA ListsStay ==
    ASSUME ListInv, UNCHANGED listVars
    PROVE  ListInv'
BY DEF ListInv, ListTypes, IsList, listVars

\* The free list does not change while its variables do not.
LEMMA PoolStays ==
    ASSUME PoolInv, UNCHANGED vars
    PROVE  PoolInv'
BY DEF PoolInv, PoolTypes, FreeChain, vars

\* PoolAllocator_init chains all blocks in address order, and List_init leaves lists empty.
LEMMA PooledInvInit == PooledInit => PooledInv
<1> SUFFICES ASSUME PooledInit
             PROVE  PooledInv
  OBVIOUS
<1>1. /\ NumItems \in Nat /\ NumItems > 0
      /\ first_idx = 0 /\ size = NumItems /\ block = NullBlock /\ result = Success
      /\ free_list = [i \in Idx |-> IF i = NumItems - 1 THEN NullIdx ELSE i + 1]
  BY Constants DEF PooledInit, Init, PoolAllocator_init
<1>2. /\ first = [l \in Lists |-> NullIdx] /\ last = [l \in Lists |-> NullIdx]
      /\ count = [l \in Lists |-> 0]
      /\ prev = [x \in Idx |-> NullIdx] /\ next = [x \in Idx |-> NullIdx]
      /\ home = [x \in Idx |-> NullIdx]
  BY DEF PooledInit, L!Init
<1> DEFINE s == [k \in 1 .. NumItems |-> k - 1]
<1>3. s \in Seq(Idx) /\ Len(s) = NumItems /\ \A k \in 1 .. NumItems : s[k] = k - 1
  <2>1. s \in [1 .. NumItems -> Idx]
    BY <1>1 DEF Idx
  <2> QED
    BY <2>1, <1>1, IsASeq
<1> HIDE DEF s
<1>4. PoolTypes
  BY <1>1 DEF PoolTypes, Idx, NullIdx, DetachedIdx, Results
<1>5. FreeChain(s)
  <2>1. DOMAIN s = 1 .. NumItems /\ ToSet(s) = {s[k] : k \in 1 .. NumItems}
    BY <1>3, ToSetType, LenProperties
  <2>2. IsInjective(s)
    BY <2>1, <1>1, <1>3 DEF IsInjective
  <2>3. \A i \in Idx : free_list[i] # DetachedIdx
    BY <1>1 DEF Idx, NullIdx, DetachedIdx
  <2>4. \A i \in Idx : i + 1 \in 1 .. NumItems /\ s[i + 1] = i
    BY <1>1, <1>3 DEF Idx
  <2>5. ToSet(s) = {i \in Idx : free_list[i] # DetachedIdx}
    BY <2>1, <2>3, <2>4, <1>3 DEF Idx
  <2>6. first_idx = Node(s, 1, NullIdx)
    BY <1>1, <1>3 DEF Node
  <2>7. ASSUME NEW k \in 1 .. Len(s)
        PROVE  free_list[s[k]] = Node(s, k + 1, NullIdx)
    BY <1>1, <1>3 DEF Node, Idx
  <2> QED
    BY <2>2, <2>5, <2>6, <2>7, <1>1, <1>3 DEF FreeChain
<1>6. ListTypes
  BY <1>2 DEF ListTypes
<1>7. ASSUME NEW l \in Lists
      PROVE  IsList(l, <<>>)
  <2>1. <<>> \in Seq(Idx) /\ ToSet(<<>>) = {} /\ IsInjective(<<>>) /\ Len(<<>>) = 0
    BY SeqEmpty
  <2>2. \A k : Node(<<>>, k, NullIdx) = NullIdx
    BY DEF Node
  <2>3. {x \in Idx : home[x] = l} = {}
    BY <1>2, PooledListsAssumption
  <2>4. first[l] = NullIdx /\ last[l] = NullIdx /\ count[l] = 0
    BY <1>2
  <2> QED
    BY <2>1, <2>2, <2>3, <2>4 DEF IsList
<1>8. OnlyAllocated
  BY <1>2 DEF OnlyAllocated
<1>9. ListInv
  <2>1. <<>> \in Seq(Idx)
    OBVIOUS
  <2> QED
    BY <2>1, <1>2, <1>6, <1>7 DEF ListInv
<1> QED
  BY <1>3, <1>4, <1>5, <1>8, <1>9 DEF PooledInv, PoolInv

\* Every call keeps the invariant.  A block handed out comes from the free list and so is
\* on no list; a block given back is on no list because the caller says so.
LEMMA PooledInvNext == PooledInv /\ [PooledNext]_pooledVars => PooledInv'
<1> SUFFICES ASSUME PooledInv, [PooledNext]_pooledVars
             PROVE  PooledInv'
  OBVIOUS
<1>1. PoolInv /\ ListInv /\ OnlyAllocated /\ PoolTypes /\ ListTypes
  BY DEF PooledInv, PoolInv, ListInv
<1>2. PICK s \in Seq(Idx) : FreeChain(s)
  BY <1>1 DEF PoolInv
<1>3. /\ free_list \in [Idx -> Idx \cup {NullIdx, DetachedIdx}]
      /\ next \in [Idx -> Idx \cup {NullIdx}] /\ prev \in [Idx -> Idx \cup {NullIdx}]
      /\ \A x \in Idx : home[x] # NullIdx => free_list[x] = DetachedIdx
      /\ \A x \in Idx : home[x] = NullIdx => next[x] = NullIdx /\ prev[x] = NullIdx
  BY <1>1 DEF PoolTypes, ListTypes, OnlyAllocated, ListInv
<1>4. ASSUME PoolAllocator_getBlock
      PROVE  /\ PoolInv' /\ first_idx \in Idx /\ home[first_idx] = NullIdx
             /\ \A x \in Idx : home[x] # NullIdx => free_list'[x] = DetachedIdx
  <2>1. Tail(s) \in Seq(Idx) /\ FreeChain(Tail(s))' /\ PoolTypes'
    BY <1>1, <1>2, <1>4, GetKeepsChain
  <2>2. first_idx \in Idx /\ free_list[first_idx] # DetachedIdx
    BY <1>1, <1>2, <1>4, PoolFacts DEF PoolAllocator_getBlock
  <2>3. free_list' = [free_list EXCEPT ![first_idx] = DetachedIdx]
    BY <1>4 DEF PoolAllocator_getBlock, Detach
  <2> QED
    BY <2>1, <2>2, <2>3, <1>3 DEF PoolInv
<1>5. CASE Allocate
  <2>1. ListInv' /\ home' = home
    BY <1>1, <1>5, ListsStay DEF Allocate, listVars
  <2> QED
    BY <2>1, <1>4, <1>5 DEF Allocate, PooledInv, OnlyAllocated
<1>6. CASE AllocateCleared
  <2>1. /\ prev' = [prev EXCEPT ![first_idx] = NullIdx]
        /\ next' = [next EXCEPT ![first_idx] = NullIdx]
        /\ UNCHANGED <<first, last, count, home>> /\ PoolAllocator_getBlock
    BY <1>6 DEF AllocateCleared
  <2>2. prev[first_idx] = NullIdx /\ next[first_idx] = NullIdx
    BY <2>1, <1>3, <1>4
  <2>3. prev' = prev /\ next' = next
    BY <2>1, <2>2, <1>3, <1>4
  <2>4. ListInv'
    BY <2>1, <2>3, <1>1, ListsStay DEF listVars
  <2> QED
    BY <2>1, <2>4, <1>4 DEF PooledInv, OnlyAllocated
<1>7. CASE AllocateFails
  <2>1. ListInv' /\ home' = home
    BY <1>1, <1>7, ListsStay DEF AllocateFails, listVars
  <2>2. block' = NullBlock /\ UNCHANGED <<first_idx, size, free_list, result>>
    BY <1>7 DEF AllocateFails, GetBlockFails
  <2>3. FreeChain(s)' /\ PoolTypes'
    BY <2>2, <1>1, <1>2 DEF FreeChain, PoolTypes
  <2> QED
    BY <2>1, <2>2, <2>3, <1>1 DEF PooledInv, PoolInv, OnlyAllocated
<1>8. CASE \E b \in Addresses : Release(b)
  <2>1. PICK b \in Addresses : Release(b)
    BY <1>8
  <2>2. ListInv' /\ home' = home
    BY <1>1, <2>1, ListsStay DEF Release, listVars
  <2>3. CASE Released(b)
    <3>1. PoolInv'
      BY <2>3, <1>1, <1>2, ReleaseKeepsChain DEF PoolInv
    <3>2. Verdict(b) = Success /\ home[b \div ItemSize] = NullIdx
      BY <2>1, <2>3 DEF Released, Release
    <3>3. free_list' = [free_list EXCEPT ![b \div ItemSize] = first_idx]
      BY <2>3 DEF Released, Attach
    <3>4. \A x \in Idx : home[x] # NullIdx => free_list'[x] = DetachedIdx
      BY <3>2, <3>3, <1>3
    <3> QED
      BY <3>1, <3>4, <2>2 DEF PooledInv, OnlyAllocated
  <2>4. CASE ReleaseRefused(b)
    <3>1. UNCHANGED <<first_idx, size, free_list, block>> /\ result' = Verdict(b)
      BY <2>4 DEF ReleaseRefused
    <3>2. Verdict(b) \in Results
      BY DEF Verdict, Results
    <3>3. FreeChain(s)' /\ PoolTypes'
      BY <3>1, <3>2, <1>1, <1>2 DEF FreeChain, PoolTypes
    <3> QED
      BY <3>1, <3>3, <2>2, <1>1 DEF PooledInv, PoolInv, OnlyAllocated
  <2> QED
    BY <2>1, <2>3, <2>4 DEF Release, PoolAllocator_releaseBlock
<1>9. CASE ListCall
  <2>1. ListInv' /\ OnlyAllocated'
    BY <1>1, <1>9, CallKeepsLists
  <2>2. PoolInv'
    BY <1>1, <1>9, PoolStays DEF ListCall
  <2> QED
    BY <2>1, <2>2 DEF PooledInv
<1>10. CASE UNCHANGED pooledVars
  <2>1. ListInv' /\ PoolInv'
    BY <1>1, <1>10, ListsStay, PoolStays DEF pooledVars
  <2> QED
    BY <2>1, <1>1, <1>10 DEF PooledInv, OnlyAllocated, pooledVars, vars, listVars
<1> QED
  BY <1>5, <1>6, <1>7, <1>8, <1>9, <1>10 DEF PooledNext

\* The free list and the lists keep the forms above in every state that any sequence of
\* the calls reaches.
THEOREM PooledInvariant == PooledSpec => []PooledInv
<1>1. PooledInit => PooledInv
  BY PooledInvInit
<1>2. PooledInv /\ [PooledNext]_pooledVars => PooledInv'
  BY PooledInvNext
<1> QED
  BY <1>1, <1>2, PTL DEF PooledSpec

-----------------------------------------------------------------------------
(* The properties                                                          *)

\* The free list runs through every block that is not handed out, once, and size counts
\* it: no sequence of getBlock and releaseBlock loses a block or lists one twice.
THEOREM FreeListStaysWhole == PooledSpec => []FreeListIsChain
<1>1. PooledInv => FreeListIsChain
  <2> SUFFICES ASSUME PooledInv
               PROVE  FreeListIsChain
    OBVIOUS
  <2>1. PICK s \in Seq(Idx) : FreeChain(s)
    BY DEF PooledInv, PoolInv
  <2>2. PoolTypes
    BY DEF PooledInv, PoolInv
  <2>3. TypeOK
    <3>1. first_idx \in Idx \cup {NullIdx} /\ size \in 0 .. NumItems
      BY <2>1, <2>2, PoolFacts
    <3>2. {Block(i) : i \in Idx} \subseteq Addresses
      BY BlockAddress
    <3> QED
      BY <3>1, <3>2, <2>2 DEF PoolTypes, TypeOK
  <2>4. Chain = s
    BY <2>1, ChainIs
  <2> QED
    BY <2>1, <2>3, <2>4 DEF FreeListIsChain, FreeChain
<1> QED
  BY <1>1, PooledInvariant, PTL

\* The chains of every list are each other's reverse, and hold only blocks that are
\* handed out: a block goes back to its pool with no link to it left.
THEOREM ChainsStayEqual == PooledSpec => []ChainsAgree
<1>1. PooledInv => ChainsAgree
  <2> SUFFICES ASSUME PooledInv, NEW l \in Lists
               PROVE  /\ L!Backward(l) = L!Reverse(L!Forward(l))
                      /\ ToSet(L!Forward(l)) \subseteq Allocated
    BY DEF ChainsAgree, L!ChainsAgree
  <2>1. PICK s \in Seq(Idx) : IsList(l, s)
    BY DEF PooledInv, ListInv
  <2>2. L!Forward(l) = s /\ L!Backward(l) = Reverse(s)
    BY <2>1, ListIs
  <2>3. L!Reverse(s) = Reverse(s)
    BY DEF L!Reverse, Reverse
  <2>4. ToSet(s) \subseteq Allocated
    BY <2>1, PooledListsAssumption DEF IsList, PooledInv, OnlyAllocated, Allocated
  <2> QED
    BY <2>2, <2>3, <2>4
<1> QED
  BY <1>1, PooledInvariant, PTL

\* List_find meets a block on the list it is on and on no other.
THEOREM ListsFindTheirItems == PooledSpec => []FindsItsItems
<1>1. PooledInv => FindsItsItems
  <2> SUFFICES ASSUME PooledInv, NEW l \in Lists, NEW x \in Idx
               PROVE  L!List_find(l, x) = x <=> home[x] = l
    BY DEF FindsItsItems, L!FindsItsItems
  <2>1. PICK s \in Seq(Idx) : IsList(l, s)
    BY DEF PooledInv, ListInv
  <2>2. L!Forward(l) = s
    BY <2>1, ListIs
  <2>3. L!ToSet(s) = ToSet(s)
    BY DEF L!ToSet, ToSet
  <2>4. x \in ToSet(s) <=> home[x] = l
    BY <2>1 DEF IsList
  <2> QED
    BY <2>2, <2>3, <2>4, Constants DEF L!List_find
<1> QED
  BY <1>1, PooledInvariant, PTL

\* A block on no list has no links, so List_insert does not refuse it: not even when the
\* block was given back and handed out again without being cleared.
THEOREM DetachedStaysInsertable == PooledSpec => []DetachedIsInsertable
<1>1. PooledInv => DetachedIsInsertable
  BY DEF PooledInv, ListInv, DetachedIsInsertable, L!DetachedIsInsertable, L!Refused
<1> QED
  BY <1>1, PooledInvariant, PTL

-----------------------------------------------------------------------------
(* The pool implements a set of free blocks                                *)

FreeIdx == {j \in Idx : free_list[j] # DetachedIdx}
BlocksOf(I) == {Block(i) : i \in I}

\* Blocks are as different as their indices are.
LEMMA BlocksOfSets ==
    ASSUME NEW I \in SUBSET Idx, NEW i \in Idx
    PROVE  /\ Block(i) \in BlocksOf(I) <=> i \in I
           /\ BlocksOf(I \ {i}) = BlocksOf(I) \ {Block(i)}
           /\ BlocksOf(I \cup {i}) = BlocksOf(I) \cup {Block(i)}
           /\ BlocksOf(I) = {} <=> I = {}
<1>1. \A j \in I : Block(j) = Block(i) => j = i
  BY BlockAddress
<1> QED
  BY <1>1 DEF BlocksOf

\* A getBlock takes a block out of the set, a releaseBlock that succeeds puts one in, and
\* nothing else changes the set.
LEMMA PoolStepsAreAbstract ==
    ASSUME PooledInv, [PooledNext]_pooledVars
    PROVE  [Abstract!Next]_(Abstract!vars)
<1> DEFINE free == BlocksOf(FreeIdx)
<1>1. PICK s \in Seq(Idx) : FreeChain(s)
  BY DEF PooledInv, PoolInv
<1>2. PoolTypes /\ free_list \in [Idx -> Idx \cup {NullIdx, DetachedIdx}]
  BY DEF PooledInv, PoolInv, PoolTypes
<1>3. FreeIdx \subseteq Idx
  BY DEF FreeIdx
<1>4. ASSUME UNCHANGED vars
      PROVE  UNCHANGED Abstract!vars
  BY <1>4 DEF vars, Abstract!vars
<1>5. CASE PoolAllocator_getBlock
  <2>1. /\ first_idx \in Idx /\ free_list[first_idx] # DetachedIdx
        /\ size' = size - 1 /\ block' = Block(first_idx)
        /\ free_list' = [free_list EXCEPT ![first_idx] = DetachedIdx]
    BY <1>1, <1>2, <1>5, PoolFacts DEF PoolAllocator_getBlock, Detach
  <2>2. FreeIdx' = FreeIdx \ {first_idx} /\ first_idx \in FreeIdx
    BY <2>1, <1>2 DEF FreeIdx
  <2>3. Block(first_idx) \in free /\ free' = free \ {Block(first_idx)}
    BY <2>1, <2>2, <1>3, BlocksOfSets DEF BlocksOf
  <2>4. Abstract!Get
    BY <2>1, <2>3 DEF Abstract!Get, BlocksOf, FreeIdx
  <2> QED
    BY <2>4 DEF Abstract!Next
<1>6. CASE GetBlockFails
  <2>1. block' = NullBlock /\ UNCHANGED <<free_list, size>> /\ first_idx = NullIdx
    BY <1>6 DEF GetBlockFails
  <2>2. FreeIdx = {}
    BY <2>1, <1>1, <1>2, PoolFacts DEF FreeIdx
  <2>3. Abstract!GetFails
    BY <2>1, <2>2 DEF Abstract!GetFails, FreeIdx
  <2> QED
    BY <2>3 DEF Abstract!Next
<1>7. ASSUME NEW b \in Addresses, Released(b)
      PROVE  Abstract!Next
  <2>1. /\ b % ItemSize = 0 /\ b \div ItemSize \in Idx
        /\ free_list[b \div ItemSize] = DetachedIdx
        /\ size' = size + 1 /\ block' = block
        /\ free_list' = [free_list EXCEPT ![b \div ItemSize] = first_idx]
    BY <1>7 DEF Released, Verdict, Attach, Success, UnalignedFree, OutOfRange, DoubleFree
  <2>2. Block(b \div ItemSize) = b
    BY <2>1, AlignedAddress
  <2> DEFINE i == b \div ItemSize
  <2> HIDE DEF i
  <2>3. first_idx # DetachedIdx
    BY <1>1, <1>2, PoolFacts, Constants
  <2>4. i \in Idx /\ i \notin FreeIdx /\ FreeIdx' = FreeIdx \cup {i}
    BY <2>1, <2>3, <1>2 DEF FreeIdx, i
  <2>5. b \notin free /\ free' = free \cup {b} /\ b \in BlocksOf(Idx)
    BY <2>2, <2>4, <1>3, BlocksOfSets DEF BlocksOf, i
  <2>6. Abstract!Release(b)
    BY <2>1, <2>5 DEF Abstract!Release, BlocksOf, FreeIdx
  <2> QED
    BY <2>5, <2>6 DEF Abstract!Next, BlocksOf
<1>8. ASSUME NEW b, ReleaseRefused(b)
      PROVE  UNCHANGED Abstract!vars
  BY <1>8 DEF ReleaseRefused, Abstract!vars
<1>9. CASE Allocate
  BY <1>9, <1>5 DEF Allocate
<1>10. CASE AllocateCleared
  BY <1>10, <1>5 DEF AllocateCleared
<1>11. CASE AllocateFails
  BY <1>11, <1>6 DEF AllocateFails
<1>12. CASE \E b \in Addresses : Release(b)
  BY <1>12, <1>7, <1>8 DEF Release, PoolAllocator_releaseBlock
<1>13. CASE ListCall
  BY <1>13, <1>4 DEF ListCall
<1>14. CASE UNCHANGED pooledVars
  BY <1>14, <1>4 DEF pooledVars
<1> QED
  BY <1>9, <1>10, <1>11, <1>12, <1>13, <1>14 DEF PooledNext

\* The free list implements a set of free blocks, with everything the kernel does
\* with the blocks: getBlock hands out a free block and fails only when there is none,
\* releaseBlock makes free what was handed out and refuses the rest.
THEOREM PoolIsASetOfBlocks == PooledSpec => ImplementsBlockPool
<1>1. PooledInit => Abstract!Init
  <2> SUFFICES ASSUME PooledInit
               PROVE  Abstract!Init
    OBVIOUS
  <2>1. /\ block = NullBlock /\ size = NumItems
        /\ free_list = [i \in Idx |-> IF i = NumItems - 1 THEN NullIdx ELSE i + 1]
    BY DEF PooledInit, Init, PoolAllocator_init
  <2>2. FreeIdx = Idx
    BY <2>1, Constants DEF FreeIdx, Idx, NullIdx, DetachedIdx
  <2>3. Cardinality({Block(i) : i \in Idx}) = NumItems
    <3> DEFINE f == [i \in Idx |-> Block(i)]
               B == {Block(i) : i \in Idx}
    <3>1. f \in Bijection(Idx, B)
      BY BlockAddress DEF Bijection, Injection, Surjection, IsInjective
    <3>2. ExistsBijection(Idx, B)
      BY <3>1 DEF ExistsBijection
    <3> HIDE DEF B
    <3>3. Cardinality(B) = NumItems
      BY <3>2, Constants, FS_Bijection
    <3> QED
      BY <3>3 DEF B
  <2>4. Abstract!Cardinality({Block(i) : i \in Idx}) = Cardinality({Block(i) : i \in Idx})
    BY DEF Abstract!Cardinality, Cardinality
  <2> QED
    BY <2>1, <2>2, <2>3, <2>4 DEF Abstract!Init, FreeIdx
<1>2. PooledInv /\ [PooledNext]_pooledVars => [Abstract!Next]_(Abstract!vars)
  BY PoolStepsAreAbstract
<1> QED
  BY <1>1, <1>2, PooledInvariant, PTL DEF PooledSpec, ImplementsBlockPool, Abstract!Spec

-----------------------------------------------------------------------------
(* The links implement the sequences                                       *)

\* What ListIs says of the chains, for this state and the next one.
ForwardIs == \A l \in Lists, s \in Seq(Idx) : IsList(l, s) => L!Forward(l) = s

\* In every state, by the walk along the links.
LEMMA ForwardIsHere == ForwardIs
BY ListIs DEF ForwardIs

\* And so after a step.
LEMMA ForwardIsThere == ForwardIs'
BY ForwardIsHere, PTL

\* If one list becomes t, and the others stay, the sequences change in one place.
LEMMA ContentBecomes ==
    ASSUME ListInv, NEW l \in Lists, NEW t \in Seq(Idx), IsList(l, t)',
           \A m \in Lists \ {l}, u \in Seq(Idx) : IsList(m, u) => IsList(m, u)'
    PROVE  [m \in Lists |-> L!Forward(m)]'
             = [[m \in Lists |-> L!Forward(m)] EXCEPT ![l] = t]
<1>1. L!Forward(l)' = t
  BY ForwardIsThere DEF ForwardIs
<1>2. ASSUME NEW m \in Lists \ {l}
      PROVE  L!Forward(m)' = L!Forward(m)
  <2>1. PICK u \in Seq(Idx) : IsList(m, u)
    BY DEF ListInv
  <2>2. L!Forward(m) = u
    BY <2>1, ForwardIsHere DEF ForwardIs
  <2>3. L!Forward(m)' = u
    BY <2>1, ForwardIsThere DEF ForwardIs
  <2> QED
    BY <2>2, <2>3
<1> QED
  BY <1>1, <1>2

\* The operators of the abstract specification are those of the community modules.
LEMMA SameOperators ==
    /\ \A s : L!Abstract!ToSet(s) = ToSet(s)
    /\ \A s, i, e : L!Abstract!InsertAt(s, i, e) = InsertAt(s, i, e)
    /\ \A s, i : L!Abstract!RemoveAt(s, i) = RemoveAt(s, i)
BY DEF L!Abstract!ToSet, ToSet, L!Abstract!InsertAt, InsertAt, L!Abstract!RemoveAt, RemoveAt

\* Each call inserts at, or takes out, one position of one sequence; clearing the links of
\* a block that is handed out changes no list.
LEMMA ListStepsAreAbstract ==
    ASSUME PooledInv, [PooledNext]_pooledVars
    PROVE  [L!Abstract!Next]_(L!Abstract!vars)
<1> DEFINE content == [m \in Lists |-> L!Forward(m)]
<1>1. /\ ListInv /\ ListTypes
      /\ \A m \in Lists : \E s \in Seq(Idx) : IsList(m, s)
      /\ count \in [Lists -> Nat]
  BY DEF PooledInv, ListInv, ListTypes
<1>2. \A m \in Lists, s \in Seq(Idx) : IsList(m, s) => content[m] = s
  BY ForwardIsHere DEF ForwardIs
<1>3. ASSUME UNCHANGED listVars
      PROVE  UNCHANGED L!Abstract!vars
  <2>1. first' = first /\ next' = next /\ count' = count
    BY <1>3 DEF listVars
  <2>2. \A m \in Lists : L!Forward(m)' = L!Forward(m)
    BY <2>1 DEF L!Forward
  <2> QED
    BY <2>1, <2>2 DEF L!Abstract!vars
<1>4. ASSUME AllocateCleared
      PROVE  UNCHANGED listVars
  <2>1. PICK s \in Seq(Idx) : FreeChain(s)
    BY DEF PooledInv, PoolInv
  <2>2. PoolTypes /\ OnlyAllocated
    BY DEF PooledInv, PoolInv
  <2>3. first_idx \in Idx /\ free_list[first_idx] # DetachedIdx
    BY <1>4, <2>1, <2>2, PoolFacts DEF AllocateCleared, PoolAllocator_getBlock
  <2>4. prev[first_idx] = NullIdx /\ next[first_idx] = NullIdx
    BY <2>2, <2>3, <1>1 DEF OnlyAllocated, ListInv
  <2> QED
    BY <1>4, <2>3, <2>4, <1>1 DEF AllocateCleared, listVars, ListTypes
<1>5. CASE ListCall
  <2>1. PICK l \in Lists, s \in Seq(Idx) :
          /\ IsList(l, s)
          /\ \/ \E i \in 0 .. Len(s), x \in Allocated : L!Linked(l, Node(s, i, NullIdx), x)
             \/ \E i \in 1 .. Len(s) : L!Detach(l, s[i])
    BY <1>1, <1>5, CallsArePositions
  <2>2. content[l] = s
    BY <2>1, <1>2
  <2>3. CASE \E i \in 0 .. Len(s), x \in Allocated : L!Linked(l, Node(s, i, NullIdx), x)
    <3>1. PICK i \in 0 .. Len(s), x \in Allocated : L!Linked(l, Node(s, i, NullIdx), x)
      BY <2>3
    <3>2. x \in Idx
      BY DEF Allocated
    <3> DEFINE t == InsertAt(s, i + 1, x)
    <3>3. /\ IsList(l, t)' /\ t \in Seq(Idx)
          /\ \A m \in Lists \ {l}, u \in Seq(Idx) : IsList(m, u) => IsList(m, u)'
          /\ home[x] = NullIdx
          /\ count' = [count EXCEPT ![l] = @ + 1]
      BY <1>1, <2>1, <3>1, <3>2, InsertKeepsLists
    <3> HIDE DEF t
    <3>4. content' = [content EXCEPT ![l] = t]
      BY <1>1, <3>3, ContentBecomes
    <3>5. ASSUME NEW m \in Lists
          PROVE  x \notin ToSet(content[m])
      <4>1. PICK u \in Seq(Idx) : IsList(m, u)
        BY <1>1
      <4>2. home[x] # m
        BY <3>3, PooledListsAssumption
      <4> QED
        BY <4>1, <4>2, <1>2 DEF IsList
    <3>6. L!Abstract!OnNoList(x)
      BY <3>5, SameOperators DEF L!Abstract!OnNoList
    <3>7. i + 1 \in 1 .. Len(content[l]) + 1
      BY <2>2, LenProperties
    <3>8. L!Abstract!Insert(l, i + 1, x)
      BY <2>2, <3>3, <3>4, <3>6, SameOperators DEF L!Abstract!Insert, t
    <3> QED
      BY <3>2, <3>7, <3>8 DEF L!Abstract!Next
  <2>4. CASE \E i \in 1 .. Len(s) : L!Detach(l, s[i])
    <3>1. PICK i \in 1 .. Len(s) : L!Detach(l, s[i])
      BY <2>4
    <3> DEFINE t == RemoveAt(s, i)
    <3>2. /\ IsList(l, t)' /\ t \in Seq(Idx)
          /\ \A m \in Lists \ {l}, u \in Seq(Idx) : IsList(m, u) => IsList(m, u)'
          /\ count' = [count EXCEPT ![l] = @ - 1]
      BY <1>1, <2>1, <3>1, DetachKeepsLists
    <3> HIDE DEF t
    <3>3. content' = [content EXCEPT ![l] = t]
      BY <1>1, <3>2, ContentBecomes
    <3>4. L!Abstract!Detach(l, i)
      BY <2>2, <3>2, <3>3, SameOperators DEF L!Abstract!Detach, t
    <3> QED
      BY <2>2, <3>4 DEF L!Abstract!Next
  <2> QED
    BY <2>1, <2>3, <2>4
<1>6. CASE ~ ListCall
  BY <1>3, <1>4, <1>6
     DEF PooledNext, Allocate, AllocateFails, Release, pooledVars
<1> QED
  BY <1>5, <1>6

\* The links of the lists implement sequences over common items: an item is on one list
\* at most, is inserted and taken out where the caller says, and a list knows its length.
\* Blocks come and go between the calls.
THEOREM LinksAreSequences == PooledSpec => ImplementsListSpec
<1>1. PooledInit => L!Abstract!Init
  <2> SUFFICES ASSUME PooledInit
               PROVE  L!Abstract!Init
    OBVIOUS
  <2>1. count = [l \in Lists |-> 0]
    BY DEF PooledInit, L!Init
  <2>2. PooledInv
    BY PooledInvInit
  <2>3. ASSUME NEW l \in Lists
        PROVE  L!Forward(l) = <<>>
    <3>1. PICK s \in Seq(Idx) : IsList(l, s)
      BY <2>2 DEF PooledInv, ListInv
    <3>2. s = <<>>
      BY <2>1, <3>1, EmptySeq DEF IsList
    <3> QED
      BY <3>1, <3>2, ForwardIsHere DEF ForwardIs
  <2> QED
    BY <2>1, <2>3 DEF L!Abstract!Init
<1>2. PooledInv /\ [PooledNext]_pooledVars => [L!Abstract!Next]_(L!Abstract!vars)
  BY ListStepsAreAbstract
<1> QED
  BY <1>1, <1>2, PooledInvariant, PTL
     DEF PooledSpec, ImplementsListSpec, L!ImplementsListSpec, L!Abstract!Spec

=============================================================================
