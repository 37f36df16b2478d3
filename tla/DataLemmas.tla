----------------------------- MODULE DataLemmas -----------------------------
(***************************************************************************)
(* Facts about the data the components share: numbers, lists and the       *)
(* backward walk over stored blocks.                                       *)
(***************************************************************************)
EXTENDS BlockStore, Integers, FiniteSetTheorems, SequenceTheorems, WellFoundedInduction,
        SequencesExt, TLAPS

-----------------------------------------------------------------------------
(* Induction, stated with sets.  Initial segments of the numbers are       *)
(* finite, and finite sets are well ordered by inclusion.                  *)

\* A set of numbers has a least element.
LEMMA LeastNumber ==
  ASSUME NEW T \in SUBSET Nat, T # {}
  PROVE  \E x \in T : \A y \in T : x <= y
<1> DEFINE R == StrictSubsetOrdering(Nat)
           Segments == {0..n : n \in T}
<1>1. IsWellFoundedOn(R, FiniteSubsetsOf(Nat))
  BY FS_StrictSubsetOrderingWellFounded
<1>2. Segments \subseteq FiniteSubsetsOf(Nat) /\ Segments # {}
  <2>1. \A n \in T : IsFiniteSet(0..n) /\ 0..n \subseteq Nat
    BY FS_Interval
  <2> QED BY <2>1 DEF FiniteSubsetsOf
<1> HIDE DEF R, Segments
<1>3. PICK least \in Segments : \A s \in Segments : <<s, least>> \notin R
  BY <1>1, <1>2, WFMin
<1>4. PICK x \in T : least = 0..x
  BY DEF Segments
<1>5. ASSUME NEW y \in T, y < x PROVE FALSE
  <2>1. 0..y \in Segments
    BY DEF Segments
  <2>2. 0..y \subseteq 0..x /\ 0..y # 0..x /\ 0..y \subseteq Nat /\ 0..x \subseteq Nat
    BY <1>5
  <2>3. <<0..y, 0..x>> \in R
    BY <2>2 DEF R, StrictSubsetOrdering
  <2> QED BY <1>3, <1>4, <2>1, <2>3
<1> QED BY <1>5

\* A set that has the number n when it has all smaller ones has them all.
LEMMA NumbersInduction ==
  ASSUME NEW S, \A n \in Nat : (\A k \in Nat : k < n => k \in S) => n \in S
  PROVE  Nat \subseteq S
<1> DEFINE Missing == {n \in Nat : n \notin S}
<1> SUFFICES ASSUME Missing # {} PROVE FALSE
  OBVIOUS
<1>1. PICK x \in Missing : \A y \in Missing : x <= y
  <2> HIDE DEF Missing
  <2>1. Missing \in SUBSET Nat
    BY DEF Missing
  <2> QED BY <2>1, LeastNumber
<1>2. \A k \in Nat : k < x => k \in S
  BY <1>1
<1> QED BY <1>1, <1>2

-----------------------------------------------------------------------------
(* Sequences.                                                              *)

\* Two sequences of one element after another.
LEMMA PairConcat ==
  ASSUME NEW b, NEW x
  PROVE  <<b>> \o <<x>> = <<b, x>>
<1> DEFINE P == {b, x}
           s == <<b>>
           t == <<x>>
           u == <<b, x>>
<1>1. s \in Seq(P) /\ Len(s) = 1 /\ s[1] = b
  OBVIOUS
<1>2. t \in Seq(P) /\ Len(t) = 1 /\ t[1] = x
  OBVIOUS
<1>3. u \in Seq(P) /\ Len(u) = 2 /\ u[1] = b /\ u[2] = x
  OBVIOUS
<1> HIDE DEF P, s, t, u
<1>5. /\ s \o t \in Seq(P) /\ Len(s \o t) = 1 + 1
      /\ \A i \in 1..2 : (s \o t)[i] = IF i <= 1 THEN s[i] ELSE t[i - 1]
  BY <1>1, <1>2, ConcatProperties
<1>6. \A i \in 1..2 : (s \o t)[i] = u[i]
  BY <1>1, <1>2, <1>3, <1>5
<1>7. s \o t = u
  BY <1>3, <1>5, <1>6, SeqEqual
<1> QED BY <1>7 DEF s, t, u

\* A sequence without its first element.
LEMMA RemoveHead ==
  ASSUME NEW A, NEW s \in Seq(A), 1 \in DOMAIN s
  PROVE  /\ RemoveAt(s, 1) \in Seq(A) /\ Len(RemoveAt(s, 1)) = Len(s) - 1
         /\ \A i \in 1..(Len(s) - 1) : RemoveAt(s, 1)[i] = s[i + 1]
<1> DEFINE rest == SubSeq(s, 2, Len(s))
<1>0. Len(s) \in Nat /\ Len(s) >= 1
  OBVIOUS
<1>1. SubSeq(s, 1, 0) = <<>>
  OBVIOUS
<1>2. /\ rest \in Seq(A)
      /\ Len(rest) = IF 2 <= Len(s) THEN Len(s) - 2 + 1 ELSE 0
      /\ \A i \in 1..(Len(s) - 2 + 1) : rest[i] = s[2 + i - 1]
  <2>1. \A i \in 2..Len(s) : s[i] \in A
    OBVIOUS
  <2> QED BY <1>0, <2>1, SubSeqProperties
<1>3. Len(rest) = Len(s) - 1
  <2> DEFINE k == Len(rest)
             m == Len(s)
  <2>1. k = IF 2 <= m THEN m - 2 + 1 ELSE 0
    BY <1>2
  <2>2. m \in Nat /\ m >= 1
    BY <1>0
  <2> HIDE DEF k, m
  <2>3. k = m - 1
    BY <2>1, <2>2
  <2> QED BY <2>3 DEF k, m
<1>6. ASSUME NEW i \in 1..(Len(s) - 1) PROVE rest[i] = s[i + 1]
  <2>1. i \in 1..(Len(s) - 2 + 1) /\ 2 + i - 1 = i + 1
    BY <1>0
  <2> HIDE DEF rest
  <2> QED BY <1>2, <2>1
<1>4. RemoveAt(s, 1) = <<>> \o rest
  BY <1>1 DEF RemoveAt
<1>5. RemoveAt(s, 1) = rest
  <2> HIDE DEF rest
  <2> QED BY <1>2, <1>4, ConcatEmptySeq
<1> HIDE DEF rest
<1> QED BY <1>2, <1>3, <1>5, <1>6

-----------------------------------------------------------------------------
(* The walk of BlockChainIterator.                                         *)

\* Stored blocks have parents that come before them; no block is number 0.
ParentsFirst(blocks, d) ==
  /\ Len(blocks) \in Nat
  /\ 0 \notin d
  /\ \A k \in d : k \in 1..Len(blocks) => blocks[k].prev \in 0..(k - 1)

\* One step of the walk, from block k with the chain of its parent.
Onto(blocks, d, f, k) == IF k \in d THEN Append(f[blocks[k].prev], k) ELSE <<>>

\* The walks from all blocks up to the n-th one exist as a function.
LEMMA WalkExists ==
  ASSUME NEW blocks, NEW d, ParentsFirst(blocks, d)
  PROVE  \E f : f = [k \in 0..Len(blocks) |-> Onto(blocks, d, f, k)]
<1> DEFINE IsWalk(n, f) == f = [k \in 0..n |-> Onto(blocks, d, f, k)]
           S == {n \in Nat : n <= Len(blocks) => \E f : IsWalk(n, f)}
<1>1. ASSUME NEW n \in Nat, \A k \in Nat : k < n => k \in S, n <= Len(blocks)
      PROVE  \E f : IsWalk(n, f)
  <2>1. CASE n = 0
    <3> DEFINE f == [k \in 0..0 |-> <<>>]
    <3>1. f = [k \in 0..0 |-> Onto(blocks, d, f, k)]
      BY DEF Onto, ParentsFirst
    <3> QED BY <2>1, <3>1
  <2>2. CASE n # 0
    <3>1. n - 1 \in Nat /\ n - 1 < n /\ n - 1 <= Len(blocks)
      BY <1>1, <2>2 DEF ParentsFirst
    <3>2. PICK g : IsWalk(n - 1, g)
      BY <1>1, <3>1
    <3> DEFINE f == [k \in 0..n |-> IF k = n THEN Onto(blocks, d, g, n) ELSE g[k]]
    <3>3. ASSUME NEW k \in 0..n PROVE f[k] = Onto(blocks, d, f, k)
      <4>1. k \in d => blocks[k].prev \in 0..(k - 1)
        BY <1>1 DEF ParentsFirst
      <4>2. k \in d => f[blocks[k].prev] = g[blocks[k].prev]
        BY <4>1
      <4>3. Onto(blocks, d, f, k) = Onto(blocks, d, g, k)
        BY <4>2 DEF Onto
      <4>4. CASE k = n
        BY <4>3, <4>4
      <4>5. CASE k # n
        <5>1. k \in 0..(n - 1)
          BY <4>5
        <5>2. g[k] = Onto(blocks, d, g, k)
          BY <3>2, <5>1
        <5> QED BY <4>3, <4>5, <5>2
      <4> QED BY <4>4, <4>5
    <3>4. f = [k \in 0..n |-> f[k]]
      OBVIOUS
    <3> HIDE DEF f
    <3>5. IsWalk(n, f)
      BY <3>3, <3>4
    <3> QED BY <3>5
  <2> QED BY <2>1, <2>2
<1>2. Nat \subseteq S
  <2>1. \A n \in Nat : (\A k \in Nat : k < n => k \in S) => n \in S
    BY <1>1
  <2> HIDE DEF S
  <2> QED BY <2>1, NumbersInduction
<1> QED BY <1>2 DEF ParentsFirst

\* What the walk from h is made of: that from its parent, and h.
LEMMA ChainStep ==
  ASSUME NEW blocks, NEW d, ParentsFirst(blocks, d), NEW h \in 0..Len(blocks)
  PROVE  ChainFrom(blocks, d, h)
           = IF h \in d THEN Append(ChainFrom(blocks, d, blocks[h].prev), h) ELSE <<>>
<1> DEFINE IsWalk(f) == f = [k \in 0..Len(blocks) |->
                                IF k \in d THEN Append(f[blocks[k].prev], k) ELSE <<>>]
           walk == CHOOSE f : IsWalk(f)
<1>1. \E f : IsWalk(f)
  BY WalkExists DEF Onto
<1>2. IsWalk(walk)
  <2> HIDE DEF IsWalk
  <2> QED BY <1>1
<1>3. \A k : ChainFrom(blocks, d, k) = walk[k]
  BY DEF ChainFrom
<1> HIDE DEF walk
<1>4. walk[h] = IF h \in d THEN Append(walk[blocks[h].prev], h) ELSE <<>>
  BY <1>2
<1>5. ChainFrom(blocks, d, h) = walk[h]
  BY <1>3
<1>6. ChainFrom(blocks, d, blocks[h].prev) = walk[blocks[h].prev]
  BY <1>3
<1> QED BY <1>4, <1>5, <1>6

\* With parents numbered one less, and all of them stored, the walk passes
\* through all numbers.
LEMMA ChainOfLine ==
  ASSUME NEW blocks, NEW d, ParentsFirst(blocks, d), NEW h \in 0..Len(blocks),
         1..h \subseteq d, \A k \in 1..h : blocks[k].prev = k - 1
  PROVE  ChainFrom(blocks, d, h) = [i \in 1..h |-> i]
<1> DEFINE Line(n) == [i \in 1..n |-> i]
           S == {n \in Nat : n <= h => ChainFrom(blocks, d, n) = Line(n)}
<1>1. ASSUME NEW n \in Nat, \A k \in Nat : k < n => k \in S, n <= h
      PROVE  ChainFrom(blocks, d, n) = Line(n)
  <2>1. n \in 0..Len(blocks)
    BY <1>1 DEF ParentsFirst
  <2>2. ChainFrom(blocks, d, n) = IF n \in d THEN Append(ChainFrom(blocks, d, blocks[n].prev), n) ELSE <<>>
    BY <2>1, ChainStep
  <2>3. CASE n = 0
    BY <2>2, <2>3 DEF ParentsFirst
  <2>4. CASE n # 0
    <3>1. n \in d /\ blocks[n].prev = n - 1 /\ n - 1 \in S /\ n - 1 <= h
      BY <1>1, <2>4
    <3>2. ChainFrom(blocks, d, n) = Append(Line(n - 1), n)
      BY <2>2, <3>1
    <3>3. Append(Line(n - 1), n) = Line(n)
      <4>1. Line(n - 1) \in Seq(Nat) /\ Len(Line(n - 1)) = n - 1
        BY <2>4
      <4> QED BY <4>1, <2>4
    <3> QED BY <3>2, <3>3
  <2> QED BY <2>3, <2>4
<1>2. Nat \subseteq S
  <2>1. \A n \in Nat : (\A k \in Nat : k < n => k \in S) => n \in S
    BY <1>1
  <2> HIDE DEF S
  <2> QED BY <2>1, NumbersInduction
<1> QED BY <1>2 DEF ParentsFirst

\* The walk from h passes through stored blocks only, and none after h.
LEMMA ChainBelow ==
  ASSUME NEW blocks, NEW d, ParentsFirst(blocks, d), NEW h \in 0..Len(blocks)
  PROVE  ChainFrom(blocks, d, h) \in Seq(d \cap 1..h)
<1> DEFINE S == {n \in Nat : n <= Len(blocks) => ChainFrom(blocks, d, n) \in Seq(d \cap 1..n)}
<1>1. ASSUME NEW n \in Nat, \A k \in Nat : k < n => k \in S, n <= Len(blocks)
      PROVE  ChainFrom(blocks, d, n) \in Seq(d \cap 1..n)
  <2>1. ChainFrom(blocks, d, n) = IF n \in d THEN Append(ChainFrom(blocks, d, blocks[n].prev), n) ELSE <<>>
    BY <1>1, ChainStep
  <2>2. CASE n \notin d
    BY <2>1, <2>2
  <2>3. CASE n \in d
    <3> DEFINE p == blocks[n].prev
               A == d \cap 1..n
    <3>1. n # 0 /\ n \in 1..Len(blocks)
      BY <1>1, <2>3 DEF ParentsFirst
    <3>2. p \in 0..(n - 1)
      BY <2>3, <3>1 DEF ParentsFirst
    <3> HIDE DEF p
    <3>3. p \in S /\ p <= Len(blocks) /\ d \cap 1..p \subseteq A /\ n \in A
      BY <1>1, <2>3, <3>1, <3>2
    <3>4. ChainFrom(blocks, d, p) \in Seq(d \cap 1..p)
      BY <3>3
    <3> HIDE DEF A
    <3>5. ChainFrom(blocks, d, p) \in Seq(A)
      BY <3>3, <3>4
    <3>6. Append(ChainFrom(blocks, d, p), n) \in Seq(A)
      BY <3>3, <3>5
    <3> QED BY <2>1, <2>3, <3>6 DEF p, A
  <2> QED BY <2>2, <2>3
<1>2. Nat \subseteq S
  <2>1. \A n \in Nat : (\A k \in Nat : k < n => k \in S) => n \in S
    BY <1>1
  <2> HIDE DEF S
  <2> QED BY <2>1, NumbersInduction
<1> QED BY <1>2 DEF ParentsFirst

\* Blocks stored with their parents have the same chain in every database
\* that holds them.
LEMMA ChainOfStored ==
  ASSUME NEW blocks, NEW d, NEW e, ParentsFirst(blocks, d), ParentsFirst(blocks, e),
         d \subseteq e \cap 1..Len(blocks), \A k \in d : blocks[k].prev \in d \cup {0},
         NEW h \in d \cup {0}
  PROVE  ChainFrom(blocks, d, h) = ChainFrom(blocks, e, h)
<1> DEFINE S == {n \in Nat : n \in d \cup {0} => ChainFrom(blocks, d, n) = ChainFrom(blocks, e, n)}
<1>1. ASSUME NEW n \in Nat, \A k \in Nat : k < n => k \in S, n \in d \cup {0}
      PROVE  ChainFrom(blocks, d, n) = ChainFrom(blocks, e, n)
  <2>0. n \in 0..Len(blocks)
    BY <1>1 DEF ParentsFirst
  <2>1. ChainFrom(blocks, d, n) = IF n \in d THEN Append(ChainFrom(blocks, d, blocks[n].prev), n) ELSE <<>>
    BY <2>0, ChainStep
  <2>2. ChainFrom(blocks, e, n) = IF n \in e THEN Append(ChainFrom(blocks, e, blocks[n].prev), n) ELSE <<>>
    BY <2>0, ChainStep
  <2>3. CASE n = 0
    BY <2>1, <2>2, <2>3 DEF ParentsFirst
  <2>4. CASE n # 0
    <3>1. n \in d /\ n \in e /\ blocks[n].prev \in 0..(n - 1) /\ blocks[n].prev \in d \cup {0}
      BY <1>1, <2>4 DEF ParentsFirst
    <3>2. blocks[n].prev \in S
      BY <1>1, <3>1
    <3> QED BY <2>1, <2>2, <3>1, <3>2
  <2> QED BY <2>3, <2>4
<1>2. Nat \subseteq S
  <2>1. \A n \in Nat : (\A k \in Nat : k < n => k \in S) => n \in S
    BY <1>1
  <2> HIDE DEF S
  <2> QED BY <2>1, NumbersInduction
<1>3. h \in Nat
  BY DEF ParentsFirst
<1> QED BY <1>2, <1>3

\* The blocks of the walk from a stored block: that block, and those of the
\* walk from its parent.
LEMMA ChainElements ==
  ASSUME NEW blocks, NEW d, ParentsFirst(blocks, d), NEW h \in d, h \in 1..Len(blocks)
  PROVE  ToSet(ChainFrom(blocks, d, h)) = {h} \cup ToSet(ChainFrom(blocks, d, blocks[h].prev))
<1> DEFINE s == ChainFrom(blocks, d, blocks[h].prev)
           r == Append(s, h)
<1>1. blocks[h].prev \in 0..Len(blocks) /\ h \in 0..Len(blocks)
  BY DEF ParentsFirst
<1>2. ChainFrom(blocks, d, h) = r
  BY <1>1, ChainStep
<1>3. s \in Seq(d)
  <2> DEFINE A == d \cap 1..blocks[h].prev
  <2>1. s \in Seq(A)
    BY <1>1, ChainBelow
  <2>2. A \subseteq d
    OBVIOUS
  <2> HIDE DEF s, A
  <2>3. s \in Seq(d)
    BY ONLY <2>1, <2>2
  <2> QED BY <2>3
<1> HIDE DEF s
<1>4. /\ DOMAIN r = 1..Len(s) + 1 /\ DOMAIN s = 1..Len(s) /\ Len(s) \in Nat
      /\ r[Len(s) + 1] = h /\ \A i \in 1..Len(s) : r[i] = s[i]
  BY <1>3
<1> HIDE DEF r
<1>5. ToSet(r) = {h} \cup ToSet(s)
  BY <1>4 DEF ToSet
<1> QED BY <1>2, <1>5 DEF s

\* When every block is stored with its parent, so is what the walk passes
\* through, and it ends at a block without one.
LEMMA ChainToRoot ==
  ASSUME NEW blocks, NEW d, ParentsFirst(blocks, d), d \subseteq 1..Len(blocks),
         \A k \in d : blocks[k].prev \in d \cup {0}, NEW h \in d
  PROVE  LET chain == ChainFrom(blocks, d, h)
         IN  /\ ToSet(chain) \subseteq d /\ h \in ToSet(chain)
             /\ \A k \in ToSet(chain) : blocks[k].prev \in ToSet(chain) \cup {0}
             /\ chain # <<>> /\ blocks[Head(chain)].prev = 0
<1> DEFINE Chain(k) == ChainFrom(blocks, d, k)
           Good(n) == /\ Chain(n) \in Seq(d) /\ n \in ToSet(Chain(n))
                      /\ \A k \in ToSet(Chain(n)) : blocks[k].prev \in ToSet(Chain(n)) \cup {0}
                      /\ Chain(n) # <<>> /\ blocks[Head(Chain(n))].prev = 0
           S == {n \in Nat : n \in d => Good(n)}
<1>1. ASSUME NEW n \in Nat, \A k \in Nat : k < n => k \in S, n \in d
      PROVE  Good(n)
  <2> DEFINE p == blocks[n].prev
  <2>1. n \in 1..Len(blocks) /\ n \in 0..Len(blocks) /\ p \in 0..(n - 1) /\ p \in d \cup {0} /\ n # 0
    BY <1>1 DEF ParentsFirst
  <2>2. Chain(n) = Append(Chain(p), n) /\ ToSet(Chain(n)) = {n} \cup ToSet(Chain(p))
    <3>1. Chain(n) = Append(Chain(p), n)
      BY <1>1, <2>1, ChainStep
    <3>2. ToSet(Chain(n)) = {n} \cup ToSet(Chain(p))
      BY <1>1, <2>1, ChainElements
    <3> QED BY <3>1, <3>2
  <2>3. CASE p = 0
    <3>1. Chain(0) = <<>>
      BY ChainStep, 0 \in 0..Len(blocks) DEF ParentsFirst
    <3>2. Chain(n) = <<n>> /\ ToSet(Chain(n)) = {n}
      <4>1. Append(<<>>, n) = <<n>> /\ ToSet(<<>>) = {}
        BY DEF ToSet
      <4> QED BY <2>2, <2>3, <3>1, <4>1
    <3> HIDE DEF Chain
    <3> QED BY <1>1, <2>3, <3>2
  <2>4. CASE p # 0
    <3>1. p \in d /\ p \in S
      BY <1>1, <2>1, <2>4
    <3>2. Good(p)
      BY <3>1
    <3>3. Chain(p) \in Seq(d) /\ Chain(p) # <<>>
      BY <3>2
    <3> HIDE DEF Chain, p
    <3>4. Append(Chain(p), n) \in Seq(d) /\ Append(Chain(p), n) # <<>>
          /\ Head(Append(Chain(p), n)) = Head(Chain(p))
      BY <1>1, <3>3
    <3>5. \A k \in ToSet(Chain(n)) : blocks[k].prev \in ToSet(Chain(n)) \cup {0}
      BY <2>2, <3>2 DEF p
    <3> QED BY <2>2, <3>2, <3>4, <3>5
  <2> QED BY <2>3, <2>4
<1>2. Nat \subseteq S
  <2>1. \A n \in Nat : (\A k \in Nat : k < n => k \in S) => n \in S
    BY <1>1
  <2> HIDE DEF S
  <2> QED BY <2>1, NumbersInduction
<1>3. h \in Nat /\ h \in S
  BY <1>2 DEF ParentsFirst
<1>4. Good(h)
  BY <1>3
<1>5. ToSet(Chain(h)) \subseteq d
  <2> HIDE DEF Chain
  <2> QED BY <1>4 DEF ToSet
<1> QED BY <1>4, <1>5

\* The walk from a stored block ends with it, and all others come before.
LEMMA ChainLast ==
  ASSUME NEW blocks, NEW d, ParentsFirst(blocks, d), NEW h \in d, h \in 1..Len(blocks)
  PROVE  LET chain == ChainFrom(blocks, d, h)
         IN  /\ Len(chain) \in Nat \ {0} /\ chain[Len(chain)] = h
             /\ \A i \in 1..(Len(chain) - 1) : chain[i] < h
<1> DEFINE p == blocks[h].prev
           s == ChainFrom(blocks, d, p)
           A == d \cap 1..p
           r == Append(s, h)
<1>1. h \in 0..Len(blocks) /\ p \in 0..(h - 1) /\ p \in 0..Len(blocks)
  BY DEF ParentsFirst
<1>2. ChainFrom(blocks, d, h) = r
  BY <1>1, ChainStep
<1>3. s \in Seq(A)
  BY <1>1, ChainBelow
<1>4. \A x \in A : x < h
  BY <1>1
<1> HIDE DEF s, A, p
<1>5. Len(s) \in Nat /\ Len(r) = Len(s) + 1 /\ r[Len(s) + 1] = h /\ \A i \in 1..Len(s) : r[i] \in A
  BY <1>3
<1> HIDE DEF r
<1> QED BY <1>2, <1>4, <1>5

\* The walk goes from block to parent.
LEMMA ChainLinks ==
  ASSUME NEW blocks, NEW d, ParentsFirst(blocks, d), NEW h \in 0..Len(blocks)
  PROVE  LET chain == ChainFrom(blocks, d, h)
         IN  \A i \in 2..Len(chain) : blocks[chain[i]].prev = chain[i - 1]
<1> DEFINE Chain(k) == ChainFrom(blocks, d, k)
           Good(n) == \A i \in 2..Len(Chain(n)) : blocks[Chain(n)[i]].prev = Chain(n)[i - 1]
           S == {n \in Nat : n <= Len(blocks) => Good(n)}
<1>1. ASSUME NEW n \in Nat, \A k \in Nat : k < n => k \in S, n <= Len(blocks)
      PROVE  Good(n)
  <2> DEFINE p == blocks[n].prev
             s == Chain(p)
             r == Chain(n)
  <2>1. r = IF n \in d THEN Append(s, n) ELSE <<>>
    BY <1>1, ChainStep
  <2>2. CASE n \notin d
    <3>1. Len(r) = 0
      BY <2>1, <2>2
    <3> HIDE DEF Chain
    <3> QED BY <3>1
  <2>3. CASE n \in d
    <3>1. n # 0 /\ n \in 1..Len(blocks) /\ p \in 0..(n - 1) /\ p \in 0..Len(blocks)
      BY <1>1, <2>3 DEF ParentsFirst
    <3>2. Good(p)
      BY <1>1, <3>1
    <3>3. s \in Seq(d)
      <4> DEFINE A == d \cap 1..p
      <4>1. s \in Seq(A) /\ A \subseteq d
        BY <3>1, ChainBelow
      <4> HIDE DEF s, A
      <4> QED BY ONLY <4>1
    <3>4. Len(s) \in Nat \ {0} => s[Len(s)] = p
      <4>1. CASE p \in d
        <5>1. p \in 1..Len(blocks)
          BY <3>1, <4>1 DEF ParentsFirst
        <5> QED BY <4>1, <5>1, ChainLast
      <4>2. CASE p \notin d
        <5>1. s = <<>>
          BY <3>1, <4>2, ChainStep
        <5> QED BY <5>1
      <4> QED BY <4>1, <4>2
    <3>5. Good(p) => \A i \in 2..Len(s) : blocks[s[i]].prev = s[i - 1]
      OBVIOUS
    <3>6. r = Append(s, n)
      BY <2>1, <2>3
    <3>7. \A i \in 2..Len(r) : blocks[r[i]].prev = r[i - 1]
      <4> HIDE DEF r, s, Good
      <4>1. Len(r) = Len(s) + 1 /\ Len(s) \in Nat /\ r[Len(s) + 1] = n /\ \A i \in 1..Len(s) : r[i] = s[i]
        BY <3>3, <3>6
      <4>2. ASSUME NEW i \in 2..Len(r) PROVE blocks[r[i]].prev = r[i - 1]
        <5>1. CASE i = Len(s) + 1
          <6>1. Len(s) \in Nat \ {0} /\ i - 1 = Len(s) /\ r[i - 1] = s[Len(s)] /\ r[i] = n
            BY <4>1, <4>2, <5>1
          <6> QED BY <3>4, <6>1
        <5>2. CASE i # Len(s) + 1
          <6>1. i \in 2..Len(s) /\ r[i] = s[i] /\ r[i - 1] = s[i - 1]
            BY <4>1, <4>2, <5>2
          <6> QED BY <3>2, <3>5, <6>1
        <5> QED BY <5>1, <5>2
      <4> QED BY <4>2
    <3> QED BY <3>7
  <2> QED BY <2>2, <2>3
<1>2. Nat \subseteq S
  <2>1. \A n \in Nat : (\A k \in Nat : k < n => k \in S) => n \in S
    BY <1>1
  <2> HIDE DEF S
  <2> QED BY <2>1, NumbersInduction
<1>3. h \in S /\ h <= Len(blocks)
  BY <1>2 DEF ParentsFirst
<1> QED BY <1>3
=============================================================================
