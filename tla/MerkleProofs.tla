---------------------------- MODULE MerkleProofs ----------------------------
(* That SetMerkleRoot never returns for a block of three transactions or   *)
(* more, and that the proof GetMerkleProof returns for one of fewer leads  *)
(* to the root, whatever the transactions.                                 *)
(*                                                                         *)
(* Every variable that holds a list is one (TypeCorrect); while there are  *)
(* three transactions or more, IInv keeps two hashes in the current list;  *)
(* with one or two, FewInv says what is in the lists at every step.        *)
EXTENDS Merkle, TLAPS

\* Appending keeps a list a list and makes it longer by one.
LEMMA AppendIsList ==
  ASSUME NEW s, IsList(s), NEW e
  PROVE  IsList(Append(s, e)) /\ Len(Append(s, e)) = Len(s) + 1
<1> DEFINE S == {s[k] : k \in DOMAIN s}
           T == S \cup {e}
           r == Append(s, e)
<1>1. s \in Seq(T)
  BY DEF IsList
<1>2. r \in Seq(T) /\ Len(r) = Len(s) + 1 /\ Len(s) \in Nat
  BY <1>1
<1>3. \A k \in 1..Len(r) : r[k] \in {r[j] : j \in DOMAIN r}
  BY <1>2
<1>4. r \in Seq({r[j] : j \in DOMAIN r})
  BY <1>2, <1>3
<1> QED BY <1>2, <1>4 DEF IsList

\* So does concatenating two lists.
LEMMA ConcatIsList ==
  ASSUME NEW s, IsList(s), NEW t, IsList(t)
  PROVE  IsList(s \o t)
<1> DEFINE T == {s[k] : k \in DOMAIN s} \cup {t[k] : k \in DOMAIN t}
           r == s \o t
<1>1. s \in Seq(T) /\ t \in Seq(T)
  BY DEF IsList
<1>2. r \in Seq(T) /\ Len(r) \in Nat
  BY <1>1
<1>3. \A k \in 1..Len(r) : r[k] \in {r[j] : j \in DOMAIN r}
  BY <1>2
<1>4. r \in Seq({r[j] : j \in DOMAIN r})
  <2> HIDE DEF r
  <2> QED BY <1>2, <1>3
<1> QED BY <1>4 DEF IsList

\* A function over an initial segment of the positive integers is a list.
LEMMA FunctionIsList ==
  ASSUME NEW n \in Nat, NEW f, f = [k \in 1..n |-> f[k]]
  PROVE  IsList(f) /\ Len(f) = n
<1>1. f \in Seq({f[k] : k \in DOMAIN f})
  OBVIOUS
<1> QED BY <1>1 DEF IsList

\* The hashes of the leaves, and whatever HashPair adds to the proof.
LEMMA LeavesIsList ==
  ASSUME NEW ts, IsList(ts)
  PROVE  IsList(Leaves(ts)) /\ Len(Leaves(ts)) = Len(ts)
<1>1. Len(ts) \in Nat /\ DOMAIN ts = 1..Len(ts)
  BY DEF IsList
<1>2. Leaves(ts) = [k \in 1..Len(ts) |-> Leaves(ts)[k]]
  BY <1>1 DEF Leaves
<1> QED BY <1>1, <1>2, FunctionIsList

\* At most one hash is added for a pair.
LEMMA SiblingsIsList == IsList(Siblings)
<1>1. \A e : IsList(<<e>>)
  BY DEF IsList
<1>2. IsList(<<>>)
  BY DEF IsList
<1> QED BY <1>1, <1>2 DEF Siblings

-----------------------------------------------------------------------------
\* The variables keep their types, for every set of transactions and every
\* bound.
THEOREM TypeCorrect == Spec => []TypeOK
<1>1. Init => TypeOK
  <2> SUFFICES ASSUME Init PROVE TypeOK
    OBVIOUS
  <2>1. IsList(txs)
    <3>1. PICK n \in 0..MaxLeaves : txs \in [1..n -> Tx]
      BY DEF Init, Blocks
    <3> QED BY <3>1, FunctionIsList
  <2>2. IsList(<<>>)
    BY DEF IsList
  <2> QED BY <2>1, <2>2, LeavesIsList DEF Init, TypeOK
<1>2. TypeOK /\ [Next]_vars => TypeOK'
  <2> SUFFICES ASSUME TypeOK, [Next]_vars PROVE TypeOK'
    OBVIOUS
  <2>1. CASE RootOfNothing
    BY <2>1 DEF RootOfNothing, TypeOK
  <2>2. CASE RootFound
    <3>1. IsList(<<>>)
      BY DEF IsList
    <3> QED BY <2>2, <3>1, LeavesIsList DEF RootFound, TypeOK
  <2>3. CASE ProofFound
    BY <2>3 DEF ProofFound, TypeOK
  <2>4. CASE HashPair
    <3>1. IsList(proof')
      BY <2>4, SiblingsIsList, ConcatIsList DEF HashPair, TypeOK
    <3> QED BY <2>4, <3>1, AppendIsList DEF HashPair, TypeOK
  <2>5. CASE EndPass
    BY <2>5 DEF EndPass, TypeOK
  <2>6. CASE UNCHANGED vars
    BY <2>6 DEF vars, TypeOK
  <2> QED BY <2>1, <2>2, <2>3, <2>4, <2>5, <2>6 DEF Next
<1> QED BY <1>1, <1>2, PTL DEF Spec

-----------------------------------------------------------------------------
\* Why: the first pass over three hashes or more leaves at least two in the
\* next list, and no pass takes any out.
Growing == Len(txs) >= 3 => \/ Len(next) >= 2
                            \/ Len(cur) >= 3 /\ i <= 2 * Len(next) + 1

\* The inductive invariant: Growing is what makes a pass end with two hashes.
IInv == TypeOK /\ ManyLeavesNeverReturn /\ Growing

\* Lengths, and the index, are numbers.
LEMMA Numbers ==
  ASSUME TypeOK
  PROVE  Len(txs) \in Nat /\ Len(cur) \in Nat /\ Len(next) \in Nat /\ i \in Nat
BY DEF TypeOK, IsList

\* The leaves of three transactions or more are as many hashes.
LEMMA InitIInv == Init /\ TypeOK => IInv
<1> SUFFICES ASSUME Init, TypeOK PROVE ManyLeavesNeverReturn /\ Growing
  BY DEF IInv
<1>1. Len(cur) = Len(txs)
  BY LeavesIsList DEF Init, TypeOK
<1>2. Len(next) = 0
  BY DEF Init
<1> QED BY <1>1, <1>2, Numbers DEF Init, ManyLeavesNeverReturn, Growing

\* No step of the loops breaks the inductive invariant.
LEMMA NextIInv == IInv /\ TypeOK' /\ [Next]_vars => IInv'
<1> SUFFICES ASSUME IInv, TypeOK', [Next]_vars, Len(txs') >= 3
             PROVE  /\ pc' = "root" /\ Len(cur') >= 2
                    /\ \/ Len(next') >= 2
                       \/ Len(cur') >= 3 /\ i' <= 2 * Len(next') + 1
  BY DEF IInv, ManyLeavesNeverReturn, Growing
<1> USE Numbers DEF IInv, ManyLeavesNeverReturn, Growing
<1>1. CASE RootOfNothing \/ RootFound \/ ProofFound
  <2> DEFINE n == Len(cur)
  <2>1. txs' = txs /\ (n = 0 \/ n = 1)
    BY <1>1 DEF RootOfNothing, RootFound, ProofFound
  <2>2. n \in Nat /\ n >= 2
    BY <2>1 DEF IInv
  <2>3. FALSE  \* these steps cannot be taken
    <3> HIDE DEF n
    <3> QED BY ONLY <2>1, <2>2
  <2> QED BY <2>3
<1>2. CASE HashPair
  <2>1. Len(next') = Len(next) + 1
    BY <1>2, AppendIsList DEF HashPair, TypeOK
  <2> QED BY <1>2, <2>1 DEF HashPair
<1>3. CASE EndPass
  <2>1. Len(next) >= 2
    BY <1>3 DEF EndPass
  <2> QED BY <1>3, <2>1 DEF EndPass
<1>4. CASE UNCHANGED vars
  BY <1>4 DEF vars
<1> QED BY <1>1, <1>2, <1>3, <1>4 DEF Next

\* SetMerkleRoot does not return for a block of three transactions or more:
\* the miner that seals such a block stays in mineBlock.
THEOREM ManyLeavesHang == Spec => []ManyLeavesNeverReturn
<1>1. Init /\ TypeOK => IInv
  BY InitIInv
<1>2. IInv /\ TypeOK' /\ [Next]_vars => IInv'
  BY NextIInv
<1>3. IInv => ManyLeavesNeverReturn
  BY DEF IInv
<1> QED BY <1>1, <1>2, <1>3, TypeCorrect, PTL DEF Spec

-----------------------------------------------------------------------------
(* One transaction or two.                                                 *)

\* How the SPV node goes on from hash h with an entry of the proof.
Onto(h, p) == IF p.isLeft THEN Node(p.hash, h) ELSE Node(h, p.hash)

\* From an empty proof the SPV node computes the hash of the transaction.
LEMMA EmptyProof ==
  ASSUME NEW t, proof = <<>>
  PROVE  Computed(t) = Leaf(t)
<1> DEFINE IsFold(f) == f = [s \in SUBSET {} |->
                               IF s = {} THEN Leaf(t) ELSE Onto(f[s \ {Max(s)}], proof[Max(s)])]
           fold == CHOOSE f : IsFold(f)
<1>1. DOMAIN proof = {} /\ SUBSET {} = {{}}
  OBVIOUS
<1>2. IsFold([s \in {{}} |-> Leaf(t)])
  BY <1>1
<1>3. IsFold(fold)
  <2> HIDE DEF IsFold
  <2> QED BY <1>2
<1>4. fold[{}] = Leaf(t)
  <2> HIDE DEF fold
  <2> QED BY <1>1, <1>3
<1>5. Computed(t) = fold[{}]
  BY <1>1 DEF Computed, FoldLeft, MapThenFoldSet, Onto
<1> QED BY <1>4, <1>5

\* From a proof of one entry, that hash and the entry's, on their sides.
LEMMA OneEntryProof ==
  ASSUME NEW t, NEW p, proof = <<p>>
  PROVE  Computed(t) = Onto(Leaf(t), p)
<1> DEFINE IsFold(f) == f = [s \in SUBSET {1} |->
                               IF s = {} THEN Leaf(t) ELSE Onto(f[s \ {Max(s)}], proof[Max(s)])]
           witness == [s \in SUBSET {1} |-> IF s = {} THEN Leaf(t) ELSE Onto(Leaf(t), p)]
           fold == CHOOSE f : IsFold(f)
<1>1. DOMAIN proof = {1} /\ proof[1] = p
  OBVIOUS
<1>2. Max({1}) = 1 /\ {1} \ {1} = {}
  BY DEF Max
<1>3. IsFold(witness)
  <2>1. \A s \in SUBSET {1} : s = {} \/ s = {1}
    OBVIOUS
  <2>2. \A s \in SUBSET {1} : s # {} =>
          witness[s \ {Max(s)}] = Leaf(t) /\ proof[Max(s)] = p
    BY <1>1, <1>2, <2>1
  <2> QED BY <2>2
<1>4. IsFold(fold)
  <2> HIDE DEF IsFold, witness
  <2> QED BY <1>3
<1>5. fold[{1}] = Onto(Leaf(t), p)
  <2> HIDE DEF fold
  <2>1. fold[{}] = Leaf(t)
    BY <1>4
  <2>2. {1} # {} /\ {1} \in SUBSET {1}
    OBVIOUS
  <2> QED BY <1>1, <1>2, <1>4, <2>1, <2>2
<1>6. Computed(t) = fold[{1}]
  BY <1>1 DEF Computed, FoldLeft, MapThenFoldSet, Onto
<1> QED BY <1>5, <1>6

\* A single transaction: its hash is the root, and the proof is empty.
OneLeaf ==
  Len(txs) = 1 =>
    /\ target = txs[1] /\ cur = <<Leaf(target)>> /\ i = 1 /\ proof = <<>>
    /\ pc # "root" => root = Leaf(target)

\* Two transactions: the lists before the pair is hashed, after, and at the
\* next level, and the one entry the proof gets.
Pair    == <<Leaf(txs[1]), Leaf(txs[2])>>
Top     == Node(Leaf(txs[1]), Leaf(txs[2]))
Sibling == IF target = txs[1] THEN <<ProofNode(Leaf(txs[2]), FALSE)>>
                              ELSE <<ProofNode(Leaf(txs[1]), TRUE)>>

BeforePair == cur = Pair /\ next = <<>> /\ i = 1
AfterPair  == cur = Pair /\ next = <<Top>> /\ i = 3
AtTop      == cur = <<Top>> /\ i = 1

TwoLeaves ==
  Len(txs) = 2 =>
    /\ target \in {txs[1], txs[2]}
    /\ BeforePair \/ AfterPair \/ AtTop
    /\ pc = "root" => proof = <<>> /\ want = Leaf(target)
    /\ pc # "root" => root = Top
    /\ pc = "proof" /\ BeforePair => proof = <<>> /\ want = Leaf(target)
    /\ pc = "proof" /\ ~BeforePair => proof = Sibling
    /\ pc = "done" => proof = Sibling

\* The inductive invariant for one and two transactions.
FewInv == OneLeaf /\ TwoLeaves

\* The leaves of one and of two transactions.
LEMMA FewLeaves ==
  ASSUME IsList(txs)
  PROVE  /\ Len(txs) = 1 => Leaves(txs) = <<Leaf(txs[1])>>
         /\ Len(txs) = 2 => Leaves(txs) = Pair
<1>1. DOMAIN txs = 1..Len(txs)
  BY DEF IsList
<1> QED BY <1>1 DEF Leaves, Pair

\* At the start the current list is the leaves, and the transaction asked
\* about is one of them.
LEMMA InitFewInv == Init /\ TypeOK => FewInv
<1> SUFFICES ASSUME Init, TypeOK PROVE FewInv
  OBVIOUS
<1>1. IsList(txs) /\ DOMAIN txs = 1..Len(txs) /\ (Len(txs) = 0 <=> txs = <<>>)
  BY DEF TypeOK, IsList
<1>2. ASSUME Len(txs) = 1 PROVE OneLeaf
  <2>1. target = txs[1]
    BY <1>1, <1>2 DEF Init, ToSet
  <2> QED BY <1>1, <1>2, <2>1, FewLeaves DEF Init, OneLeaf
<1>3. ASSUME Len(txs) = 2 PROVE TwoLeaves
  <2>1. target \in {txs[1], txs[2]}
    BY <1>1, <1>3 DEF Init, ToSet
  <2> QED BY <1>1, <1>3, <2>1, FewLeaves DEF Init, TwoLeaves, BeforePair
<1> QED BY <1>2, <1>3 DEF FewInv, OneLeaf, TwoLeaves

\* With one transaction the loops' bodies never run.
LEMMA NextOneLeaf == FewInv /\ TypeOK /\ [Next]_vars => OneLeaf'
<1> SUFFICES ASSUME FewInv, TypeOK, [Next]_vars, Len(txs') = 1 PROVE OneLeaf'
  BY DEF OneLeaf
<1>1. txs' = txs
  BY DEF Next, vars, RootOfNothing, RootFound, ProofFound, HashPair, EndPass
<1>2. /\ target = txs[1] /\ cur = <<Leaf(target)>> /\ i = 1 /\ proof = <<>>
      /\ pc # "root" => root = Leaf(target)
  BY <1>1 DEF FewInv, OneLeaf
<1>3. Len(cur) = 1 /\ cur[1] = Leaf(target)
  BY <1>2
<1>4. CASE RootOfNothing
  BY <1>3, <1>4 DEF RootOfNothing
<1>5. CASE RootFound
  BY <1>1, <1>2, <1>3, <1>5, FewLeaves DEF RootFound, OneLeaf, TypeOK
<1>6. CASE ProofFound
  BY <1>1, <1>2, <1>6 DEF ProofFound, OneLeaf
<1>7. CASE HashPair \/ EndPass
  BY <1>3, <1>7 DEF HashPair, EndPass
<1>8. CASE UNCHANGED vars
  BY <1>1, <1>2, <1>8 DEF vars, OneLeaf
<1> QED BY <1>4, <1>5, <1>6, <1>7, <1>8 DEF Next

\* The step that hashes the pair of two leaves: which entry the proof gets.
LEMMA PairHashed ==
  ASSUME FewInv, Len(txs) = 2, BeforePair, HashPair
  PROVE  AfterPair' /\ (pc = "proof" => proof' = Sibling) /\ (pc = "root" => proof' = proof /\ want' = want)
<1>1. Len(cur) = 2 /\ cur[1] = Leaf(txs[1]) /\ cur[2] = Leaf(txs[2]) /\ i = 1 /\ next = <<>> /\ cur = Pair
  BY DEF BeforePair, Pair
<1>2. Right = Leaf(txs[2])
  BY <1>1 DEF Right
<1>3. next' = <<Top>> /\ i' = 3 /\ cur' = Pair /\ txs' = txs /\ target' = target /\ pc' = pc
  BY <1>1, <1>2 DEF HashPair, Top
<1>4. AfterPair'
  BY <1>3 DEF AfterPair, Pair, Top
<1>5. ASSUME pc = "proof" PROVE proof' = Sibling
  <2>1. proof = <<>> /\ want = Leaf(target) /\ target \in {txs[1], txs[2]}
    BY <1>5 DEF FewInv, TwoLeaves
  <2>2. \A a, b : Leaf(a) = Leaf(b) => a = b
    BY DEF Leaf
  <2>3. Siblings = Sibling
    <3>1. CASE target = txs[1]
      <4>1. want = cur[i] /\ i # Len(cur)
        BY <1>1, <2>1, <3>1
      <4> QED BY <1>2, <3>1, <4>1 DEF Siblings, Sibling
    <3>2. CASE target # txs[1]
      <4>1. want # cur[i] /\ want = Right /\ cur[i] = Leaf(txs[1])
        BY <1>1, <1>2, <2>1, <2>2, <3>2
      <4> QED BY <3>2, <4>1 DEF Siblings, Sibling
    <3> QED BY <3>1, <3>2
  <2>4. Sibling # <<>> /\ <<>> \o Sibling = Sibling
    BY DEF Sibling
  <2> QED BY <1>5, <2>1, <2>3, <2>4 DEF HashPair
<1>6. ASSUME pc = "root" PROVE proof' = proof /\ want' = want
  BY <1>6 DEF HashPair
<1> QED BY <1>4, <1>5, <1>6

\* With two transactions every function makes one pass and returns.
LEMMA NextTwoLeaves == FewInv /\ TypeOK /\ [Next]_vars => TwoLeaves'
<1> SUFFICES ASSUME FewInv, TypeOK, [Next]_vars, Len(txs') = 2 PROVE TwoLeaves'
  BY DEF TwoLeaves
<1>1. txs' = txs /\ target' = target
  BY DEF Next, vars, RootOfNothing, RootFound, ProofFound, HashPair, EndPass
<1>2. Pair' = Pair /\ Top' = Top /\ Sibling' = Sibling
  BY <1>1 DEF Pair, Top, Sibling
<1>3. /\ target \in {txs[1], txs[2]}
      /\ BeforePair \/ AfterPair \/ AtTop
      /\ pc = "root" => proof = <<>> /\ want = Leaf(target)
      /\ pc # "root" => root = Top
      /\ pc = "proof" /\ BeforePair => proof = <<>> /\ want = Leaf(target)
      /\ pc = "proof" /\ ~BeforePair => proof = Sibling
      /\ pc = "done" => proof = Sibling
  BY <1>1 DEF FewInv, TwoLeaves
<1>4. /\ BeforePair => Len(cur) = 2 /\ i = 1
      /\ AfterPair => Len(cur) = 2 /\ i = 3 /\ next = <<Top>>
      /\ AtTop => Len(cur) = 1 /\ i = 1 /\ cur = <<Top>> /\ cur[1] = Top
      /\ cur # <<>>
  BY <1>3 DEF BeforePair, AfterPair, AtTop, Pair
<1>5. CASE RootOfNothing
  BY <1>4, <1>5 DEF RootOfNothing
<1>6. CASE RootFound
  <2>1. AtTop /\ root' = Top /\ pc' = "proof" /\ pc = "root" /\ i = 1
    BY <1>3, <1>4, <1>6 DEF RootFound
  <2>2. cur' = Pair
    BY <1>1, <1>6, FewLeaves DEF RootFound, TypeOK
  <2>3. BeforePair'
    BY <1>2, <1>6, <2>1, <2>2 DEF RootFound, BeforePair
  <2> QED BY <1>1, <1>2, <1>3, <1>6, <2>1, <2>3 DEF RootFound, TwoLeaves
<1>7. CASE ProofFound
  <2>1. AtTop /\ ~BeforePair
    BY <1>3, <1>4, <1>7 DEF ProofFound
  <2>2. AtTop'
    BY <1>2, <1>7, <2>1 DEF ProofFound, AtTop
  <2> QED BY <1>1, <1>2, <1>3, <1>7, <2>1, <2>2 DEF ProofFound, TwoLeaves
<1>8. CASE HashPair
  <2>1. BeforePair
    <3>1. Len(cur) > 1 /\ i <= Len(cur)
      BY <1>8 DEF HashPair
    <3> DEFINE n == Len(cur)
    <3>2. (AtTop => n = 1) /\ (AfterPair => n = 2 /\ i = 3) /\ n > 1 /\ i <= n
      BY <1>4, <3>1
    <3>3. ~AtTop /\ ~AfterPair
      <4> HIDE DEF n
      <4> QED BY ONLY <3>2
    <3> QED BY <1>3, <3>3
  <2>2. /\ AfterPair' /\ (pc = "proof" => proof' = Sibling)
        /\ pc = "root" => proof' = proof /\ want' = want
    BY <1>1, <1>8, <2>1, PairHashed
  <2>3. ~BeforePair'
    BY <2>2 DEF AfterPair, BeforePair
  <2>4. pc' = pc /\ root' = root /\ pc # "done"
    BY <1>8 DEF HashPair
  <2> QED BY <1>1, <1>2, <1>3, <2>2, <2>3, <2>4 DEF TwoLeaves
<1>9. CASE EndPass
  <2>1. AfterPair /\ ~BeforePair
    BY <1>3, <1>4, <1>9 DEF EndPass
  <2>2. AtTop'
    BY <1>2, <1>4, <1>9, <2>1 DEF EndPass, AtTop
  <2>3. ~BeforePair'
    BY <2>2 DEF AtTop, BeforePair, Pair
  <2> QED BY <1>1, <1>2, <1>3, <1>9, <2>1, <2>2, <2>3 DEF EndPass, TwoLeaves
<1>10. CASE UNCHANGED vars
  BY <1>1, <1>2, <1>3, <1>10 DEF vars, TwoLeaves, BeforePair, AfterPair, AtTop
<1> QED BY <1>5, <1>6, <1>7, <1>8, <1>9, <1>10 DEF Next

\* What FewInv says of the proof is what the SPV node computes from it.
LEMMA ProofLeadsToRoot ==
  ASSUME TypeOK, FewInv, ManyLeavesNeverReturn
  PROVE  ProofVerifies
<1> SUFFICES ASSUME pc = "done", txs # <<>> PROVE Computed(target) = root
  BY DEF ProofVerifies
<1>1. Len(txs) = 1 \/ Len(txs) = 2
  <2>1. Len(txs) \in Nat /\ Len(txs) # 0
    BY DEF TypeOK, IsList
  <2>2. ~(Len(txs) >= 3)
    BY DEF ManyLeavesNeverReturn
  <2> DEFINE n == Len(txs)
  <2>3. n \in Nat /\ n # 0 /\ ~(n >= 3)
    BY <2>1, <2>2
  <2>4. n = 1 \/ n = 2
    <3> HIDE DEF n
    <3> QED BY ONLY <2>3
  <2> QED BY <2>4
<1>2. CASE Len(txs) = 1
  BY <1>2, EmptyProof DEF FewInv, OneLeaf
<1>3. CASE Len(txs) = 2
  <2>1. proof = Sibling /\ root = Top /\ target \in {txs[1], txs[2]}
    BY <1>3 DEF FewInv, TwoLeaves
  <2>2. CASE target = txs[1]
    <3> DEFINE p == ProofNode(Leaf(txs[2]), FALSE)
    <3>1. Computed(target) = Onto(Leaf(target), p)
      BY <2>1, <2>2, OneEntryProof DEF Sibling
    <3> QED BY <2>1, <2>2, <3>1 DEF Onto, ProofNode, Top
  <2>3. CASE target # txs[1]
    <3> DEFINE p == ProofNode(Leaf(txs[1]), TRUE)
    <3>1. Computed(target) = Onto(Leaf(target), p)
      BY <2>1, <2>3, OneEntryProof DEF Sibling
    <3> QED BY <2>1, <2>3, <3>1 DEF Onto, ProofNode, Top
  <2> QED BY <2>2, <2>3
<1> QED BY <1>1, <1>2, <1>3

\* Whenever GetMerkleProof returns, its proof leads the SPV node from the
\* transaction to the root in the header.
THEOREM ProofsVerify == Spec => []ProofVerifies
<1>1. Init /\ TypeOK => FewInv
  BY InitFewInv
<1>2. FewInv /\ TypeOK /\ [Next]_vars => FewInv'
  BY NextOneLeaf, NextTwoLeaves DEF FewInv
<1>3. TypeOK /\ FewInv /\ ManyLeavesNeverReturn => ProofVerifies
  BY ProofLeadsToRoot
<1> QED BY <1>1, <1>2, <1>3, TypeCorrect, ManyLeavesHang, PTL DEF Spec
=============================================================================
