------------------------------- MODULE Merkle -------------------------------
(***************************************************************************)
(* The loops of SetMerkleRoot and GetMerkleProof, and the computation by   *)
(* which an SPV node checks the proof.  The root of a block is computed    *)
(* first, then the proof for one of its transactions.                      *)
(*                                                                         *)
(* Hashes are terms: SHA-256 is taken to be injective.                     *)
(***************************************************************************)
EXTENDS Naturals, SequencesExt

CONSTANTS Tx,         \* transactions
          MaxLeaves,  \* bound: transactions in a block
          MaxList     \* bound: length of a list of hashes

ASSUME MerkleAssumption == MaxLeaves \in Nat /\ MaxList \in Nat

VARIABLES
  txs,     \* Block.Transactions
  root,    \* Block.MerkleRoot, NoRoot until it is set
  target,  \* the argument of GetMerkleProof
  cur,     \* currentHashList
  next,    \* nextHashList
  i,       \* index of the inner loop, from 1
  want,    \* targetHash
  proof,   \* merkleProof
  pc       \* the function running, or "done"

vars == <<txs, root, target, cur, next, i, want, proof, pc>>

Leaf(t)    == <<t>>       \* the double SHA-256 of a serialized transaction
Node(a, b) == <<a, b>>    \* the double SHA-256 of two concatenated hashes
NoRoot     == <<>>

Leaves(ts) == [k \in DOMAIN ts |-> Leaf(ts[k])]

ProofNode(hash, isLeft) == [hash |-> hash, isLeft |-> isLeft]

Blocks == UNION {[1..n -> Tx] : n \in 0..MaxLeaves}

Init ==
  /\ txs \in Blocks
  /\ target \in IF txs = <<>> THEN Tx ELSE ToSet(txs)
  /\ root = NoRoot
  /\ cur = Leaves(txs)
  /\ next = <<>>
  /\ i = 1
  /\ want = Leaf(target)
  /\ proof = <<>>
  /\ pc = "root"

\* SetMerkleRoot returns: nothing to hash, the root stays empty.
RootOfNothing ==
  /\ pc = "root" /\ cur = <<>>
  /\ pc' = "done"
  /\ UNCHANGED <<txs, root, target, cur, next, i, want, proof>>

\* SetMerkleRoot returns; GetMerkleProof starts from the leaves again.
RootFound ==
  /\ pc = "root" /\ i = 1 /\ Len(cur) = 1
  /\ root' = cur[1]
  /\ pc' = "proof"
  /\ cur' = Leaves(txs)
  /\ next' = <<>>
  /\ UNCHANGED <<txs, target, i, want, proof>>

ProofFound ==
  /\ pc = "proof" /\ i = 1 /\ Len(cur) = 1
  /\ pc' = "done"
  /\ UNCHANGED <<txs, root, target, cur, next, i, want, proof>>

\* The sibling of an odd hash out is the hash itself.
Right == IF i = Len(cur) THEN cur[i] ELSE cur[i + 1]

\* Faulty variant: every sibling is taken for the left one.
SiblingsLeft ==
  CASE want = cur[i] -> <<ProofNode(Right, TRUE)>>
    [] want # cur[i] /\ want = Right -> <<ProofNode(cur[i], TRUE)>>
    [] OTHER                         -> <<>>

\* What GetMerkleProof adds to the proof at the current pair, if anything.
Siblings ==
  CASE want = cur[i] /\ i = Len(cur) -> <<ProofNode(cur[i], TRUE)>>
    [] want = cur[i] /\ i # Len(cur) -> <<ProofNode(Right, FALSE)>>
    [] want # cur[i] /\ want = Right -> <<ProofNode(cur[i], TRUE)>>
    [] OTHER                         -> <<>>

\* The body of the inner loop.
HashPair ==
  /\ pc # "done" /\ Len(cur) > 1 /\ i <= Len(cur)
  /\ next' = Append(next, Node(cur[i], Right))
  /\ i' = i + 2
  /\ IF pc = "proof" /\ Siblings # <<>>
     THEN proof' = proof \o Siblings /\ want' = Node(cur[i], Right)
     ELSE UNCHANGED <<proof, want>>
  /\ UNCHANGED <<txs, root, target, cur, pc>>

\* Faulty variant: the list of the next level starts empty at every level.
EndPassReset ==
  /\ pc # "done" /\ Len(cur) > 1 /\ i > Len(cur)
  /\ cur' = next
  /\ next' = <<>>
  /\ i' = 1
  /\ UNCHANGED <<txs, root, target, want, proof, pc>>

\* Faulty variant: the next pass starts one hash before the first.
EndPassFromZero ==
  /\ pc # "done" /\ Len(cur) > 1 /\ i > Len(cur)
  /\ Len(next) <= MaxList
  /\ cur' = next
  /\ i' = 0
  /\ UNCHANGED <<txs, root, target, next, want, proof, pc>>

\* Faulty variant: the current level is not replaced by the next one.
EndPassKeepsList ==
  /\ pc # "done" /\ Len(cur) > 1 /\ i > Len(cur)
  /\ Len(next) <= MaxList
  /\ i' = 1
  /\ UNCHANGED <<txs, root, target, cur, next, want, proof, pc>>

\* The next level becomes the current one, and is not emptied.
EndPass ==
  /\ pc # "done" /\ Len(cur) > 1 /\ i > Len(cur)
  /\ Len(next) <= MaxList
  /\ cur' = next
  /\ i' = 1
  /\ UNCHANGED <<txs, root, target, next, want, proof, pc>>

Next == RootOfNothing \/ RootFound \/ ProofFound \/ HashPair \/ EndPass

Spec == Init /\ [][Next]_vars

\* Both functions run until they return.
FairSpec == Spec /\ WF_vars(Next)

-----------------------------------------------------------------------------
(* What handleMerkleblockMsg of an SPV node computes from transaction t.   *)

Computed(t) ==
  FoldLeft(LAMBDA h, p : IF p.isLeft THEN Node(p.hash, h) ELSE Node(h, p.hash),
           Leaf(t), proof)

\* The proof GetMerkleProof returns leads the SPV node from the transaction
\* to the root in the block header, so both agree on the side each sibling
\* is on.  Hashes being injective, it leads from no other transaction there.
ProofVerifies == pc = "done" /\ txs # <<>> => Computed(target) = root

-----------------------------------------------------------------------------
(* Three transactions and more.                                            *)

IsList(s) == s \in Seq({s[k] : k \in DOMAIN s})

\* Types: lists of hashes, and a pair index that starts at 1.
TypeOK ==
  /\ IsList(txs) /\ IsList(cur) /\ IsList(next) /\ IsList(proof)
  /\ i \in Nat \ {0}
  /\ pc \in {"root", "proof", "done"}

\* With three transactions or more, SetMerkleRoot does not return: the list
\* it waits to shrink to one hash never has fewer than two.
ManyLeavesNeverReturn == Len(txs) >= 3 => pc = "root" /\ Len(cur) >= 2

\* With at most two, it returns, and so does GetMerkleProof.
FewLeavesReturn == Len(txs) <= 2 => <>(pc = "done")
=============================================================================
