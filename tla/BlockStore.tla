----------------------------- MODULE BlockStore -----------------------------
(***************************************************************************)
(* What a node's LevelDB holds about the chain, and the backward walks the *)
(* code takes over it (BlockChainIterator and its users).                  *)
(*                                                                         *)
(* A block's hash is its index in `blocks`, the sequence of every block    *)
(* ever sealed by any node: SHA-256 is collision free, so the hash and the *)
(* content determine one another.  A database `d` is a set of hashes.      *)
(***************************************************************************)
EXTENDS Naturals, Sequences

NoHash  == 0      \* an empty PrevHash
Genesis == 1      \* GenerateGenesisBlock is deterministic: one hash for all

(***************************************************************************)
(* The blocks met by iterating from hash h, oldest first.  The iteration   *)
(* stops after a block with an empty PrevHash, and also at a hash that is  *)
(* not in the database: Get fails, the error is dropped and the bytes      *)
(* decode to the zero Block, whose PrevHash is empty.                      *)
(***************************************************************************)
ChainFrom(blocks, d, h) ==
  LET walk[k \in 0..Len(blocks)] ==
        IF k \in d THEN Append(walk[blocks[k].prev], k) ELSE <<>>
  IN  walk[h]

\* The walk from h ends at the genesis block, not at a hole.
Rooted(chain) == chain # <<>> /\ Head(chain) = Genesis
=============================================================================
