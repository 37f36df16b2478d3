---------------------------- MODULE MCLedgerSolo ----------------------------
(* The network of wallet_test.go: one miner, one full node, and a client   *)
(* that pays with the miner's first reward.                                *)
EXTENDS Ledger

CONSTANTS m, f, c, t1, t2

MCPeers == [n \in {m, f} |-> {m, f} \ {n}]
MCKnowsBoth == [k \in {c} |-> {m, f}]
MCRecipient == [k \in {m} |-> "alice"]

\* Block 2 is the first one mined; both payments spend its reward.
MCPayment ==
  [t \in {t1, t2} |->
     [from |-> "alice", ins |-> {<<2, 0>>},
      outs |-> IF t = t1
               THEN <<[value |-> 1, owner |-> "bob"], [value |-> 1, owner |-> "alice"]>>
               ELSE <<[value |-> 2, owner |-> "bob"]>>]]

\* The theorems about star networks speak of this one too.
ASSUME SoloIsStar == StarNetwork

\* The full node's chain copies the miner's chain.
Log == INSTANCE ChainLog WITH
         Followers <- FullNodes, First <- Genesis, Block <- 2..MaxBlocks,
         log <- ChainOf(m), seen <- [n \in FullNodes |-> ChainOf(n)]

\* In this network the tip of the full node follows the miner's tip: block
\* relaying implements ChainLog, up to and including that every block the
\* miner stores is copied in the end.
FollowsMiner == Log!FairSpec
=============================================================================
