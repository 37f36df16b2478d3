----------------------------- MODULE MCLedgerNet -----------------------------
(* Two miners that are each other's peers, and a client of both.           *)
EXTENDS Ledger

CONSTANTS m, m2, c, t1

MCPeers == [n \in Nodes |-> Nodes \ {n}]
MCKnows == [k \in Clients |-> Miners]
MCRecipient == [k \in Miners |-> "alice"]

\* The payment spends the reward of the block that is mined first.
MCSpendReward ==
  [t \in {t1} |-> [from |-> "alice", ins |-> {<<2, 0>>},
                  outs |-> <<[value |-> 2, owner |-> "bob"]>>]]
=============================================================================
