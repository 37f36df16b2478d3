---------------------------- MODULE MCUtxoStore ----------------------------
(* Payment p has two outputs; q and r spend one each; p is mined again.    *)
EXTENDS UtxoStore

CONSTANTS p, q, r, w1, w2

MCTx == 1..7 \cup {p, q, r}

\* Block 4 and its child 5 or sibling 6 spend an output of p each; block 7
\* holds p once more, after block 4 has spent one of its outputs.
MCMined == <<[prev |-> 0, txs |-> <<1>>],    [prev |-> 1, txs |-> <<2>>],
             [prev |-> 2, txs |-> <<3, p>>], [prev |-> 3, txs |-> <<4, q>>],
             [prev |-> 4, txs |-> <<5, r>>], [prev |-> 3, txs |-> <<6, r>>],
             [prev |-> 4, txs |-> <<7, p>>]>>

MCIns == [x \in MCTx |-> CASE x = p -> {<<2, 0>>}
                           [] x = q -> {<<p, 0>>}
                           [] x = r -> {<<p, 1>>}
                           [] OTHER -> {}]

MCSize == [x \in MCTx |-> IF x = p THEN 2 ELSE 1]

ASSUME SpendsFromBelow

WorkersAlike == Permutations(Workers)
=============================================================================
