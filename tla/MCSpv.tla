------------------------------- MODULE MCSpv -------------------------------
(* A chain of three blocks: r stands for the rewards of others, c and d    *)
(* are rewards for a, and transaction t pays c to b, with change for a.    *)
EXTENDS Spv

CONSTANTS s1, s2, a, b

MCPayees == [r |-> <<b>>, c |-> <<a>>, d |-> <<a>>, t |-> <<b, a>>]

MCIns == [x \in Tx |-> IF x = "t" THEN {<<"c", 1>>} ELSE {}]

\* One SPV node, blocks apart, one transaction of interest in each.
Single == [spvs |-> {s1}, wallet |-> {<<s1, a>>},
           blocks |-> <<<<"r">>, <<"c">>, <<"r", "t">>>>,
           start |-> 1, limit |-> 2, spaced |-> TRUE, repeats |-> 0, restarts |-> 0]

\* One of its blocks reaches the full node twice.
Again == [Single EXCEPT !.repeats = 1]

\* The SPV node is restarted.
Restarted == [Single EXCEPT !.restarts = 1]

\* The miner, whose reward is monitored, mines a payment with it.
Transfer == [Single EXCEPT !.blocks[3] = <<"d", "t">>]

\* Blocks and connections at any time.
Hurried == [Transfer EXCEPT !.spaced = FALSE]

\* The SPV node starts when the chain is there and does not fit a message.
Late == [Single EXCEPT !.spaced = FALSE, !.start = 3, !.limit = 1]

\* The wallet knows one SPV node; the other one hears from it.
Pair == [Single EXCEPT !.spvs = {s1, s2}, !.blocks = Front(@)]

\* The wallet has both addresses, the payer's and the payee's.
Both == [Single EXCEPT !.wallet = {<<s1, a>>, <<s1, b>>}, !.blocks[3] = <<"t">>]

MCSetups == {Single, Again, Restarted, Hurried, Late, Pair, Both}
MCTransfer == {Transfer}
=============================================================================
