---------------------------- MODULE MCBlockSync ----------------------------
(* Two nodes with chains out of a tree of seven blocks.                    *)
EXTENDS BlockSync

CONSTANTS n, p

MCNeighbours == [k \in Nodes |-> Nodes \ {k}]

\* A chain of six blocks, and a branch of one that leaves it at the second.
MCTree == <<[prev |-> 0], [prev |-> 1], [prev |-> 2], [prev |-> 3], [prev |-> 4],
            [prev |-> 5], [prev |-> 2]>>

\* Any node may have any part of the tree that is a chain.  Or p is killed,
\* or n is a miner with the first blocks of the chain and mines the others.
\* In some of these networks a node lists the other twice.
Behind == {t \in [Nodes -> {1, 2}] : t[p] < t[n]}

MCSetups ==
  [tips : [Nodes -> DOMAIN Mined], until : {0}, restarting : {{}}, racing : {{}}]
    \cup [tips : {t \in [Nodes -> {1, 4, 7}] : t[n] # t[p]}, until : {0},
          restarting : {{}}, racing : {{p}}]
    \cup [tips : [Nodes -> {1, 2, 4}], until : {0}, restarting : {{p}}, racing : {{}}]
    \cup [tips : Behind, until : {0}, restarting : {{p}}, racing : {{n}, {p}}]
    \cup [tips : {t \in [Nodes -> {1, 4}] : t[n] = 4}, until : {6},
          restarting : {{}}, racing : {{}}]
    \cup [tips : Behind, until : {3}, restarting : {{}}, racing : {{n}}]
    \cup [tips : {[k \in Nodes |-> 2]}, until : {3}, restarting : {{p}}, racing : {{}}]
=============================================================================
