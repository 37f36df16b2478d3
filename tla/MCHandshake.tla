---------------------------- MODULE MCHandshake ----------------------------
(* Two initial peers that start whenever they like, and three nodes, one   *)
(* or two of them initial peers, that start when the others have settled.  *)
EXTENDS Handshake

CONSTANTS n1, n2, n3

Pair == [nodes |-> {n1, n2}, initialPeers |-> {n1, n2}, apart |-> FALSE,
         stops |-> 1, races |-> 1, copies |-> 2]

Joining == [nodes |-> {n1, n2, n3}, initialPeers |-> {n1}, apart |-> TRUE,
            stops |-> 1, races |-> 0, copies |-> 1]

Meeting == [Joining EXCEPT !.initialPeers = {n1, n2}, !.stops = 0]

MCNetworks == {Pair, Joining, Meeting}

ASSUME \A w \in Networks : LosesNoAppend(w)
=============================================================================
