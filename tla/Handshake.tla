----------------------------- MODULE Handshake -----------------------------
(***************************************************************************)
(* How nodes get to know one another: version, verack and addr messages,   *)
(* nodes that start at any time, stop and come back.  Full nodes, miners   *)
(* and SPV nodes have the same handlers.  What a new peer is asked for     *)
(* besides is in modules BlockSync and Spv.                                *)
(***************************************************************************)
EXTENDS Naturals, SequencesExt, FiniteSetsExt, Bags, BagsExt

CONSTANTS
  Nodes,
  Networks    \* the networks to start from, with their bounds:

(***************************************************************************)
(* nodes, those of them in `initialPeers`, and whether they start and stop *)
(* only when all is quiet (`apart`); bounds: nodes stopped by their        *)
(* operator, verack handlers that get in each other's way, and equal       *)
(* messages on their way.                                                  *)
(***************************************************************************)
Network == [nodes : SUBSET Nodes, initialPeers : SUBSET Nodes, apart : BOOLEAN,
            stops : Nat, races : Nat, copies : Nat \ {0}]

ASSUME HandshakeAssumption == Networks \subseteq Network

\* A network where no verack handler loses what another appends: none get in
\* each other's way, or there is but one other node to append.
LosesNoAppend(w) == w.races = 0 \/ \E a, b \in Nodes : w.nodes \subseteq {a, b}

VARIABLES
  network,    \* one of Networks; it does not change
  up,         \* the nodes that listen
  greeting,   \* greeting[n]: initial peers the start-up goroutine has to greet
  peers,      \* peers[n]: connectedPeers
  forwarded,  \* forwarded[n]: forwardedAddrList
  net,        \* the messages sent and not yet handled
  stops,      \* stops so far
  races       \* races so far

vars == <<network, up, greeting, peers, forwarded, net, stops, races>>

-----------------------------------------------------------------------------
(* Messages: `about` is AddrMe, AddrFrom or Address.                       *)

Version(n, to) == [kind |-> "version", to |-> to, about |-> n]
Verack(n, to)  == [kind |-> "verack", to |-> to, about |-> n]
Addr(a, to)    == [kind |-> "addr", to |-> to, about |-> a]

Received(n, kind) == {msg \in BagToSet(net) : msg.kind = kind /\ msg.to = n}

Lists(n, p) == p \in ToSet(peers[n])

Copies(msg, bag) == IF BagIn(msg, bag) THEN bag[msg] ELSE 0

\* Faulty variant: a message waits for a node that does not listen yet.
PutUndialled(bag, msgs) ==
  net' = bag (+) SetToBag({msg \in msgs : Copies(msg, bag) < network.copies})

\* A send to a node that does not listen fails to dial and is dropped.  One
\* copy more than the bound is handled together with one on its way: no
\* handler does more the second time.
Put(bag, msgs) ==
  net' = bag (+) SetToBag({msg \in msgs : /\ msg.to \in up
                                          /\ Copies(msg, bag) < network.copies})

Reply(msg, answers) == Put(BagRemove(net, msg), answers)

\* Nothing is on its way.
Quiet ==
  /\ net = EmptyBag
  /\ \A n \in Nodes : greeting[n] = {}

-----------------------------------------------------------------------------
Init ==
  /\ network \in Networks
  /\ up = {}
  /\ greeting = [n \in Nodes |-> {}]
  /\ peers = [n \in Nodes |-> <<>>]
  /\ forwarded = [n \in Nodes |-> {}]
  /\ net = EmptyBag
  /\ stops = 0
  /\ races = 0

\* StartP2PNode: the node listens and, two seconds later, greets the others.
Start(n) ==
  /\ n \in network.nodes \ up
  /\ network.apart => Quiet
  /\ up' = up \cup {n}
  /\ greeting' = [greeting EXCEPT ![n] = network.initialPeers \ {n}]
  /\ UNCHANGED <<network, peers, forwarded, net, stops, races>>

\* The process ends; its lists were in memory only.
Stop(n) ==
  /\ n \in up
  /\ network.apart => Quiet
  /\ stops < network.stops
  /\ stops' = stops + 1
  /\ up' = up \ {n}
  /\ greeting' = [greeting EXCEPT ![n] = {}]
  /\ peers' = [peers EXCEPT ![n] = <<>>]
  /\ forwarded' = [forwarded EXCEPT ![n] = {}]
  /\ net' = [msg \in {msg \in DOMAIN net : msg.to # n} |-> net[msg]]
  /\ UNCHANGED <<network, races>>

Greet(n) ==
  \E p \in greeting[n] :
    /\ greeting' = [greeting EXCEPT ![n] = @ \ {p}]
    /\ Put(net, {Version(n, p)})
    /\ UNCHANGED <<network, up, peers, forwarded, stops, races>>

\* Faulty variant: the version message is answered with a version message
\* whether or not its sender is listed.
HandleVersionAlways(n) ==
  \E msg \in Received(n, "version") :
    /\ Reply(msg, {Verack(n, msg.about), Version(n, msg.about)})
    /\ UNCHANGED <<network, up, greeting, peers, forwarded, stops, races>>

\* Faulty variant: no verack for a node that is listed already.
HandleVersionOnce(n) ==
  \E msg \in Received(n, "version") :
    /\ Reply(msg, IF Lists(n, msg.about) THEN {}
                  ELSE {Verack(n, msg.about), Version(n, msg.about)})
    /\ UNCHANGED <<network, up, greeting, peers, forwarded, stops, races>>

\* handleVersionMsg: the versions of the protocol are equal.
HandleVersion(n) ==
  \E msg \in Received(n, "version") :
    /\ Reply(msg, {Verack(n, msg.about)}
                    \cup IF Lists(n, msg.about) THEN {} ELSE {Version(n, msg.about)})
    /\ UNCHANGED <<network, up, greeting, peers, forwarded, stops, races>>

\* Faulty variant: whoever sends a verack is appended.
HandleVerackUnchecked(n) ==
  \E msg \in Received(n, "verack") :
    /\ peers' = [peers EXCEPT ![n] = Append(@, msg.about)]
    /\ Reply(msg, {Addr(n, msg.about)})
    /\ UNCHANGED <<network, up, greeting, forwarded, stops, races>>

\* handleVerackMsg: append a node that is not listed yet, and tell it one's
\* own address.
HandleVerack(n) ==
  \E msg \in Received(n, "verack") :
    LET p == msg.about
    IN  /\ peers' = [peers EXCEPT ![n] = IF Lists(n, p) THEN @ ELSE Append(@, p)]
        /\ Reply(msg, IF Lists(n, p) THEN {} ELSE {Addr(n, p)})
        /\ UNCHANGED <<network, up, greeting, forwarded, stops, races>>

(***************************************************************************)
(* Two verack handlers of a node at the same time: both check the list     *)
(* before either appends to it.  A peer is appended twice when both        *)
(* veracks are from it, and when both have read the list before either     *)
(* writes it, the append of the first is lost.                             *)
(***************************************************************************)
RaceVeracks(n) ==
  \E p, q \in Nodes \ ToSet(peers[n]) :
    LET two == SetToBag({Verack(p, n)}) (+) SetToBag({Verack(q, n)})
    IN  /\ two \sqsubseteq net
        /\ races < network.races
        /\ races' = races + 1
        /\ \/ peers' = [peers EXCEPT ![n] = @ \o <<p, q>>]
           \/ peers' = [peers EXCEPT ![n] = Append(@, q)]
        /\ Put(net (-) two, {Addr(n, p), Addr(n, q)})
        /\ UNCHANGED <<network, up, greeting, forwarded, stops>>

\* Faulty variant: an address is remembered and not passed on.
HandleAddrSilent(n) ==
  \E msg \in Received(n, "addr") :
    LET a == msg.about
    IN  /\ forwarded' = [forwarded EXCEPT ![n] = @ \cup {a}]
        /\ Reply(msg, IF Lists(n, a) THEN {} ELSE {Version(n, a)})
        /\ UNCHANGED <<network, up, greeting, peers, stops, races>>

\* handleAddrMsg: greet a node that is not listed, and pass its address on
\* to all other peers, once.
HandleAddr(n) ==
  \E msg \in Received(n, "addr") :
    LET a == msg.about
    IN  /\ forwarded' = [forwarded EXCEPT ![n] = @ \cup {a}]
        /\ Reply(msg, (IF Lists(n, a) THEN {} ELSE {Version(n, a)})
                 \cup IF a \in forwarded[n] THEN {}
                      ELSE {Addr(a, p) : p \in ToSet(peers[n]) \ {a}})
        /\ UNCHANGED <<network, up, greeting, peers, stops, races>>

\* What a node does by itself: it greets, or handles a message.
Work(n) ==
  Greet(n) \/ HandleVersion(n) \/ HandleVerack(n) \/ RaceVeracks(n) \/ HandleAddr(n)

Next == \E n \in Nodes : Start(n) \/ Stop(n) \/ Work(n)

Spec == Init /\ [][Next]_vars

\* As long as there is something to do, something is done, and as long as
\* there are verack messages, some of them are handled; nodes need not
\* start, nor stop.  That every single message is handled is not needed.
Fairness ==
  /\ WF_vars(\E n \in Nodes : Work(n))
  /\ WF_vars(\E n \in Nodes : HandleVerack(n))

FairSpec == Spec /\ Fairness

-----------------------------------------------------------------------------
TypeOK ==
  /\ network \in Networks
  /\ up \subseteq Nodes
  /\ greeting \in [Nodes -> SUBSET Nodes]
  /\ peers \in [Nodes -> Seq(Nodes)]
  /\ forwarded \in [Nodes -> SUBSET Nodes]
  /\ IsABag(net)
  /\ BagToSet(net) \subseteq [kind : {"version", "verack", "addr"}, to : up, about : Nodes]
  /\ stops \in 0..network.stops
  /\ races \in 0..network.races

\* No node lists or greets itself, though its address comes back to it by
\* way of others.
NoSelf ==
  \A n \in Nodes : ~Lists(n, n) /\ n \notin greeting[n]

NoRepeats(list) == \A i, j \in DOMAIN list : list[i] = list[j] => i = j

\* Unless handlers raced, connectedPeers names nobody twice (every entry is
\* sent a copy of each block and transaction).
PeersOnce == races = 0 => \A n \in Nodes : NoRepeats(peers[n])

Mutual(n, p) == Lists(n, p) /\ Lists(p, n)

\* As long as no node stops and no handlers race, peers end up listing each
\* other: whoever answers a version message of a node it does not list asks
\* that node for a verack in turn.
ListsMutual ==
  Quiet /\ stops = 0 /\ races = 0 => \A n, p \in Nodes : Lists(n, p) => Lists(p, n)

\* The initial peers that run are connected with one another when all is
\* quiet, in whichever order they started and after they were restarted.  An
\* append lost between two verack handlers, which takes a third node, would
\* break it: see LosesNoAppend.
InitialPeersConnect ==
  Quiet => \A n, p \in network.initialPeers \cap up : n # p => Mutual(n, p)

\* The exchange of versions and the gossip about addresses come to an end.
Quiesces == <>[]Quiet

\* Node d has just started and is about to greet initial peers; all others
\* run, are settled and connected, and none has heard of d.
JustJoined(d) ==
  /\ up = network.nodes /\ net = EmptyBag /\ stops = network.stops
  /\ greeting[d] = network.initialPeers \ {d} /\ greeting[d] # {}
  /\ \A n \in up \ {d} :
       /\ greeting[n] = {} /\ d \notin forwarded[n] /\ ~Lists(n, d)
       /\ \A p \in up \ {d, n} : Lists(n, p)

\* A node that joins a settled network gets connected with all of it, also
\* with the nodes it does not greet: an initial peer passes its address on.
LateJoinerMeetsAll ==
  \A d \in Nodes : JustJoined(d) ~> \A n \in network.nodes \ {d} : Mutual(d, n)
=============================================================================
