--------------------------- MODULE HandshakeProofs ---------------------------
(* Networks of any size, in which nodes start, stop and race as they like. *)
EXTENDS Handshake, TLAPS

-----------------------------------------------------------------------------
(* What sending and handling messages does to a bag of them.               *)

\* Nothing has been sent to begin with.
LEMMA EmptyBagType == IsABag(EmptyBag) /\ BagToSet(EmptyBag) = {}
BY DEF IsABag, EmptyBag, SetToBag, BagToSet

\* One copy of each element of a set.
LEMMA SetToBagType ==
  ASSUME NEW S
  PROVE  IsABag(SetToBag(S)) /\ BagToSet(SetToBag(S)) = S
BY DEF IsABag, SetToBag, BagToSet

\* A message less: a copy of it may be left.
LEMMA BagRemoveType ==
  ASSUME NEW B, NEW x, IsABag(B)
  PROVE  IsABag(BagRemove(B, x)) /\ BagToSet(BagRemove(B, x)) \subseteq BagToSet(B)
BY DEF IsABag, BagRemove, BagToSet

\* The messages of two bags.
LEMMA BagUnionType ==
  ASSUME NEW A, NEW B, IsABag(A), IsABag(B)
  PROVE  IsABag(A (+) B) /\ BagToSet(A (+) B) = BagToSet(A) \cup BagToSet(B)
BY DEF IsABag, (+), BagToSet

\* Some messages less.
LEMMA BagMinusType ==
  ASSUME NEW A, NEW B, IsABag(A), IsABag(B)
  PROVE  IsABag(A (-) B) /\ BagToSet(A (-) B) \subseteq BagToSet(A)
BY DEF IsABag, (-), BagToSet

LEMMA BagMinusKeeps ==
  ASSUME NEW A, NEW B, IsABag(A), IsABag(B)
  PROVE  BagToSet(A) \ BagToSet(B) \subseteq BagToSet(A (-) B)
BY DEF IsABag, (-), BagToSet

\* The messages that are not lost, with all their copies.
LEMMA BagPartType ==
  ASSUME NEW B, IsABag(B), NEW S, S \subseteq BagToSet(B)
  PROVE  IsABag([x \in S |-> B[x]]) /\ BagToSet([x \in S |-> B[x]]) = S
BY DEF IsABag, BagToSet

-----------------------------------------------------------------------------
(* Types.                                                                  *)

Message == [kind : {"version", "verack", "addr"}, to : up, about : Nodes]

\* Messages have their types, and none is to the node it is about.
NetOK(bag) ==
  IsABag(bag) /\ BagToSet(bag) \subseteq Message /\ \A msg \in BagToSet(bag) : msg.to # msg.about

\* Types of everything but the messages.
ListsOK ==
  /\ network \in Networks /\ up \subseteq Nodes
  /\ greeting \in [Nodes -> SUBSET Nodes] /\ peers \in [Nodes -> Seq(Nodes)]
  /\ forwarded \in [Nodes -> SUBSET Nodes]
  /\ stops \in 0..network.stops /\ races \in 0..network.races

\* Stronger than TypeOK and NoSelf, and kept by every step.
IInv == ListsOK /\ NetOK(net) /\ NoSelf

LEMMA Typed == IInv => TypeOK
BY DEF IInv, ListsOK, NetOK, Message, TypeOK

\* A network's nodes are nodes.
LEMMA NetworkType ==
  ASSUME network \in Networks
  PROVE  /\ network.nodes \subseteq Nodes /\ network.initialPeers \subseteq Nodes
         /\ network.stops \in Nat /\ network.races \in Nat /\ network.copies \in Nat \ {0}
BY HandshakeAssumption DEF Network

\* The messages an action may send.
Sendable(msg) ==
  msg.kind \in {"version", "verack", "addr"} /\ msg.about \in Nodes /\ msg.to # msg.about

LEMMA Sends ==
  ASSUME NEW n, NEW a \in Nodes, n # a
  PROVE  /\ Sendable(Version(a, n)) /\ Sendable(Verack(a, n)) /\ Sendable(Addr(a, n))
         /\ \A m \in {Version(a, n), Verack(a, n), Addr(a, n)} :
              m.to = n /\ m = [kind |-> m.kind, to |-> m.to, about |-> m.about]
BY DEF Sendable, Version, Verack, Addr

Shaped(msg) == msg = [kind |-> msg.kind, to |-> msg.to, about |-> msg.about]

\* What is put on the net is as it should be, and goes to nodes that listen.
LEMMA PutOK ==
  ASSUME NEW bag, NetOK(bag), NEW msgs, \A msg \in msgs : Sendable(msg) /\ Shaped(msg),
         Put(bag, msgs), up' = up
  PROVE  NetOK(net)'
<1> DEFINE new == {msg \in msgs : msg.to \in up /\ Copies(msg, bag) < network.copies}
<1>1. net' = bag (+) SetToBag(new)
  BY DEF Put
<1>2. \A msg \in new : msg \in Message /\ msg.to # msg.about
  BY DEF Sendable, Shaped, Message
<1> HIDE DEF new
<1>3. IsABag(net') /\ BagToSet(net') = BagToSet(bag) \cup new
  BY <1>1, SetToBagType, BagUnionType DEF NetOK
<1>4. Message' = Message
  BY DEF Message
<1> QED BY <1>2, <1>3, <1>4 DEF NetOK

LEMMA ReplyOK ==
  ASSUME NetOK(net), NEW old, NEW msgs, \A msg \in msgs : Sendable(msg) /\ Shaped(msg),
         Reply(old, msgs), up' = up
  PROVE  NetOK(net)'
<1> DEFINE bag == BagRemove(net, old)
<1>1. NetOK(bag)
  BY BagRemoveType DEF NetOK
<1>2. Put(bag, msgs)
  BY DEF Reply
<1> HIDE DEF bag
<1> QED BY <1>1, <1>2, PutOK

\* A list with one more.
LEMMA AppendFacts ==
  ASSUME NEW S, NEW s \in Seq(S), NEW x \in S
  PROVE  /\ DOMAIN Append(s, x) = DOMAIN s \cup {Len(s) + 1} /\ Len(s) + 1 \notin DOMAIN s
         /\ Append(s, x)[Len(s) + 1] = x /\ \A i \in DOMAIN s : Append(s, x)[i] = s[i]
<1>1. /\ DOMAIN Append(s, x) = 1..Len(s) + 1 /\ DOMAIN s = 1..Len(s) /\ Len(s) \in Nat
      /\ Append(s, x)[Len(s) + 1] = x /\ \A i \in 1..Len(s) : Append(s, x)[i] = s[i]
  OBVIOUS
<1> QED BY <1>1

LEMMA AppendElements ==
  ASSUME NEW S, NEW s \in Seq(S), NEW x \in S
  PROVE  ToSet(Append(s, x)) = ToSet(s) \cup {x}
BY AppendFacts DEF ToSet

LEMMA AppendNoRepeats ==
  ASSUME NEW S, NEW s \in Seq(S), NEW x \in S, NoRepeats(s), x \notin ToSet(s)
  PROVE  NoRepeats(Append(s, x))
BY AppendFacts DEF NoRepeats, ToSet

LEMMA ReceivedOK ==
  ASSUME IInv, NEW n, NEW kind, NEW msg \in Received(n, kind)
  PROVE  msg.to = n /\ msg.about \in Nodes /\ msg.about # n
BY DEF IInv, NetOK, Message, Received

-----------------------------------------------------------------------------
LEMMA InitInv == Init => IInv
<1> SUFFICES ASSUME Init PROVE IInv
  OBVIOUS
<1>1. NetOK(net)
  BY EmptyBagType DEF Init, NetOK
<1>2. NoSelf
  BY DEF Init, NoSelf, Lists, ToSet
<1> QED BY <1>1, <1>2, NetworkType DEF Init, IInv, ListsOK

LEMMA StartInv == ASSUME IInv, NEW n \in Nodes, Start(n) PROVE IInv'
<1>1. NetOK(net)'
  BY DEF IInv, NetOK, Message, Start
<1>2. NoSelf'
  BY DEF IInv, ListsOK, NoSelf, Lists, Start
<1> QED BY <1>1, <1>2, NetworkType DEF Start, IInv, ListsOK

LEMMA StopInv == ASSUME IInv, NEW n \in Nodes, Stop(n) PROVE IInv'
<1>1. NetOK(net)'
  <2> DEFINE left == {msg \in DOMAIN net : msg.to # n}
  <2>1. net' = [msg \in left |-> net[msg]]
    BY DEF Stop
  <2>2. left \subseteq BagToSet(net)
    BY DEF BagToSet
  <2>3. \A msg \in left : msg.to \in up'
    BY <2>2 DEF Stop, IInv, NetOK, Message
  <2> HIDE DEF left
  <2>4. IsABag(net') /\ BagToSet(net') = left
    BY <2>1, <2>2, BagPartType DEF IInv, NetOK
  <2> QED BY <2>2, <2>3, <2>4 DEF IInv, NetOK, Message
<1>2. NoSelf'
  BY DEF IInv, ListsOK, NoSelf, Lists, ToSet, Stop
<1>3. stops' \in 0..network.stops
  BY NetworkType DEF IInv, ListsOK, Stop
<1> QED BY <1>1, <1>2, <1>3 DEF Stop, IInv, ListsOK

\* What does not change lists, but messages only.
LEMMA MessagesOnly ==
  ASSUME IInv, NetOK(net)', UNCHANGED <<network, up, greeting, peers, stops, races>>,
         forwarded' \in [Nodes -> SUBSET Nodes]
  PROVE  IInv'
<1>1. NoSelf'
  BY DEF IInv, NoSelf, Lists
<1> QED BY <1>1 DEF IInv, ListsOK

LEMMA GreetInv == ASSUME IInv, NEW n \in Nodes, Greet(n) PROVE IInv'
<1>1. PICK p \in greeting[n] :
        /\ greeting' = [greeting EXCEPT ![n] = @ \ {p}]
        /\ Put(net, {Version(n, p)})
        /\ UNCHANGED <<network, up, peers, forwarded, stops, races>>
  BY DEF Greet
<1>2. p \in Nodes /\ p # n
  BY DEF IInv, ListsOK, NoSelf
<1> DEFINE msgs == {Version(n, p)}
<1>3. \A msg \in msgs : Sendable(msg) /\ Shaped(msg)
  BY <1>2, Sends DEF Shaped
<1>4. Put(net, msgs)
  BY <1>1
<1> HIDE DEF msgs
<1>5. NetOK(net)'
  BY <1>1, <1>3, <1>4, PutOK DEF IInv
<1>6. NoSelf'
  BY <1>1 DEF IInv, ListsOK, NoSelf, Lists
<1> QED BY <1>1, <1>5, <1>6 DEF IInv, ListsOK

LEMMA HandleVersionInv == ASSUME IInv, NEW n \in Nodes, HandleVersion(n) PROVE IInv'
<1>1. PICK old \in Received(n, "version") :
        /\ Reply(old, {Verack(n, old.about)}
                       \cup IF Lists(n, old.about) THEN {} ELSE {Version(n, old.about)})
        /\ UNCHANGED <<network, up, greeting, peers, forwarded, stops, races>>
  BY DEF HandleVersion
<1>2. old.about \in Nodes /\ old.about # n
  BY ReceivedOK
<1> DEFINE msgs == {Verack(n, old.about)}
                     \cup IF Lists(n, old.about) THEN {} ELSE {Version(n, old.about)}
<1>3. \A msg \in msgs : Sendable(msg) /\ Shaped(msg)
  <2>1. Sendable(Verack(n, old.about)) /\ Shaped(Verack(n, old.about))
    BY <1>2, Sends DEF Shaped
  <2>2. Sendable(Version(n, old.about)) /\ Shaped(Version(n, old.about))
    BY <1>2, Sends DEF Shaped
  <2> QED BY <2>1, <2>2
<1>4. Reply(old, msgs)
  BY <1>1
<1> HIDE DEF msgs
<1>5. NetOK(net)'
  BY <1>1, <1>3, <1>4, ReplyOK DEF IInv
<1>6. forwarded' \in [Nodes -> SUBSET Nodes]
  BY <1>1 DEF IInv, ListsOK
<1> QED BY <1>1, <1>5, <1>6, MessagesOnly

LEMMA HandleVerackInv == ASSUME IInv, NEW n \in Nodes, HandleVerack(n) PROVE IInv'
<1>1. PICK old \in Received(n, "verack") :
        /\ peers' = [peers EXCEPT ![n] = IF Lists(n, old.about) THEN @ ELSE Append(@, old.about)]
        /\ Reply(old, IF Lists(n, old.about) THEN {} ELSE {Addr(n, old.about)})
        /\ UNCHANGED <<network, up, greeting, forwarded, stops, races>>
  BY DEF HandleVerack
<1>2. old.about \in Nodes /\ old.about # n
  BY ReceivedOK
<1> DEFINE msgs == IF Lists(n, old.about) THEN {} ELSE {Addr(n, old.about)}
<1>3. \A msg \in msgs : Sendable(msg) /\ Shaped(msg)
  <2>1. Sendable(Addr(n, old.about)) /\ Shaped(Addr(n, old.about))
    BY <1>2, Sends DEF Shaped
  <2> QED BY <2>1
<1>4. Reply(old, msgs)
  BY <1>1
<1> HIDE DEF msgs
<1>5. NetOK(net)'
  BY <1>1, <1>3, <1>4, ReplyOK DEF IInv
<1>6. peers' \in [Nodes -> Seq(Nodes)]
  BY <1>1, <1>2 DEF IInv, ListsOK
<1>7. NoSelf'
  <2>1. peers'[n] = peers[n] \/ peers'[n] = Append(peers[n], old.about)
    BY <1>1 DEF IInv, ListsOK
  <2>2. ToSet(peers'[n]) \subseteq ToSet(peers[n]) \cup {old.about}
    <3>1. peers[n] \in Seq(Nodes)
      BY DEF IInv, ListsOK
    <3>2. ToSet(Append(peers[n], old.about)) = ToSet(peers[n]) \cup {old.about}
      BY <1>2, <3>1, AppendElements
    <3> QED BY <2>1, <3>2
  <2>3. \A k \in Nodes \ {n} : peers'[k] = peers[k]
    BY <1>1 DEF IInv, ListsOK
  <2> QED BY <1>1, <1>2, <2>2, <2>3 DEF IInv, NoSelf, Lists
<1> QED BY <1>1, <1>5, <1>6, <1>7 DEF IInv, ListsOK

LEMMA RaceVeracksInv == ASSUME IInv, NEW n \in Nodes, RaceVeracks(n) PROVE IInv'
<1>1. PICK p \in Nodes \ ToSet(peers[n]), q \in Nodes \ ToSet(peers[n]) :
        LET two == SetToBag({Verack(p, n)}) (+) SetToBag({Verack(q, n)})
        IN  /\ two \sqsubseteq net
            /\ races < network.races
            /\ races' = races + 1
            /\ \/ peers' = [peers EXCEPT ![n] = @ \o <<p, q>>]
               \/ peers' = [peers EXCEPT ![n] = Append(@, q)]
            /\ Put(net (-) two, {Addr(n, p), Addr(n, q)})
            /\ UNCHANGED <<network, up, greeting, forwarded, stops>>
  BY DEF RaceVeracks
<1> DEFINE one == SetToBag({Verack(p, n)})
           other == SetToBag({Verack(q, n)})
           two == one (+) other
           bag == net (-) two
           msgs == {Addr(n, p), Addr(n, q)}
<1>2. IsABag(two) /\ BagToSet(two) = {Verack(p, n), Verack(q, n)}
  <2>1. IsABag(one) /\ BagToSet(one) = {Verack(p, n)} /\ IsABag(other) /\ BagToSet(other) = {Verack(q, n)}
    BY SetToBagType
  <2> HIDE DEF one, other
  <2> QED BY <2>1, BagUnionType
<1>3. two \sqsubseteq net
  BY <1>1
<1>4. Put(bag, msgs)
  BY <1>1
<1> HIDE DEF two
<1>5. {Verack(p, n), Verack(q, n)} \subseteq BagToSet(net)
  BY <1>2, <1>3 DEF \sqsubseteq, BagToSet
<1>6. p # n /\ q # n
  <2>1. Verack(p, n).to # Verack(p, n).about /\ Verack(q, n).to # Verack(q, n).about
    BY <1>5 DEF IInv, NetOK
  <2> QED BY <2>1 DEF Verack
<1>7. NetOK(bag)
  BY <1>2, BagMinusType DEF IInv, NetOK
<1>8. \A msg \in msgs : Sendable(msg) /\ Shaped(msg)
  <2>1. Sendable(Addr(n, p)) /\ Shaped(Addr(n, p)) /\ Sendable(Addr(n, q)) /\ Shaped(Addr(n, q))
    BY <1>6, Sends DEF Shaped
  <2> QED BY <2>1
<1> HIDE DEF msgs, bag
<1>9. NetOK(net)'
  BY <1>1, <1>4, <1>7, <1>8, PutOK
<1>10. peers' \in [Nodes -> Seq(Nodes)]
  <2>1. <<p, q>> \in Seq(Nodes)
    OBVIOUS
  <2>2. peers[n] \o <<p, q>> \in Seq(Nodes) /\ Append(peers[n], q) \in Seq(Nodes)
    BY <2>1 DEF IInv, ListsOK
  <2>3. peers' = [peers EXCEPT ![n] = peers[n] \o <<p, q>>] \/ peers' = [peers EXCEPT ![n] = Append(peers[n], q)]
    BY <1>1
  <2> QED BY <2>2, <2>3 DEF IInv, ListsOK
<1>11. NoSelf'
  <2>1. peers'[n] = peers[n] \o <<p, q>> \/ peers'[n] = Append(peers[n], q)
    BY <1>1 DEF IInv, ListsOK
  <2>2. peers[n] \o <<p, q>> = Append(Append(peers[n], p), q)
    BY DEF IInv, ListsOK
  <2>3. ToSet(peers'[n]) \subseteq ToSet(peers[n]) \cup {p, q}
    <3>1. peers[n] \in Seq(Nodes) /\ Append(peers[n], p) \in Seq(Nodes)
      BY DEF IInv, ListsOK
    <3>2. \A s \in Seq(Nodes), x \in Nodes : ToSet(Append(s, x)) = ToSet(s) \cup {x}
      BY AppendElements
    <3>3. ToSet(Append(peers[n], p)) = ToSet(peers[n]) \cup {p}
      BY <3>1, <3>2
    <3>4. ToSet(Append(Append(peers[n], p), q)) = ToSet(Append(peers[n], p)) \cup {q}
      BY <3>1, <3>2
    <3>5. ToSet(Append(Append(peers[n], p), q)) \subseteq ToSet(peers[n]) \cup {p, q}
      BY <3>3, <3>4
    <3>6. CASE peers'[n] = peers[n] \o <<p, q>>
      BY <2>2, <3>5, <3>6
    <3>7. CASE peers'[n] = Append(peers[n], q)
      BY <3>1, <3>2, <3>7
    <3> QED BY <2>1, <3>6, <3>7
  <2>4. \A k \in Nodes \ {n} : peers'[k] = peers[k]
    BY <1>1 DEF IInv, ListsOK
  <2> QED BY <1>1, <1>6, <2>3, <2>4 DEF IInv, NoSelf, Lists
<1>12. races' \in 0..network.races
  BY <1>1, NetworkType DEF IInv, ListsOK
<1> QED BY <1>1, <1>9, <1>10, <1>11, <1>12 DEF IInv, ListsOK

LEMMA HandleAddrInv == ASSUME IInv, NEW n \in Nodes, HandleAddr(n) PROVE IInv'
<1>1. PICK old \in Received(n, "addr") :
        /\ forwarded' = [forwarded EXCEPT ![n] = @ \cup {old.about}]
        /\ Reply(old, (IF Lists(n, old.about) THEN {} ELSE {Version(n, old.about)})
                      \cup IF old.about \in forwarded[n] THEN {}
                           ELSE {Addr(old.about, p) : p \in ToSet(peers[n]) \ {old.about}})
        /\ UNCHANGED <<network, up, greeting, peers, stops, races>>
  BY DEF HandleAddr
<1>2. old.about \in Nodes /\ old.about # n
  BY ReceivedOK
<1> DEFINE greet == IF Lists(n, old.about) THEN {} ELSE {Version(n, old.about)}
           gossip == IF old.about \in forwarded[n] THEN {}
                     ELSE {Addr(old.about, p) : p \in ToSet(peers[n]) \ {old.about}}
<1>3. \A msg \in greet : Sendable(msg) /\ Shaped(msg)
  BY <1>2, Sends DEF Shaped
<1>4. \A msg \in gossip : Sendable(msg) /\ Shaped(msg)
  <2>1. \A p \in ToSet(peers[n]) \ {old.about} :
          Sendable(Addr(old.about, p)) /\ Shaped(Addr(old.about, p))
    BY <1>2, Sends DEF Shaped
  <2> QED BY <2>1
<1>5. Reply(old, greet \cup gossip)
  BY <1>1
<1> HIDE DEF greet, gossip
<1>6. \A msg \in greet \cup gossip : Sendable(msg) /\ Shaped(msg)
  BY <1>3, <1>4
<1>7. NetOK(net)'
  BY <1>1, <1>5, <1>6, ReplyOK DEF IInv
<1>8. forwarded' \in [Nodes -> SUBSET Nodes]
  BY <1>1, <1>2 DEF IInv, ListsOK
<1> QED BY <1>1, <1>7, <1>8, MessagesOnly

LEMMA NextInv == ASSUME IInv, [Next]_vars PROVE IInv'
<1>1. CASE UNCHANGED vars
  BY <1>1 DEF vars, IInv, ListsOK, NetOK, Message, NoSelf, Lists
<1>2. CASE \E n \in Nodes : Start(n) \/ Stop(n) \/ Work(n)
  BY <1>2, StartInv, StopInv, GreetInv, HandleVersionInv, HandleVerackInv, RaceVeracksInv,
     HandleAddrInv DEF Work
<1> QED BY <1>1, <1>2 DEF Next

\* Lists and messages have their types, and messages are on their way only to
\* nodes that listen.
THEOREM TypeCorrect == Spec => []TypeOK
<1>1. Init => IInv
  BY InitInv
<1>2. IInv /\ [Next]_vars => IInv'
  BY NextInv
<1>3. IInv => TypeOK
  BY Typed
<1> QED BY <1>1, <1>2, <1>3, PTL DEF Spec

\* A node's address is passed from node to node and comes back to it, but it
\* never greets or lists itself: nobody sends an address to the node it is of.
THEOREM NobodyListsHimself == Spec => []NoSelf
<1>1. Init => IInv
  BY InitInv
<1>2. IInv /\ [Next]_vars => IInv'
  BY NextInv
<1>3. IInv => NoSelf
  BY DEF IInv
<1> QED BY <1>1, <1>2, <1>3, PTL DEF Spec

-----------------------------------------------------------------------------
LEMMA PeersOnceStep == ASSUME IInv, PeersOnce, [Next]_vars PROVE PeersOnce'
<1> SUFFICES ASSUME races' = 0 PROVE \A k \in Nodes : NoRepeats(peers'[k])
  BY DEF PeersOnce
<1>1. ASSUME NEW n \in Nodes, RaceVeracks(n) PROVE FALSE
  <2>1. races' = races + 1 /\ races \in Nat
    BY <1>1, NetworkType DEF RaceVeracks, IInv, ListsOK
  <2> QED BY <2>1
<1>2. races = 0 /\ \A k \in Nodes : NoRepeats(peers[k])
  <2>1. races' = races
    BY <1>1 DEF Next, Work, vars, Start, Stop, Greet, HandleVersion, HandleVerack, HandleAddr
  <2> QED BY <2>1 DEF PeersOnce
<1>3. ASSUME NEW n \in Nodes, HandleVerack(n) PROVE \A k \in Nodes : NoRepeats(peers'[k])
  <2>1. PICK p \in Nodes : peers' = [peers EXCEPT ![n] = IF Lists(n, p) THEN @ ELSE Append(@, p)]
    BY <1>3, ReceivedOK DEF HandleVerack
  <2>2. NoRepeats(peers'[n])
    <3>1. CASE Lists(n, p)
      BY <1>2, <2>1, <3>1 DEF IInv, ListsOK
    <3>2. CASE ~Lists(n, p)
      <4>1. peers'[n] = Append(peers[n], p) /\ peers[n] \in Seq(Nodes)
        BY <2>1, <3>2 DEF IInv, ListsOK
      <4>2. NoRepeats(peers[n]) /\ p \notin ToSet(peers[n])
        BY <1>2, <3>2 DEF Lists
      <4>3. p \in Nodes
        OBVIOUS
      <4>4. NoRepeats(Append(peers[n], p))
        BY <4>1, <4>2, <4>3, AppendNoRepeats
      <4> QED BY <4>1, <4>4
    <3> QED BY <3>1, <3>2
  <2> QED BY <1>2, <2>1, <2>2 DEF IInv, ListsOK
<1>4. ASSUME NEW n \in Nodes, Stop(n) PROVE \A k \in Nodes : NoRepeats(peers'[k])
  <2>1. NoRepeats(<<>>)
    BY DEF NoRepeats
  <2> QED BY <1>2, <1>4, <2>1 DEF Stop, IInv, ListsOK
<1>5. CASE UNCHANGED peers
  BY <1>2, <1>5
<1> QED BY <1>1, <1>3, <1>4, <1>5
        DEF Next, Work, vars, Start, Greet, HandleVersion, HandleAddr

\* As long as no two verack handlers of a node overlap, no peer is listed
\* twice, whatever was sent twice and whoever was restarted.
THEOREM PeersListedOnce == Spec => []PeersOnce
<1>1. Init => IInv /\ PeersOnce
  <2>1. NoRepeats(<<>>)
    BY DEF NoRepeats
  <2>2. Init => PeersOnce
    BY <2>1 DEF Init, PeersOnce
  <2> QED BY <2>2, InitInv
<1>2. IInv /\ PeersOnce /\ [Next]_vars => (IInv /\ PeersOnce)'
  BY NextInv, PeersOnceStep
<1> QED BY <1>1, <1>2, PTL DEF Spec

-----------------------------------------------------------------------------
(* Who lists whom.                                                         *)

OnItsWay(msg) == msg \in BagToSet(net)

\* A step that takes the messages in `gone`, or copies of them, off the net
\* and sends those in `msgs`.
Moves(gone, msgs) ==
  /\ BagToSet(net) \ gone \subseteq BagToSet(net')
  /\ BagToSet(net') \subseteq BagToSet(net) \cup {msg \in msgs : msg.to \in up}
  /\ \A msg \in msgs : msg.to \in up => msg \in BagToSet(net')

\* What is sent to a node that listens is on its way, or a copy of it is: a
\* message is left out only when there is one already.
LEMMA PutMoves ==
  ASSUME NEW bag, IsABag(bag), network \in Networks, NEW msgs, Put(bag, msgs)
  PROVE  /\ BagToSet(bag) \subseteq BagToSet(net')
         /\ BagToSet(net') \subseteq BagToSet(bag) \cup {msg \in msgs : msg.to \in up}
         /\ \A msg \in msgs : msg.to \in up => msg \in BagToSet(net')
<1> DEFINE new == {msg \in msgs : msg.to \in up /\ Copies(msg, bag) < network.copies}
<1>1. net' = bag (+) SetToBag(new)
  BY DEF Put
<1> HIDE DEF new
<1>2. BagToSet(net') = BagToSet(bag) \cup new
  BY <1>1, SetToBagType, BagUnionType
<1>3. \A msg \in msgs : msg.to \in up /\ msg \notin BagToSet(bag) => msg \in new
  BY NetworkType DEF new, Copies, BagIn
<1> QED BY <1>2, <1>3 DEF new

LEMMA ReplyMoves ==
  ASSUME IInv, NEW old, NEW msgs, Reply(old, msgs)
  PROVE  Moves({old}, msgs)
<1> DEFINE bag == BagRemove(net, old)
<1>1. IsABag(bag) /\ BagToSet(bag) \subseteq BagToSet(net)
  BY BagRemoveType DEF IInv, NetOK
<1>2. BagToSet(net) \ {old} \subseteq BagToSet(bag)
  BY DEF BagRemove, BagToSet
<1>3. Put(bag, msgs) /\ network \in Networks
  BY DEF Reply, IInv, ListsOK
<1> HIDE DEF bag
<1> QED BY <1>1, <1>2, <1>3, PutMoves DEF Moves

LEMMA GreetMoves ==
  ASSUME IInv, NEW n, NEW p, Put(net, {Version(n, p)})
  PROVE  Moves({}, {Version(n, p)})
<1>1. IsABag(net) /\ network \in Networks
  BY DEF IInv, NetOK, ListsOK
<1> QED BY <1>1, PutMoves DEF Moves

\* A message received is the one its kind and its parties make it.
LEMMA ReceivedIs ==
  ASSUME IInv, NEW n, NEW kind, NEW msg \in Received(n, kind)
  PROVE  /\ OnItsWay(msg) /\ n \in up
         /\ kind = "version" => msg = Version(msg.about, n)
         /\ kind = "verack" => msg = Verack(msg.about, n)
         /\ kind = "addr" => msg = Addr(msg.about, n)
BY DEF IInv, NetOK, Message, Received, Version, Verack, Addr, OnItsWay

\* The parties of a message can be told from it.
LEMMA MessagesDiffer ==
  ASSUME NEW a, NEW b, NEW c, NEW d
  PROVE  /\ Version(a, b) = Version(c, d) <=> a = c /\ b = d
         /\ Verack(a, b) = Verack(c, d) <=> a = c /\ b = d
         /\ Version(a, b) # Verack(c, d) /\ Version(a, b) # Addr(c, d) /\ Verack(a, b) # Addr(c, d)
         /\ Version(a, b).to = b /\ Verack(a, b).to = b /\ Addr(a, b).to = b
         /\ Version(a, b).about = a /\ Verack(a, b).about = a /\ Addr(a, b).about = a
<1>1. \A r, s : r = s => r.to = s.to /\ r.about = s.about /\ r.kind = s.kind
  OBVIOUS
<1>2. /\ Version(a, b).to = b /\ Verack(a, b).to = b /\ Addr(a, b).to = b
      /\ Version(a, b).about = a /\ Verack(a, b).about = a /\ Addr(a, b).about = a
      /\ Version(a, b).kind = "version" /\ Verack(a, b).kind = "verack" /\ Addr(a, b).kind = "addr"
  BY DEF Version, Verack, Addr
<1>3. /\ Version(c, d).to = d /\ Verack(c, d).to = d /\ Addr(c, d).to = d
      /\ Version(c, d).about = c /\ Verack(c, d).about = c /\ Addr(c, d).about = c
      /\ Version(c, d).kind = "version" /\ Verack(c, d).kind = "verack" /\ Addr(c, d).kind = "addr"
  BY DEF Version, Verack, Addr
<1>4. "version" # "verack" /\ "version" # "addr" /\ "verack" # "addr"
  OBVIOUS
<1>5. a = c /\ b = d => Version(a, b) = Version(c, d) /\ Verack(a, b) = Verack(c, d)
  OBVIOUS
<1> QED BY <1>1, <1>2, <1>3, <1>4, <1>5

\* Messages come from nodes that run, as long as none has stopped, and so do
\* the greetings of the start-up goroutine.
Senders ==
  /\ up \subseteq network.nodes
  /\ \A n \in Nodes : greeting[n] # {} => n \in up
  /\ \A msg \in BagToSet(net) : msg.about \in network.nodes /\ (stops = 0 => msg.about \in up)

\* The work of a node that runs sends messages about it and about those it
\* received a message about.
LEMMA SendersKept ==
  ASSUME IInv, Senders, NEW gone, NEW msgs, Moves(gone, msgs), UNCHANGED <<network, up, stops>>,
         \A n \in Nodes : greeting'[n] \subseteq greeting[n],
         \A msg \in msgs : msg.about \in up \/ \E old \in BagToSet(net) : msg.about = old.about
  PROVE  Senders'
<1>1. \A msg \in msgs : msg.about \in network.nodes /\ (stops = 0 => msg.about \in up)
  BY DEF Senders
<1>2. ASSUME NEW msg \in BagToSet(net')
      PROVE  msg.about \in network.nodes /\ (stops = 0 => msg.about \in up)
  BY <1>1 DEF Moves, Senders
<1>3. \A n \in Nodes : greeting'[n] # {} => n \in up
  BY DEF Senders
<1>4. up \subseteq network.nodes
  BY DEF Senders
<1>5. (BagToSet(net))' = BagToSet(net')
  OBVIOUS
<1> QED BY <1>2, <1>3, <1>4, <1>5 DEF Senders

\* What each handler takes off the net, and what it sends.
LEMMA GreetEffect ==
  ASSUME IInv, NEW n \in Nodes, Greet(n)
  PROVE  \E p \in greeting[n] :
           /\ greeting' = [greeting EXCEPT ![n] = @ \ {p}]
           /\ Moves({}, {Version(n, p)})
           /\ UNCHANGED <<network, up, peers, stops, races>>
BY GreetMoves DEF Greet

LEMMA HandleVersionEffect ==
  ASSUME IInv, NEW n \in Nodes, HandleVersion(n)
  PROVE  \E p \in Nodes :
           /\ n \in up /\ OnItsWay(Version(p, n))
           /\ Moves({Version(p, n)},
                    {Verack(n, p)} \cup IF Lists(n, p) THEN {} ELSE {Version(n, p)})
           /\ UNCHANGED <<network, up, greeting, peers, stops, races>>
<1>1. PICK old \in Received(n, "version") :
        /\ Reply(old, {Verack(n, old.about)}
                       \cup IF Lists(n, old.about) THEN {} ELSE {Version(n, old.about)})
        /\ UNCHANGED <<network, up, greeting, peers, forwarded, stops, races>>
  BY DEF HandleVersion
<1>2. old = Version(old.about, n) /\ OnItsWay(old) /\ n \in up /\ old.about \in Nodes
  BY ReceivedIs, ReceivedOK
<1>3. Moves({old}, {Verack(n, old.about)}
                     \cup IF Lists(n, old.about) THEN {} ELSE {Version(n, old.about)})
  BY <1>1, ReplyMoves
<1> QED BY <1>1, <1>2, <1>3

LEMMA HandleVerackEffect ==
  ASSUME IInv, NEW n \in Nodes, HandleVerack(n)
  PROVE  \E p \in Nodes :
           /\ n \in up /\ OnItsWay(Verack(p, n))
           /\ peers' = [peers EXCEPT ![n] = IF Lists(n, p) THEN @ ELSE Append(@, p)]
           /\ Moves({Verack(p, n)}, IF Lists(n, p) THEN {} ELSE {Addr(n, p)})
           /\ UNCHANGED <<network, up, greeting, stops, races>>
<1>1. PICK old \in Received(n, "verack") :
        /\ peers' = [peers EXCEPT ![n] = IF Lists(n, old.about) THEN @ ELSE Append(@, old.about)]
        /\ Reply(old, IF Lists(n, old.about) THEN {} ELSE {Addr(n, old.about)})
        /\ UNCHANGED <<network, up, greeting, forwarded, stops, races>>
  BY DEF HandleVerack
<1>2. old = Verack(old.about, n) /\ OnItsWay(old) /\ n \in up /\ old.about \in Nodes
  BY ReceivedIs, ReceivedOK
<1>3. Moves({old}, IF Lists(n, old.about) THEN {} ELSE {Addr(n, old.about)})
  BY <1>1, ReplyMoves
<1> QED BY <1>1, <1>2, <1>3

LEMMA HandleAddrEffect ==
  ASSUME IInv, NEW n \in Nodes, HandleAddr(n)
  PROVE  \E a \in Nodes : \E more :
           /\ n \in up /\ OnItsWay(Addr(a, n))
           /\ more \subseteq {Addr(a, p) : p \in Nodes}
           /\ Moves({Addr(a, n)}, (IF Lists(n, a) THEN {} ELSE {Version(n, a)}) \cup more)
           /\ UNCHANGED <<network, up, greeting, peers, stops, races>>
<1>1. PICK old \in Received(n, "addr") :
        /\ forwarded' = [forwarded EXCEPT ![n] = @ \cup {old.about}]
        /\ Reply(old, (IF Lists(n, old.about) THEN {} ELSE {Version(n, old.about)})
                      \cup IF old.about \in forwarded[n] THEN {}
                           ELSE {Addr(old.about, p) : p \in ToSet(peers[n]) \ {old.about}})
        /\ UNCHANGED <<network, up, greeting, peers, stops, races>>
  BY DEF HandleAddr
<1> DEFINE gossip == IF old.about \in forwarded[n] THEN {}
                     ELSE {Addr(old.about, p) : p \in ToSet(peers[n]) \ {old.about}}
           answer == IF Lists(n, old.about) THEN {} ELSE {Version(n, old.about)}
<1>2. old = Addr(old.about, n) /\ OnItsWay(old) /\ n \in up /\ old.about \in Nodes
  BY ReceivedIs, ReceivedOK
<1>3. Reply(old, answer \cup gossip)
  BY <1>1
<1>4. Moves({old}, answer \cup gossip)
  <2> HIDE DEF answer, gossip
  <2> QED BY <1>3, ReplyMoves
<1>5. gossip \subseteq {Addr(old.about, p) : p \in Nodes}
  <2>1. ToSet(peers[n]) \subseteq Nodes
    BY DEF IInv, ListsOK, ToSet
  <2> QED BY <2>1
<1> HIDE DEF gossip
<1> QED BY <1>1, <1>2, <1>4, <1>5

LEMMA RaceVeracksEffect ==
  ASSUME IInv, NEW n \in Nodes, RaceVeracks(n)
  PROVE  \E p, q \in Nodes :
           /\ n \in up /\ OnItsWay(Verack(p, n)) /\ OnItsWay(Verack(q, n))
           /\ peers' = [peers EXCEPT ![n] = @ \o <<p, q>>] \/ peers' = [peers EXCEPT ![n] = Append(@, q)]
           /\ Moves({Verack(p, n), Verack(q, n)}, {Addr(n, p), Addr(n, q)})
           /\ UNCHANGED <<network, up, greeting, stops>>
           /\ network.races # 0 /\ races' # 0
<1>1. PICK p \in Nodes \ ToSet(peers[n]), q \in Nodes \ ToSet(peers[n]) :
        LET two == SetToBag({Verack(p, n)}) (+) SetToBag({Verack(q, n)})
        IN  /\ two \sqsubseteq net
            /\ races < network.races
            /\ races' = races + 1
            /\ \/ peers' = [peers EXCEPT ![n] = @ \o <<p, q>>]
               \/ peers' = [peers EXCEPT ![n] = Append(@, q)]
            /\ Put(net (-) two, {Addr(n, p), Addr(n, q)})
            /\ UNCHANGED <<network, up, greeting, forwarded, stops>>
  BY DEF RaceVeracks
<1> DEFINE one == SetToBag({Verack(p, n)})
           other == SetToBag({Verack(q, n)})
           two == one (+) other
           bag == net (-) two
<1>2. IsABag(two) /\ BagToSet(two) = {Verack(p, n), Verack(q, n)}
  <2>1. IsABag(one) /\ BagToSet(one) = {Verack(p, n)} /\ IsABag(other) /\ BagToSet(other) = {Verack(q, n)}
    BY SetToBagType
  <2> HIDE DEF one, other
  <2> QED BY <2>1, BagUnionType
<1>3. two \sqsubseteq net /\ Put(bag, {Addr(n, p), Addr(n, q)})
  BY <1>1
<1> HIDE DEF two
<1>4. OnItsWay(Verack(p, n)) /\ OnItsWay(Verack(q, n))
  BY <1>2, <1>3 DEF \sqsubseteq, BagToSet, OnItsWay
<1>5. n \in up
  <2>1. Verack(p, n).to = n
    BY DEF Verack
  <2> QED BY <1>4, <2>1 DEF IInv, NetOK, Message, OnItsWay
<1>6. IsABag(bag) /\ BagToSet(bag) \subseteq BagToSet(net) /\ BagToSet(net) \ BagToSet(two) \subseteq BagToSet(bag)
  <2>1. IsABag(net)
    BY DEF IInv, NetOK
  <2>2. IsABag(bag) /\ BagToSet(bag) \subseteq BagToSet(net)
    BY <1>2, <2>1, BagMinusType
  <2>3. BagToSet(net) \ BagToSet(two) \subseteq BagToSet(bag)
    BY <1>2, <2>1, BagMinusKeeps
  <2> QED BY <2>2, <2>3
<1>7. Moves({Verack(p, n), Verack(q, n)}, {Addr(n, p), Addr(n, q)})
  <2> DEFINE msgs == {Addr(n, p), Addr(n, q)}
  <2> HIDE DEF bag, msgs
  <2>1. Put(bag, msgs) /\ network \in Networks
    BY <1>3 DEF IInv, ListsOK, msgs
  <2> QED BY <1>2, <1>6, <2>1, PutMoves DEF Moves, msgs
<1>8. races' # 0 /\ network.races # 0
  <2>1. races \in Nat /\ network.races \in Nat
    BY NetworkType DEF IInv, ListsOK
  <2> QED BY <1>1, <2>1
<1> QED BY <1>1, <1>4, <1>5, <1>7, <1>8

LEMMA SendersStep == ASSUME IInv, Senders, [Next]_vars PROVE Senders'
<1>1. ASSUME NEW n \in Nodes, Start(n) PROVE Senders'
  BY <1>1 DEF Start, Senders, IInv, ListsOK
<1>2. ASSUME NEW n \in Nodes, Stop(n) PROVE Senders'
  <2>1. BagToSet(net') \subseteq BagToSet(net)
    BY <1>2 DEF Stop, BagToSet
  <2>2. stops' # 0
    <3>1. stops \in Nat
      BY NetworkType DEF IInv, ListsOK
    <3> QED BY <1>2, <3>1 DEF Stop
  <2>3. (BagToSet(net))' = BagToSet(net')
    OBVIOUS
  <2>4. \A k \in Nodes : greeting'[k] # {} => k \in up'
    BY <1>2 DEF Stop, Senders, IInv, ListsOK
  <2>5. network' = network /\ up' \subseteq network.nodes
    BY <1>2 DEF Stop, Senders
  <2> QED BY <2>1, <2>2, <2>3, <2>4, <2>5 DEF Senders
<1>3. ASSUME NEW n \in Nodes, Greet(n) PROVE Senders'
  <2>1. PICK p \in greeting[n] :
           /\ greeting' = [greeting EXCEPT ![n] = @ \ {p}]
           /\ Moves({}, {Version(n, p)})
           /\ UNCHANGED <<network, up, peers, stops, races>>
    BY <1>3, GreetEffect
  <2>2. n \in up
    BY DEF Senders
  <2>3. \A k \in Nodes : greeting'[k] \subseteq greeting[k]
    BY <2>1 DEF IInv, ListsOK
  <2>4. \A msg \in {Version(n, p)} : msg.about \in up
    BY <2>2, MessagesDiffer
  <2> QED BY <2>1, <2>3, <2>4, SendersKept
<1>4. ASSUME NEW n \in Nodes, HandleVersion(n) PROVE Senders'
  <2>1. PICK p \in Nodes :
           /\ n \in up /\ OnItsWay(Version(p, n))
           /\ Moves({Version(p, n)},
                    {Verack(n, p)} \cup IF Lists(n, p) THEN {} ELSE {Version(n, p)})
           /\ UNCHANGED <<network, up, greeting, peers, stops, races>>
    BY <1>4, HandleVersionEffect
  <2>2. \A msg \in {Verack(n, p)} \cup IF Lists(n, p) THEN {} ELSE {Version(n, p)} : msg.about \in up
    BY <2>1, MessagesDiffer
  <2> QED BY <2>1, <2>2, SendersKept
<1>5. ASSUME NEW n \in Nodes, HandleVerack(n) PROVE Senders'
  <2>1. PICK p \in Nodes :
           /\ n \in up /\ OnItsWay(Verack(p, n))
           /\ peers' = [peers EXCEPT ![n] = IF Lists(n, p) THEN @ ELSE Append(@, p)]
           /\ Moves({Verack(p, n)}, IF Lists(n, p) THEN {} ELSE {Addr(n, p)})
           /\ UNCHANGED <<network, up, greeting, stops, races>>
    BY <1>5, HandleVerackEffect
  <2>2. \A msg \in IF Lists(n, p) THEN {} ELSE {Addr(n, p)} : msg.about \in up
    BY <2>1, MessagesDiffer
  <2> QED BY <2>1, <2>2, SendersKept
<1>6. ASSUME NEW n \in Nodes, RaceVeracks(n) PROVE Senders'
  <2>1. PICK p, q \in Nodes :
           /\ n \in up /\ OnItsWay(Verack(p, n)) /\ OnItsWay(Verack(q, n))
           /\ peers' = [peers EXCEPT ![n] = @ \o <<p, q>>] \/ peers' = [peers EXCEPT ![n] = Append(@, q)]
           /\ Moves({Verack(p, n), Verack(q, n)}, {Addr(n, p), Addr(n, q)})
           /\ UNCHANGED <<network, up, greeting, stops>>
           /\ network.races # 0 /\ races' # 0
    BY <1>6, RaceVeracksEffect
  <2>2. \A msg \in {Addr(n, p), Addr(n, q)} : msg.about \in up
    <3>1. Addr(n, p).about = n /\ Addr(n, q).about = n
      BY MessagesDiffer
    <3> QED BY <2>1, <3>1
  <2> QED BY <2>1, <2>2, SendersKept
<1>7. ASSUME NEW n \in Nodes, HandleAddr(n) PROVE Senders'
  <2>1. PICK a \in Nodes : \E more :
           /\ n \in up /\ OnItsWay(Addr(a, n))
           /\ more \subseteq {Addr(a, p) : p \in Nodes}
           /\ Moves({Addr(a, n)}, (IF Lists(n, a) THEN {} ELSE {Version(n, a)}) \cup more)
           /\ UNCHANGED <<network, up, greeting, peers, stops, races>>
    BY <1>7, HandleAddrEffect
  <2>2. PICK more :
           /\ n \in up /\ OnItsWay(Addr(a, n))
           /\ more \subseteq {Addr(a, p) : p \in Nodes}
           /\ Moves({Addr(a, n)}, (IF Lists(n, a) THEN {} ELSE {Version(n, a)}) \cup more)
           /\ UNCHANGED <<network, up, greeting, peers, stops, races>>
    BY <2>1
  <2> DEFINE msgs == (IF Lists(n, a) THEN {} ELSE {Version(n, a)}) \cup more
  <2>3. \A msg \in more : msg.about = Addr(a, n).about
    BY <2>2, MessagesDiffer
  <2>4. \A msg \in msgs : msg.about \in up \/ \E old \in BagToSet(net) : msg.about = old.about
    BY <2>2, <2>3, MessagesDiffer DEF OnItsWay
  <2>5. Moves({Addr(a, n)}, msgs)
    BY <2>2
  <2> HIDE DEF msgs
  <2> QED BY <2>2, <2>4, <2>5, SendersKept
<1>8. CASE UNCHANGED vars
  BY <1>8 DEF vars, Senders
<1> QED BY <1>1, <1>2, <1>3, <1>4, <1>5, <1>6, <1>7, <1>8 DEF Next, Work

\* A verack adds its sender to the list.
LEMMA VerackLists ==
  ASSUME IInv, NEW k \in Nodes, NEW q \in Nodes,
         peers' = [peers EXCEPT ![k] = IF Lists(k, q) THEN @ ELSE Append(@, q)]
  PROVE  \A a, b \in Nodes : Lists(a, b)' <=> Lists(a, b) \/ (a = k /\ b = q)
<1>1. peers[k] \in Seq(Nodes) /\ peers \in [Nodes -> Seq(Nodes)]
  BY DEF IInv, ListsOK
<1>2. ToSet(Append(peers[k], q)) = ToSet(peers[k]) \cup {q}
  BY <1>1, AppendElements
<1>3. \A a \in Nodes \ {k} : peers'[a] = peers[a]
  BY <1>1
<1>4. ToSet(peers'[k]) = ToSet(peers[k]) \cup {q}
  <2>1. CASE Lists(k, q)
    <3>1. peers'[k] = peers[k]
      BY <1>1, <2>1
    <3> QED BY <2>1, <3>1 DEF Lists
  <2>2. CASE ~Lists(k, q)
    <3>1. peers'[k] = Append(peers[k], q)
      BY <1>1, <2>2
    <3> QED BY <1>2, <3>1
  <2> QED BY <2>1, <2>2
<1> QED BY <1>3, <1>4 DEF Lists

\* Whoever lists, or is about to list, a node is listed by it, or will be:
\* what is needed for that is on its way.
Returned ==
  stops = 0 /\ races = 0 =>
    \A n, p \in Nodes :
      Lists(p, n) \/ OnItsWay(Verack(n, p)) =>
        Lists(n, p) \/ OnItsWay(Version(n, p)) \/ OnItsWay(Verack(p, n))

LEMMA ReturnedStep ==
  ASSUME IInv, Senders, Returned, [Next]_vars
  PROVE  Returned'
<1> SUFFICES ASSUME stops' = 0, races' = 0 PROVE Returned'
  BY DEF Returned
<1>0. stops \in Nat /\ races \in Nat
  BY NetworkType DEF IInv, ListsOK
<1>2. ASSUME NEW n \in Nodes, Stop(n) PROVE FALSE
  <2>1. stops' = stops + 1
    BY <1>2 DEF Stop
  <2> QED BY <1>0, <2>1
<1>3. ASSUME NEW n \in Nodes, RaceVeracks(n) PROVE FALSE
  BY <1>3, RaceVeracksEffect
<1>4. stops = 0 /\ races = 0 /\ UNCHANGED <<stops, races>>
  BY <1>2, <1>3 DEF Next, Work, vars, Start, Greet, HandleVersion, HandleVerack, HandleAddr
<1>5. \A n, p \in Nodes :
        Lists(p, n) \/ OnItsWay(Verack(n, p)) =>
          Lists(n, p) \/ OnItsWay(Version(n, p)) \/ OnItsWay(Verack(p, n))
  BY <1>4 DEF Returned
<1> SUFFICES ASSUME NEW n \in Nodes, NEW p \in Nodes, (Lists(p, n) \/ OnItsWay(Verack(n, p)))'
             PROVE  (Lists(n, p) \/ OnItsWay(Version(n, p)) \/ OnItsWay(Verack(p, n)))'
  BY DEF Returned
<1> USE DEF OnItsWay
<1>6. ASSUME NEW k \in Nodes, Greet(k)
      PROVE  (Lists(n, p) \/ OnItsWay(Version(n, p)) \/ OnItsWay(Verack(p, n)))'
  <2>1. PICK q \in greeting[k] :
           /\ Moves({}, {Version(k, q)})
           /\ UNCHANGED <<network, up, peers, stops, races>>
    BY <1>6, GreetEffect
  <2>2. Lists(p, n) \/ OnItsWay(Verack(n, p))
    BY <2>1, MessagesDiffer DEF Moves, Lists
  <2> QED BY <1>5, <2>1, <2>2 DEF Moves, Lists
<1>7. ASSUME NEW k \in Nodes, HandleVersion(k)
      PROVE  (Lists(n, p) \/ OnItsWay(Version(n, p)) \/ OnItsWay(Verack(p, n)))'
  <2>1. PICK q \in Nodes :
           /\ k \in up /\ OnItsWay(Version(q, k))
           /\ Moves({Version(q, k)},
                    {Verack(k, q)} \cup IF Lists(k, q) THEN {} ELSE {Version(k, q)})
           /\ UNCHANGED <<network, up, greeting, peers, stops, races>>
    BY <1>7, HandleVersionEffect
  <2>2. q \in up
    <3>1. Version(q, k).about = q
      BY MessagesDiffer
    <3> QED BY <1>4, <2>1, <3>1 DEF Senders
  <2>3. OnItsWay(Verack(k, q))' /\ (~Lists(k, q) => OnItsWay(Version(k, q))')
    BY <2>1, <2>2, MessagesDiffer DEF Moves
  <2>4. \A a, b \in Nodes : Lists(a, b)' <=> Lists(a, b)
    BY <2>1 DEF Lists
  <2>5. CASE n = k /\ p = q
    BY <2>3, <2>4, <2>5
  <2>6. CASE n = q /\ p = k
    BY <2>3, <2>6
  <2>7. CASE ~(n = k /\ p = q) /\ ~(n = q /\ p = k)
    <3>1. Verack(n, p) # Verack(k, q) /\ Version(n, p) # Version(q, k)
      BY <2>7, MessagesDiffer
    <3>2. OnItsWay(Verack(n, p))' => OnItsWay(Verack(n, p))
      BY <2>1, <3>1, MessagesDiffer DEF Moves
    <3>3. /\ OnItsWay(Version(n, p)) => OnItsWay(Version(n, p))'
          /\ OnItsWay(Verack(p, n)) => OnItsWay(Verack(p, n))'
      BY <2>1, <3>1, MessagesDiffer DEF Moves
    <3> QED BY <1>5, <2>4, <3>2, <3>3
  <2> QED BY <2>5, <2>6, <2>7
<1>8. ASSUME NEW k \in Nodes, HandleVerack(k)
      PROVE  (Lists(n, p) \/ OnItsWay(Version(n, p)) \/ OnItsWay(Verack(p, n)))'
  <2>1. PICK q \in Nodes :
           /\ k \in up /\ OnItsWay(Verack(q, k))
           /\ peers' = [peers EXCEPT ![k] = IF Lists(k, q) THEN @ ELSE Append(@, q)]
           /\ Moves({Verack(q, k)}, IF Lists(k, q) THEN {} ELSE {Addr(k, q)})
           /\ UNCHANGED <<network, up, greeting, stops, races>>
    BY <1>8, HandleVerackEffect
  <2>2. \A a, b \in Nodes : Lists(a, b)' <=> Lists(a, b) \/ (a = k /\ b = q)
    BY <2>1, VerackLists
  <2>3. OnItsWay(Verack(n, p))' => OnItsWay(Verack(n, p))
    <3> DEFINE msgs == IF Lists(k, q) THEN {} ELSE {Addr(k, q)}
    <3>1. Verack(n, p) \notin msgs
      BY MessagesDiffer
    <3>2. Moves({Verack(q, k)}, msgs)
      BY <2>1
    <3> HIDE DEF msgs
    <3> QED BY <3>1, <3>2 DEF Moves
  <2>4. Lists(p, n) \/ OnItsWay(Verack(n, p))
    BY <2>1, <2>2, <2>3
  <2>5. OnItsWay(Version(n, p)) => OnItsWay(Version(n, p))'
    BY <2>1, MessagesDiffer DEF Moves
  <2>6. OnItsWay(Verack(p, n)) => OnItsWay(Verack(p, n))' \/ (n = k /\ p = q)
    BY <2>1, MessagesDiffer DEF Moves
  <2> QED BY <1>5, <2>2, <2>4, <2>5, <2>6
<1>9. ASSUME NEW k \in Nodes, HandleAddr(k)
      PROVE  (Lists(n, p) \/ OnItsWay(Version(n, p)) \/ OnItsWay(Verack(p, n)))'
  <2>1. PICK a \in Nodes : \E more :
           /\ more \subseteq {Addr(a, b) : b \in Nodes}
           /\ Moves({Addr(a, k)}, (IF Lists(k, a) THEN {} ELSE {Version(k, a)}) \cup more)
           /\ UNCHANGED <<network, up, greeting, peers, stops, races>>
    BY <1>9, HandleAddrEffect
  <2>2. PICK more :
           /\ more \subseteq {Addr(a, b) : b \in Nodes}
           /\ Moves({Addr(a, k)}, (IF Lists(k, a) THEN {} ELSE {Version(k, a)}) \cup more)
           /\ UNCHANGED <<network, up, greeting, peers, stops, races>>
    BY <2>1
  <2>3. OnItsWay(Verack(n, p))' => OnItsWay(Verack(n, p))
    <3>1. Verack(n, p) \notin more /\ Verack(n, p) # Version(k, a)
      BY <2>2, MessagesDiffer
    <3> QED BY <2>2, <3>1 DEF Moves
  <2>4. /\ OnItsWay(Version(n, p)) => OnItsWay(Version(n, p))'
        /\ OnItsWay(Verack(p, n)) => OnItsWay(Verack(p, n))'
    BY <2>2, MessagesDiffer DEF Moves
  <2> QED BY <1>5, <2>2, <2>3, <2>4 DEF Lists
<1>1. ASSUME NEW k \in Nodes, Start(k)
      PROVE  (Lists(n, p) \/ OnItsWay(Version(n, p)) \/ OnItsWay(Verack(p, n)))'
  BY <1>1, <1>5 DEF Start, Lists
<1>10. CASE UNCHANGED vars
  BY <1>5, <1>10 DEF vars, Lists
<1> QED BY <1>1, <1>2, <1>3, <1>6, <1>7, <1>8, <1>9, <1>10 DEF Next, Work

\* As long as no node stops and no handlers race, peers end up listing each
\* other, however many nodes start, in whatever order.
THEOREM PeersListEachOther == Spec => []ListsMutual
<1>1. Init => IInv /\ Senders /\ Returned
  <2> SUFFICES ASSUME Init PROVE Senders /\ Returned
    BY InitInv
  <2>1. BagToSet(net) = {}
    BY EmptyBagType DEF Init
  <2> QED BY <2>1 DEF Init, Senders, Returned, Lists, ToSet, OnItsWay
<1>2. IInv /\ Senders /\ Returned /\ [Next]_vars => (IInv /\ Senders /\ Returned)'
  BY NextInv, SendersStep, ReturnedStep
<1>3. Returned => ListsMutual
  <2>1. BagToSet(EmptyBag) = {}
    BY EmptyBagType
  <2> QED BY <2>1 DEF Returned, ListsMutual, Quiet, OnItsWay
<1> QED BY <1>1, <1>2, <1>3, PTL DEF Spec

\* Node n lists p, or something under way makes it: a greeting to be sent, a
\* version or a verack message.
Connects(n, p) ==
  \/ Lists(n, p) \/ OnItsWay(Verack(p, n))
  \/ OnItsWay(Version(n, p)) \/ OnItsWay(Version(p, n))
  \/ p \in greeting[n] \/ n \in greeting[p]

\* The initial peers that run are connected, or something under way connects
\* them.
Connecting ==
  LosesNoAppend(network) =>
    \A n, p \in network.initialPeers \cap up :
      n # p => Connects(n, p)

\* Where no append is lost, overlapping verack handlers add both senders.
LEMMA RaceLists ==
  ASSUME IInv, Senders, LosesNoAppend(network), NEW k \in Nodes, RaceVeracks(k)
  PROVE  \E p \in Nodes, q \in Nodes :
           /\ Moves({Verack(p, k), Verack(q, k)}, {Addr(k, p), Addr(k, q)})
           /\ \A a, b \in Nodes : Lists(a, b)' <=> Lists(a, b) \/ (a = k /\ b \in {p, q})
<1>1. PICK p, q \in Nodes :
           /\ k \in up /\ OnItsWay(Verack(p, k)) /\ OnItsWay(Verack(q, k))
           /\ peers' = [peers EXCEPT ![k] = @ \o <<p, q>>] \/ peers' = [peers EXCEPT ![k] = Append(@, q)]
           /\ Moves({Verack(p, k), Verack(q, k)}, {Addr(k, p), Addr(k, q)})
           /\ UNCHANGED <<network, up, greeting, stops>>
           /\ network.races # 0 /\ races' # 0
  BY RaceVeracksEffect
<1>2. p = q
  <2>1. PICK c, d \in Nodes : network.nodes \subseteq {c, d}
    BY <1>1 DEF LosesNoAppend
  <2>2. /\ Verack(p, k).about = p /\ Verack(p, k).to = k
        /\ Verack(q, k).about = q /\ Verack(q, k).to = k
    BY MessagesDiffer
  <2>3. p # k /\ q # k
    BY <1>1, <2>2 DEF IInv, NetOK, OnItsWay
  <2>4. {p, q, k} \subseteq {c, d}
    BY <1>1, <2>1, <2>2 DEF Senders, OnItsWay
  <2> QED BY <2>3, <2>4
<1>3. peers[k] \in Seq(Nodes) /\ peers \in [Nodes -> Seq(Nodes)]
  BY DEF IInv, ListsOK
<1>4. ToSet(peers'[k]) = ToSet(peers[k]) \cup {p, q}
  <2>1. \A s \in Seq(Nodes), x \in Nodes : ToSet(Append(s, x)) = ToSet(s) \cup {x}
    BY AppendElements
  <2>2. peers[k] \o <<p, q>> = Append(Append(peers[k], p), q) /\ Append(peers[k], p) \in Seq(Nodes)
    BY <1>3
  <2>3. ToSet(Append(Append(peers[k], p), q)) = ToSet(peers[k]) \cup {p, q}
    <3>1. ToSet(Append(peers[k], p)) = ToSet(peers[k]) \cup {p}
      BY <1>3, <2>1
    <3>2. ToSet(Append(Append(peers[k], p), q)) = ToSet(Append(peers[k], p)) \cup {q}
      BY <2>1, <2>2
    <3> QED BY <3>1, <3>2
  <2>4. CASE peers' = [peers EXCEPT ![k] = @ \o <<p, q>>]
    <3>1. peers'[k] = peers[k] \o <<p, q>>
      BY <1>3, <2>4
    <3> QED BY <2>2, <2>3, <3>1
  <2>5. CASE peers' = [peers EXCEPT ![k] = Append(@, q)]
    <3>1. peers'[k] = Append(peers[k], q)
      BY <1>3, <2>5
    <3>2. ToSet(Append(peers[k], q)) = ToSet(peers[k]) \cup {q}
      BY <1>3, <2>1
    <3> QED BY <1>2, <3>1, <3>2
  <2> QED BY <1>1, <2>4, <2>5
<1>5. \A a \in Nodes \ {k} : peers'[a] = peers[a]
  BY <1>1, <1>3
<1> QED BY <1>1, <1>4, <1>5 DEF Lists

\* A step of a node that works keeps `n` and `p` connecting.
LEMMA WorkConnects ==
  ASSUME IInv, Senders, LosesNoAppend(network), NEW n \in up, NEW p \in up, n # p,
         Connects(n, p), NEW k \in Nodes, Work(k)
  PROVE  Connects(n, p)'
<1> USE DEF OnItsWay
<1>0. n \in Nodes /\ p \in Nodes
  BY DEF IInv, ListsOK
<1>1. CASE Greet(k)
  <2>1. PICK q \in greeting[k] :
           /\ greeting' = [greeting EXCEPT ![k] = @ \ {q}]
           /\ Moves({}, {Version(k, q)})
           /\ UNCHANGED <<network, up, peers, stops, races>>
    BY <1>1, GreetEffect
  <2>2. q \in up => OnItsWay(Version(k, q))'
    BY <2>1, MessagesDiffer DEF Moves
  <2>3. p \in greeting[n] => p \in greeting'[n] \/ (n = k /\ p = q)
    BY <1>0, <2>1 DEF IInv, ListsOK
  <2>4. n \in greeting[p] => n \in greeting'[p] \/ (p = k /\ n = q)
    BY <1>0, <2>1 DEF IInv, ListsOK
  <2>5. BagToSet(net) \subseteq BagToSet(net')
    BY <2>1 DEF Moves
  <2> QED BY <2>1, <2>2, <2>3, <2>4, <2>5 DEF Connects, Lists
<1>2. CASE HandleVersion(k)
  <2>1. PICK q \in Nodes :
           /\ k \in up /\ OnItsWay(Version(q, k))
           /\ Moves({Version(q, k)},
                    {Verack(k, q)} \cup IF Lists(k, q) THEN {} ELSE {Version(k, q)})
           /\ UNCHANGED <<network, up, greeting, peers, stops, races>>
    BY <1>2, HandleVersionEffect
  <2>2. q \in up => OnItsWay(Verack(k, q))' /\ (~Lists(k, q) => OnItsWay(Version(k, q))')
    BY <2>1, MessagesDiffer DEF Moves
  <2>3. BagToSet(net) \ {Version(q, k)} \subseteq BagToSet(net')
    BY <2>1 DEF Moves
  <2>4. CASE n = q /\ p = k  \* its version message: the verack goes to n
    BY <2>2, <2>4 DEF Connects
  <2>5. CASE n = k /\ p = q  \* the other's: listed, or asked for a verack
    <3>1. Lists(n, p)' \/ OnItsWay(Version(n, p))'
      BY <2>1, <2>2, <2>5 DEF Lists
    <3> QED BY <3>1 DEF Connects
  <2>6. CASE ~(n = q /\ p = k) /\ ~(n = k /\ p = q)
    <3>1. Version(q, k) # Version(n, p) /\ Version(q, k) # Version(p, n) /\ Version(q, k) # Verack(p, n)
      BY <2>6, MessagesDiffer
    <3> QED BY <2>1, <2>3, <3>1 DEF Connects, Lists
  <2> QED BY <2>4, <2>5, <2>6
<1>3. CASE HandleVerack(k)
  <2>1. PICK q \in Nodes :
           /\ peers' = [peers EXCEPT ![k] = IF Lists(k, q) THEN @ ELSE Append(@, q)]
           /\ Moves({Verack(q, k)}, IF Lists(k, q) THEN {} ELSE {Addr(k, q)})
           /\ UNCHANGED <<network, up, greeting, stops, races>>
    BY <1>3, HandleVerackEffect
  <2>2. Lists(n, p)' <=> Lists(n, p) \/ (n = k /\ p = q)
    BY <1>0, <2>1, VerackLists
  <2>3. BagToSet(net) \ {Verack(q, k)} \subseteq BagToSet(net')
    BY <2>1 DEF Moves
  <2>4. Version(n, p) # Verack(q, k) /\ Version(p, n) # Verack(q, k)
    BY MessagesDiffer
  <2>5. Verack(p, n) = Verack(q, k) => n = k /\ p = q
    BY MessagesDiffer
  <2> QED BY <2>1, <2>2, <2>3, <2>4, <2>5 DEF Connects
<1>4. CASE RaceVeracks(k)
  <2>1. PICK q, r \in Nodes :
           /\ Moves({Verack(q, k), Verack(r, k)}, {Addr(k, q), Addr(k, r)})
           /\ \A a, b \in Nodes : Lists(a, b)' <=> Lists(a, b) \/ (a = k /\ b \in {q, r})
    BY <1>4, RaceLists
  <2>2. Lists(n, p)' <=> Lists(n, p) \/ (n = k /\ p \in {q, r})
    BY <1>0, <2>1
  <2>3. BagToSet(net) \ {Verack(q, k), Verack(r, k)} \subseteq BagToSet(net')
    BY <2>1 DEF Moves
  <2>4. /\ Version(n, p) # Verack(q, k) /\ Version(p, n) # Verack(q, k)
        /\ Version(n, p) # Verack(r, k) /\ Version(p, n) # Verack(r, k)
    BY MessagesDiffer
  <2>5. /\ Verack(p, n) = Verack(q, k) => n = k /\ p = q
        /\ Verack(p, n) = Verack(r, k) => n = k /\ p = r
    BY MessagesDiffer
  <2>6. greeting' = greeting
    BY <1>4 DEF RaceVeracks
  <2> QED BY <2>2, <2>3, <2>4, <2>5, <2>6 DEF Connects
<1>5. CASE HandleAddr(k)
  <2>1. PICK a \in Nodes : \E more :
           /\ Moves({Addr(a, k)}, (IF Lists(k, a) THEN {} ELSE {Version(k, a)}) \cup more)
           /\ UNCHANGED <<network, up, greeting, peers, stops, races>>
    BY <1>5, HandleAddrEffect
  <2>2. BagToSet(net) \ {Addr(a, k)} \subseteq BagToSet(net')
    BY <2>1 DEF Moves
  <2>3. Version(n, p) # Addr(a, k) /\ Version(p, n) # Addr(a, k) /\ Verack(p, n) # Addr(a, k)
    BY MessagesDiffer
  <2> QED BY <2>1, <2>2, <2>3 DEF Connects, Lists
<1> QED BY <1>1, <1>2, <1>3, <1>4, <1>5 DEF Work

LEMMA ConnectingStep ==
  ASSUME IInv, Senders, Connecting, [Next]_vars
  PROVE  Connecting'
<1>1. network' = network
  BY DEF Next, vars, Work, Start, Stop, Greet, HandleVersion, HandleVerack, RaceVeracks, HandleAddr
<1> SUFFICES ASSUME LosesNoAppend(network),
                    NEW n \in network.initialPeers \cap up', NEW p \in network.initialPeers \cap up',
                    n # p
             PROVE  Connects(n, p)'
  BY <1>1 DEF Connecting, LosesNoAppend
<1>2. \A a, b \in network.initialPeers \cap up : a # b => Connects(a, b)
  BY DEF Connecting
<1>3. n \in Nodes /\ p \in Nodes
  BY NetworkType DEF IInv, ListsOK
<1>4. ASSUME NEW k \in Nodes, Start(k) PROVE Connects(n, p)'
  <2>1. /\ up' = up \cup {k} /\ UNCHANGED <<peers, net>>
        /\ greeting' = [greeting EXCEPT ![k] = network.initialPeers \ {k}]
    BY <1>4 DEF Start
  <2>2. CASE k \in {n, p}
    BY <1>3, <2>1, <2>2 DEF Connects, IInv, ListsOK
  <2>3. CASE k \notin {n, p}
    <3>1. n \in up /\ p \in up
      BY <2>1, <2>3
    <3>2. greeting'[n] = greeting[n] /\ greeting'[p] = greeting[p]
      BY <1>3, <2>1, <2>3 DEF IInv, ListsOK
    <3> QED BY <1>2, <2>1, <3>1, <3>2 DEF Connects, Lists, OnItsWay
  <2> QED BY <2>2, <2>3
<1>5. ASSUME NEW k \in Nodes, Stop(k) PROVE Connects(n, p)'
  <2>1. n \in up \ {k} /\ p \in up \ {k}
    BY <1>5 DEF Stop
  <2>2. greeting'[n] = greeting[n] /\ greeting'[p] = greeting[p] /\ peers'[n] = peers[n]
    BY <1>3, <1>5, <2>1 DEF Stop, IInv, ListsOK
  <2>3. \A msg \in BagToSet(net) : msg.to # k => msg \in BagToSet(net')
    BY <1>5 DEF Stop, BagToSet
  <2>4. Version(n, p).to = p /\ Version(p, n).to = n /\ Verack(p, n).to = n
    BY MessagesDiffer
  <2> QED BY <1>2, <2>1, <2>2, <2>3, <2>4 DEF Connects, Lists, OnItsWay
<1>6. ASSUME NEW k \in Nodes, Work(k) PROVE Connects(n, p)'
  <2>1. up' = up
    BY <1>6 DEF Work, Greet, HandleVersion, HandleVerack, RaceVeracks, HandleAddr
  <2> QED BY <1>2, <1>6, <2>1, WorkConnects
<1>7. CASE UNCHANGED vars
  BY <1>2, <1>7 DEF vars, Connects, Lists, OnItsWay
<1> QED BY <1>4, <1>5, <1>6, <1>7 DEF Next

\* Where no append is lost, the initial peers that run are connected with one
\* another when all is quiet, in whichever order they started, stopped and
\* came back.
THEOREM InitialPeersMeet ==
  ASSUME \A w \in Networks : LosesNoAppend(w)
  PROVE  Spec => []InitialPeersConnect
<1>0. \A w \in Networks : LosesNoAppend(w)
  OBVIOUS
<1>1. Init => IInv /\ Senders /\ Connecting
  <2> SUFFICES ASSUME Init PROVE Senders /\ Connecting
    BY InitInv
  <2>1. BagToSet(net) = {}
    BY EmptyBagType DEF Init
  <2> QED BY <2>1 DEF Init, Senders, Connecting
<1>2. IInv /\ Senders /\ Connecting /\ [Next]_vars => (IInv /\ Senders /\ Connecting)'
  BY NextInv, SendersStep, ConnectingStep
<1>3. IInv /\ Connecting => InitialPeersConnect
  <2> SUFFICES ASSUME IInv, Connecting, Quiet,
                      NEW n \in network.initialPeers \cap up, NEW p \in network.initialPeers \cap up,
                      n # p
               PROVE  Lists(n, p) /\ Lists(p, n)
    BY DEF InitialPeersConnect, Mutual
  <2>1. BagToSet(net) = {} /\ greeting[n] = {} /\ greeting[p] = {}
    BY EmptyBagType, NetworkType DEF Quiet, IInv, ListsOK
  <2>2. LosesNoAppend(network)
    BY <1>0 DEF IInv, ListsOK
  <2> QED BY <2>1, <2>2 DEF Connecting, Connects, OnItsWay
<1> QED BY <1>1, <1>2, <1>3, PTL DEF Spec
=============================================================================
