----------------------------- MODULE SpvProofs -----------------------------
(* SPV nodes with any wallets, chains and transactions, however blocks and *)
(* messages overtake one another and nodes restart: the types, what is     *)
(* known of the headers stored and the outputs listed, and what a single   *)
(* node lists once its handlers are done.                                  *)
EXTENDS Spv, TLAPS

-----------------------------------------------------------------------------
(* What sending and handling messages does to a bag of them.               *)

\* Nothing has been sent to begin with.
LEMMA EmptyBagType == IsABag(EmptyBag) /\ BagToSet(EmptyBag) = {}
BY DEF IsABag, EmptyBag, SetToBag, BagToSet

\* One copy of each element of a set.
LEMMA SetToBagType ==
  ASSUME NEW S
  PROVE  IsABag(SetToBag(S)) /\ BagToSet(SetToBag(S)) = S
BY DEF IsABag, SetToBag, BagToSet

\* A message more.
LEMMA BagAddType ==
  ASSUME NEW B, NEW x, IsABag(B)
  PROVE  IsABag(BagAdd(B, x)) /\ BagToSet(BagAdd(B, x)) = BagToSet(B) \cup {x}
BY DEF IsABag, BagAdd, BagToSet

\* A message less: a copy of it may be left.
LEMMA BagRemoveType ==
  ASSUME NEW B, NEW x, IsABag(B)
  PROVE  IsABag(BagRemove(B, x)) /\ BagToSet(BagRemove(B, x)) \subseteq BagToSet(B)
BY DEF IsABag, BagRemove, BagToSet

\* The messages of two bags.
LEMMA BagUnionType ==
  ASSUME NEW A, NEW B, IsABag(A), IsABag(B)
  PROVE  IsABag(A (+) B) /\ BagToSet(A (+) B) = BagToSet(A) \cup BagToSet(B)
BY DEF IsABag, (+), BagToSet

\* The messages that are not lost, with all their copies.
LEMMA BagPartType ==
  ASSUME NEW B, IsABag(B), NEW S, S \subseteq BagToSet(B)
  PROVE  IsABag([x \in S |-> B[x]]) /\ BagToSet([x \in S |-> B[x]]) = S
BY DEF IsABag, BagToSet

-----------------------------------------------------------------------------
(* The constants.                                                          *)

\* A network's parts.
LEMMA SetupType ==
  ASSUME setup \in Setups
  PROVE  /\ setup.spvs \subseteq Spvs
         /\ setup.blocks \in Seq(Seq(Tx)) /\ Height \in Nat
         /\ setup.start \in 1..Height
         /\ setup.limit \in Nat \ {0}
         /\ setup.repeats \in Nat /\ setup.restarts \in Nat
BY SpvAssumption DEF Setup, Height

\* The transactions of a block are transactions.
LEMMA BlockTxns ==
  ASSUME setup \in Setups, NEW b \in 1..Height, NEW t \in ToSet(setup.blocks[b])
  PROVE  t \in Tx
<1>1. setup.blocks[b] \in Seq(Tx)
  BY SetupType DEF Height
<1> QED BY <1>1 DEF ToSet

\* The lesser of two heights is one of them, and not above either.
LEMMA MinOfTwo ==
  ASSUME NEW i \in Nat, NEW j \in Nat
  PROVE  Min({i, j}) \in {i, j} /\ Min({i, j}) <= i /\ Min({i, j}) <= j
<1>1. \E x \in {i, j} : \A y \in {i, j} : x <= y
  <2>1. CASE i <= j
    BY <2>1
  <2>2. CASE j <= i
    BY <2>2
  <2> QED BY <2>1, <2>2
<1> QED BY <1>1 DEF Min

-----------------------------------------------------------------------------
(* Messages.                                                               *)

\* A message received has the fields of its kind.
LEMMA ReceivedType ==
  ASSUME TypeOK, NEW n, NEW kind, NEW msg \in Received(n, kind)
  PROVE  /\ msg \in BagToSet(work) /\ MessageOK(msg) /\ msg.kind = kind /\ msg.to = n
         /\ kind = "getheaders" => msg.from \in setup.spvs /\ msg.top \in 1..Height
         /\ kind = "headers" => /\ n \in setup.spvs /\ msg.first <= msg.end
                                /\ msg.first \in 2..Height /\ msg.end \in 2..Height
         /\ kind = "filterload" => msg.from \in setup.spvs /\ msg.addrs \subseteq Addresses
         /\ kind \in CallKinds =>
              /\ n \in setup.spvs /\ msg.blk \in 1..Height /\ msg.tx \in Tx
              /\ msg.tx \in ToSet(setup.blocks[msg.blk])
BY DEF TypeOK, Received, MessageOK, Message, CallKinds

\* Messages of the kinds there are.
LEMMA GetheadersOK ==
  ASSUME TypeOK, NEW n \in setup.spvs, NEW p \in Servers \cup setup.spvs
  PROVE  MessageOK(Getheaders(n, p))
BY SetupType DEF TypeOK, MessageOK, Message, Getheaders, CallKinds

LEMMA HeadersOK ==
  ASSUME NEW p \in setup.spvs, NEW first \in 2..Height, NEW end \in 2..Height, first <= end
  PROVE  MessageOK(Headers(p, first, end))
BY DEF MessageOK, Message, Headers, CallKinds

LEMMA FilterloadOK ==
  ASSUME NEW n \in setup.spvs, NEW addrs \in SUBSET Addresses
  PROVE  MessageOK(Filterload(n, addrs))
BY DEF MessageOK, Message, Filterload, CallKinds

LEMMA MerkleblockOK ==
  ASSUME setup \in Setups, NEW n \in setup.spvs, NEW b \in 1..Height,
         NEW t \in ToSet(setup.blocks[b])
  PROVE  MessageOK(Merkleblock(n, b, t))
BY BlockTxns DEF MessageOK, Message, Merkleblock, CallKinds

LEMMA RenamedOK ==
  ASSUME NEW msg, MessageOK(msg), msg.kind \in CallKinds, NEW kind \in CallKinds
  PROVE  MessageOK([msg EXCEPT !.kind = kind]) /\ [msg EXCEPT !.kind = kind].kind = kind
<1>1. msg \in [kind : CallKinds, to : setup.spvs, blk : 1..Height, tx : Tx]
  BY DEF MessageOK, Message, CallKinds
<1>2. [msg EXCEPT !.kind = kind] = [kind |-> kind, to |-> msg.to, blk |-> msg.blk, tx |-> msg.tx]
  BY <1>1
<1> DEFINE new == [kind |-> kind, to |-> msg.to, blk |-> msg.blk, tx |-> msg.tx]
<1>3. new \in [kind : CallKinds, to : setup.spvs, blk : 1..Height, tx : Tx]
  BY <1>1
<1>4. MessageOK(new)
  <2>1. new.kind # "headers"
    BY DEF CallKinds
  <2>2. msg.tx \in ToSet(setup.blocks[msg.blk])
    BY DEF MessageOK
  <2> QED BY <1>3, <2>1, <2>2 DEF MessageOK, Message
<1> QED BY <1>2, <1>4

\* The networks do not change, so messages stay what they are.
LEMMA MessageOKStable ==
  ASSUME setup' = setup, NEW msg, MessageOK(msg)
  PROVE  MessageOK(msg)'
BY DEF MessageOK, Message, Height

\* Handling a message removes at most that message.
LEMMA DoneType ==
  ASSUME IsABag(work), NEW msg, NEW new, Done(msg, new)
  PROVE  IsABag(work') /\ BagToSet(work') \subseteq BagToSet(work) \cup new
<1> DEFINE left == BagRemove(work, msg)
           more == SetToBag(new)
<1>1. IsABag(left) /\ BagToSet(left) \subseteq BagToSet(work)
  BY BagRemoveType
<1>2. IsABag(more) /\ BagToSet(more) = new
  BY SetToBagType
<1>3. work' = left (+) more
  BY DEF Done
<1> HIDE DEF left, more
<1> QED BY <1>1, <1>2, <1>3, BagUnionType

\* Sending messages removes none.
LEMMA SentType ==
  ASSUME IsABag(work), NEW new, work' = work (+) SetToBag(new)
  PROVE  IsABag(work') /\ BagToSet(work') = BagToSet(work) \cup new
BY SetToBagType, BagUnionType

-----------------------------------------------------------------------------
(* Types.                                                                  *)

Asleep == {msg \in Message : MessageOK(msg) /\ msg.kind = "asleep"}

\* The types depend on the network only.
LEMMA SameTypes ==
  ASSUME setup' = setup
  PROVE  Height' = Height /\ Asleep' = Asleep
BY DEF Asleep, MessageOK, Message, Height

\* New messages that are typed leave the messages typed.
LEMMA WorkType ==
  ASSUME TypeOK, setup' = setup, IsABag(work'), NEW new,
         BagToSet(work') \subseteq BagToSet(work) \cup new,
         \A msg \in new : MessageOK(msg)
  PROVE  IsABag(work') /\ \A msg \in BagToSet(work') : MessageOK(msg)'
<1> SUFFICES ASSUME NEW msg \in BagToSet(work') PROVE MessageOK(msg)'
  OBVIOUS
<1>1. MessageOK(msg)
  BY DEF TypeOK
<1> QED BY <1>1, MessageOKStable

\* Everything but the messages and their handlers.
RestOK ==
  /\ setup \in Setups
  /\ have \in [Servers \cup Spvs -> SUBSET (1..Height)]
  /\ tip \in [Servers \cup Spvs -> 1..Height]
  /\ peers \in [{Full} \cup Spvs -> SUBSET (Servers \cup setup.spvs)]
  /\ monitored \in [Spvs -> SUBSET Addresses] /\ filter \in [Spvs -> SUBSET Addresses]
  /\ requesting \subseteq setup.spvs
  /\ utxo \in [Spvs -> SUBSET Outpoint]
  /\ promised \in [Spvs -> SUBSET Outpoint] /\ spent \in [Spvs -> SUBSET Outpoint]
  /\ repeats \in 0..setup.repeats /\ restarts \in 0..setup.restarts

LEMMA TypeParts ==
  TypeOK <=> /\ RestOK
             /\ IsABag(work) /\ \A msg \in BagToSet(work) : MessageOK(msg)
             /\ waiting \in [Spvs -> Seq(Asleep)]
BY DEF TypeOK, RestOK, Asleep

LEMMA InitType == Init => TypeOK
<1> SUFFICES ASSUME Init PROVE TypeOK
  OBVIOUS
<1>1. setup \in Setups /\ setup.start \in 1..Height /\ Height \in Nat
  BY SetupType DEF Init
<1>2. RestOK
  BY <1>1, SetupType, SpvAssumption DEF Init, RestOK
<1>3. IsABag(work) /\ BagToSet(work) = {}
  BY EmptyBagType DEF Init
<1>4. waiting \in [Spvs -> Seq(Asleep)]
  BY DEF Init
<1> QED BY <1>2, <1>3, <1>4, TypeParts

LEMMA ConnectType ==
  ASSUME TypeOK, NEW n \in {Full} \cup setup.spvs, NEW p \in Servers \cup setup.spvs,
         Connect(n, p)
  PROVE  TypeOK'
<1>1. setup' = setup /\ setup \in Setups /\ setup.spvs \subseteq Spvs
  BY SetupType DEF Connect, TypeOK
<1>2. RestOK'
  BY <1>1, SameTypes, TypeParts DEF Connect, RestOK, chain, lists, calls, sums
<1>3. waiting' \in [Spvs -> Seq(Asleep')]
  BY <1>1, SameTypes, TypeParts DEF Connect, calls
<1>4. IsABag(work') /\ \A msg \in BagToSet(work') : MessageOK(msg)'
  <2>1. CASE n = Full
    BY <1>1, <2>1, MessageOKStable DEF Connect, TypeOK
  <2>2. CASE n # Full
    <3> DEFINE ask == {Getheaders(n, p)}
    <3>1. \A msg \in ask : MessageOK(msg)
      BY <2>2, GetheadersOK
    <3>2. IsABag(work') /\ BagToSet(work') \subseteq BagToSet(work) \cup ask
      BY <2>2, BagAddType DEF Connect, TypeOK
    <3> HIDE DEF ask
    <3> QED BY <1>1, <3>1, <3>2, WorkType
  <2> QED BY <2>1, <2>2
<1> QED BY <1>2, <1>3, <1>4 DEF TypeOK, RestOK, Asleep

LEMMA HandleNewAddrType ==
  ASSUME TypeOK, NEW n \in setup.spvs, NEW a \in Addresses, HandleNewAddr(n, a)
  PROVE  TypeOK'
<1>1. setup' = setup /\ setup \in Setups /\ setup.spvs \subseteq Spvs
  BY SetupType DEF HandleNewAddr, TypeOK
<1>2. RestOK'
  BY <1>1, SameTypes, TypeParts DEF HandleNewAddr, RestOK, chain, calls, sums
<1>3. waiting' \in [Spvs -> Seq(Asleep')]
  BY <1>1, SameTypes, TypeParts DEF HandleNewAddr, calls
<1>4. IsABag(work') /\ \A msg \in BagToSet(work') : MessageOK(msg)'
  <2>1. CASE Full \notin peers[n]
    BY <1>1, <2>1, MessageOKStable DEF HandleNewAddr, TypeOK
  <2>2. CASE Full \in peers[n]
    <3> DEFINE load == {Filterload(n, monitored'[n])}
    <3>1. \A msg \in load : MessageOK(msg)
      BY <1>1, <1>2, FilterloadOK DEF RestOK
    <3>2. IsABag(work') /\ BagToSet(work') \subseteq BagToSet(work) \cup load
      BY <2>2, BagAddType DEF HandleNewAddr, TypeOK
    <3> HIDE DEF load
    <3> QED BY <1>1, <3>1, <3>2, WorkType
  <2> QED BY <2>1, <2>2
<1> QED BY <1>2, <1>3, <1>4 DEF TypeOK, RestOK, Asleep

\* Handling a message, with answers that are typed.
LEMMA DoneOK ==
  ASSUME TypeOK, setup' = setup, NEW msg, NEW new, Done(msg, new),
         \A m \in new : MessageOK(m)
  PROVE  IsABag(work') /\ \A m \in BagToSet(work') : MessageOK(m)'
<1>1. IsABag(work') /\ BagToSet(work') \subseteq BagToSet(work) \cup new
  BY DoneType DEF TypeOK
<1> QED BY <1>1, WorkType

LEMMA HandleFilterloadType == ASSUME TypeOK, HandleFilterload PROVE TypeOK'
<1>1. setup' = setup /\ setup \in Setups /\ setup.spvs \subseteq Spvs
  BY SetupType DEF HandleFilterload, TypeOK
<1>2. PICK msg \in Received(Full, "filterload") :
        /\ filter' = [filter EXCEPT ![msg.from] = msg.addrs]
        /\ Done(msg, {})
        /\ UNCHANGED <<setup, chain, peers, monitored, calls, sums, restarts>>
  BY DEF HandleFilterload
<1>3. msg.addrs \subseteq Addresses
  BY ReceivedType
<1>4. RestOK'
  BY <1>1, <1>2, <1>3, SameTypes, TypeParts DEF RestOK, chain, calls, sums
<1>5. waiting' \in [Spvs -> Seq(Asleep')]
  BY <1>1, <1>2, SameTypes, TypeParts DEF calls
<1>6. IsABag(work') /\ \A m \in BagToSet(work') : MessageOK(m)'
  BY <1>1, <1>2, DoneOK
<1> QED BY <1>4, <1>5, <1>6 DEF TypeOK, RestOK, Asleep

LEMMA RestartType == ASSUME TypeOK, NEW n \in setup.spvs, Restart(n) PROVE TypeOK'
<1>1. setup' = setup /\ setup \in Setups /\ setup.spvs \subseteq Spvs /\ 1 \in 1..Height
      /\ setup.restarts \in Nat
  BY SetupType DEF Restart, TypeOK
<1>2. RestOK'
  BY <1>1, SameTypes, TypeParts DEF Restart, RestOK, sums
<1>3. waiting' \in [Spvs -> Seq(Asleep')]
  BY <1>1, SameTypes, TypeParts DEF Restart
<1>4. IsABag(work') /\ \A msg \in BagToSet(work') : MessageOK(msg)'
  <2> DEFINE left == {msg \in DOMAIN work : msg.to # n}
  <2>1. IsABag(work') /\ BagToSet(work') = left
    <3>1. left \subseteq BagToSet(work)
      BY DEF BagToSet
    <3>2. work' = [msg \in left |-> work[msg]]
      BY DEF Restart
    <3> HIDE DEF left
    <3> QED BY <3>1, <3>2, BagPartType DEF TypeOK
  <2> QED BY <1>1, <2>1, MessageOKStable DEF TypeOK, BagToSet
<1> QED BY <1>2, <1>3, <1>4 DEF TypeOK, RestOK, Asleep

LEMMA MineType == ASSUME TypeOK, Mine PROVE TypeOK'
<1>1. setup' = setup /\ setup \in Setups /\ Height \in Nat
  BY SetupType DEF Mine, TypeOK
<1>2. RestOK'
  BY <1>1, SameTypes, TypeParts DEF Mine, RestOK, lists, calls, sums, Servers
<1>3. waiting' \in [Spvs -> Seq(Asleep')]
  BY <1>1, SameTypes, TypeParts DEF Mine, calls
<1>4. IsABag(work') /\ \A msg \in BagToSet(work') : MessageOK(msg)'
  BY <1>1, MessageOKStable DEF Mine, TypeOK
<1> QED BY <1>2, <1>3, <1>4 DEF TypeOK, RestOK, Asleep

LEMMA HandleGetheadersType ==
  ASSUME TypeOK, NEW n \in Servers \cup setup.spvs, HandleGetheaders(n)
  PROVE  TypeOK'
<1>1. setup' = setup /\ setup \in Setups /\ setup.spvs \subseteq Spvs
      /\ Height \in Nat /\ setup.limit \in Nat \ {0}
  BY SetupType DEF HandleGetheaders, TypeOK
<1>2. RestOK'
  BY <1>1, SameTypes, TypeParts DEF HandleGetheaders, RestOK, chain, lists, calls, sums
<1>3. waiting' \in [Spvs -> Seq(Asleep')]
  BY <1>1, SameTypes, TypeParts DEF HandleGetheaders, calls
<1>4. IsABag(work') /\ \A msg \in BagToSet(work') : MessageOK(msg)'
  <2>1. PICK msg \in Received(n, "getheaders") :
          Done(msg, IF HeaderExisted(n, msg.top)
                    THEN IF msg.top = tip[n] THEN {}
                         ELSE {Headers(msg.from, msg.top + 1, Min({tip[n], msg.top + setup.limit}))}
                    ELSE IF n \in Spvs THEN {Getheaders(n, msg.from)} ELSE {})
    BY DEF HandleGetheaders
  <2>2. msg.from \in setup.spvs /\ msg.top \in 1..Height /\ tip[n] \in 1..Height
    BY <1>1, <2>1, ReceivedType DEF TypeOK
  <2> DEFINE end == Min({tip[n], msg.top + setup.limit})
  <2>3. HeaderExisted(n, msg.top) /\ msg.top # tip[n] =>
          \A m \in {Headers(msg.from, msg.top + 1, end)} : MessageOK(m)
    <3> SUFFICES ASSUME HeaderExisted(n, msg.top), msg.top # tip[n]
                 PROVE  MessageOK(Headers(msg.from, msg.top + 1, end))
      OBVIOUS
    <3>1. msg.top < tip[n]
      BY <1>1, <2>2 DEF HeaderExisted
    <3>2. end \in {tip[n], msg.top + setup.limit} /\ end <= tip[n]
      BY <1>1, <2>2, MinOfTwo
    <3>3. end \in 2..Height /\ msg.top + 1 \in 2..Height /\ msg.top + 1 <= end
      <4> HIDE DEF end
      <4> QED BY <1>1, <2>2, <3>1, <3>2
    <3> HIDE DEF end
    <3> QED BY <2>2, <3>3, HeadersOK
  <2>4. n \in Spvs => \A m \in {Getheaders(n, msg.from)} : MessageOK(m)
    <3>1. n \in Spvs => n \in setup.spvs
      BY SpvAssumption DEF Servers
    <3> QED BY <2>2, <3>1, GetheadersOK
  <2> DEFINE new == IF HeaderExisted(n, msg.top)
                    THEN IF msg.top = tip[n] THEN {} ELSE {Headers(msg.from, msg.top + 1, end)}
                    ELSE IF n \in Spvs THEN {Getheaders(n, msg.from)} ELSE {}
  <2>5. \A m \in new : MessageOK(m)
    <3> HIDE DEF end
    <3> QED BY <2>3, <2>4
  <2>6. Done(msg, new)
    BY <2>1
  <2> HIDE DEF new
  <2> QED BY <1>1, <2>5, <2>6, DoneOK
<1> QED BY <1>2, <1>3, <1>4 DEF TypeOK, RestOK, Asleep

LEMMA HandleHeadersType ==
  ASSUME TypeOK, NEW n \in setup.spvs, HandleHeaders(n)
  PROVE  TypeOK'
<1>1. setup' = setup /\ setup \in Setups /\ n \in Spvs /\ Height \in Nat
  BY SetupType DEF HandleHeaders, TypeOK
<1> DEFINE wakes == n \in requesting /\ waiting[n] # <<>>
<1>2. PICK msg \in Received(n, "headers") :
        /\ have' = [have EXCEPT ![n] = @ \cup (msg.first..msg.end)]
        /\ tip' = [tip EXCEPT ![n] = msg.end]
        /\ waiting' = IF wakes THEN [waiting EXCEPT ![n] = Tail(@)] ELSE waiting
        /\ Done(msg, IF wakes THEN {[Head(waiting[n]) EXCEPT !.kind = "woken"]} ELSE {})
        /\ UNCHANGED <<setup, peers, lists, requesting, utxo, sums, restarts>>
  BY DEF HandleHeaders
<1>3. msg.first \in 2..Height /\ msg.end \in 2..Height
  BY <1>2, ReceivedType
<1>4. RestOK'
  <2>1. msg.first..msg.end \subseteq 1..Height /\ msg.end \in 1..Height
    BY <1>1, <1>3
  <2> QED BY <1>1, <1>2, <2>1, SameTypes, TypeParts DEF RestOK, lists, sums
<1>5. waiting[n] \in Seq(Asleep)
  BY <1>1, TypeParts
<1>6. waiting' \in [Spvs -> Seq(Asleep')]
  BY <1>1, <1>2, <1>5, SameTypes, TypeParts
<1>7. IsABag(work') /\ \A m \in BagToSet(work') : MessageOK(m)'
  <2> DEFINE new == IF wakes THEN {[Head(waiting[n]) EXCEPT !.kind = "woken"]} ELSE {}
  <2>1. \A m \in new : MessageOK(m)
    <3>1. wakes => Head(waiting[n]) \in Asleep
      BY <1>5
    <3> QED BY <3>1, RenamedOK DEF Asleep, CallKinds
  <2>2. Done(msg, new)
    BY <1>2
  <2> HIDE DEF new
  <2> QED BY <1>1, <2>1, <2>2, DoneOK
<1> QED BY <1>4, <1>6, <1>7 DEF TypeOK, RestOK, Asleep

LEMMA HandleBlockdataType ==
  ASSUME TypeOK, NEW b \in 2..Height, HandleBlockdata(b)
  PROVE  TypeOK'
<1>1. setup' = setup /\ setup \in Setups /\ setup.spvs \subseteq Spvs
      /\ Height \in Nat /\ setup.repeats \in Nat
  BY SetupType DEF HandleBlockdata, TypeOK
<1> DEFINE told(n) == {t \in ToSet(setup.blocks[b]) : n \in peers[Full] /\ InterestingTo(t, filter[n])}
           new     == UNION {{Merkleblock(n, b, t) : t \in told(n)} : n \in setup.spvs}
<1>2. \A n : told(n) \subseteq Tx
  BY <1>1, BlockTxns
<1>3. RestOK'
  <2>1. repeats' \in 0..setup.repeats
    BY <1>1, TypeParts DEF HandleBlockdata, RestOK
  <2>2. have' \in [Servers \cup Spvs -> SUBSET (1..Height)] /\ tip' \in [Servers \cup Spvs -> 1..Height]
    <3>1. have' = [have EXCEPT ![Full] = @ \cup {b}] /\ tip' = [tip EXCEPT ![Full] = b]
      BY DEF HandleBlockdata
    <3>2. b \in 1..Height
      BY <1>1
    <3> QED BY <3>1, <3>2, TypeParts DEF RestOK
  <2>3. promised' \in [Spvs -> SUBSET Outpoint]
    <3>1. \A n : OwnedBy(UNION {Outputs(t) : t \in told(n)}, filter[n]) \subseteq Outpoint
      BY <1>2 DEF OwnedBy, Outpoint
    <3>2. promised' = [n \in Spvs |-> promised[n]
             \cup OwnedBy(UNION {Outputs(t) : t \in told(n)}, filter[n])]
      BY DEF HandleBlockdata
    <3> HIDE DEF told
    <3> QED BY <3>1, <3>2, TypeParts DEF RestOK
  <2>4. spent' \in [Spvs -> SUBSET Outpoint]
    <3>1. \A n : UNION {Ins[t] : t \in told(n)} \subseteq Outpoint
      BY <1>2, SpvAssumption
    <3>2. spent' = [n \in Spvs |-> spent[n] \cup UNION {Ins[t] : t \in told(n)}]
      BY DEF HandleBlockdata
    <3> HIDE DEF told
    <3> QED BY <3>1, <3>2, TypeParts DEF RestOK
  <2> QED BY <1>1, <2>1, <2>2, <2>3, <2>4, SameTypes, TypeParts DEF HandleBlockdata, RestOK, lists, calls
<1>4. waiting' \in [Spvs -> Seq(Asleep')]
  BY <1>1, SameTypes, TypeParts DEF HandleBlockdata, calls
<1>5. IsABag(work') /\ \A msg \in BagToSet(work') : MessageOK(msg)'
  <2>1. \A msg \in new : MessageOK(msg)
    BY <1>1, MerkleblockOK
  <2>2. work' = work (+) SetToBag(new)
    BY DEF HandleBlockdata
  <2> HIDE DEF new
  <2>3. IsABag(work') /\ BagToSet(work') \subseteq BagToSet(work) \cup new
    BY <2>2, SentType DEF TypeOK
  <2> QED BY <1>1, <2>1, <2>3, WorkType
<1> QED BY <1>3, <1>4, <1>5 DEF TypeOK, RestOK, Asleep

\* What taking a transaction in lists, and what it sends on.
LEMMA ApplyType ==
  ASSUME TypeOK, setup' = setup, NEW n \in setup.spvs, NEW msg, MessageOK(msg),
         msg.kind \in CallKinds, Apply(n, msg)
  PROVE  /\ utxo' \in [Spvs -> SUBSET Outpoint]
         /\ IsABag(work') /\ \A m \in BagToSet(work') : MessageOK(m)'
<1>1. setup \in Setups /\ setup.spvs \subseteq Spvs
  BY SetupType DEF TypeOK
<1>2. msg.tx \in Tx /\ msg.blk \in 1..Height /\ msg.tx \in ToSet(setup.blocks[msg.blk])
  BY DEF MessageOK, Message, CallKinds
<1>3. utxo' \in [Spvs -> SUBSET Outpoint]
  <2>1. Outputs(msg.tx) \subseteq Outpoint
    BY <1>2 DEF Outpoint
  <2> QED BY <1>1, <2>1, TypeParts DEF Apply, RestOK
<1>4. IsABag(work') /\ \A m \in BagToSet(work') : MessageOK(m)'
  <2> DEFINE new == {Merkleblock(p, msg.blk, msg.tx) : p \in peers[n] \cap Spvs}
  <2>1. peers[n] \cap Spvs \subseteq setup.spvs
    BY <1>1, TypeParts, SpvAssumption DEF RestOK, Servers
  <2>2. \A m \in new : MessageOK(m)
    BY <1>1, <1>2, <2>1, MerkleblockOK
  <2>3. Done(msg, new)
    BY DEF Apply
  <2> HIDE DEF new
  <2> QED BY <2>2, <2>3, DoneOK
<1> QED BY <1>3, <1>4

LEMMA HandleMerkleblockType ==
  ASSUME TypeOK, NEW n \in setup.spvs, NEW t \in Tx, HandleMerkleblock(n, t)
  PROVE  TypeOK'
<1>1. PICK msg \in Received(n, "merkleblock") :
        /\ IF msg.blk \in have[n] THEN Apply(n, msg)
           ELSE Done(msg, {[msg EXCEPT !.kind = "asleep"]}) /\ UNCHANGED utxo
        /\ UNCHANGED <<setup, chain, peers, lists, requesting, waiting, sums, restarts>>
  BY DEF HandleMerkleblock
<1>2. MessageOK(msg) /\ msg.kind \in CallKinds
  BY <1>1, ReceivedType DEF CallKinds
<1>3. /\ utxo' \in [Spvs -> SUBSET Outpoint]
      /\ IsABag(work') /\ \A m \in BagToSet(work') : MessageOK(m)'
  <2>1. CASE msg.blk \in have[n]
    BY <1>1, <1>2, <2>1, ApplyType
  <2>2. CASE msg.blk \notin have[n]
    <3> DEFINE new == {[msg EXCEPT !.kind = "asleep"]}
    <3>1. \A m \in new : MessageOK(m)
      BY <1>2, RenamedOK DEF CallKinds
    <3>2. Done(msg, new)
      BY <1>1, <2>2
    <3> HIDE DEF new
    <3> QED BY <1>1, <2>2, <3>1, <3>2, DoneOK, TypeParts DEF RestOK
  <2> QED BY <2>1, <2>2
<1>4. RestOK'
  BY <1>1, <1>3, SameTypes, TypeParts DEF RestOK, chain, lists, sums
<1>5. waiting' \in [Spvs -> Seq(Asleep')]
  BY <1>1, SameTypes, TypeParts
<1> QED BY <1>3, <1>4, <1>5 DEF TypeOK, RestOK, Asleep

LEMMA ResumeType ==
  ASSUME TypeOK, NEW n \in setup.spvs, Resume(n)
  PROVE  TypeOK'
<1>1. PICK msg \in Received(n, "woken") :
        /\ IF msg.blk \in have[n] THEN Apply(n, msg) ELSE Done(msg, {}) /\ UNCHANGED utxo
        /\ UNCHANGED <<setup, chain, peers, lists, requesting, waiting, sums, restarts>>
  BY DEF Resume
<1>2. MessageOK(msg) /\ msg.kind \in CallKinds
  BY <1>1, ReceivedType DEF CallKinds
<1>3. /\ utxo' \in [Spvs -> SUBSET Outpoint]
      /\ IsABag(work') /\ \A m \in BagToSet(work') : MessageOK(m)'
  <2>1. CASE msg.blk \in have[n]
    BY <1>1, <1>2, <2>1, ApplyType
  <2>2. CASE msg.blk \notin have[n]
    BY <1>1, <2>2, DoneOK, TypeParts DEF RestOK
  <2> QED BY <2>1, <2>2
<1>4. RestOK'
  BY <1>1, <1>3, SameTypes, TypeParts DEF RestOK, chain, lists, sums
<1>5. waiting' \in [Spvs -> Seq(Asleep')]
  BY <1>1, SameTypes, TypeParts
<1> QED BY <1>3, <1>4, <1>5 DEF TypeOK, RestOK, Asleep

LEMMA AskType ==
  ASSUME TypeOK, NEW n \in setup.spvs, Ask(n)
  PROVE  TypeOK'
<1>1. PICK msg \in Received(n, "asleep") :
        /\ requesting' = IF Miner \in peers[n] THEN requesting \cup {n} ELSE requesting
        /\ Done(msg, IF Miner \in peers[n] THEN {Getheaders(n, Miner)} ELSE {})
        /\ waiting' = [waiting EXCEPT ![n] = Append(@, msg)]
        /\ UNCHANGED <<setup, chain, peers, lists, utxo, sums, restarts>>
  BY DEF Ask
<1>2. msg \in Asleep
  BY <1>1, ReceivedType DEF Asleep, MessageOK
<1>3. setup.spvs \subseteq Spvs
  BY SetupType DEF TypeOK
<1>4. RestOK'
  BY <1>1, SameTypes, TypeParts DEF RestOK, chain, lists, sums
<1>5. waiting' \in [Spvs -> Seq(Asleep')]
  BY <1>1, <1>2, <1>3, SameTypes, TypeParts
<1>6. IsABag(work') /\ \A m \in BagToSet(work') : MessageOK(m)'
  <2> DEFINE new == IF Miner \in peers[n] THEN {Getheaders(n, Miner)} ELSE {}
  <2>1. \A m \in new : MessageOK(m)
    BY GetheadersOK DEF Servers
  <2>2. Done(msg, new)
    BY <1>1
  <2> HIDE DEF new
  <2> QED BY <1>1, <2>1, <2>2, DoneOK
<1> QED BY <1>4, <1>5, <1>6 DEF TypeOK, RestOK, Asleep

LEMMA NextType == ASSUME TypeOK, [Next]_vars PROVE TypeOK'
<1>1. ASSUME NEW n \in setup.spvs PROVE n \in Spvs /\ Others(n) \subseteq Servers \cup setup.spvs
  BY SetupType DEF TypeOK, Others
<1>2. CASE UNCHANGED vars
  <2>1. setup' = setup /\ work' = work
    BY <1>2 DEF vars
  <2>2. RestOK' /\ waiting' \in [Spvs -> Seq(Asleep')]
    BY <1>2, <2>1, SameTypes, TypeParts DEF vars, chain, lists, calls, sums, RestOK
  <2>3. IsABag(work') /\ \A m \in BagToSet(work') : MessageOK(m)'
    BY <2>1, MessageOKStable DEF TypeOK
  <2> QED BY <2>2, <2>3 DEF TypeOK, RestOK, Asleep
<1>3. CASE Mine
  BY <1>3, MineType
<1>4. CASE \E b \in 2..Height : HandleBlockdata(b)
  BY <1>4, HandleBlockdataType
<1>5. CASE HandleFilterload
  BY <1>5, HandleFilterloadType
<1>6. CASE \E n \in Servers \cup setup.spvs : HandleGetheaders(n)
  BY <1>6, HandleGetheadersType
<1>7. CASE \E n \in setup.spvs : Connect(Full, n) \/ \E p \in Others(n) : Connect(n, p)
  BY <1>1, <1>7, ConnectType
<1>8. CASE \E n \in setup.spvs : Restart(n)
  BY <1>8, RestartType
<1>9. CASE \E n \in setup.spvs, a \in Addresses : HandleNewAddr(n, a)
  BY <1>9, HandleNewAddrType
<1>10. CASE \E n \in setup.spvs : HandleHeaders(n)
  BY <1>10, HandleHeadersType
<1>11. CASE \E n \in setup.spvs, t \in Tx : HandleMerkleblock(n, t)
  BY <1>11, HandleMerkleblockType
<1>12. CASE \E n \in setup.spvs : Ask(n)
  BY <1>12, AskType
<1>13. CASE \E n \in setup.spvs : Resume(n)
  BY <1>13, ResumeType
<1> QED BY <1>2, <1>3, <1>4, <1>5, <1>6, <1>7, <1>8, <1>9, <1>10, <1>11, <1>12, <1>13 DEF Next

\* Messages, peer lists, filters, handlers and outputs have their types,
\* and no headers message is empty: HandleHeaders indexes its last header.
THEOREM TypeCorrect == Spec => []TypeOK
<1>1. Init => TypeOK
  BY InitType
<1>2. TypeOK /\ [Next]_vars => TypeOK'
  BY NextType
<1> QED BY <1>1, <1>2, PTL DEF Spec

-----------------------------------------------------------------------------
(* Headers.                                                                *)

\* What a message says of headers is true of the SPV node it is about: it
\* has its tip, and all headers before the first one sent to it.  Headers are
\* never removed, so this stays true however long a message is under way.
Truthful(msg) ==
  /\ msg.kind = "getheaders" => msg.top \in have[msg.from]
  /\ msg.kind = "headers" => 1..(msg.first - 1) \subseteq have[msg.to]

\* Stronger than HeadersRooted, and kept by every step.
HeadersInv == TypeOK /\ HeadersRooted /\ \A msg \in BagToSet(work) : Truthful(msg)

LEMMA InitHeaders == Init => HeadersInv
<1> SUFFICES ASSUME Init PROVE HeadersInv
  OBVIOUS
<1>1. HeadersRooted
  BY SpvAssumption DEF Init, HeadersRooted
<1>2. BagToSet(work) = {}
  BY EmptyBagType DEF Init
<1> QED BY <1>1, <1>2, InitType DEF HeadersInv

\* Only HandleHeaders adds to the headers of an SPV node.
LEMMA HaveSame ==
  ASSUME TypeOK, [Next]_vars, ~\E n \in setup.spvs : HandleHeaders(n)
  PROVE  setup' = setup /\ \A n \in Spvs : have'[n] = have[n]
<1>1. CASE Mine
  BY <1>1, SpvAssumption DEF Mine, TypeOK
<1>2. CASE \E b \in 2..Height : HandleBlockdata(b)
  BY <1>2, SpvAssumption DEF HandleBlockdata, TypeOK
<1>3. CASE HandleFilterload
  BY <1>3 DEF HandleFilterload, chain
<1>4. CASE \E n \in Servers \cup setup.spvs : HandleGetheaders(n)
  BY <1>4 DEF HandleGetheaders, chain
<1>5. CASE \E n \in setup.spvs : Connect(Full, n) \/ \E p \in Others(n) : Connect(n, p)
  BY <1>5 DEF Connect, chain
<1>6. CASE \E n \in setup.spvs : Restart(n)
  BY <1>6 DEF Restart
<1>7. CASE \E n \in setup.spvs, a \in Addresses : HandleNewAddr(n, a)
  BY <1>7 DEF HandleNewAddr, chain
<1>8. CASE \E n \in setup.spvs, t \in Tx : HandleMerkleblock(n, t)
  BY <1>8 DEF HandleMerkleblock, chain
<1>9. CASE \E n \in setup.spvs : Ask(n)
  BY <1>9 DEF Ask, chain
<1>10. CASE \E n \in setup.spvs : Resume(n)
  BY <1>10 DEF Resume, chain
<1>11. CASE UNCHANGED vars
  BY <1>11 DEF vars, chain
<1> QED BY <1>1, <1>2, <1>3, <1>4, <1>5, <1>6, <1>7, <1>8, <1>9, <1>10, <1>11 DEF Next

\* The headers that arrive follow on what the node has.
LEMMA HaveGrows ==
  ASSUME HeadersInv, NEW n \in setup.spvs, HandleHeaders(n)
  PROVE  /\ setup' = setup
         /\ \A p \in Spvs : have[p] \subseteq have'[p]
         /\ HeadersRooted'
<1>1. setup.spvs \subseteq Spvs /\ Height \in Nat
  BY SetupType DEF HeadersInv, TypeOK
<1>2. PICK msg \in Received(n, "headers") :
        /\ have' = [have EXCEPT ![n] = @ \cup (msg.first..msg.end)]
        /\ tip' = [tip EXCEPT ![n] = msg.end]
        /\ setup' = setup
  BY DEF HandleHeaders
<1>3. msg.first \in 2..Height /\ msg.end \in 2..Height /\ msg.first <= msg.end
  BY <1>2, ReceivedType DEF HeadersInv
<1>4. 1..(msg.first - 1) \subseteq have[n]
  BY <1>2 DEF HeadersInv, Truthful, Received
<1>5. /\ have'[n] = have[n] \cup (msg.first..msg.end) /\ tip'[n] = msg.end
      /\ \A p \in Spvs \ {n} : have'[p] = have[p] /\ tip'[p] = tip[p]
  BY <1>1, <1>2 DEF HeadersInv, TypeOK
<1>6. tip'[n] \in have'[n] /\ \A k \in have'[n] : 1..k \subseteq have'[n]
  <2>1. msg.end \in msg.first..msg.end
    BY <1>1, <1>3
  <2>2. \A k \in have[n] : 1..k \subseteq have[n]
    BY <1>1 DEF HeadersInv, HeadersRooted
  <2>3. \A k \in msg.first..msg.end : 1..k \subseteq (1..(msg.first - 1)) \cup (msg.first..msg.end)
    BY <1>1, <1>3
  <2> QED BY <1>4, <1>5, <2>1, <2>2, <2>3
<1> QED BY <1>2, <1>5, <1>6 DEF HeadersInv, HeadersRooted

\* New messages say what is true.
LEMMA NewTruthful ==
  ASSUME HeadersInv, [Next]_vars
  PROVE  \A msg \in BagToSet(work') : msg \in BagToSet(work) \/ Truthful(msg)'
<1> SUFFICES ASSUME NEW msg, msg \in BagToSet(work'), msg \notin BagToSet(work)
             PROVE  Truthful(msg)'
  OBVIOUS
<1> USE DEF HeadersInv
<1>1. /\ setup \in Setups /\ setup.spvs \subseteq Spvs /\ IsABag(work) /\ TypeOK
      /\ \A n \in Spvs : tip[n] \in have[n] /\ \A k \in have[n] : 1..k \subseteq have[n]
  BY SetupType DEF TypeOK, HeadersRooted
<1>2. msg.kind \notin {"getheaders", "headers"} => Truthful(msg)'
  BY DEF Truthful
<1>3. ASSUME NEW n \in setup.spvs, NEW p, have'[n] = have[n], msg = Getheaders(n, p)
      PROVE  Truthful(msg)'
  BY <1>1, <1>3 DEF Getheaders, Truthful
<1>4. CASE Mine \/ UNCHANGED vars
  BY <1>4 DEF Mine, vars
<1>5. CASE \E b \in 2..Height : HandleBlockdata(b)
  <2>1. PICK b : HandleBlockdata(b)
    BY <1>5
  <2> DEFINE told(n) == {t \in ToSet(setup.blocks[b]) : n \in peers[Full] /\ InterestingTo(t, filter[n])}
             new     == UNION {{Merkleblock(n, b, t) : t \in told(n)} : n \in setup.spvs}
  <2>2. work' = work (+) SetToBag(new)
    BY <2>1 DEF HandleBlockdata
  <2>3. \A m \in new : m.kind = "merkleblock"
    BY DEF Merkleblock
  <2> HIDE DEF new
  <2>4. msg \in new
    BY <1>1, <2>2, SentType
  <2> QED BY <1>2, <2>3, <2>4
<1>6. CASE HandleFilterload
  BY <1>1, <1>6, DoneType DEF HandleFilterload
<1>7. CASE \E n \in Servers \cup setup.spvs : HandleGetheaders(n)
  <2>1. PICK n \in Servers \cup setup.spvs, old \in BagToSet(work) :
          /\ old \in Received(n, "getheaders")
          /\ Done(old, IF HeaderExisted(n, old.top)
                       THEN IF old.top = tip[n] THEN {}
                            ELSE {Headers(old.from, old.top + 1, Min({tip[n], old.top + setup.limit}))}
                       ELSE IF n \in Spvs THEN {Getheaders(n, old.from)} ELSE {})
    BY <1>7 DEF HandleGetheaders, Received
  <2>2. have' = have
    BY <1>7 DEF HandleGetheaders, chain
  <2>3. old.from \in setup.spvs /\ old.top \in 1..Height /\ old.top \in have[old.from]
    BY <2>1, ReceivedType DEF Truthful
  <2>4. \/ \E end : msg = Headers(old.from, old.top + 1, end)
        \/ n \in Spvs /\ msg = Getheaders(n, old.from)
    <3> DEFINE new == IF HeaderExisted(n, old.top)
                      THEN IF old.top = tip[n] THEN {}
                           ELSE {Headers(old.from, old.top + 1, Min({tip[n], old.top + setup.limit}))}
                      ELSE IF n \in Spvs THEN {Getheaders(n, old.from)} ELSE {}
    <3>1. msg \in new
      <4>1. Done(old, new)
        BY <2>1
      <4> HIDE DEF new
      <4> QED BY <1>1, <4>1, DoneType
    <3> QED BY <3>1
  <2>5. CASE \E end : msg = Headers(old.from, old.top + 1, end)
    <3>1. msg.kind = "headers" /\ msg.to = old.from /\ msg.first = old.top + 1
      BY <2>5 DEF Headers
    <3>2. msg.first - 1 = old.top
      BY <1>1, <2>3, <3>1, SetupType
    <3> QED BY <1>1, <2>2, <2>3, <3>1, <3>2 DEF Truthful
  <2>6. CASE n \in Spvs /\ msg = Getheaders(n, old.from)
    BY <1>1, <2>1, <2>2, <2>6 DEF Getheaders, Truthful
  <2> QED BY <2>4, <2>5, <2>6
<1>8. CASE \E n \in setup.spvs : Connect(Full, n) \/ \E p \in Others(n) : Connect(n, p)
  <2>1. PICK n \in {Full} \cup setup.spvs, p \in Servers \cup setup.spvs : Connect(n, p)
    BY <1>8 DEF Others
  <2>2. n # Full /\ work' = BagAdd(work, Getheaders(n, p)) /\ have' = have
    BY <2>1 DEF Connect, chain
  <2>3. msg = Getheaders(n, p)
    BY <1>1, <2>2, BagAddType
  <2> QED BY <1>3, <2>2, <2>3
<1>9. CASE \E n \in setup.spvs : Restart(n)
  <2>1. PICK n \in setup.spvs : Restart(n)
    BY <1>9
  <2> DEFINE left == {m \in DOMAIN work : m.to # n}
  <2>2. work' = [m \in left |-> work[m]]
    BY <2>1 DEF Restart
  <2> QED BY <2>2 DEF BagToSet
<1>10. CASE \E n \in setup.spvs, a \in Addresses : HandleNewAddr(n, a)
  <2>1. PICK n, addrs : work' = BagAdd(work, Filterload(n, addrs))
    BY <1>10 DEF HandleNewAddr
  <2>2. msg = Filterload(n, addrs)
    BY <1>1, <2>1, BagAddType
  <2> QED BY <1>2, <2>2 DEF Filterload
<1>11. CASE \E n \in setup.spvs : HandleHeaders(n)
  <2>1. PICK n \in setup.spvs : \E old, new :
          /\ Done(old, new)
          /\ \A m \in new : waiting[n] # <<>> /\ m = [Head(waiting[n]) EXCEPT !.kind = "woken"]
    BY <1>11 DEF HandleHeaders
  <2>2. waiting[n] # <<>> /\ msg = [Head(waiting[n]) EXCEPT !.kind = "woken"]
    BY <1>1, <2>1, DoneType
  <2>3. Head(waiting[n]) \in Asleep
    BY <1>1, <2>1, <2>2, TypeParts
  <2>4. msg.kind = "woken"
    BY <2>1, <2>2, <2>3, RenamedOK DEF Asleep, CallKinds
  <2> QED BY <1>2, <2>4
<1>12. CASE \E n \in setup.spvs, t \in Tx : HandleMerkleblock(n, t)
  <2>1. PICK n \in setup.spvs, old \in BagToSet(work) :
          /\ old \in Received(n, "merkleblock")
          /\ IF old.blk \in have[n] THEN Apply(n, old)
             ELSE Done(old, {[old EXCEPT !.kind = "asleep"]})
    BY <1>12 DEF HandleMerkleblock, Received
  <2>2. [old EXCEPT !.kind = "asleep"].kind = "asleep"
    BY <2>1, ReceivedType, RenamedOK DEF CallKinds
  <2> DEFINE new == IF old.blk \in have[n]
                    THEN {Merkleblock(p, old.blk, old.tx) : p \in peers[n] \cap Spvs}
                    ELSE {[old EXCEPT !.kind = "asleep"]}
  <2>3. Done(old, new)
    BY <2>1 DEF Apply
  <2>4. \A m \in new : m.kind \in CallKinds
    <3>1. \A b, p, t : Merkleblock(p, b, t).kind = "merkleblock"
      BY DEF Merkleblock
    <3>2. \A m \in {Merkleblock(p, old.blk, old.tx) : p \in peers[n] \cap Spvs} : m.kind = "merkleblock"
      BY <3>1
    <3>3. \A m \in {[old EXCEPT !.kind = "asleep"]} : m.kind = "asleep"
      BY <2>2
    <3>4. \A m \in new : m.kind = "merkleblock" \/ m.kind = "asleep"
      BY <3>2, <3>3
    <3> QED BY <3>4 DEF CallKinds
  <2> HIDE DEF new
  <2>5. msg \in new
    BY <1>1, <2>3, DoneType
  <2> QED BY <1>2, <2>4, <2>5 DEF CallKinds
<1>13. CASE \E n \in setup.spvs : Ask(n)
  <2>1. PICK n \in setup.spvs : \E old, new :
          Done(old, new) /\ (\A m \in new : m = Getheaders(n, Miner)) /\ have' = have
    BY <1>13 DEF Ask, chain
  <2>2. msg = Getheaders(n, Miner) /\ have' = have
    BY <1>1, <2>1, DoneType
  <2> QED BY <1>3, <2>1, <2>2
<1>14. CASE \E n \in setup.spvs : Resume(n)
  <2>1. PICK old, new : Done(old, new) /\ \A m \in new : m.kind = "merkleblock"
    BY <1>14 DEF Resume, Apply, Merkleblock
  <2>2. msg \in new
    BY <1>1, <2>1, DoneType
  <2> QED BY <1>2, <2>1, <2>2
<1> QED BY <1>4, <1>5, <1>6, <1>7, <1>8, <1>9, <1>10, <1>11, <1>12, <1>13, <1>14 DEF Next

\* The tip of an SPV node moves to a header it has: the last that arrived,
\* or the genesis block's.
LEMMA RootedStep == ASSUME HeadersInv, [Next]_vars PROVE HeadersRooted'
<1>1. CASE \E n \in setup.spvs : HandleHeaders(n)
  BY <1>1, HaveGrows
<1>2. CASE ~\E n \in setup.spvs : HandleHeaders(n)
  <2>1. \A n \in Spvs : have'[n] = have[n]
    BY <1>2, HaveSame DEF HeadersInv
  <2>2. \A n \in Spvs : tip'[n] = tip[n] \/ tip'[n] = 1
    <3> USE DEF HeadersInv, TypeOK
    <3>1. CASE Mine
      BY <3>1, SpvAssumption DEF Mine
    <3>2. CASE \E b \in 2..Height : HandleBlockdata(b)
      BY <3>2, SpvAssumption DEF HandleBlockdata
    <3>3. CASE \E n \in setup.spvs : Restart(n)
      BY <3>3 DEF Restart
    <3>4. CASE UNCHANGED tip
      BY <3>4
    <3> QED BY <1>2, <3>1, <3>2, <3>3, <3>4
            DEF Next, vars, chain, HandleFilterload, HandleGetheaders, Connect, HandleNewAddr,
                HandleMerkleblock, Ask, Resume
  <2>3. \A n \in Spvs : 1 \in have[n]
    <3>1. \A n \in Spvs : tip[n] \in 1..Height /\ 1 \in 1..tip[n]
      BY SetupType DEF HeadersInv, TypeOK
    <3> QED BY <3>1 DEF HeadersInv, HeadersRooted
  <2> QED BY <2>1, <2>2, <2>3 DEF HeadersInv, HeadersRooted
<1> QED BY <1>1, <1>2

LEMMA NextHeaders == ASSUME HeadersInv, [Next]_vars PROVE HeadersInv'
<1>1. TypeOK'
  BY NextType DEF HeadersInv
<1>2. \A p \in Spvs : have[p] \subseteq have'[p]
  BY HaveSame, HaveGrows DEF HeadersInv
<1>3. ASSUME NEW msg \in BagToSet(work) PROVE Truthful(msg)'
  <2>1. Truthful(msg) /\ MessageOK(msg) /\ setup.spvs \subseteq Spvs
    BY SetupType DEF HeadersInv, TypeOK
  <2>2. /\ msg.kind = "getheaders" => msg.from \in Spvs
        /\ msg.kind = "headers" => msg.to \in Spvs
    BY <2>1 DEF MessageOK, Message, CallKinds
  <2> QED BY <1>2, <2>1, <2>2 DEF Truthful
<1>4. \A msg \in BagToSet(work') : Truthful(msg)'
  BY <1>3, NewTruthful
<1> QED BY <1>1, <1>4, RootedStep DEF HeadersInv

\* Headers come in any order, late or twice, and nodes restart with their tip
\* at the genesis block: still no header is stored whose predecessor is
\* missing, and walks from the tip end at the genesis block.
THEOREM HeadersStayRooted == Spec => []HeadersRooted
<1>1. Init => HeadersInv
  BY InitHeaders
<1>2. HeadersInv /\ [Next]_vars => HeadersInv'
  BY NextHeaders
<1>3. HeadersInv => HeadersRooted
  BY DEF HeadersInv
<1> QED BY <1>1, <1>2, <1>3, PTL DEF Spec

-----------------------------------------------------------------------------
(* Outputs.                                                                *)

\* Each output listed is of a transaction in a block whose header is there.
LEMMA ApplyProved ==
  ASSUME TypeOK, UtxoProved, setup' = setup, have' = have, NEW n \in setup.spvs,
         NEW msg, MessageOK(msg), msg.kind \in CallKinds, msg.blk \in have[n], Apply(n, msg)
  PROVE  UtxoProved'
<1>1. msg.tx \in ToSet(setup.blocks[msg.blk])
  BY DEF MessageOK
<1>2. \A o \in Outputs(msg.tx) : o[1] = msg.tx
  BY DEF Outputs
<1>3. \A p \in Spvs : \A o \in utxo'[p] : o \in utxo[p] \/ (p = n /\ o \in Outputs(msg.tx))
  <2>1. utxo' = [utxo EXCEPT ![n] = (@ \ OwnedBy(Ins[msg.tx], monitored[n])) \cup Outputs(msg.tx)]
    BY DEF Apply
  <2> QED BY <2>1 DEF TypeOK, OwnedBy
<1> QED BY <1>1, <1>2, <1>3 DEF UtxoProved

LEMMA ProvedStep == ASSUME HeadersInv, UtxoProved, [Next]_vars PROVE UtxoProved'
<1>1. TypeOK
  BY DEF HeadersInv
<1>2. setup' = setup /\ \A p \in Spvs : have[p] \subseteq have'[p]
  BY HaveSame, HaveGrows DEF HeadersInv
<1>3. CASE \E n \in setup.spvs, t \in Tx : HandleMerkleblock(n, t)
  <2>1. PICK n \in setup.spvs, msg \in BagToSet(work) :
          /\ msg \in Received(n, "merkleblock")
          /\ IF msg.blk \in have[n] THEN Apply(n, msg) ELSE UNCHANGED utxo
          /\ UNCHANGED <<setup, have>>
    BY <1>3 DEF HandleMerkleblock, Received, chain
  <2>2. MessageOK(msg) /\ msg.kind \in CallKinds
    BY <1>1, <2>1, ReceivedType DEF CallKinds
  <2> QED BY <1>1, <2>1, <2>2, ApplyProved DEF UtxoProved
<1>4. CASE \E n \in setup.spvs : Resume(n)
  <2>1. PICK n \in setup.spvs, msg \in BagToSet(work) :
          /\ msg \in Received(n, "woken")
          /\ IF msg.blk \in have[n] THEN Apply(n, msg) ELSE UNCHANGED utxo
          /\ UNCHANGED <<setup, have>>
    BY <1>4 DEF Resume, Received, chain
  <2>2. MessageOK(msg) /\ msg.kind \in CallKinds
    BY <1>1, <2>1, ReceivedType DEF CallKinds
  <2> QED BY <1>1, <2>1, <2>2, ApplyProved DEF UtxoProved
<1>5. CASE UNCHANGED utxo
  BY <1>2, <1>5 DEF UtxoProved
<1> QED BY <1>3, <1>4, <1>5
        DEF Next, vars, calls, Mine, HandleBlockdata, HandleFilterload, HandleGetheaders,
            Connect, HandleNewAddr, Restart, HandleHeaders, Ask

\* Whichever headers message wakes a handler, and whatever was relayed by
\* other SPV nodes, an SPV node lists an output only if it has the header of
\* a block with the transaction.
THEOREM OutputsProved == Spec => []UtxoProved
<1>1. Init => HeadersInv /\ UtxoProved
  <2>1. Init => UtxoProved
    BY DEF Init, UtxoProved
  <2> QED BY <2>1, InitHeaders
<1>2. HeadersInv /\ UtxoProved /\ [Next]_vars => (HeadersInv /\ UtxoProved)'
  BY NextHeaders, ProvedStep
<1> QED BY <1>1, <1>2, PTL DEF Spec

-----------------------------------------------------------------------------
(* The balance of a single node.                                           *)

Own(n)     == {a \in Addresses : <<n, a>> \in setup.wallet}
Active     == {msg \in BagToSet(work) : msg.kind # "filterload"}
Calls(n)   == ToSet(waiting[n]) \cup {msg \in Active : msg.kind \in CallKinds}
Pending(n) == {msg.tx : msg \in Calls(n)}

\* The case that BalanceTrue is about, on the way to a node without work.
Solitary(n) ==
  /\ setup.spaced /\ setup.spvs = {n} /\ Height <= setup.limit + 1 /\ PaymentsApart(n)
  /\ repeats = 0 /\ restarts = 0

\* The full node has all blocks, or all but the last.
ServersOK(n) ==
  /\ have[Miner] = 1..tip[Miner] /\ have[Full] = 1..tip[Full]
  /\ tip[Miner] = tip[Full] \/ (tip[Miner] = tip[Full] + 1 /\ Active = {})
  /\ peers[n] \subseteq Servers

\* No filter that counts, or will count, asks for more than n monitors.
FiltersOK(n) ==
  /\ filter[n] \subseteq monitored[n] /\ monitored[n] \subseteq Own(n)
  /\ \A msg \in Received(Full, "filterload") : msg.addrs \subseteq monitored[n]

\* Apart from filters there is one message, or one handler at work, at a time.
ActiveOK(n, msg) ==
  /\ work[msg] = 1 /\ Active = {msg}
  /\ msg.kind = "getheaders" => msg.to \in Servers
  /\ msg.kind = "headers" => msg.end = tip[Full]
  /\ msg.kind \in {"merkleblock", "asleep"} =>
       /\ msg.blk = tip[Full] /\ msg.blk \notin have[n]
       /\ \A i \in DOMAIN waiting[n] : waiting[n][i].blk < msg.blk
  /\ msg.kind = "woken" =>
       /\ tip[Full] \in have[n]
       /\ \A i \in DOMAIN waiting[n] : msg.blk < waiting[n][i].blk

\* Handlers wait in the order of their blocks.
QueueOK(n) ==
  /\ have[n] \subseteq 1..tip[Full]
  /\ \A i, j \in DOMAIN waiting[n] : i < j => waiting[n][i].blk < waiting[n][j].blk
  /\ \A msg \in Calls(n) :
       /\ msg.blk <= tip[Full] /\ InterestingTo(msg.tx, Own(n))
       /\ Ins[msg.tx] \subseteq spent[n]

\* An output that was promised and not spent is listed, or a handler holds
\* its transaction; one that was spent is not listed, nor will be, unless a
\* handler holds a transaction that spends it.
BalanceOK(n) ==
  /\ \A o \in promised[n] : OwnerOf(o) \in monitored[n]
  /\ \A o \in promised[n] \ spent[n] : o \in utxo[n] \/ o[1] \in Pending(n)
  /\ \A o \in spent[n] : \E b \in 1..tip[Full] : o[1] \in ToSet(setup.blocks[b])
  /\ \A o \in spent[n] : (o \in promised[n] \cap utxo[n]) \/ o[1] \in Pending(n)
       => \E t \in Pending(n) : o \in Ins[t]

SoloInv(n) ==
  /\ ServersOK(n) /\ FiltersOK(n) /\ QueueOK(n) /\ BalanceOK(n)
  /\ \A msg \in Active : ActiveOK(n, msg)

BalanceInv ==
  HeadersInv /\ UtxoProved /\ \A n \in setup.spvs : Solitary(n) => SoloInv(n)

\* What every step may rely on.
SoloState(n) == HeadersInv /\ UtxoProved /\ n \in setup.spvs /\ Solitary(n) /\ SoloInv(n)

-----------------------------------------------------------------------------
(* Messages one at a time, and handlers in a row.                          *)

\* The one message handled, and what it is replaced by.
LEMMA OneForOne ==
  ASSUME IsABag(work), NEW msg, Active = {msg}, work[msg] = 1, NEW new, Done(msg, new),
         \A m \in new : m.kind # "filterload"
  PROVE  Active' = new /\ \A m \in new : work'[m] = 1
<1> DEFINE left == BagRemove(work, msg)
           more == SetToBag(new)
<1>1. msg \in DOMAIN work /\ msg.kind # "filterload"
  BY DEF Active, BagToSet
<1>2. left = [e \in DOMAIN work \ {msg} |-> work[e]]
  BY <1>1 DEF BagRemove
<1>3. \A m \in DOMAIN left : m.kind = "filterload"
  BY <1>2 DEF Active, BagToSet
<1>4. more = [e \in new |-> 1]
  BY DEF SetToBag
<1>5. work' = left (+) more
  BY DEF Done
<1>6. IsABag(left)
  BY BagRemoveType
<1> HIDE DEF left, more
<1>7. DOMAIN work' = DOMAIN left \cup new
  BY <1>4, <1>5 DEF (+)
<1>8. ASSUME NEW m \in new PROVE work'[m] = 1
  <2>1. m \notin DOMAIN left /\ m \in DOMAIN more /\ more[m] = 1
    BY <1>3, <1>4, <1>8
  <2> QED BY <1>5, <1>7, <2>1, <1>8 DEF (+)
<1>9. Active' = new
  BY <1>3, <1>7 DEF Active, BagToSet
<1> QED BY <1>8, <1>9

\* A filter handled.
LEMMA FilterDone ==
  ASSUME IsABag(work), NEW msg, msg.kind = "filterload", Done(msg, {})
  PROVE  Active' = Active /\ \A m \in Active : work'[m] = work[m]
<1> DEFINE left == BagRemove(work, msg)
           more == SetToBag({})
<1>1. \A m \in Active : m \in DOMAIN work /\ m # msg
  BY DEF Active, BagToSet
<1>2. /\ DOMAIN left \subseteq DOMAIN work /\ DOMAIN work \ {msg} \subseteq DOMAIN left
      /\ \A m \in Active : left[m] = work[m]
  BY <1>1 DEF BagRemove
<1>3. more = [e \in {} |-> 1]
  BY DEF SetToBag
<1>4. work' = left (+) more
  BY DEF Done
<1>5. IsABag(left)
  BY BagRemoveType
<1> HIDE DEF left, more
<1>6. DOMAIN work' = DOMAIN left
  BY <1>3, <1>4 DEF (+)
<1>7. ASSUME NEW m \in Active PROVE work'[m] = work[m]
  <2>1. m \in DOMAIN left /\ left[m] = work[m] /\ m \notin DOMAIN more /\ left[m] \in Nat
    BY <1>1, <1>2, <1>3, <1>5 DEF IsABag
  <2> QED BY <1>4, <1>6, <2>1 DEF (+)
<1>8. Active' = Active
  BY <1>1, <1>2, <1>6 DEF Active, BagToSet
<1> QED BY <1>7, <1>8

\* A filter sent.
LEMMA FilterSent ==
  ASSUME IsABag(work), NEW msg, msg.kind = "filterload", work' = BagAdd(work, msg)
  PROVE  Active' = Active /\ \A m \in Active : work'[m] = work[m]
<1>1. \A m \in Active : m \in DOMAIN work /\ m # msg
  BY DEF Active, BagToSet
<1>2. DOMAIN work' = DOMAIN work \cup {msg}
  BY DEF BagAdd
<1>3. \A m \in Active : work'[m] = work[m]
  BY <1>1 DEF BagAdd
<1>4. Active' = Active
  BY <1>2 DEF Active, BagToSet
<1> QED BY <1>3, <1>4

\* A question asked when there is nothing else.
LEMMA FirstSent ==
  ASSUME IsABag(work), Active = {}, NEW msg, msg.kind # "filterload", work' = BagAdd(work, msg)
  PROVE  Active' = {msg} /\ work'[msg] = 1
<1>1. msg \notin DOMAIN work
  BY DEF Active, BagToSet
<1>2. DOMAIN work' = DOMAIN work \cup {msg} /\ work'[msg] = 1
  BY <1>1 DEF BagAdd
<1>3. Active' = {msg}
  BY <1>2 DEF Active, BagToSet
<1> QED BY <1>2, <1>3

\* Merkleblocks sent when there is nothing else.
LEMMA SetSent ==
  ASSUME IsABag(work), Active = {}, NEW new, \A m \in new : m.kind # "filterload",
         work' = work (+) SetToBag(new)
  PROVE  Active' = new /\ \A m \in new : work'[m] = 1
<1> DEFINE more == SetToBag(new)
<1>1. more = [e \in new |-> 1]
  BY DEF SetToBag
<1>2. work' = work (+) more
  OBVIOUS
<1> HIDE DEF more
<1>3. DOMAIN work' = DOMAIN work \cup new
  BY <1>1, <1>2 DEF (+)
<1>4. ASSUME NEW m \in new PROVE work'[m] = 1
  <2>1. m \notin DOMAIN work /\ m \in DOMAIN more /\ more[m] = 1
    BY <1>1 DEF Active, BagToSet
  <2> QED BY <1>2, <1>3, <2>1 DEF (+)
<1>5. Active' = new
  BY <1>3 DEF Active, BagToSet
<1> QED BY <1>4, <1>5

\* A sequence and its parts.
LEMMA FirstAndRest ==
  ASSUME NEW S, NEW s \in Seq(S), s # <<>>
  PROVE  /\ Head(s) = s[1] /\ Head(s) \in S /\ 1 \in DOMAIN s
         /\ \A i \in DOMAIN Tail(s) : i + 1 \in DOMAIN s /\ Tail(s)[i] = s[i + 1] /\ i \in Nat \ {0}
         /\ ToSet(s) = {Head(s)} \cup ToSet(Tail(s))
<1>1. Len(s) \in Nat \ {0} /\ DOMAIN s = 1..Len(s) /\ Head(s) = s[1] /\ Head(s) \in S
  OBVIOUS
<1>2. DOMAIN Tail(s) = 1..(Len(s) - 1) /\ \A i \in 1..(Len(s) - 1) : Tail(s)[i] = s[i + 1]
  OBVIOUS
<1>3. \A i \in DOMAIN Tail(s) : i + 1 \in DOMAIN s /\ Tail(s)[i] = s[i + 1] /\ i \in Nat \ {0}
  BY <1>1, <1>2
<1>4. ToSet(s) = {Head(s)} \cup ToSet(Tail(s))
  <2>1. \A i \in DOMAIN s : i = 1 \/ (i - 1 \in DOMAIN Tail(s) /\ s[i] = Tail(s)[i - 1])
    <3> SUFFICES ASSUME NEW i \in DOMAIN s, i # 1
                 PROVE  i - 1 \in DOMAIN Tail(s) /\ s[i] = Tail(s)[i - 1]
      OBVIOUS
    <3>1. i - 1 \in 1..(Len(s) - 1) /\ (i - 1) + 1 = i
      BY <1>1
    <3> QED BY <1>2, <3>1
  <2>2. ToSet(Tail(s)) \subseteq ToSet(s) /\ Head(s) \in ToSet(s)
    BY <1>1, <1>3 DEF ToSet
  <2>3. ASSUME NEW x \in ToSet(s) PROVE x = Head(s) \/ x \in ToSet(Tail(s))
    <3>1. PICK i \in DOMAIN s : x = s[i]
      BY DEF ToSet
    <3> QED BY <1>1, <2>1, <3>1 DEF ToSet
  <2> QED BY <2>2, <2>3
<1> QED BY <1>1, <1>3, <1>4

LEMMA OneMore ==
  ASSUME NEW S, NEW s \in Seq(S), NEW x \in S
  PROVE  /\ ToSet(Append(s, x)) = ToSet(s) \cup {x}
         /\ \A i \in DOMAIN Append(s, x) :
              (i \in DOMAIN s /\ Append(s, x)[i] = s[i])
                \/ (i = Len(s) + 1 /\ Append(s, x)[i] = x)
         /\ \A i \in DOMAIN s : i < Len(s) + 1
<1>1. Len(s) \in Nat /\ DOMAIN s = 1..Len(s) /\ DOMAIN Append(s, x) = 1..(Len(s) + 1)
  OBVIOUS
<1>2. Append(s, x)[Len(s) + 1] = x /\ \A i \in 1..Len(s) : Append(s, x)[i] = s[i]
  OBVIOUS
<1>3. \A i \in DOMAIN Append(s, x) : i \in DOMAIN s \/ i = Len(s) + 1
  BY <1>1
<1>4. Len(s) + 1 \in DOMAIN Append(s, x) /\ \A i \in DOMAIN s : i \in DOMAIN Append(s, x)
  BY <1>1
<1>5. ToSet(Append(s, x)) = ToSet(s) \cup {x}
  BY <1>1, <1>2, <1>3, <1>4 DEF ToSet
<1> QED BY <1>1, <1>2, <1>3, <1>5

-----------------------------------------------------------------------------
\* Who is who.
LEMMA SoloTypes ==
  ASSUME NEW n, SoloState(n)
  PROVE  /\ TypeOK /\ RestOK /\ IsABag(work) /\ waiting \in [Spvs -> Seq(Asleep)]
         /\ n \in Spvs /\ n # Miner /\ n # Full /\ Miner # Full /\ setup.spvs = {n}
         /\ Height \in Nat /\ tip[Full] \in 1..Height /\ tip[Miner] \in 1..Height
         /\ have[n] \subseteq 1..Height /\ waiting[n] \in Seq(Asleep)
<1>1. TypeOK /\ n \in Spvs /\ setup.spvs = {n} /\ Height \in Nat
  BY SetupType DEF SoloState, HeadersInv, TypeOK, Solitary
<1>2. n # Miner /\ n # Full /\ Miner # Full
  BY <1>1, SpvAssumption
<1>3. RestOK /\ IsABag(work) /\ waiting \in [Spvs -> Seq(Asleep)]
  BY <1>1, TypeParts
<1> QED BY <1>1, <1>2, <1>3 DEF RestOK, Servers

\* The network keeps its hypotheses.
LEMMA SameSetup ==
  ASSUME setup' = setup
  PROVE  \A n : Own(n)' = Own(n) /\ Height' = Height
BY DEF Own, Height

\* Nothing changes at the servers.
LEMMA ServersKept ==
  ASSUME NEW n, SoloState(n), tip[Miner] = tip[Full], peers'[n] = peers[n],
         \A p \in Servers : have'[p] = have[p] /\ tip'[p] = tip[p]
  PROVE  ServersOK(n)'
<1>1. ServersOK(n)
  BY DEF SoloState, SoloInv
<1> QED BY <1>1 DEF ServersOK, Servers

\* No filter is changed.
LEMMA FiltersKept ==
  ASSUME NEW n, SoloState(n), setup' = setup, filter'[n] = filter[n], monitored'[n] = monitored[n],
         NEW new, BagToSet(work') \subseteq BagToSet(work) \cup new,
         \A m \in new : m.kind # "filterload"
  PROVE  FiltersOK(n)'
<1>1. FiltersOK(n)
  BY DEF SoloState, SoloInv
<1>2. Received(Full, "filterload")' \subseteq Received(Full, "filterload")
  BY DEF Received
<1> QED BY <1>1, <1>2, SameSetup DEF FiltersOK

\* No output is told of or listed, and the same transactions are at work.
LEMMA BalanceKept ==
  ASSUME NEW n, SoloState(n), setup' = setup, tip'[Full] = tip[Full],
         monitored[n] \subseteq monitored'[n], Pending(n)' = Pending(n),
         promised'[n] = promised[n], spent'[n] = spent[n], utxo'[n] = utxo[n]
  PROVE  BalanceOK(n)'
<1>1. BalanceOK(n)
  BY DEF SoloState, SoloInv
<1> QED BY <1>1 DEF BalanceOK

\* What is handled is alone.
LEMMA OnlyOne ==
  ASSUME NEW n, SoloState(n), NEW p, NEW kind, kind # "filterload", NEW msg \in Received(p, kind),
         NEW new, Done(msg, new), \A m \in new : m.kind # "filterload"
  PROVE  /\ ActiveOK(n, msg) /\ Active = {msg} /\ tip[Miner] = tip[Full]
         /\ Active' = new /\ \A m \in new : work'[m] = 1
         /\ BagToSet(work') \subseteq BagToSet(work) \cup new
<1>1. msg \in Active
  BY DEF Received, Active
<1>2. ActiveOK(n, msg) /\ ServersOK(n) /\ IsABag(work)
  BY <1>1, SoloTypes DEF SoloState, SoloInv
<1>3. Active = {msg} /\ work[msg] = 1 /\ tip[Miner] = tip[Full]
  BY <1>2 DEF ActiveOK, ServersOK
<1>4. Active' = new /\ \A m \in new : work'[m] = 1
  BY <1>2, <1>3, OneForOne
<1> QED BY <1>2, <1>3, <1>4, DoneType

\* When the network has settled nothing is at work: the transaction of a
\* merkleblock that was sent is not listed yet.
LEMMA SettledIdle ==
  ASSUME NEW n, SoloState(n), Settled
  PROVE  Active = {} /\ tip[Miner] = tip[Full]
<1> USE DEF SoloState
<1>1. ServersOK(n) /\ QueueOK(n) /\ \A msg \in Active : ActiveOK(n, msg)
  BY DEF SoloInv
<1>2. tip[Full] \in 1..Height /\ Height \in Nat /\ n \in Spvs /\ TypeOK /\ setup.spvs = {n}
  BY SoloTypes
<1>3. tip[Miner] = tip[Full]
  BY <1>1, <1>2 DEF Settled, ServersOK
<1>4. ASSUME NEW msg \in Active PROVE FALSE
  <2>1. msg \in BagToSet(work) /\ msg.kind = "merkleblock" /\ Outputs(msg.tx) \cap utxo[msg.to] # {}
    BY DEF Settled, Active
  <2>2. MessageOK(msg) /\ msg.to = n /\ msg.blk \in 1..Height /\ msg.tx \in ToSet(setup.blocks[msg.blk])
    BY <1>2, <2>1 DEF TypeOK, MessageOK, Message, CallKinds
  <2>3. PICK o \in utxo[n] : o[1] = msg.tx
    BY <2>1, <2>2 DEF Outputs
  <2>4. PICK b \in have[n] : msg.tx \in ToSet(setup.blocks[b])
    BY <1>2, <2>3 DEF UtxoProved
  <2>5. InterestingTo(msg.tx, Own(n)) /\ msg.blk = tip[Full] /\ msg.blk \notin have[n]
    BY <1>1, <2>1 DEF QueueOK, ActiveOK, Calls, CallKinds
  <2>6. b \in 1..Height
    BY SoloTypes
  <2>7. b = msg.blk
    BY <2>2, <2>4, <2>5, <2>6 DEF Solitary, PaymentsApart, Own
  <2> QED BY <2>5, <2>7
<1> QED BY <1>3, <1>4

-----------------------------------------------------------------------------
(* Step by step.                                                           *)

LEMMA MineSolo == ASSUME NEW n, SoloState(n), Mine PROVE SoloInv(n)'
<1>1. setup.spaced /\ SoloInv(n)
  BY DEF SoloState, Solitary
<1>2. Active = {} /\ tip[Miner] = tip[Full]
  BY <1>1, SettledIdle DEF Mine
<1>3. /\ TypeOK /\ RestOK /\ n \in Spvs /\ n # Miner /\ n # Full /\ Miner # Full
      /\ Height \in Nat /\ tip[Full] \in 1..Height
  BY SoloTypes
<1>4. Active' = Active /\ work' = work /\ setup' = setup
  BY DEF Mine, Active
<1>5. /\ have'[Miner] = have[Miner] \cup {tip[Miner] + 1} /\ tip'[Miner] = tip[Miner] + 1
      /\ have'[Full] = have[Full] /\ tip'[Full] = tip[Full] /\ have'[n] = have[n]
  BY <1>3 DEF Mine, RestOK, Servers
<1>6. ServersOK(n)'
  <2>1. have'[Miner] = 1..tip'[Miner]
    <3>1. have[Miner] = 1..tip[Miner] /\ tip[Miner] \in Nat
      BY <1>1, <1>2, <1>3 DEF SoloInv, ServersOK
    <3> QED BY <1>5, <3>1
  <2> QED BY <1>1, <1>2, <1>3, <1>4, <1>5, <2>1 DEF SoloInv, ServersOK, Mine
<1>7. FiltersOK(n)'
  <2>1. BagToSet(work') \subseteq BagToSet(work) \cup Active /\ \A m \in Active : m.kind # "filterload"
    BY <1>4 DEF Active
  <2> QED BY <1>4, <2>1, FiltersKept DEF Mine, lists
<1>8. waiting' = waiting /\ Calls(n)' = Calls(n) /\ Pending(n)' = Pending(n)
  BY <1>4 DEF Mine, calls, Calls, Pending
<1>9. QueueOK(n)'
  BY <1>1, <1>4, <1>5, <1>8, SameSetup DEF SoloInv, QueueOK, Mine, sums
<1>10. BalanceOK(n)'
  BY <1>4, <1>5, <1>8, BalanceKept DEF Mine, sums, calls, lists
<1> QED BY <1>2, <1>4, <1>6, <1>7, <1>9, <1>10 DEF SoloInv

LEMMA HandleFilterloadSolo == ASSUME NEW n, SoloState(n), HandleFilterload PROVE SoloInv(n)'
<1>1. SoloInv(n)
  BY DEF SoloState
<1>2. PICK msg \in Received(Full, "filterload") :
        /\ filter' = [filter EXCEPT ![msg.from] = msg.addrs]
        /\ Done(msg, {})
        /\ UNCHANGED <<setup, chain, peers, monitored, calls, sums, restarts>>
  BY DEF HandleFilterload
<1>3. TypeOK /\ RestOK /\ IsABag(work) /\ n \in Spvs /\ setup.spvs = {n}
  BY SoloTypes
<1>4. Active' = Active /\ \A m \in Active : work'[m] = work[m]
  BY <1>2, <1>3, FilterDone DEF Received
<1>5. Calls(n)' = Calls(n) /\ Pending(n)' = Pending(n)
  BY <1>2, <1>4 DEF calls, Calls, Pending
<1>6. ServersOK(n)'
  BY <1>1, <1>2, <1>4 DEF SoloInv, ServersOK, chain
<1>7. FiltersOK(n)'
  <2>1. msg.from = n
    BY <1>3, ReceivedType
  <2>2. filter'[n] = msg.addrs
    BY <1>2, <1>3, <2>1 DEF RestOK
  <2>3. BagToSet(work') \subseteq BagToSet(work)
    BY <1>2, <1>3, DoneType
  <2>4. Received(Full, "filterload")' \subseteq Received(Full, "filterload")
    BY <2>3 DEF Received
  <2> QED BY <1>1, <1>2, <2>2, <2>4, SameSetup DEF SoloInv, FiltersOK
<1>8. QueueOK(n)'
  BY <1>1, <1>2, <1>5, SameSetup DEF SoloInv, QueueOK, chain, calls, sums
<1>9. BalanceOK(n)'
  BY <1>2, <1>5, BalanceKept DEF chain, calls, sums
<1>10. \A m \in Active' : ActiveOK(n, m)'
  BY <1>1, <1>2, <1>4 DEF SoloInv, ActiveOK, chain, calls
<1> QED BY <1>6, <1>7, <1>8, <1>9, <1>10 DEF SoloInv

LEMMA HandleNewAddrSolo ==
  ASSUME NEW n, SoloState(n), NEW a \in Addresses, HandleNewAddr(n, a) PROVE SoloInv(n)'
<1>1. SoloInv(n)
  BY DEF SoloState
<1>2. TypeOK /\ RestOK /\ IsABag(work) /\ n \in Spvs
  BY SoloTypes
<1>3. monitored'[n] = monitored[n] \cup {a} /\ a \in Own(n) /\ setup' = setup
  BY <1>2 DEF HandleNewAddr, RestOK, Own
<1>4. work' = work \/ work' = BagAdd(work, Filterload(n, monitored'[n]))
  BY DEF HandleNewAddr
<1>5. Filterload(n, monitored'[n]).kind = "filterload" /\ Filterload(n, monitored'[n]).addrs = monitored'[n]
  BY DEF Filterload
<1>6. /\ Active' = Active /\ \A m \in Active : work'[m] = work[m]
      /\ BagToSet(work') \subseteq BagToSet(work) \cup {Filterload(n, monitored'[n])}
  <2> DEFINE load == Filterload(n, monitored'[n])
  <2>1. CASE work' = work
    BY <2>1 DEF Active
  <2>2. CASE work' = BagAdd(work, load)
    <3>1. load.kind = "filterload"
      BY <1>5
    <3>2. load = Filterload(n, monitored'[n])
      OBVIOUS
    <3> HIDE DEF load
    <3> QED BY <1>2, <2>2, <3>1, <3>2, FilterSent, BagAddType
  <2> QED BY <1>4, <2>1, <2>2
<1>7. Calls(n)' = Calls(n) /\ Pending(n)' = Pending(n)
  BY <1>6 DEF HandleNewAddr, calls, Calls, Pending
<1>8. ServersOK(n)'
  BY <1>1, <1>6 DEF SoloInv, ServersOK, HandleNewAddr, chain
<1>9. FiltersOK(n)'
  <2>1. ASSUME NEW m \in Received(Full, "filterload")' PROVE m.addrs \subseteq monitored'[n]
    <3>1. m \in Received(Full, "filterload") \/ m = Filterload(n, monitored'[n])
      BY <1>6 DEF Received
    <3> QED BY <1>1, <1>3, <1>5, <3>1 DEF SoloInv, FiltersOK
  <2> QED BY <1>1, <1>3, <2>1, SameSetup DEF SoloInv, FiltersOK, HandleNewAddr
<1>10. QueueOK(n)'
  BY <1>1, <1>3, <1>7, SameSetup DEF SoloInv, QueueOK, HandleNewAddr, chain, calls, sums
<1>11. BalanceOK(n)'
  BY <1>3, <1>7, BalanceKept DEF HandleNewAddr, chain, calls, sums
<1>12. \A m \in Active' : ActiveOK(n, m)'
  BY <1>1, <1>6 DEF SoloInv, ActiveOK, HandleNewAddr, chain, calls
<1> QED BY <1>8, <1>9, <1>10, <1>11, <1>12 DEF SoloInv

LEMMA ConnectSolo ==
  ASSUME NEW n, SoloState(n), NEW q, NEW p, Connect(q, p),
         (q = Full /\ p = n) \/ (q = n /\ p \in Others(n))
  PROVE  SoloInv(n)'
<1>1. SoloInv(n) /\ setup.spaced
  BY DEF SoloState, Solitary
<1>2. /\ TypeOK /\ RestOK /\ IsABag(work) /\ n \in Spvs /\ setup.spvs = {n} /\ n # Full /\ n # Miner
  BY SoloTypes
<1>3. Active = {} /\ tip[Miner] = tip[Full] /\ setup' = setup
  BY <1>1, SettledIdle DEF Connect
<1>4. peers'[n] \subseteq Servers
  <2>1. peers[n] \subseteq Servers
    BY <1>1 DEF SoloInv, ServersOK
  <2> QED BY <1>2, <2>1 DEF Connect, RestOK, Others
<1>5. /\ q = Full => work' = work
      /\ q = n => p \in Servers /\ work' = BagAdd(work, Getheaders(n, p))
  BY <1>2 DEF Connect, Others
<1>6. Active' = {} \/ \E s \in Servers : Active' = {Getheaders(n, s)} /\ work'[Getheaders(n, s)] = 1
  <2>1. CASE q = Full
    BY <1>3, <1>5, <2>1 DEF Active
  <2>2. CASE q = n
    <3>1. Getheaders(n, p).kind # "filterload"
      BY DEF Getheaders
    <3> QED BY <1>2, <1>3, <1>5, <2>2, <3>1, FirstSent
  <2> QED BY <2>1, <2>2
<1>7. \A s : Getheaders(n, s).kind = "getheaders" /\ Getheaders(n, s).to = s
  BY DEF Getheaders
<1>8. BagToSet(work') \subseteq BagToSet(work) \cup Active'
  <2>1. CASE q = Full
    BY <1>5, <2>1
  <2>2. CASE q = n
    BY <1>2, <1>5, <1>7, <2>2, BagAddType DEF Active
  <2> QED BY <2>1, <2>2
<1>9. waiting' = waiting /\ Calls(n)' = Calls(n) /\ Pending(n)' = Pending(n)
  <2>1. waiting' = waiting
    BY DEF Connect, calls
  <2>2. {msg \in Active : msg.kind \in CallKinds} = {} /\ {msg \in Active' : msg.kind \in CallKinds} = {}
    BY <1>3, <1>6, <1>7 DEF CallKinds
  <2> QED BY <2>1, <2>2 DEF Calls, Pending
<1>10. ServersOK(n)'
  BY <1>1, <1>3, <1>4 DEF SoloInv, ServersOK, Connect, chain
<1>11. FiltersOK(n)'
  <2>1. \A m \in Active' : m.kind # "filterload"
    BY DEF Active
  <2> QED BY <1>3, <1>8, <2>1, FiltersKept DEF Connect, lists
<1>12. QueueOK(n)'
  BY <1>1, <1>3, <1>9, SameSetup DEF SoloInv, QueueOK, Connect, chain, sums
<1>13. BalanceOK(n)'
  BY <1>3, <1>9, BalanceKept DEF Connect, chain, calls, sums, lists
<1>14. \A m \in Active' : ActiveOK(n, m)'
  BY <1>6, <1>7 DEF ActiveOK
<1> QED BY <1>10, <1>11, <1>12, <1>13, <1>14 DEF SoloInv

\* The question is answered from the common tip, to the end.
LEMMA HandleGetheadersSolo ==
  ASSUME NEW n, SoloState(n), NEW p \in Servers \cup setup.spvs, HandleGetheaders(p)
  PROVE  SoloInv(n)'
<1>1. SoloInv(n) /\ Height <= setup.limit + 1
  BY DEF SoloState, Solitary
<1>2. /\ TypeOK /\ RestOK /\ IsABag(work) /\ n \in Spvs /\ setup.spvs = {n} /\ n \notin Servers
      /\ Height \in Nat /\ tip[Full] \in 1..Height /\ setup.limit \in Nat
  BY SoloTypes, SetupType DEF TypeOK, Servers
<1>3. PICK msg \in Received(p, "getheaders") :
        /\ Done(msg, IF HeaderExisted(p, msg.top)
                     THEN IF msg.top = tip[p] THEN {}
                          ELSE {Headers(msg.from, msg.top + 1, Min({tip[p], msg.top + setup.limit}))}
                     ELSE IF p \in Spvs THEN {Getheaders(p, msg.from)} ELSE {})
        /\ UNCHANGED <<setup, chain, peers, lists, calls, sums, restarts>>
  BY DEF HandleGetheaders
<1> DEFINE new == IF HeaderExisted(p, msg.top)
                  THEN IF msg.top = tip[p] THEN {}
                       ELSE {Headers(msg.from, msg.top + 1, Min({tip[p], msg.top + setup.limit}))}
                  ELSE IF p \in Spvs THEN {Getheaders(p, msg.from)} ELSE {}
<1>4. Done(msg, new)
  BY <1>3
<1>5. \A m \in new : m.kind \in {"headers", "getheaders"}
  BY DEF Headers, Getheaders
<1>6. msg.to = p /\ msg.kind = "getheaders" /\ msg.top \in 1..Height
  BY <1>2, <1>3, ReceivedType
<1>7. p \in Servers
  <2>1. msg \in Active
    BY <1>3 DEF Received, Active
  <2> QED BY <1>1, <1>6, <2>1 DEF SoloInv, ActiveOK
<1>8. ASSUME tip[Miner] = tip[Full]
      PROVE  new = {} \/ \E q, first : new = {Headers(q, first, tip[Full])}
  <2>1. tip[p] = tip[Full] /\ p \notin Spvs
    BY <1>7, <1>8, SpvAssumption DEF Servers
  <2>2. CASE msg.top < tip[p]
    <3>1. tip[p] <= msg.top + setup.limit /\ tip[p] \in Nat /\ msg.top + setup.limit \in Nat
      BY <1>1, <1>2, <1>6, <2>1
    <3>2. Min({tip[p], msg.top + setup.limit}) = tip[p]
      <4> DEFINE other == msg.top + setup.limit
      <4>1. other \in Nat /\ tip[p] <= other
        BY <3>1
      <4> HIDE DEF other
      <4>2. Min({tip[p], other}) \in {tip[p], other} /\ Min({tip[p], other}) <= tip[p]
        BY <3>1, <4>1, MinOfTwo
      <4>3. Min({tip[p], other}) = tip[p]
        BY <3>1, <4>1, <4>2
      <4> QED BY <4>3 DEF other
    <3>3. \/ new = {}
          \/ new = {Headers(msg.from, msg.top + 1, Min({tip[p], msg.top + setup.limit}))}
      BY <2>1
    <3> QED BY <2>1, <3>2, <3>3
  <2>3. CASE ~(msg.top < tip[p])
    <3>1. msg.top = tip[p] \/ ~(msg.top <= tip[p])
      BY <1>2, <1>6, <2>1, <2>3
    <3> QED BY <2>1, <3>1 DEF HeaderExisted
  <2> QED BY <2>2, <2>3
<1> HIDE DEF new
<1>9. /\ ActiveOK(n, msg) /\ Active = {msg} /\ tip[Miner] = tip[Full]
      /\ Active' = new /\ \A m \in new : work'[m] = 1
      /\ BagToSet(work') \subseteq BagToSet(work) \cup new
  BY <1>4, <1>5, OnlyOne
<1>10. Calls(n)' = Calls(n) /\ Pending(n)' = Pending(n) /\ waiting' = waiting
  <2>1. waiting' = waiting
    BY <1>3 DEF calls
  <2>2. {m \in Active : m.kind \in CallKinds} = {} /\ {m \in Active' : m.kind \in CallKinds} = {}
    BY <1>5, <1>6, <1>9 DEF CallKinds
  <2> QED BY <2>1, <2>2 DEF Calls, Pending
<1>11. ServersOK(n)'
  BY <1>3, <1>9, ServersKept DEF chain
<1>12. FiltersOK(n)'
  BY <1>3, <1>5, <1>9, FiltersKept DEF lists
<1>13. QueueOK(n)'
  BY <1>1, <1>3, <1>10, SameSetup DEF SoloInv, QueueOK, chain, sums
<1>14. BalanceOK(n)'
  BY <1>3, <1>10, BalanceKept DEF chain, calls, sums, lists
<1>15. \A m \in Active' : ActiveOK(n, m)'
  <2> SUFFICES ASSUME NEW m \in Active' PROVE ActiveOK(n, m)'
    OBVIOUS
  <2>1. PICK q, first : new = {Headers(q, first, tip[Full])}
    BY <1>8, <1>9
  <2>2. m.kind = "headers" /\ m.end = tip[Full] /\ new = {m}
    BY <1>9, <2>1 DEF Headers
  <2> QED BY <1>3, <1>9, <2>2 DEF ActiveOK, chain
<1> QED BY <1>11, <1>12, <1>13, <1>14, <1>15 DEF SoloInv

\* The handler for the oldest block is woken; with the header of the newest
\* block all headers are there.
LEMMA HandleHeadersSolo == ASSUME NEW n, SoloState(n), HandleHeaders(n) PROVE SoloInv(n)'
<1>1. SoloInv(n) /\ QueueOK(n)
  BY DEF SoloState, SoloInv
<1>2. /\ TypeOK /\ RestOK /\ IsABag(work) /\ n \in Spvs /\ setup.spvs = {n} /\ n \notin Servers
      /\ Height \in Nat /\ tip[Full] \in 1..Height /\ waiting[n] \in Seq(Asleep)
      /\ waiting \in [Spvs -> Seq(Asleep)]
  BY SoloTypes DEF Servers
<1> DEFINE wakes == n \in requesting /\ waiting[n] # <<>>
<1>3. PICK msg \in Received(n, "headers") :
        /\ have' = [have EXCEPT ![n] = @ \cup (msg.first..msg.end)]
        /\ tip' = [tip EXCEPT ![n] = msg.end]
        /\ waiting' = IF wakes THEN [waiting EXCEPT ![n] = Tail(@)] ELSE waiting
        /\ Done(msg, IF wakes THEN {[Head(waiting[n]) EXCEPT !.kind = "woken"]} ELSE {})
        /\ UNCHANGED <<setup, peers, lists, requesting, utxo, sums, restarts>>
  BY DEF HandleHeaders
<1>4. msg.kind = "headers" /\ msg.first \in 2..Height /\ msg.end \in 2..Height /\ msg.first <= msg.end
  BY <1>2, <1>3, ReceivedType
<1> DEFINE next == [Head(waiting[n]) EXCEPT !.kind = "woken"]
           new == IF wakes THEN {next} ELSE {}
<1>5. ASSUME wakes
      PROVE  /\ next.kind = "woken" /\ next.blk = waiting[n][1].blk /\ next.tx = Head(waiting[n]).tx
             /\ Head(waiting[n]) = waiting[n][1]
  <2>1. Head(waiting[n]) \in Asleep /\ Head(waiting[n]) = waiting[n][1]
    BY <1>2, <1>5, FirstAndRest
  <2>2. Head(waiting[n]) \in [kind : CallKinds, to : setup.spvs, blk : 1..Height, tx : Tx]
    BY <2>1 DEF Asleep, Message, CallKinds
  <2> QED BY <2>1, <2>2
<1>6. \A m \in new : m.kind # "filterload"
  BY <1>5
<1>7. Done(msg, new)
  BY <1>3
<1> HIDE DEF next
<1>8. /\ ActiveOK(n, msg) /\ Active = {msg} /\ tip[Miner] = tip[Full]
      /\ Active' = new /\ \A m \in new : work'[m] = 1
      /\ BagToSet(work') \subseteq BagToSet(work) \cup new
  <2> HIDE DEF new
  <2> QED BY <1>3, <1>6, <1>7, OnlyOne
<1>9. /\ msg.end = tip[Full] /\ tip'[Full] = tip[Full] /\ tip'[Miner] = tip[Miner]
      /\ have'[Full] = have[Full] /\ have'[Miner] = have[Miner]
      /\ have'[n] = have[n] \cup (msg.first..msg.end)
  BY <1>2, <1>3, <1>4, <1>8 DEF ActiveOK, RestOK, Servers
<1>10. tip'[Full] \in have'[n] /\ have'[n] \subseteq 1..tip'[Full]
  BY <1>1, <1>2, <1>4, <1>9 DEF QueueOK
<1>11. ServersOK(n)'
  BY <1>3, <1>8, <1>9, ServersKept DEF Servers
<1>12. FiltersOK(n)'
  <2> HIDE DEF new
  <2> QED BY <1>3, <1>6, <1>8, FiltersKept DEF lists
<1>13. CASE ~wakes
  <2>1. waiting' = waiting /\ Active' = {}
    BY <1>3, <1>8, <1>13
  <2>2. Calls(n)' = Calls(n) /\ Pending(n)' = Pending(n)
    <3>1. {m \in Active : m.kind \in CallKinds} = {} /\ {m \in Active' : m.kind \in CallKinds} = {}
      BY <1>4, <1>8, <2>1 DEF CallKinds
    <3> QED BY <2>1, <3>1 DEF Calls, Pending
  <2>3. QueueOK(n)'
    BY <1>1, <1>3, <1>9, <1>10, <2>1, <2>2, SameSetup DEF QueueOK, sums
  <2>4. BalanceOK(n)'
    BY <1>3, <1>9, <2>2, BalanceKept DEF lists, sums
  <2> QED BY <1>11, <1>12, <2>1, <2>3, <2>4 DEF SoloInv
<1>14. CASE wakes
  <2>1. waiting'[n] = Tail(waiting[n]) /\ Active' = {next}
    BY <1>2, <1>3, <1>8, <1>14
  <2>2. /\ 1 \in DOMAIN waiting[n]
        /\ \A i \in DOMAIN waiting'[n] : /\ i + 1 \in DOMAIN waiting[n] /\ i \in Nat \ {0}
                                         /\ waiting'[n][i] = waiting[n][i + 1]
        /\ ToSet(waiting[n]) = {Head(waiting[n])} \cup ToSet(waiting'[n])
    BY <1>2, <1>14, <2>1, FirstAndRest
  <2>3. Calls(n) = ToSet(waiting[n]) /\ Calls(n)' = ToSet(waiting'[n]) \cup {next}
    BY <1>4, <1>5, <1>8, <1>14, <2>1 DEF Calls, CallKinds
  <2>4. next.tx = Head(waiting[n]).tx /\ next.blk = Head(waiting[n]).blk /\ next.kind = "woken"
    BY <1>5, <1>14
  <2>5. Pending(n)' = Pending(n)
    <3>1. Pending(n) = {m.tx : m \in ToSet(waiting'[n])} \cup {Head(waiting[n]).tx}
      BY <2>2, <2>3 DEF Pending
    <3>2. Pending(n)' = {m.tx : m \in ToSet(waiting'[n])} \cup {next.tx}
      BY <2>3 DEF Pending
    <3> QED BY <2>4, <3>1, <3>2
  <2>6. QueueOK(n)'
    <3>1. ASSUME NEW i \in DOMAIN waiting'[n], NEW j \in DOMAIN waiting'[n], i < j
          PROVE  waiting'[n][i].blk < waiting'[n][j].blk
      <4>1. i + 1 < j + 1
        BY <2>2, <3>1
      <4> QED BY <1>1, <2>2, <4>1 DEF QueueOK
    <3>2. ASSUME NEW m \in Calls(n)'
          PROVE  m.blk <= tip'[Full] /\ InterestingTo(m.tx, Own(n)) /\ Ins[m.tx] \subseteq spent'[n]
      <4>1. \E old \in Calls(n) : m.blk = old.blk /\ m.tx = old.tx
        BY <2>2, <2>3, <2>4
      <4> QED BY <1>1, <1>3, <1>9, <4>1 DEF QueueOK, sums
    <3> QED BY <1>3, <1>10, <3>1, <3>2, SameSetup DEF QueueOK
  <2>7. BalanceOK(n)'
    BY <1>3, <1>9, <2>5, BalanceKept DEF lists, sums
  <2>8. \A m \in Active' : ActiveOK(n, m)'
    <3>1. \A i \in DOMAIN waiting'[n] : next.blk < waiting'[n][i].blk
      <4> SUFFICES ASSUME NEW i \in DOMAIN waiting'[n] PROVE next.blk < waiting'[n][i].blk
        OBVIOUS
      <4>1. 1 < i + 1
        BY <2>2
      <4> QED BY <1>1, <1>5, <1>14, <2>2, <4>1 DEF QueueOK
    <3>2. work'[next] = 1
      BY <1>8, <1>14
    <3> QED BY <1>10, <2>1, <2>4, <3>1, <3>2 DEF ActiveOK
  <2> QED BY <1>11, <1>12, <2>6, <2>7, <2>8 DEF SoloInv
<1> QED BY <1>13, <1>14

\* A merkleblock's header is not there yet: the handler sleeps.
LEMMA HandleMerkleblockSolo ==
  ASSUME NEW n, SoloState(n), NEW t, HandleMerkleblock(n, t) PROVE SoloInv(n)'
<1>1. SoloInv(n) /\ QueueOK(n)
  BY DEF SoloState, SoloInv
<1>2. TypeOK /\ n \in Spvs /\ setup.spvs = {n}
  BY SoloTypes
<1>3. PICK msg \in Received(n, "merkleblock") :
        /\ IF msg.blk \in have[n] THEN Apply(n, msg)
           ELSE Done(msg, {[msg EXCEPT !.kind = "asleep"]}) /\ UNCHANGED utxo
        /\ UNCHANGED <<setup, chain, peers, lists, requesting, waiting, sums, restarts>>
  BY DEF HandleMerkleblock
<1>4. msg.kind = "merkleblock" /\ msg \in Active /\ ActiveOK(n, msg)
  BY <1>1, <1>3 DEF Received, Active, SoloInv
<1>5. msg.blk \notin have[n]
  BY <1>4 DEF ActiveOK
<1> DEFINE next == [msg EXCEPT !.kind = "asleep"]
           new  == {next}
<1>6. Done(msg, new) /\ utxo' = utxo
  BY <1>3, <1>5
<1>7. next.kind = "asleep" /\ next.blk = msg.blk /\ next.tx = msg.tx
  <2>1. msg \in [kind : CallKinds, to : setup.spvs, blk : 1..Height, tx : Tx]
    BY <1>2, <1>3, <1>4, ReceivedType DEF MessageOK, Message, CallKinds
  <2> QED BY <2>1
<1> HIDE DEF next
<1>8. \A m \in new : m.kind # "filterload"
  BY <1>7
<1>9. /\ Active = {msg} /\ tip[Miner] = tip[Full]
      /\ Active' = new /\ \A m \in new : work'[m] = 1
      /\ BagToSet(work') \subseteq BagToSet(work) \cup new
  <2> HIDE DEF new
  <2> QED BY <1>3, <1>6, <1>8, OnlyOne
<1>10. Calls(n) = ToSet(waiting[n]) \cup {msg} /\ Calls(n)' = ToSet(waiting[n]) \cup {next}
  BY <1>3, <1>4, <1>7, <1>9 DEF Calls, CallKinds
<1>11. Pending(n)' = Pending(n)
  <2>1. Pending(n) = {m.tx : m \in ToSet(waiting[n])} \cup {msg.tx}
    BY <1>10 DEF Pending
  <2>2. Pending(n)' = {m.tx : m \in ToSet(waiting[n])} \cup {next.tx}
    BY <1>10 DEF Pending
  <2> QED BY <1>7, <2>1, <2>2
<1>12. ServersOK(n)'
  BY <1>3, <1>9, ServersKept DEF chain
<1>13. FiltersOK(n)'
  <2> HIDE DEF new
  <2> QED BY <1>3, <1>8, <1>9, FiltersKept DEF lists
<1>14. QueueOK(n)'
  <2>1. \A m \in Calls(n)' : \E old \in Calls(n) : m.blk = old.blk /\ m.tx = old.tx
    BY <1>7, <1>10
  <2> QED BY <1>1, <1>3, <2>1, SameSetup DEF QueueOK, chain, sums
<1>15. BalanceOK(n)'
  BY <1>3, <1>6, <1>11, BalanceKept DEF chain, lists, sums
<1>16. \A m \in Active' : ActiveOK(n, m)'
  BY <1>3, <1>4, <1>7, <1>9 DEF ActiveOK, chain
<1> QED BY <1>12, <1>13, <1>14, <1>15, <1>16 DEF SoloInv

\* The handler for the newest block is the last to wait.
LEMMA AskSolo == ASSUME NEW n, SoloState(n), Ask(n) PROVE SoloInv(n)'
<1>1. SoloInv(n) /\ QueueOK(n)
  BY DEF SoloState, SoloInv
<1>2. TypeOK /\ n \in Spvs /\ waiting[n] \in Seq(Asleep) /\ waiting \in [Spvs -> Seq(Asleep)]
  BY SoloTypes
<1>3. PICK msg \in Received(n, "asleep") :
        /\ requesting' = IF Miner \in peers[n] THEN requesting \cup {n} ELSE requesting
        /\ Done(msg, IF Miner \in peers[n] THEN {Getheaders(n, Miner)} ELSE {})
        /\ waiting' = [waiting EXCEPT ![n] = Append(@, msg)]
        /\ UNCHANGED <<setup, chain, peers, lists, utxo, sums, restarts>>
  BY DEF Ask
<1>4. msg.kind = "asleep" /\ msg \in Asleep
  BY <1>2, <1>3, ReceivedType DEF Asleep, MessageOK
<1> DEFINE new == IF Miner \in peers[n] THEN {Getheaders(n, Miner)} ELSE {}
<1>5. Done(msg, new)
  BY <1>3
<1>6. \A m \in new : m.kind = "getheaders" /\ m.to = Miner
  BY DEF Getheaders
<1> HIDE DEF new
<1>7. /\ ActiveOK(n, msg) /\ Active = {msg} /\ tip[Miner] = tip[Full]
      /\ Active' = new /\ \A m \in new : work'[m] = 1
      /\ BagToSet(work') \subseteq BagToSet(work) \cup new
  BY <1>3, <1>5, <1>6, OnlyOne
<1>8. waiting'[n] = Append(waiting[n], msg)
  BY <1>2, <1>3
<1>9. Calls(n)' = Calls(n)
  <2>1. Calls(n) = ToSet(waiting[n]) \cup {msg}
    BY <1>4, <1>7 DEF Calls, CallKinds
  <2>2. Calls(n)' = ToSet(waiting'[n])
    BY <1>6, <1>7 DEF Calls, CallKinds
  <2>3. ToSet(waiting'[n]) = ToSet(waiting[n]) \cup {msg}
    BY <1>2, <1>4, <1>8, OneMore
  <2> QED BY <2>1, <2>2, <2>3
<1>10. Pending(n)' = Pending(n)
  BY <1>9 DEF Pending
<1>11. ServersOK(n)'
  BY <1>3, <1>7, ServersKept DEF chain
<1>12. FiltersOK(n)'
  BY <1>3, <1>6, <1>7, FiltersKept DEF lists
<1>13. QueueOK(n)'
  <2>1. ASSUME NEW i \in DOMAIN waiting'[n], NEW j \in DOMAIN waiting'[n], i < j
        PROVE  waiting'[n][i].blk < waiting'[n][j].blk
    <3>1. /\ (i \in DOMAIN waiting[n] /\ waiting'[n][i] = waiting[n][i])
               \/ (i = Len(waiting[n]) + 1 /\ waiting'[n][i] = msg)
          /\ (j \in DOMAIN waiting[n] /\ waiting'[n][j] = waiting[n][j])
               \/ (j = Len(waiting[n]) + 1 /\ waiting'[n][j] = msg)
          /\ \A k \in DOMAIN waiting[n] : k < Len(waiting[n]) + 1
      BY <1>2, <1>4, <1>8, OneMore
    <3>2. \A k \in DOMAIN waiting[n] : waiting[n][k].blk < msg.blk /\ k \in Nat
      BY <1>2, <1>4, <1>7 DEF ActiveOK
    <3>3. Len(waiting[n]) \in Nat
      BY <1>2
    <3>4. i \in DOMAIN waiting[n]
      BY <2>1, <3>1, <3>2, <3>3
    <3> QED BY <1>1, <2>1, <3>1, <3>2, <3>4 DEF QueueOK
  <2> QED BY <1>1, <1>3, <1>9, <2>1, SameSetup DEF QueueOK, chain, sums
<1>14. BalanceOK(n)'
  BY <1>3, <1>10, BalanceKept DEF chain, lists, sums
<1>15. \A m \in Active' : ActiveOK(n, m)'
  <2> SUFFICES ASSUME NEW m \in new PROVE ActiveOK(n, m)'
    BY <1>7
  <2>1. new = {m} /\ m.kind = "getheaders" /\ m.to \in Servers
    BY <1>6 DEF new, Servers
  <2> QED BY <1>7, <2>1 DEF ActiveOK
<1> QED BY <1>11, <1>12, <1>13, <1>14, <1>15 DEF SoloInv

\* The transaction of the oldest block that is at work is taken in: its
\* outputs are listed, unless one of the others spends them, and what it
\* spends is not listed by any of the others.
LEMMA ResumeSolo == ASSUME NEW n, SoloState(n), Resume(n) PROVE SoloInv(n)'
<1>1. SoloInv(n) /\ QueueOK(n) /\ BalanceOK(n) /\ ServersOK(n) /\ Solitary(n)
  BY DEF SoloState, SoloInv
<1>2. /\ TypeOK /\ RestOK /\ IsABag(work) /\ n \in Spvs /\ setup.spvs = {n}
      /\ tip[Full] \in 1..Height /\ Height \in Nat /\ have[n] \subseteq 1..Height
      /\ waiting[n] \in Seq(Asleep)
  BY SoloTypes
<1>3. PICK msg \in Received(n, "woken") :
        /\ IF msg.blk \in have[n] THEN Apply(n, msg) ELSE Done(msg, {}) /\ UNCHANGED utxo
        /\ UNCHANGED <<setup, chain, peers, lists, requesting, waiting, sums, restarts>>
  BY DEF Resume
<1>4. /\ msg.kind = "woken" /\ msg \in Active /\ ActiveOK(n, msg) /\ msg \in Calls(n)
      /\ msg.blk \in 1..Height /\ msg.tx \in Tx /\ msg.tx \in ToSet(setup.blocks[msg.blk])
  BY <1>1, <1>2, <1>3, ReceivedType DEF Received, Active, Calls, CallKinds, SoloInv
<1>5. msg.blk \in have[n]
  <2>1. tip[Full] \in have[n] /\ msg.blk <= tip[Full]
    BY <1>1, <1>4 DEF ActiveOK, QueueOK
  <2>2. 1..tip[Full] \subseteq have[n]
    BY <1>2, <2>1 DEF SoloState, HeadersInv, HeadersRooted
  <2> QED BY <1>2, <1>4, <2>1, <2>2
<1>6. Apply(n, msg)
  BY <1>3, <1>5
<1>7. peers[n] \cap Spvs = {}
  BY <1>1, SpvAssumption DEF ServersOK, Servers
<1>8. Done(msg, {})
  BY <1>6, <1>7 DEF Apply
<1>9. Active = {msg} /\ tip[Miner] = tip[Full] /\ Active' = {}
      /\ BagToSet(work') \subseteq BagToSet(work) \cup {}
  BY <1>3, <1>8, OnlyOne
<1>10. utxo'[n] = (utxo[n] \ OwnedBy(Ins[msg.tx], monitored[n])) \cup Outputs(msg.tx)
  BY <1>2, <1>6 DEF Apply, RestOK
<1>11. Calls(n) = ToSet(waiting[n]) \cup {msg} /\ Calls(n)' = ToSet(waiting[n])
  BY <1>3, <1>4, <1>9 DEF Calls, CallKinds
<1>12. Pending(n)' \subseteq Pending(n) /\ Pending(n) = Pending(n)' \cup {msg.tx}
  <2>1. Pending(n) = {m.tx : m \in ToSet(waiting[n])} \cup {msg.tx}
    BY <1>11 DEF Pending
  <2>2. Pending(n)' = {m.tx : m \in ToSet(waiting[n])}
    BY <1>11 DEF Pending
  <2> QED BY <2>1, <2>2
<1>13. ServersOK(n)'
  BY <1>3, <1>9, ServersKept DEF chain
<1>14. FiltersOK(n)'
  BY <1>3, <1>9, FiltersKept DEF lists
<1>15. QueueOK(n)'
  BY <1>1, <1>3, <1>11, SameSetup DEF QueueOK, chain, sums
<1>16. BalanceOK(n)'
  <2>1. \A o : o[1] = msg.tx /\ o \in promised[n] => o \in Outputs(msg.tx)
    <3>1. promised[n] \subseteq Outpoint
      BY <1>2 DEF RestOK
    <3>2. \A o \in Outpoint : o \in Outputs(o[1])
      BY DEF Outpoint, Outputs
    <3> QED BY <3>1, <3>2
  <2>2. ASSUME NEW o \in promised'[n] \ spent'[n] PROVE o \in utxo'[n] \/ o[1] \in Pending(n)'
    <3>1. o \in promised[n] \ spent[n] /\ (o \in utxo[n] \/ o[1] \in Pending(n))
      BY <1>1, <1>3, <2>2 DEF BalanceOK, sums
    <3>2. o \notin Ins[msg.tx]
      BY <1>1, <1>4, <3>1 DEF QueueOK
    <3> QED BY <1>10, <1>12, <2>1, <3>1, <3>2 DEF OwnedBy
  <2>3. ASSUME NEW m \in Calls(n)', NEW o, o[1] = m.tx PROVE o \notin Ins[msg.tx]
    <3>1. PICK i \in DOMAIN waiting[n] : m = waiting[n][i]
      BY <1>11, <2>3 DEF ToSet
    <3>2. msg.blk < m.blk
      BY <1>4, <3>1 DEF ActiveOK
    <3>3. MessageOK(m) /\ m.kind = "asleep"
      BY <1>2, <3>1 DEF Asleep
    <3>4. m.blk \in 1..Height /\ m.tx \in ToSet(setup.blocks[m.blk])
      BY <3>3 DEF MessageOK, Message, CallKinds
    <3>5. InterestingTo(m.tx, Own(n)) /\ InterestingTo(msg.tx, Own(n))
      BY <1>1, <1>4, <1>11 DEF QueueOK
    <3>6. SUFFICES ASSUME o \in Ins[msg.tx] PROVE FALSE
      OBVIOUS
    <3>7. PICK before \in 1..msg.blk - 1 : o[1] \in ToSet(setup.blocks[before])
      BY <1>1, <1>4, <3>5, <3>6 DEF Solitary, PaymentsApart, Own
    <3>8. before \in 1..Height /\ before < m.blk
      BY <1>2, <1>4, <3>2, <3>4, <3>7
    <3>9. before = m.blk
      BY <1>1, <2>3, <3>4, <3>5, <3>7, <3>8 DEF Solitary, PaymentsApart, Own
    <3> QED BY <3>4, <3>8, <3>9
  <2>4. ASSUME NEW o \in spent'[n], (o \in promised'[n] \cap utxo'[n]) \/ o[1] \in Pending(n)'
        PROVE  \E t \in Pending(n)' : o \in Ins[t]
    <3>1. promised'[n] = promised[n] /\ o \in spent[n]
      BY <1>3, <2>4 DEF sums
    <3>2. o \in utxo'[n] => o \in utxo[n] \/ o[1] = msg.tx
      BY <1>10 DEF Outputs
    <3>3. (o \in promised[n] \cap utxo[n]) \/ o[1] \in Pending(n)
      BY <1>12, <2>4, <3>1, <3>2
    <3>4. PICK t \in Pending(n) : o \in Ins[t]
      BY <1>1, <3>1, <3>3 DEF BalanceOK
    <3>5. SUFFICES ASSUME o \in Ins[msg.tx] PROVE FALSE
      BY <1>12, <3>4
    <3>6. CASE o[1] \in Pending(n)'
      <4>1. PICK m \in Calls(n)' : o[1] = m.tx
        BY <3>6 DEF Pending
      <4> QED BY <2>3, <3>5, <4>1
    <3>7. CASE o \in promised[n] \cap utxo'[n]
      <4>1. o \in OwnedBy(Ins[msg.tx], monitored[n])
        BY <1>1, <3>5, <3>7 DEF BalanceOK, OwnedBy
      <4>2. o \in Outputs(msg.tx)
        BY <1>10, <3>7, <4>1
      <4>3. o[1] = msg.tx
        BY <4>2 DEF Outputs
      <4>4. InterestingTo(msg.tx, Own(n))
        BY <1>1, <1>4 DEF QueueOK
      <4>5. PICK before \in 1..msg.blk - 1 : msg.tx \in ToSet(setup.blocks[before])
        BY <1>1, <1>4, <3>5, <4>3, <4>4 DEF Solitary, PaymentsApart, Own
      <4>6. before \in 1..Height /\ before # msg.blk
        BY <1>2, <1>4, <4>5
      <4> QED BY <1>1, <1>4, <4>4, <4>5, <4>6 DEF Solitary, PaymentsApart, Own
    <3> QED BY <2>4, <3>1, <3>6, <3>7
  <2>5. \A o \in spent'[n] : \E b \in 1..tip'[Full] : o[1] \in ToSet(setup'.blocks[b])
    BY <1>1, <1>3 DEF BalanceOK, sums, chain
  <2>6. \A o \in promised'[n] : OwnerOf(o) \in monitored'[n]
    BY <1>1, <1>3 DEF BalanceOK, sums, lists
  <2> QED BY <2>2, <2>4, <2>5, <2>6 DEF BalanceOK
<1> QED BY <1>9, <1>13, <1>14, <1>15, <1>16 DEF SoloInv

\* The next block: nothing else is at work when it arrives, and n is told of
\* at most one transaction of it, which no one has seen before.
LEMMA HandleBlockdataSolo ==
  ASSUME NEW n, SoloState(n), Solitary(n)', NEW b \in 2..Height, HandleBlockdata(b)
  PROVE  SoloInv(n)'
<1>1. SoloInv(n) /\ QueueOK(n) /\ BalanceOK(n) /\ ServersOK(n) /\ FiltersOK(n) /\ Solitary(n)
  BY DEF SoloState, SoloInv
<1>2. /\ TypeOK /\ RestOK /\ IsABag(work) /\ n \in Spvs /\ n # Miner /\ n # Full /\ Miner # Full
      /\ setup.spvs = {n} /\ Height \in Nat
      /\ tip[Full] \in 1..Height /\ tip[Miner] \in 1..Height
      /\ have[n] \subseteq 1..Height /\ waiting[n] \in Seq(Asleep)
  BY SoloTypes
<1> DEFINE told(q) == {t \in ToSet(setup.blocks[b]) : q \in peers[Full] /\ InterestingTo(t, filter[q])}
           new     == UNION {{Merkleblock(q, b, t) : t \in told(q)} : q \in setup.spvs}
<1>3. /\ b \in have[Miner] /\ b \notin have[Full] /\ b - 1 \in have[Full]
      /\ have' = [have EXCEPT ![Full] = @ \cup {b}] /\ tip' = [tip EXCEPT ![Full] = b]
      /\ work' = work (+) SetToBag(new)
      /\ UNCHANGED <<setup, peers, lists, calls, restarts>>
  BY <1>1 DEF HandleBlockdata, Solitary
<1>4. b = tip[Full] + 1 /\ tip[Miner] = b /\ Active = {}
  BY <1>1, <1>2, <1>3 DEF ServersOK
<1>5. \A t \in told(n) : InterestingTo(t, Own(n)) /\ t \in ToSet(setup.blocks[b])
  BY <1>1 DEF FiltersOK, InterestingTo
<1>6. \A t, u \in told(n) : t = u
  <2>1. b \in 1..Height
    BY <1>2
  <2> QED BY <1>1, <1>5, <2>1 DEF Solitary, PaymentsApart, Own
<1>7. promised'[n] = promised[n] \cup OwnedBy(UNION {Outputs(t) : t \in told(n)}, filter[n])
  BY <1>2 DEF HandleBlockdata
<1>8. spent'[n] = spent[n] \cup UNION {Ins[t] : t \in told(n)}
  BY <1>2 DEF HandleBlockdata
<1>9. new = {Merkleblock(n, b, t) : t \in told(n)}
  BY <1>2
<1> HIDE DEF told, new
<1>10. \A m \in new : m.kind = "merkleblock" /\ m.blk = b /\ m.tx \in told(n) /\ new = {m}
  <2>1. \A t : Merkleblock(n, b, t).kind = "merkleblock" /\ Merkleblock(n, b, t).blk = b
               /\ Merkleblock(n, b, t).tx = t
    BY DEF Merkleblock
  <2> QED BY <1>6, <1>9, <2>1
<1>11. Active' = new /\ \A m \in new : work'[m] = 1
  BY <1>2, <1>3, <1>4, <1>10, SetSent
<1>12. /\ tip'[Full] = b /\ tip'[Miner] = b /\ have'[Miner] = have[Miner] /\ have'[n] = have[n]
       /\ have'[Full] = have[Full] \cup {b}
  BY <1>2, <1>3, <1>4 DEF RestOK, Servers
<1>13. waiting' = waiting /\ utxo' = utxo /\ monitored' = monitored /\ filter' = filter
  BY <1>3 DEF lists, calls
<1>14. Calls(n) = ToSet(waiting[n]) /\ Calls(n)' = Calls(n) \cup new
  BY <1>4, <1>10, <1>11, <1>13 DEF Calls, CallKinds
<1>15. Pending(n)' = Pending(n) \cup told(n)
  <2>1. {m.tx : m \in new} = told(n)
    <3>1. \A t : Merkleblock(n, b, t).tx = t
      BY DEF Merkleblock
    <3> QED BY <1>9, <3>1
  <2> QED BY <1>14, <2>1 DEF Pending
<1>16. ServersOK(n)'
  <2>1. have'[Full] = 1..tip'[Full] /\ have'[Miner] = 1..tip'[Miner]
    BY <1>1, <1>2, <1>4, <1>12 DEF ServersOK
  <2> QED BY <1>1, <1>3, <1>12, <2>1 DEF ServersOK
<1>17. FiltersOK(n)'
  <2>1. BagToSet(work') = BagToSet(work) \cup new
    BY <1>2, <1>3, SentType
  <2> QED BY <1>3, <1>10, <1>13, <2>1, FiltersKept
<1>18. QueueOK(n)'
  <2>1. have'[n] \subseteq 1..tip'[Full]
    BY <1>1, <1>2, <1>4, <1>12 DEF QueueOK
  <2>2. ASSUME NEW m \in Calls(n)'
        PROVE  m.blk <= b /\ InterestingTo(m.tx, Own(n)) /\ Ins[m.tx] \subseteq spent'[n]
    <3>1. CASE m \in Calls(n)
      <4>1. \A w \in ToSet(waiting[n]) : w \in Asleep
        BY <1>2 DEF ToSet
      <4>2. m.blk \in 1..Height
        BY <1>14, <3>1, <4>1 DEF Asleep, Message, CallKinds
      <4> QED BY <1>1, <1>2, <1>4, <1>8, <3>1, <4>2 DEF QueueOK
    <3>2. CASE m \in new
      BY <1>2, <1>5, <1>8, <1>10, <3>2
    <3> QED BY <1>14, <3>1, <3>2
  <2> QED BY <1>1, <1>3, <1>12, <1>13, <2>1, <2>2, SameSetup DEF QueueOK
<1>19. BalanceOK(n)'
  <2>1. ASSUME NEW t \in told(n), NEW c \in 1..tip[Full] PROVE t \notin ToSet(setup.blocks[c])
    <3>1. b \in 1..Height /\ c \in 1..Height /\ c # b
      BY <1>2, <1>4, <2>1
    <3>2. InterestingTo(t, Own(n)) /\ t \in ToSet(setup.blocks[b])
      BY <1>5, <2>1
    <3>3. SUFFICES ASSUME t \in ToSet(setup.blocks[c]) PROVE FALSE
      OBVIOUS
    <3>4. b = c <=> t = t
      BY <1>1, <3>1, <3>2, <3>3 DEF Solitary, PaymentsApart, Own
    <3> QED BY <3>1, <3>4
  <2>2. \A o \in promised'[n] : OwnerOf(o) \in monitored'[n]
    BY <1>1, <1>7, <1>13 DEF BalanceOK, FiltersOK, OwnedBy
  <2>3. ASSUME NEW t \in told(n), NEW o \in Outputs(t) PROVE o[1] = t
    BY DEF Outputs
  <2>4. \A o \in promised'[n] \ spent'[n] : o \in utxo'[n] \/ o[1] \in Pending(n)'
    BY <1>1, <1>7, <1>8, <1>13, <1>15, <2>3 DEF BalanceOK, OwnedBy
  <2>5. \A o \in utxo[n] : \E c \in 1..tip[Full] : o[1] \in ToSet(setup.blocks[c])
    BY <1>1, <1>2 DEF SoloState, UtxoProved, QueueOK
  <2>6. ASSUME NEW t \in told(n), NEW o \in Ins[t]
        PROVE  \E c \in 1..tip[Full] : o[1] \in ToSet(setup.blocks[c])
    <3>1. b \in 1..Height /\ b - 1 = tip[Full]
      BY <1>2, <1>4
    <3> QED BY <1>1, <1>5, <2>6, <3>1 DEF Solitary, PaymentsApart, Own
  <2>7. \A o \in spent'[n] : \E c \in 1..tip[Full] : o[1] \in ToSet(setup.blocks[c])
    BY <1>1, <1>8, <2>6 DEF BalanceOK
  <2>8. \A o \in spent'[n] : \E c \in 1..tip'[Full] : o[1] \in ToSet(setup'.blocks[c])
    <3>1. 1..tip[Full] \subseteq 1..tip'[Full]
      BY <1>2, <1>4, <1>12
    <3> QED BY <1>3, <2>7, <3>1
  <2>9. ASSUME NEW o \in spent'[n], (o \in promised'[n] \cap utxo'[n]) \/ o[1] \in Pending(n)'
        PROVE  \E t \in Pending(n)' : o \in Ins[t]
    <3>1. CASE o \notin spent[n]
      BY <1>8, <1>15, <2>9, <3>1
    <3>2. CASE o \in spent[n]
      <4>1. o[1] \notin told(n)
        BY <2>1, <2>7, <2>9
      <4>2. (o \in promised[n] \cap utxo[n]) \/ o[1] \in Pending(n)
        BY <1>7, <1>13, <1>15, <2>3, <2>9, <4>1 DEF OwnedBy
      <4> QED BY <1>1, <1>15, <3>2, <4>2 DEF BalanceOK
    <3> QED BY <3>1, <3>2
  <2> QED BY <2>2, <2>4, <2>8, <2>9 DEF BalanceOK
<1>20. \A m \in Active' : ActiveOK(n, m)'
  <2> SUFFICES ASSUME NEW m \in new PROVE ActiveOK(n, m)'
    BY <1>11
  <2>1. b \notin have[n]
    BY <1>1, <1>2, <1>4 DEF QueueOK
  <2>2. ASSUME NEW i \in DOMAIN waiting[n] PROVE waiting[n][i].blk < b
    <3>1. waiting[n][i] \in Calls(n) /\ waiting[n][i] \in Asleep
      BY <1>2, <1>14 DEF ToSet
    <3>2. waiting[n][i].blk \in 1..Height
      BY <3>1 DEF Asleep, Message, CallKinds
    <3> QED BY <1>1, <1>2, <1>4, <3>1, <3>2 DEF QueueOK
  <2> QED BY <1>10, <1>11, <1>12, <1>13, <2>1, <2>2 DEF ActiveOK
<1> QED BY <1>16, <1>17, <1>18, <1>19, <1>20 DEF SoloInv

LEMMA InitBalance == Init => BalanceInv
<1> SUFFICES ASSUME Init PROVE BalanceInv
  OBVIOUS
<1>1. HeadersInv /\ UtxoProved
  <2>1. UtxoProved
    BY DEF Init, UtxoProved
  <2> QED BY <2>1, InitHeaders
<1>2. ASSUME NEW n \in setup.spvs PROVE SoloInv(n)
  <2>1. /\ setup \in Setups /\ n \in Spvs /\ n # Miner /\ n # Full /\ Miner # Full
        /\ setup.start \in 1..Height /\ Height \in Nat
    BY SetupType, SpvAssumption DEF Init
  <2>2. BagToSet(work) = {} /\ Active = {}
    BY EmptyBagType DEF Init, Active
  <2>3. /\ have[Miner] = 1..setup.start /\ have[Full] = 1..setup.start /\ have[n] = {1}
        /\ tip[Miner] = setup.start /\ tip[Full] = setup.start
        /\ peers[n] = {} /\ monitored[n] = {} /\ filter[n] = {} /\ waiting[n] = <<>>
        /\ promised[n] = {} /\ spent[n] = {}
    BY <2>1, SpvAssumption DEF Init, Servers
  <2>4. ServersOK(n)
    BY <2>2, <2>3 DEF ServersOK
  <2>5. FiltersOK(n)
    BY <2>2, <2>3 DEF FiltersOK, Received
  <2>6. QueueOK(n)
    <3>1. Calls(n) = {} /\ DOMAIN waiting[n] = {}
      BY <2>2, <2>3 DEF Calls, ToSet
    <3>2. have[n] \subseteq 1..tip[Full]
      BY <2>1, <2>3
    <3> QED BY <3>1, <3>2 DEF QueueOK
  <2>7. BalanceOK(n)
    BY <2>3 DEF BalanceOK
  <2> QED BY <2>2, <2>4, <2>5, <2>6, <2>7 DEF SoloInv
<1> QED BY <1>1, <1>2 DEF BalanceInv

\* One step of a network with a single SPV node.
LEMMA NextSolo ==
  ASSUME NEW n, SoloState(n), Solitary(n)', [Next]_vars
  PROVE  SoloInv(n)'
<1>1. setup.spvs = {n}
  BY SoloTypes
<1>2. CASE UNCHANGED vars
  <2>1. Active' = Active /\ Calls(n)' = Calls(n) /\ Pending(n)' = Pending(n)
    BY <1>2 DEF vars, calls, Active, Calls, Pending
  <2>2. SoloInv(n)
    BY DEF SoloState
  <2>3. Received(Full, "filterload")' = Received(Full, "filterload")
    BY <1>2 DEF vars, Received
  <2>4. ServersOK(n)' /\ FiltersOK(n)'
    BY <1>2, <2>1, <2>2, <2>3, SameSetup DEF SoloInv, vars, chain, lists, ServersOK, FiltersOK
  <2>5. QueueOK(n)' /\ BalanceOK(n)'
    BY <1>2, <2>1, <2>2, SameSetup, BalanceKept
       DEF SoloInv, vars, chain, lists, calls, sums, QueueOK
  <2>6. \A m \in Active' : ActiveOK(n, m)'
    BY <1>2, <2>1, <2>2 DEF SoloInv, vars, chain, calls, ActiveOK
  <2> QED BY <2>4, <2>5, <2>6 DEF SoloInv
<1>3. CASE Mine
  BY <1>3, MineSolo
<1>4. CASE \E b \in 2..Height : HandleBlockdata(b)
  BY <1>4, HandleBlockdataSolo
<1>5. CASE HandleFilterload
  BY <1>5, HandleFilterloadSolo
<1>6. CASE \E p \in Servers \cup setup.spvs : HandleGetheaders(p)
  BY <1>6, HandleGetheadersSolo
<1>7. CASE Connect(Full, n) \/ \E p \in Others(n) : Connect(n, p)
  BY <1>7, ConnectSolo
<1>8. CASE Restart(n)
  <2>1. restarts \in Nat /\ restarts' = restarts + 1 /\ restarts' = 0
    BY <1>8, SoloTypes, SetupType DEF Restart, Solitary, RestOK
  <2> QED BY <2>1
<1>9. CASE \E a \in Addresses : HandleNewAddr(n, a)
  BY <1>9, HandleNewAddrSolo
<1>10. CASE HandleHeaders(n)
  BY <1>10, HandleHeadersSolo
<1>11. CASE \E t \in Tx : HandleMerkleblock(n, t)
  BY <1>11, HandleMerkleblockSolo
<1>12. CASE Ask(n)
  BY <1>12, AskSolo
<1>13. CASE Resume(n)
  BY <1>13, ResumeSolo
<1> QED BY <1>1, <1>2, <1>3, <1>4, <1>5, <1>6, <1>7, <1>8, <1>9, <1>10, <1>11, <1>12, <1>13 DEF Next

\* The case lasts only if it was there before: blocks repeated and nodes
\* restarted are counted.
LEMMA SolitaryBefore ==
  ASSUME TypeOK, [Next]_vars, NEW n, Solitary(n)'
  PROVE  Solitary(n) /\ setup' = setup
<1>1. setup' = setup
  BY DEF Next, vars, Mine, HandleBlockdata, HandleFilterload, HandleGetheaders, Connect, Restart,
         HandleNewAddr, HandleHeaders, HandleMerkleblock, Ask, Resume
<1>2. repeats' = repeats \/ repeats' = repeats + 1
  BY DEF Next, vars, sums, Mine, HandleBlockdata, HandleFilterload, HandleGetheaders, Connect,
         Restart, HandleNewAddr, HandleHeaders, HandleMerkleblock, Ask, Resume
<1>3. restarts' = restarts \/ restarts' = restarts + 1
  BY DEF Next, vars, Mine, HandleBlockdata, HandleFilterload, HandleGetheaders, Connect, Restart,
         HandleNewAddr, HandleHeaders, HandleMerkleblock, Ask, Resume
<1>4. repeats \in Nat /\ restarts \in Nat
  BY SetupType DEF TypeOK
<1>5. repeats = 0 /\ restarts = 0
  BY <1>2, <1>3, <1>4 DEF Solitary
<1>6. PaymentsApart(n)' = PaymentsApart(n) /\ Height' = Height
  BY <1>1 DEF PaymentsApart, Height
<1> QED BY <1>1, <1>5, <1>6 DEF Solitary

LEMMA NextBalance == ASSUME BalanceInv, [Next]_vars PROVE BalanceInv'
<1>1. HeadersInv' /\ UtxoProved'
  BY NextHeaders, ProvedStep DEF BalanceInv
<1>2. ASSUME NEW n, n \in setup'.spvs, Solitary(n)' PROVE SoloInv(n)'
  <2>1. Solitary(n) /\ setup' = setup
    BY <1>2, SolitaryBefore DEF BalanceInv, HeadersInv
  <2>2. SoloState(n)
    BY <1>2, <2>1 DEF BalanceInv, SoloState
  <2> QED BY <1>2, <2>2, NextSolo
<1> QED BY <1>1, <1>2 DEF BalanceInv

\* With one SPV node, blocks far enough apart, and payments apart, nothing
\* that the full node told of is missing when all handlers are done, and
\* nothing is listed that it told was spent, whenever addresses were added, in
\* whatever order filters arrived, and whether or not wake-ups were lost in
\* between.
THEOREM BalanceStaysTrue == Spec => []BalanceTrue
<1>1. Init => BalanceInv
  BY InitBalance
<1>2. BalanceInv /\ [Next]_vars => BalanceInv'
  BY NextBalance
<1>3. BalanceInv => BalanceTrue
  <2> SUFFICES ASSUME BalanceInv, NEW n \in setup.spvs, Solitary(n),
                      work = EmptyBag, waiting[n] = <<>>
               PROVE  promised[n] \cap utxo[n] = promised[n] \ spent[n]
    BY DEF BalanceTrue, Solitary
  <2>1. BalanceOK(n)
    BY DEF BalanceInv, SoloInv
  <2>2. Pending(n) = {}
    BY EmptyBagType DEF Pending, Calls, Active, ToSet
  <2> QED BY <2>1, <2>2 DEF BalanceOK
<1> QED BY <1>1, <1>2, <1>3, PTL DEF Spec
=============================================================================
