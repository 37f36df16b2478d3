-------------------------------- MODULE Spv --------------------------------
(***************************************************************************)
(* SPV nodes: they keep the headers of the chain, tell the full node which *)
(* addresses they monitor, and take the transactions that it picks out for *)
(* them into their UTXO set once they have the header of the block.  One   *)
(* miner extends the chain, one full node follows it: a block's hash is    *)
(* its height.  A merkleblock's AddrFrom is the full node's address, also  *)
(* when an SPV node relays it.                                             *)
(***************************************************************************)
EXTENDS Naturals, SequencesExt, FiniteSetsExt, Bags, BagsExt

CONSTANTS
  Miner, Full, Spvs,
  Addresses,
  Tx,
  Payees,    \* Payees[t]: whom the outputs of transaction t are bound to
  Ins,       \* Ins[t]: the outpoints it spends: transaction and output
  Setups     \* the networks to start from, with their bounds:

(***************************************************************************)
(* the SPV nodes, and which addresses the wallet tells which of them; the  *)
(* transactions in each block of the chain, and how many of the blocks     *)
(* exist when the SPV nodes start; headers in a headers message (2000);    *)
(* whether the network settles before another block is mined or nodes      *)
(* connect; bounds: blocks that reach the full node once more, SPV nodes   *)
(* restarted.                                                              *)
(***************************************************************************)
Setup == [spvs : SUBSET Spvs, wallet : SUBSET (Spvs \X Addresses), blocks : Seq(Seq(Tx)),
          start : Nat \ {0}, limit : Nat \ {0}, spaced : BOOLEAN,
          repeats : Nat, restarts : Nat]

Outputs(t)  == {<<t, i>> : i \in DOMAIN Payees[t]}
OwnerOf(o)  == Payees[o[1]][o[2]]
Outpoint    == UNION {Outputs(t) : t \in Tx}

ASSUME SpvAssumption ==
  /\ Miner # Full /\ {Miner, Full} \cap Spvs = {}
  /\ Payees \in [Tx -> Seq(Addresses)]
  /\ Ins \in [Tx -> SUBSET Outpoint]
  /\ Setups \subseteq Setup
  /\ \A s \in Setups : s.start <= Len(s.blocks)

VARIABLES
  setup,       \* one of Setups; it does not change
  have,        \* have[n]: heights of the blocks or headers stored
  tip,         \* tip[n]: LastHash
  peers,       \* peers[n]: connectedPeers of the full node and the SPV nodes
  monitored,   \* monitored[n]: monitorAddrList, and the bloom filter
  filter,      \* filter[n]: the full node's connectedSpvBloomFilterMap
  requesting,  \* the SPV nodes with requestingBlockHeader
  waiting,     \* waiting[n]: merkleblock handlers at <-updatedBlockHeader
  utxo,        \* utxo[n]: the outpoints listed
  work,        \* messages not yet handled; handlers that sleep or were woken
  promised,    \* promised[n]: outpoints the full node told n of
  spent,       \* spent[n]: outpoints it told n were spent
  repeats,     \* blocks handled again so far
  restarts     \* SPV nodes restarted so far

chain == <<have, tip>>
lists == <<monitored, filter>>
calls == <<requesting, waiting, utxo>>
sums  == <<promised, spent, repeats>>
vars  == <<setup, chain, peers, lists, calls, work, sums, restarts>>

-----------------------------------------------------------------------------
Height  == Len(setup.blocks)
MaxHeight == Max({Len(s.blocks) : s \in Setups})
Servers == {Miner, Full}
Others(n) == (Servers \cup setup.spvs) \ {n}

InterestingTo(t, addrs) == \E o \in Ins[t] \cup Outputs(t) : OwnerOf(o) \in addrs
OwnedBy(set, addrs) == {o \in set : OwnerOf(o) \in addrs}

Getheaders(n, p)       == [kind |-> "getheaders", to |-> p, from |-> n, top |-> tip[n]]
Headers(p, first, end) == [kind |-> "headers", to |-> p, first |-> first, end |-> end]
Filterload(n, addrs)   == [kind |-> "filterload", to |-> Full, from |-> n, addrs |-> addrs]
Merkleblock(n, b, t)   == [kind |-> "merkleblock", to |-> n, blk |-> b, tx |-> t]

Received(n, kind) == {msg \in BagToSet(work) : msg.kind = kind /\ msg.to = n}

\* What is done is replaced by what it leads to.
Done(msg, new) == work' = BagRemove(work, msg) (+) SetToBag(new)

\* The network has settled: the full node has the last block, and all that
\* goes on is that SPV nodes pass on what both of them have listed.
Settled ==
  /\ have[Full] = have[Miner]
  /\ \A msg \in BagToSet(work) :
       msg.kind = "merkleblock" /\ Outputs(msg.tx) \cap utxo[msg.to] # {}

-----------------------------------------------------------------------------
Init ==
  /\ setup \in Setups
  /\ have = [n \in Servers \cup Spvs |-> IF n \in Spvs THEN {1} ELSE 1..setup.start]
  /\ tip = [n \in Servers \cup Spvs |-> IF n \in Spvs THEN 1 ELSE setup.start]
  /\ peers = [n \in {Full} \cup Spvs |-> {}]
  /\ monitored = [n \in Spvs |-> {}]
  /\ filter = [n \in Spvs |-> {}]
  /\ requesting = {}
  /\ waiting = [n \in Spvs |-> <<>>]
  /\ utxo = [n \in Spvs |-> {}]
  /\ work = EmptyBag
  /\ promised = [n \in Spvs |-> {}]
  /\ spent = [n \in Spvs |-> {}]
  /\ repeats = 0
  /\ restarts = 0

\* A verack makes p a peer; an SPV node asks it for headers.  (The full node
\* asks an SPV node for blocks, which has no handler for that.)
Connect(n, p) ==
  /\ p \notin peers[n]
  /\ setup.spaced => Settled
  /\ peers' = [peers EXCEPT ![n] = @ \cup {p}]
  /\ work' = IF n = Full THEN work ELSE BagAdd(work, Getheaders(n, p))
  /\ UNCHANGED <<setup, chain, lists, calls, sums, restarts>>

\* handleNewAddrMsg: the wallet adds an address.
HandleNewAddr(n, a) ==
  /\ <<n, a>> \in setup.wallet
  /\ a \notin monitored[n]
  /\ monitored' = [monitored EXCEPT ![n] = @ \cup {a}]
  /\ work' = IF Full \in peers[n] THEN BagAdd(work, Filterload(n, monitored'[n])) ELSE work
  /\ UNCHANGED <<setup, chain, peers, filter, calls, sums, restarts>>

HandleFilterload ==
  \E msg \in Received(Full, "filterload") :
    /\ filter' = [filter EXCEPT ![msg.from] = msg.addrs]
    /\ Done(msg, {})
    /\ UNCHANGED <<setup, chain, peers, monitored, calls, sums, restarts>>

\* The process of an SPV node ends and starts again: headers and outputs are
\* in the database, but the tip is the genesis block again.
Restart(n) ==
  /\ restarts < setup.restarts
  /\ setup.spaced => Settled
  /\ restarts' = restarts + 1
  /\ tip' = [tip EXCEPT ![n] = 1]
  /\ peers' = [peers EXCEPT ![n] = {}]
  /\ monitored' = [monitored EXCEPT ![n] = {}]
  /\ requesting' = requesting \ {n}
  /\ waiting' = [waiting EXCEPT ![n] = <<>>]
  /\ work' = [msg \in {msg \in DOMAIN work : msg.to # n} |-> work[msg]]
  /\ UNCHANGED <<setup, have, filter, utxo, sums>>

Mine ==
  /\ tip[Miner] < Height
  /\ setup.spaced => Settled
  /\ have' = [have EXCEPT ![Miner] = @ \cup {tip[Miner] + 1}]
  /\ tip' = [tip EXCEPT ![Miner] = @ + 1]
  /\ UNCHANGED <<setup, peers, lists, calls, work, sums, restarts>>

\* handleBlockdataMsg of the full node, steps 2 and 4: it stores the block,
\* which may be an old one when there are other full nodes, and sends its
\* transactions to the SPV peers whose filter they match.
HandleBlockdata(b) ==
  LET told(n) == {t \in ToSet(setup.blocks[b]) : n \in peers[Full] /\ InterestingTo(t, filter[n])}
  IN  /\ b \in have[Miner] /\ b - 1 \in have[Full]
      /\ repeats' = IF b \in have[Full] THEN repeats + 1 ELSE repeats
      /\ repeats' <= setup.repeats
      /\ have' = [have EXCEPT ![Full] = @ \cup {b}]
      /\ tip' = [tip EXCEPT ![Full] = b]
      /\ work' = work (+) SetToBag(UNION {{Merkleblock(n, b, t) : t \in told(n)} : n \in setup.spvs})
      /\ promised' = [n \in Spvs |-> promised[n]
           \cup OwnedBy(UNION {Outputs(t) : t \in told(n)}, filter[n])]
      /\ spent' = [n \in Spvs |-> spent[n]
           \cup UNION {Ins[t] : t \in told(n)}]
      /\ UNCHANGED <<setup, peers, lists, calls, restarts>>

-----------------------------------------------------------------------------
(* Headers.                                                                *)

\* GetUnmatchedHeaders, first result: the walk from the tip meets the hash.
\* An SPV node's walk compares hashes before it looks for the header.
HeaderExisted(n, top) == top <= tip[n] /\ top + 1..tip[n] \subseteq have[n]

\* Faulty variant: headers are sent also when there are none to send.
HandleGetheadersEmpty(n) ==
  \E msg \in Received(n, "getheaders") :
    /\ Done(msg, IF HeaderExisted(n, msg.top)
                 THEN {Headers(msg.from, msg.top + 1, Min({tip[n], msg.top + setup.limit}))}
                 ELSE IF n \in Spvs THEN {Getheaders(n, msg.from)} ELSE {})
    /\ UNCHANGED <<setup, chain, peers, lists, calls, sums, restarts>>

\* Faulty variant: the newest headers are sent, not the oldest.
HandleGetheadersNewest(n) ==
  \E msg \in Received(n, "getheaders") :
    /\ Done(msg, IF HeaderExisted(n, msg.top)
                 THEN IF msg.top = tip[n] THEN {}
                      ELSE {Headers(msg.from, Max({msg.top, tip[n] - setup.limit}) + 1, tip[n])}
                 ELSE IF n \in Spvs THEN {Getheaders(n, msg.from)} ELSE {})
    /\ UNCHANGED <<setup, chain, peers, lists, calls, sums, restarts>>

\* Send the headers the other node lacks, the oldest ones first; an SPV node
\* that does not know the other's tip asks in turn.
HandleGetheaders(n) ==
  \E msg \in Received(n, "getheaders") :
    /\ Done(msg, IF HeaderExisted(n, msg.top)
                 THEN IF msg.top = tip[n] THEN {}
                      ELSE {Headers(msg.from, msg.top + 1, Min({tip[n], msg.top + setup.limit}))}
                 ELSE IF n \in Spvs THEN {Getheaders(n, msg.from)} ELSE {})
    /\ UNCHANGED <<setup, chain, peers, lists, calls, sums, restarts>>

\* Faulty variant: no handler is told.
HandleHeadersSilent(n) ==
  \E msg \in Received(n, "headers") :
    /\ have' = [have EXCEPT ![n] = @ \cup (msg.first..msg.end)]
    /\ tip' = [tip EXCEPT ![n] = msg.end]
    /\ Done(msg, {})
    /\ UNCHANGED <<setup, peers, lists, calls, sums, restarts>>

\* The last header becomes the tip, wherever the tip was.  One handler, the
\* one that has waited longest, is woken; if there is none, the send is
\* dropped.
HandleHeaders(n) ==
  \E msg \in Received(n, "headers") :
    LET wakes == n \in requesting /\ waiting[n] # <<>>
    IN  /\ have' = [have EXCEPT ![n] = @ \cup (msg.first..msg.end)]
        /\ tip' = [tip EXCEPT ![n] = msg.end]
        /\ waiting' = IF wakes THEN [waiting EXCEPT ![n] = Tail(@)] ELSE waiting
        /\ Done(msg, IF wakes THEN {[Head(waiting[n]) EXCEPT !.kind = "woken"]} ELSE {})
        /\ UNCHANGED <<setup, peers, lists, requesting, utxo, sums, restarts>>

-----------------------------------------------------------------------------
(* handleMerkleblockMsg.                                                   *)

\* Faulty variant: what the transaction spends stays listed.
ApplyOutputs(n, msg) ==
  /\ utxo' = [utxo EXCEPT ![n] = @ \cup Outputs(msg.tx)]
  /\ Done(msg, {Merkleblock(p, msg.blk, msg.tx) : p \in peers[n] \cap Spvs})

\* Steps 3 and 4: take the transaction into the UTXO set, without the inputs
\* of others, and relay the message to the SPV peers.
Apply(n, msg) ==
  /\ utxo' = [utxo EXCEPT ![n] = (@ \ OwnedBy(Ins[msg.tx], monitored[n])) \cup Outputs(msg.tx)]
  /\ Done(msg, {Merkleblock(p, msg.blk, msg.tx) : p \in peers[n] \cap Spvs})

\* Step 1 and, when the header is there, the rest; else three seconds pass.
HandleMerkleblock(n, t) ==
  \E msg \in Received(n, "merkleblock") :
    /\ msg.tx = t
    /\ IF msg.blk \in have[n] THEN Apply(n, msg)
       ELSE Done(msg, {[msg EXCEPT !.kind = "asleep"]}) /\ UNCHANGED utxo
    /\ UNCHANGED <<setup, chain, peers, lists, requesting, waiting, sums, restarts>>

\* Faulty variant: a node that has asked before does not ask again.
AskOnce(n) ==
  \E msg \in Received(n, "asleep") :
    /\ requesting' = IF Miner \in peers[n] THEN requesting \cup {n} ELSE requesting
    /\ Done(msg, IF Miner \in peers[n] /\ n \notin requesting THEN {Getheaders(n, Miner)} ELSE {})
    /\ waiting' = [waiting EXCEPT ![n] = Append(@, msg)]
    /\ UNCHANGED <<setup, chain, peers, lists, utxo, sums, restarts>>

\* After the pause, and without looking again, it asks its server peers
\* other than AddrFrom for headers, and waits.
Ask(n) ==
  \E msg \in Received(n, "asleep") :
    /\ requesting' = IF Miner \in peers[n] THEN requesting \cup {n} ELSE requesting
    /\ Done(msg, IF Miner \in peers[n] THEN {Getheaders(n, Miner)} ELSE {})
    /\ waiting' = [waiting EXCEPT ![n] = Append(@, msg)]
    /\ UNCHANGED <<setup, chain, peers, lists, utxo, sums, restarts>>

\* Faulty variant: step 2 does not look for the header again.
ResumeUnchecked(n) ==
  \E msg \in Received(n, "woken") :
    /\ Apply(n, msg)
    /\ UNCHANGED <<setup, chain, peers, lists, requesting, waiting, sums, restarts>>

\* Step 2, once woken: without the header the transaction is dropped.
Resume(n) ==
  \E msg \in Received(n, "woken") :
    /\ IF msg.blk \in have[n] THEN Apply(n, msg) ELSE Done(msg, {}) /\ UNCHANGED utxo
    /\ UNCHANGED <<setup, chain, peers, lists, requesting, waiting, sums, restarts>>

-----------------------------------------------------------------------------
Next ==
  \/ Mine
  \/ \E b \in 2..Height : HandleBlockdata(b)
  \/ HandleFilterload
  \/ \E n \in Servers : HandleGetheaders(n)
  \/ \E n \in setup.spvs :
       \/ Connect(Full, n) \/ (\E p \in Others(n) : Connect(n, p)) \/ Restart(n)
       \/ \E a \in Addresses : HandleNewAddr(n, a)
       \/ HandleGetheaders(n) \/ HandleHeaders(n)
       \/ (\E t \in Tx : HandleMerkleblock(n, t)) \/ Ask(n) \/ Resume(n)

Spec == Init /\ [][Next]_vars

\* As long as there are messages about headers, handlers to go on, or
\* merkleblocks with a transaction, some of them are served; nodes need not
\* connect, nor blocks be mined.
Fairness ==
  /\ WF_vars(\E n \in Servers \cup Spvs : HandleGetheaders(n))
  /\ WF_vars(\E n \in Spvs : HandleHeaders(n))
  /\ \A t \in Tx : WF_vars(\E n \in Spvs : HandleMerkleblock(n, t))
  /\ WF_vars(\E n \in Spvs : Ask(n)) /\ WF_vars(\E n \in Spvs : Resume(n))

FairSpec == Spec /\ Fairness

-----------------------------------------------------------------------------
CallKinds == {"merkleblock", "asleep", "woken"}

Message ==
  [kind : {"getheaders"}, to : Servers \cup setup.spvs, from : setup.spvs, top : 1..Height]
    \cup [kind : {"headers"}, to : setup.spvs, first : 2..Height, end : 2..Height]
    \cup [kind : {"filterload"}, to : {Full}, from : setup.spvs, addrs : SUBSET Addresses]
    \cup [kind : CallKinds, to : setup.spvs, blk : 1..Height, tx : Tx]

\* A headers message is never empty: its handler indexes the last header.
MessageOK(msg) ==
  /\ msg \in Message
  /\ msg.kind = "headers" => msg.first <= msg.end
  /\ msg.kind \in CallKinds => msg.tx \in ToSet(setup.blocks[msg.blk])

TypeOK ==
  /\ setup \in Setups
  /\ have \in [Servers \cup Spvs -> SUBSET (1..Height)]
  /\ tip \in [Servers \cup Spvs -> 1..Height]
  /\ peers \in [{Full} \cup Spvs -> SUBSET (Servers \cup setup.spvs)]
  /\ monitored \in [Spvs -> SUBSET Addresses] /\ filter \in [Spvs -> SUBSET Addresses]
  /\ requesting \subseteq setup.spvs
  /\ IsABag(work) /\ \A msg \in BagToSet(work) : MessageOK(msg)
  /\ waiting \in [Spvs -> Seq({msg \in Message : MessageOK(msg) /\ msg.kind = "asleep"})]
  /\ utxo \in [Spvs -> SUBSET Outpoint]
  /\ promised \in [Spvs -> SUBSET Outpoint] /\ spent \in [Spvs -> SUBSET Outpoint]
  /\ repeats \in 0..setup.repeats /\ restarts \in 0..setup.restarts

\* Although answers arrive in any order and move the tip back and forth, no
\* header is stored without all that come before it, and the tip is stored:
\* GetHeight and GetUnmatchedHeaders walk to the genesis block.
HeadersRooted ==
  \A n \in Spvs : tip[n] \in have[n] /\ \A k \in have[n] : 1..k \subseteq have[n]

\* Whatever headers wake a handler, an SPV node lists only outputs of
\* transactions in blocks whose headers it has.
UtxoProved ==
  \A n \in Spvs : \A o \in utxo[n] : \E b \in have[n] : o[1] \in ToSet(setup.blocks[b])

\* A handler that misses a header and has the miner as a peer gets it, if
\* the chain fits into one headers message.
HeaderFetched ==
  \A n \in Spvs : \A b \in 2..MaxHeight :
    /\ Height <= setup.limit + 1 /\ Miner \in peers[n] /\ restarts = setup.restarts
    /\ \E msg \in Received(n, "asleep") : msg.blk = b
    ~> b \in have[n]

\* A merkleblock with transaction t arrives at node n, which is connected
\* with all others; no handler waits or is at work there, nor are headers
\* asked for.
Arriving(n, t) ==
  /\ setup.spaced /\ setup.repeats = 0 /\ restarts = setup.restarts
  /\ Height <= setup.limit + 1
  /\ peers[n] = Others(n) /\ \A p \in Spvs : waiting[p] = <<>>
  /\ \E msg \in Received(n, "merkleblock") : msg.tx = t
  /\ \A msg \in BagToSet(work) :
       \/ msg.kind = "filterload"
       \/ msg.kind \in CallKinds /\ (msg.to = n => msg.kind = "merkleblock")

Alone(n, t) == \A msg \in Received(n, "merkleblock") : msg.tx = t

\* With one transaction of interest in a block, and blocks far enough apart,
\* it gets into the UTXO set of every SPV node it is sent or relayed to.
PaymentArrives ==
  \A n \in Spvs, t \in Tx :
    Arriving(n, t) /\ Alone(n, t) ~> Outputs(t) \cap utxo[n] # {}

\* Payments from and to the addresses of n's wallet are apart: there is at
\* most one of them in a block, none is in two blocks, and what they spend
\* comes from earlier blocks.
PaymentsApart(n) ==
  LET own         == {a \in Addresses : <<n, a>> \in setup.wallet}
      payments(b) == {t \in ToSet(setup.blocks[b]) : InterestingTo(t, own)}
  IN  \A b, c \in 1..Height : \A t \in payments(b), u \in payments(c) :
        /\ b = c <=> t = u
        /\ \A o \in Ins[t] : \E before \in 1..b - 1 : o[1] \in ToSet(setup.blocks[before])

\* A single SPV node whose handlers are all done lists, of the outputs the
\* full node told it of, exactly the ones it was not told to be spent.
BalanceTrue ==
  \A n \in setup.spvs :
    /\ setup.spaced /\ setup.spvs = {n} /\ Height <= setup.limit + 1 /\ PaymentsApart(n)
    /\ repeats = 0 /\ restarts = 0 /\ work = EmptyBag /\ waiting[n] = <<>>
    => promised[n] \cap utxo[n] = promised[n] \ spent[n]

\* A payment that is mined gets into the UTXO set, so that balances show it,
\* also when the miner's monitored reward for the block comes with it.
EveryPaymentArrives ==
  \A n \in Spvs : \A t \in {u \in Tx : Ins[u] # {}} :
    Arriving(n, t) ~> Outputs(t) \cap utxo[n] # {}
=============================================================================
