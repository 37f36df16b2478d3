------------------------------- MODULE Ledger -------------------------------
(***************************************************************************)
(* The ledger kept by full nodes and miners: block store, tip, UTXO set    *)
(* and mempool, the miner's loop, and the goroutines that admit            *)
(* transactions and apply newly mined blocks.  Every message is handled in *)
(* a goroutine of its own and nothing is locked, so the handlers are cut   *)
(* where another goroutine's step can matter.                              *)
(***************************************************************************)
EXTENDS BlockStore, SequencesExt, FiniteSetsExt

CONSTANTS
  Miners,        \* nodes started as MinerNode
  FullNodes,     \* nodes started as FullNode
  Clients,       \* wallets and SPV nodes that hand raw transactions to nodes
  Peers,         \* Peers[n]: the addresses in connectedPeers of node n
  Knows,         \* Knows[c]: the nodes client c is connected to
  UserTx,        \* transactions built by wallets
  Payment,       \* Payment[t]: signer, inputs and outputs of transaction t
  Recipient,     \* Recipient[m]: the address a miner's reward is bound to
  Satoshi,       \* the address the genesis coinbase is bound to
  COINBASE_REWARD,
  Phantom,       \* the zero Transaction (nil Hash, no inputs, no outputs)
  InOrder,       \* TRUE: a link is read in order, its blocks one after the other
  MaxBlocks,     \* bound: blocks ever sealed, the genesis block included
  MaxCrashes,    \* bound: nodes killed by their operator
  MaxLost,       \* bound: appends to a mempool lost to another one
  Admitters      \* bound: goroutines of a node that admit at one time

Nodes   == Miners \cup FullNodes
Sources == Nodes \cup Clients
Links   == Sources \X Nodes

\* A transaction's hash: a coinbase is named by the block it pays for.
Tx       == Nat \cup UserTx \cup {Phantom}
Outpoint == Tx \X Nat

ASSUME LedgerAssumption ==
  /\ Miners \cap FullNodes = {}
  /\ Nodes \cap Clients = {}
  /\ Peers \in [Nodes -> SUBSET Nodes]
  /\ Knows \in [Clients -> SUBSET Nodes]
  /\ MaxBlocks \in Nat
  /\ MaxCrashes \in Nat
  /\ MaxLost \in Nat
  /\ Admitters \in Nat
  /\ COINBASE_REWARD \in Nat
  /\ InOrder \in BOOLEAN
  /\ \A t \in UserTx : /\ t \notin Nat
                       /\ t # Phantom
                       /\ Payment[t].ins \subseteq Outpoint
                       /\ Payment[t].outs \in Seq([value : Nat, owner : STRING])
  /\ Phantom \notin Nat

\* One miner and any number of full nodes that know only the miner; links are
\* read in order and nobody is killed.
StarNetwork ==
  /\ \E m \in Miners : Miners = {m}
  /\ \A m \in Miners : Peers[m] \subseteq FullNodes
  /\ \A f \in FullNodes : Peers[f] \subseteq Miners
  /\ InOrder
  /\ MaxCrashes = 0

VARIABLES
  blocks,    \* every block ever sealed; a block's hash is its index
  db,        \* db[n]: hashes stored in node n's LevelDB
  lastHash,  \* lastHash[n]: Blockchain.LastHash
  utxo,      \* utxo[n]: the outpoints listed under the utxo- prefix
  mempool,   \* mempool[n]: node.mempool
  mining,    \* mining[m]: the candidate block of startMining, or Idle
  storing,   \* storing[n]: goroutines inside handleBlockdataMsg / storeNewBlock
  admitting, \* admitting[n]: goroutines past the checks of handleNewTxnMsg
  net,       \* net[<<s, n>>]: messages sent by s and not yet read by n
  status,    \* "up", "killed" or "panicked"
  sent,      \* client deliveries already made
  crashes,   \* kills so far
  lost       \* appends to a mempool lost so far

vars == <<blocks, db, lastHash, utxo, mempool, mining, storing, admitting,
          net, status, sent, crashes, lost>>

chainVars == <<blocks, db, lastHash, utxo>>
poolVars  == <<mempool, admitting, sent, lost>>

-----------------------------------------------------------------------------
(* Transactions, blocks and the UTXO set.                                  *)

Inputs(t)  == IF t \in UserTx THEN Payment[t].ins ELSE {}
Outputs(t) == IF t \in UserTx THEN {<<t, i - 1>> : i \in DOMAIN Payment[t].outs}
              ELSE IF t = Phantom THEN {} ELSE {<<t, 0>>}

\* The output an outpoint names: its value and the address it is bound to.
OutputAt(o) ==
  IF o[1] \in UserTx THEN Payment[o[1]].outs[o[2] + 1]
  ELSE [value |-> COINBASE_REWARD,
        owner |-> IF o[1] = Genesis THEN Satoshi
                  ELSE Recipient[blocks[o[1]].miner]]

\* Transactions of block b in block order; the coinbase comes first.
TxnsOf(b) == <<b>> \o blocks[b].txs

\* Faulty variant: the batch puts the outputs and forgets the inputs.
UpdatedKeepingSpent(set, b) == set \cup UNION {Outputs(t) : t \in ToSet(TxnsOf(b))}

(***************************************************************************)
(* UpdateWithNewBlock: one batch per transaction, in block order.  Each    *)
(* batch puts all outputs of the transaction and takes its inputs out, so  *)
(* an outpoint is listed afterwards when the last transaction touching it  *)
(* creates it, or when it was listed and none spends it.                   *)
(***************************************************************************)
UpdatedWithBlock(set, b) ==
  LET txs == TxnsOf(b)
      SpentFrom(i, o) == \E j \in i..Len(txs) : o \in Inputs(txs[j])
  IN  {o \in set : ~SpentFrom(1, o)}
        \cup UNION {{o \in Outputs(txs[i]) : ~SpentFrom(i + 1, o)} :
                      i \in DOMAIN txs}

ChainOf(n) == ChainFrom(blocks, db[n], lastHash[n])

\* Faulty variant: only the block at the tip is searched.
TxnsAtTip(n) == ToSet(TxnsOf(lastHash[n]))

\* Transactions in the blocks a node reaches from its tip.
TxnsOnChain(n) == UNION {ToSet(TxnsOf(b)) : b \in ToSet(ChainOf(n))}

\* Every input of t is bound to the key that signed it.
Signed(t) == \A o \in Inputs(t) : OutputAt(o).owner = Payment[t].from

(***************************************************************************)
(* verifyBlock.  Proof of work and the leading coinbase hold for every     *)
(* block a miner seals, so verifyTransaction decides, transaction after    *)
(* transaction: it looks each input up among the transactions on the       *)
(* chain, and indexing the outputs of one that is absent panics.           *)
(***************************************************************************)
Verdict(n, b) ==
  LET txs == TxnsOf(b)
      Absent(t) == \E o \in Inputs(t) : o[1] \notin TxnsOnChain(n)
  IN  CASE \E i \in DOMAIN txs : /\ Absent(txs[i])
                                /\ \A k \in 1..i - 1 : Signed(txs[k]) -> "panic"
        [] \A i \in DOMAIN txs : Signed(txs[i]) /\ ~Absent(txs[i])   -> "valid"
        [] OTHER                                                     -> "invalid"

(***************************************************************************)
(* handleNewTxnMsg up to step 3: not yet in the mempool, every input       *)
(* listed in the UTXO set and bound to the signing key, and the inputs     *)
(* cover the outputs.  The zero transaction passes: it has no inputs.      *)
(***************************************************************************)
Admissible(n, t) ==
  /\ t \notin ToSet(mempool[n])
  /\ Inputs(t) \subseteq utxo[n]
  /\ Signed(t)
  /\ t \in UserTx =>
       MapThenSumSet(LAMBDA o : OutputAt(o).value, Inputs(t))
         >= MapThenSumSet(LAMBDA o : OutputAt(o).value, Outputs(t))

\* SetMerkleRoot never returns for three or more leaves (module Merkle).
MerkleRootReturns(leaves) == leaves <= 2

-----------------------------------------------------------------------------
(* Messages.                                                               *)

BlockMsg(b) == [kind |-> "blockdata", item |-> b]

\* A wallet or SPV node sends a serialized Transaction.
RawTxnMsg(t) == [kind |-> "newtxn", item |-> t]

\* A node relays a serialized NewTxnMessage, a struct around the Transaction.
WrappedTxnMsg(t) == [kind |-> "wrappedtxn", item |-> t]

(***************************************************************************)
(* handleNewTxnMsg decodes the payload into a Transaction.  gob matches    *)
(* fields by name, a NewTxnMessage has none of them, the decode error is   *)
(* dropped and the variable keeps its zero value.                          *)
(***************************************************************************)
Decoded(msg) == IF msg.kind = "newtxn" THEN msg.item ELSE Phantom

\* A send to a node that is not running fails to dial and is dropped.
Broadcast(n, targets, msg) ==
  net' = [l \in Links |->
            IF l[1] = n /\ l[2] \in targets /\ status[l[2]] = "up"
            THEN Append(net[l], msg) ELSE net[l]]

\* The messages of link l that may be read now; the links in open wait.
Readable(l, open) ==
  {i \in DOMAIN net[l] : InOrder => i = 1 /\ l[1] \notin open}

Take(l, i) == net' = [net EXCEPT ![l] = RemoveAt(@, i)]

-----------------------------------------------------------------------------
(* Starting and stopping a node.                                           *)

Idle == [prev |-> NoHash, txs |-> <<>>]

GenesisBlock == [prev |-> NoHash, miner |-> Satoshi, txs |-> <<>>]

\* The UTXO set after ReIndex from the genesis block.
GenesisUtxo == {<<Genesis, 0>>}

Init ==
  /\ blocks = <<GenesisBlock>>
  /\ db = [n \in Nodes |-> {Genesis}]
  /\ lastHash = [n \in Nodes |-> Genesis]
  /\ utxo = [n \in Nodes |-> GenesisUtxo]
  /\ mempool = [n \in Nodes |-> <<>>]
  /\ mining = [m \in Miners |-> Idle]
  /\ storing = [n \in Nodes |-> {}]
  /\ admitting = [n \in Nodes |-> {}]
  /\ net = [l \in Links |-> <<>>]
  /\ status = [n \in Nodes |-> "up"]
  /\ sent = {}
  /\ crashes = 0
  /\ lost = 0

\* The process ends: memory and the connections into it are gone.
Stop(n, why) ==
  /\ status' = [status EXCEPT ![n] = why]
  /\ mempool' = [mempool EXCEPT ![n] = <<>>]
  /\ mining' = [m \in Miners |-> IF m = n THEN Idle ELSE mining[m]]
  /\ storing' = [storing EXCEPT ![n] = {}]
  /\ admitting' = [admitting EXCEPT ![n] = {}]
  /\ net' = [l \in Links |-> IF l[2] = n THEN <<>> ELSE net[l]]

Kill(n) ==
  /\ status[n] = "up"
  /\ crashes < MaxCrashes
  /\ crashes' = crashes + 1
  /\ Stop(n, "killed")
  /\ UNCHANGED <<chainVars, sent, lost>>

(***************************************************************************)
(* NewFullNode / NewMinerNode on an existing directory: InitBlockChain     *)
(* stores the genesis block again and points the tip at it, then ReIndex   *)
(* rebuilds the UTXO set from there.  Stored blocks stay in the database.  *)
(***************************************************************************)
Restart(n) ==
  /\ status[n] # "up"
  /\ status' = [status EXCEPT ![n] = "up"]
  /\ db' = [db EXCEPT ![n] = @ \cup {Genesis}]
  /\ lastHash' = [lastHash EXCEPT ![n] = Genesis]
  /\ utxo' = [utxo EXCEPT ![n] = GenesisUtxo]
  /\ UNCHANGED <<blocks, poolVars, mining, storing, net, crashes>>

-----------------------------------------------------------------------------
(* Transactions on their way into the mempool.                             *)

\* A wallet built t from outputs some node listed as unspent; the wallet, or
\* an SPV node relaying its bytes, delivers it once to each node it knows.
Submit(c, n, t) ==
  /\ <<c, n, t>> \notin sent
  /\ \E k \in Nodes : Inputs(t) \subseteq utxo[k]
  /\ sent' = sent \cup {<<c, n, t>>}
  /\ Broadcast(c, {n}, RawTxnMsg(t))
  /\ UNCHANGED <<chainVars, mempool, admitting, mining, storing, status, crashes,
                 lost>>

\* Links on which a block is being stored.
OpenAt(n) == {j.from : j \in storing[n]}

\* Names for one goroutine more at step 3: two of one link may admit the same.
FreeIds(n) == (1..Admitters) \ {a.id : a \in admitting[n]}

\* Peers of n that a transaction is relayed to.
TxnTargets(n) == Peers[n]

\* Faulty variant: a transaction that waits already is still relayed.
ReceiveTxnRelaying(l) ==
  \E i \in Readable(l, {}), id \in FreeIds(l[2]) :
    LET n == l[2]
        t == Decoded(net[l][i])
        Again(k) == t \in ToSet(mempool[n]) /\ k[1] = n /\ k[2] \in TxnTargets(n)
        Left(k) == IF k = l THEN RemoveAt(net[l], i) ELSE net[k]
    IN  /\ net[l][i].kind # "blockdata"
        /\ status[n] = "up"
        /\ net' = [k \in Links |-> IF Again(k) THEN Append(Left(k), WrappedTxnMsg(t))
                                             ELSE Left(k)]
        /\ admitting' = [admitting EXCEPT ![n] =
             IF Admissible(n, t) THEN @ \cup {[id |-> id, from |-> l[1], txn |-> t]} ELSE @]
        /\ UNCHANGED <<chainVars, mempool, mining, storing, status, sent,
                       crashes, lost>>

\* handleNewTxnMsg, the checks (its early returns leave everything alone).
ReceiveTxn(l) ==
  \E i \in Readable(l, {}), id \in FreeIds(l[2]) :
    LET n == l[2]
        t == Decoded(net[l][i])
    IN  /\ net[l][i].kind # "blockdata"
        /\ status[n] = "up"
        /\ Take(l, i)
        /\ admitting' = [admitting EXCEPT ![n] =
             IF Admissible(n, t) THEN @ \cup {[id |-> id, from |-> l[1], txn |-> t]} ELSE @]
        /\ UNCHANGED <<chainVars, mempool, mining, storing, status, sent,
                       crashes, lost>>

\* Peers of n that a block from source s is relayed to.
\* Faulty variant: own blocks go to full nodes only, like relayed ones.
BlockTargetsFull(n, s) == IF s = n THEN Peers[n] \ Miners ELSE Peers[n] \cap FullNodes
BlockTargets(n, s) == IF s = n THEN Peers[n] ELSE Peers[n] \cap FullNodes

\* Step 3: append to the mempool and relay to full nodes and miners.
Admit(n, a) ==
  /\ mempool' = [mempool EXCEPT ![n] = Append(@, a.txn)]
  /\ admitting' = [admitting EXCEPT ![n] = @ \ {a}]
  /\ Broadcast(n, TxnTargets(n), WrappedTxnMsg(a.txn))
  /\ UNCHANGED <<chainVars, mining, storing, status, sent, crashes, lost>>

(***************************************************************************)
(* Two goroutines append to node.mempool at the same time.  Both read the  *)
(* old slice, the slice of the second replaces the one of the first, and   *)
(* that goroutine goes on to relay a transaction the mempool has lost.     *)
(***************************************************************************)
AdmitLost(n, a) ==
  /\ \E other \in admitting[n] : other # a
  /\ lost < MaxLost
  /\ lost' = lost + 1
  /\ admitting' = [admitting EXCEPT ![n] = @ \ {a}]
  /\ Broadcast(n, TxnTargets(n), WrappedTxnMsg(a.txn))
  /\ UNCHANGED <<chainVars, mempool, mining, storing, status, sent, crashes>>

-----------------------------------------------------------------------------
(* Blocks.                                                                 *)

\* Faulty variant: the candidate is built on the tip the miner started with.
StartMiningStale(m) ==
  /\ status[m] = "up"
  /\ mining[m] = Idle
  /\ m \notin OpenAt(m)
  /\ Len(blocks) + Cardinality({k \in Miners : mining[k] # Idle}) < MaxBlocks
  /\ mining' = [mining EXCEPT ![m] = [prev |-> Genesis, txs |-> mempool[m]]]
  /\ UNCHANGED <<chainVars, poolVars, storing, net, status, crashes>>

\* startMining up to mineBlock: the candidate takes all of the mempool.
StartMining(m) ==
  /\ status[m] = "up"
  /\ mining[m] = Idle
  /\ m \notin OpenAt(m)
  /\ Len(blocks) + Cardinality({k \in Miners : mining[k] # Idle}) < MaxBlocks
  /\ mining' = [mining EXCEPT ![m] =
                  [prev |-> lastHash[m], txs |-> mempool[m]]]
  /\ UNCHANGED <<chainVars, poolVars, storing, net, status, crashes>>

\* Faulty variant: the block is stored under the hash of the next nonce.
SealMisnamed(m) ==
  /\ mining[m] # Idle
  /\ MerkleRootReturns(1 + Len(mining[m].txs))
  /\ blocks' = Append(blocks, [prev |-> mining[m].prev, miner |-> m,
                               txs |-> mining[m].txs])
  /\ storing' = [storing EXCEPT ![m] = @ \cup
                   {[from |-> m, blk |-> Len(blocks) + 2, pc |-> "setBlock"]}]
  /\ mining' = [mining EXCEPT ![m] = Idle]
  /\ UNCHANGED <<db, lastHash, utxo, poolVars, net, status, crashes>>

\* mineBlock finds a nonce, once the Merkle root has been computed.
Seal(m) ==
  /\ mining[m] # Idle
  /\ MerkleRootReturns(1 + Len(mining[m].txs))
  /\ blocks' = Append(blocks, [prev |-> mining[m].prev, miner |-> m,
                               txs |-> mining[m].txs])
  /\ storing' = [storing EXCEPT ![m] = @ \cup
                   {[from |-> m, blk |-> Len(blocks) + 1, pc |-> "setBlock"]}]
  /\ mining' = [mining EXCEPT ![m] = Idle]
  /\ UNCHANGED <<db, lastHash, utxo, poolVars, net, status, crashes>>

\* handleBlockdataMsg, step 1.  A panic in a goroutine ends the process.
ReceiveBlock(l) ==
  \E i \in Readable(l, OpenAt(l[2])) :
    LET n == l[2]
        b == net[l][i].item
    IN  /\ net[l][i].kind = "blockdata"
        /\ status[n] = "up"
        /\ UNCHANGED <<chainVars, sent, crashes, lost>>
        /\ \/ /\ Verdict(n, b) = "panic"
              /\ Stop(n, "panicked")
           \/ /\ Verdict(n, b) # "panic"
              /\ Take(l, i)
              /\ storing' = [storing EXCEPT ![n] =
                   IF Verdict(n, b) = "valid"
                   THEN @ \cup {[from |-> l[1], blk |-> b, pc |-> "setBlock"]}
                   ELSE @]
              /\ UNCHANGED <<mempool, mining, admitting, status>>

\* Goroutine j of node n moves on to pc.
GoTo(n, j, pc) ==
  storing' = [storing EXCEPT ![n] = (@ \ {j}) \cup {[j EXCEPT !.pc = pc]}]

\* Faulty variant: a block is stored only when it extends the tip.
SetBlockOnTip(n, j) ==
  /\ j.pc = "setBlock"
  /\ db' = [db EXCEPT ![n] =
              IF blocks[j.blk].prev = lastHash[n] THEN @ \cup {j.blk} ELSE @]
  /\ GoTo(n, j, "setLastHash")
  /\ UNCHANGED <<blocks, lastHash, utxo, poolVars, mining, net, status, crashes>>

\* storeNewBlock: SetBlock puts the block into the database.
SetBlock(n, j) ==
  /\ j.pc = "setBlock"
  /\ db' = [db EXCEPT ![n] = @ \cup {j.blk}]
  /\ GoTo(n, j, "setLastHash")
  /\ UNCHANGED <<blocks, lastHash, utxo, poolVars, mining, net, status, crashes>>

\* storeNewBlock: SetLastHash, whatever the tip was.
SetLastHash(n, j) ==
  /\ j.pc = "setLastHash"
  /\ lastHash' = [lastHash EXCEPT ![n] = j.blk]
  /\ GoTo(n, j, "updateUtxo")
  /\ UNCHANGED <<blocks, db, utxo, poolVars, mining, net, status, crashes>>

\* Faulty variant: the UTXO set is updated before the block is stored.
UpdateUtxoEarly(n, j) ==
  /\ j.pc \in {"setBlock", "updateUtxo"}
  /\ utxo' = [utxo EXCEPT ![n] = UpdatedWithBlock(@, j.blk)]
  /\ GoTo(n, j, IF j.pc = "setBlock" THEN "setBlock" ELSE "relay")
  /\ UNCHANGED <<blocks, db, lastHash, poolVars, mining, net, status, crashes>>

\* storeNewBlock: UpdateWithNewBlock.
UpdateUtxo(n, j) ==
  /\ j.pc = "updateUtxo"
  /\ utxo' = [utxo EXCEPT ![n] = UpdatedWithBlock(@, j.blk)]
  /\ GoTo(n, j, "relay")
  /\ UNCHANGED <<blocks, db, lastHash, poolVars, mining, net, status, crashes>>

\* A miner sends its own block to full nodes and miners; a block received
\* from a peer goes to full nodes only.  The goroutine ends.
RelayBlock(n, j) ==
  /\ j.pc = "relay"
  /\ Broadcast(n, BlockTargets(n, j.from), BlockMsg(j.blk))
  /\ storing' = [storing EXCEPT ![n] = @ \ {j}]
  /\ UNCHANGED <<chainVars, poolVars, mining, status, crashes>>

StoreStep(n, j) ==
  SetBlock(n, j) \/ SetLastHash(n, j) \/ UpdateUtxo(n, j) \/ RelayBlock(n, j)

-----------------------------------------------------------------------------
Next ==
  \/ \E c \in Clients : \E n \in Knows[c], t \in UserTx : Submit(c, n, t)
  \/ \E l \in Links : ReceiveTxn(l) \/ ReceiveBlock(l)
  \/ \E n \in Nodes : \E a \in admitting[n] : Admit(n, a) \/ AdmitLost(n, a)
  \/ \E m \in Miners : StartMining(m) \/ Seal(m)
  \/ \E n \in Nodes : \E j \in storing[n] : StoreStep(n, j)
  \/ \E n \in Nodes : Kill(n) \/ Restart(n)

Spec == Init /\ [][Next]_vars

(***************************************************************************)
(* Every goroutine is eventually scheduled, TCP delivers what was sent to  *)
(* a running node, and the nonce search of mineBlock succeeds.  Nothing    *)
(* is assumed of clients, of kills and of restarts.                        *)
(***************************************************************************)
Fairness ==
  /\ \A l \in Links : WF_vars(ReceiveTxn(l)) /\ WF_vars(ReceiveBlock(l))
  /\ \A n \in Nodes : WF_vars(\E a \in admitting[n] : Admit(n, a))
  /\ \A n \in Nodes : WF_vars(\E j \in storing[n] : StoreStep(n, j))
  /\ \A m \in Miners : WF_vars(StartMining(m)) /\ WF_vars(Seal(m))

FairSpec == Spec /\ Fairness

-----------------------------------------------------------------------------
(* Type invariant.                                                         *)

Hashes == 1..Len(blocks)

Message == [kind : {"blockdata"}, item : Hashes]
             \cup [kind : {"newtxn"}, item : UserTx]
             \cup [kind : {"wrappedtxn"}, item : UserTx \cup {Phantom}]

BlockType == [prev : Nat, miner : Miners \cup {Satoshi},
              txs : Seq(UserTx \cup {Phantom})]

StoringType == [from : Sources, blk : Hashes,
                pc : {"setBlock", "setLastHash", "updateUtxo", "relay"}]

TypeOK ==
  /\ blocks \in Seq(BlockType)
  /\ db \in [Nodes -> SUBSET Hashes]
  /\ lastHash \in [Nodes -> Hashes]
  /\ utxo \in [Nodes -> SUBSET Outpoint]
  /\ mempool \in [Nodes -> Seq(UserTx \cup {Phantom})]
  /\ mining \in [Miners -> [prev : Nat, txs : Seq(UserTx \cup {Phantom})]]
  /\ storing \in [Nodes -> SUBSET StoringType]
  /\ admitting \in [Nodes -> SUBSET [id : Nat, from : Sources, txn : UserTx \cup {Phantom}]]
  /\ net \in [Links -> Seq(Message)]
  /\ status \in [Nodes -> {"up", "killed", "panicked"}]
  /\ sent \in SUBSET (Clients \X Nodes \X UserTx)
  /\ crashes \in Nat
  /\ lost \in Nat

-----------------------------------------------------------------------------
(* Safety.                                                                 *)

\* The tip a node walks its chain from is in its database, at every point
\* between the steps of storeNewBlock and after a restart: SetBlock comes
\* before SetLastHash, and InitBlockChain stores what it points at.
TipStored == \A n \in Nodes : lastHash[n] \in db[n]

\* Every output a node offers as unspent comes from a transaction of a block
\* in its database (blocks are stored before UpdateWithNewBlock runs).
UtxoFromStored ==
  \A n \in Nodes : \A o \in utxo[n] : \E b \in db[n] : o[1] \in ToSet(TxnsOf(b))

\* What ReIndex computes: the outputs of the transactions on a chain that no
\* transaction on it spends.
UnspentOn(chain) ==
  LET txs == UNION {ToSet(TxnsOf(b)) : b \in ToSet(chain)}
  IN  (UNION {Outputs(t) : t \in txs}) \ (UNION {Inputs(t) : t \in txs})

\* Node n is between SetLastHash and UpdateWithNewBlock.
UtxoBehindTip(n) == \E j \in storing[n] : j.pc = "updateUtxo"

\* The UTXO set updated block by block is the one ReIndex would compute from
\* the chain below the tip: transactions mined again, because no mempool is
\* ever emptied, bring no spent output back.
UtxoMatchesChain ==
  \A n \in Nodes :
    status[n] = "up" /\ ~UtxoBehindTip(n) => utxo[n] = UnspentOn(ChainOf(n))

\* verifyTransaction indexes a map entry without checking that it is there;
\* no block a node receives makes it do so.
NoPanic == \A n \in Nodes : status[n] # "panicked"

-----------------------------------------------------------------------------
(* Liveness.                                                               *)

\* Relaying reaches everybody: whichever node seals a block, and whatever
\* the tips are, every node stores it in the end, unless some process ends.
BlocksStoredEverywhere ==
  [](\A n \in Nodes : status[n] = "up") =>
    \A b \in 1..MaxBlocks : (b \in Hashes) ~> (\A n \in Nodes : b \in db[n])

\* The miner's loop comes round: mining a block ends.
MiningCompletes ==
  \A m \in Miners : (mining[m] # Idle) ~> (mining[m] = Idle)

\* The relaying of transactions dies out.
TxnFloodEnds ==
  <>[](\A l \in Links : \A i \in DOMAIN net[l] : net[l][i].kind = "blockdata")
=============================================================================
