---------------------------- MODULE LedgerProofs ----------------------------
(* The ledger of any network, with any clients and payments: the types,    *)
(* and what the order of the steps of storeNewBlock guarantees; and, for   *)
(* networks around one miner, the UTXO sets and the chains.                *)
EXTENDS Ledger, DataLemmas, TLAPS

-----------------------------------------------------------------------------
(* Sets the actions take values from.                                      *)

PoolTx == UserTx \cup {Phantom}

\* A list of the elements of a set is a list of those of a larger one.
LEMMA SeqMonotone ==
  ASSUME NEW A, NEW B, A \subseteq B
  PROVE  Seq(A) \subseteq Seq(B)
OBVIOUS

\* Removing a message from a list of messages leaves a list of messages.
LEMMA RemoveAtType ==
  ASSUME NEW A, NEW s \in Seq(A), NEW i \in DOMAIN s
  PROVE  RemoveAt(s, i) \in Seq(A)
BY DEF RemoveAt

\* Sending a message to some nodes keeps every link a list of messages.
LEMMA BroadcastType ==
  ASSUME TypeOK, NEW n, NEW targets, NEW msg \in Message,
         Broadcast(n, targets, msg)
  PROVE  net' \in [Links -> Seq(Message)]
BY DEF TypeOK, Broadcast

\* So does handling one.
LEMMA TakeType ==
  ASSUME TypeOK, NEW l \in Links, NEW i \in DOMAIN net[l], Take(l, i)
  PROVE  net' \in [Links -> Seq(Message)]
<1>1. RemoveAt(net[l], i) \in Seq(Message)
  BY RemoveAtType DEF TypeOK
<1> QED BY <1>1 DEF TypeOK, Take

\* Links end at nodes.
LEMMA LinkEnds ==
  ASSUME NEW l \in Links
  PROVE  l[1] \in Sources /\ l[2] \in Nodes
BY DEF Links

\* Everything in a block that a node knows of is a transaction.
LEMMA TxnsOfType ==
  ASSUME TypeOK, NEW b \in Hashes
  PROVE  TxnsOf(b) \in Seq(Hashes \cup PoolTx)
<1>1. blocks[b].txs \in Seq(PoolTx)
  <2>1. blocks[b] \in BlockType
    BY DEF TypeOK, Hashes
  <2> QED BY <2>1 DEF BlockType, PoolTx
<1> DEFINE T == Hashes \cup PoolTx
           s == blocks[b].txs
<1>2. s \in Seq(T)
  BY <1>1, SeqMonotone
<1>3. <<b>> \in Seq(T)
  OBVIOUS
<1>4. <<b>> \o s \in Seq(T)
  <2> HIDE DEF T, s
  <2> QED BY <1>2, <1>3
<1> QED BY <1>4 DEF TxnsOf

\* The outputs of a transaction are outpoints that name it.
LEMMA OutputsType ==
  ASSUME TypeOK, NEW t \in Hashes \cup PoolTx
  PROVE  Outputs(t) \subseteq Outpoint /\ \A o \in Outputs(t) : o[1] = t
<1>1. CASE t \in UserTx
  <2>1. Payment[t].outs \in Seq([value : Nat, owner : STRING])
    BY <1>1, LedgerAssumption
  <2>2. \A i \in DOMAIN Payment[t].outs : i - 1 \in Nat
    BY <2>1
  <2> QED BY <1>1, <2>2 DEF Outputs, Outpoint, Tx
<1>2. CASE t \notin UserTx
  BY <1>2 DEF Outputs, Outpoint, Tx, PoolTx, Hashes
<1> QED BY <1>1, <1>2

\* What UpdateWithNewBlock leaves was there or is an output of the block.
LEMMA UpdatedFrom ==
  ASSUME TypeOK, NEW set, NEW b \in Hashes, NEW o \in UpdatedWithBlock(set, b)
  PROVE  o \in set \/ \E t \in ToSet(TxnsOf(b)) : t \in Hashes \cup PoolTx /\ o \in Outputs(t)
<1>1. TxnsOf(b) \in Seq(Hashes \cup PoolTx)
  BY TxnsOfType
<1>2. CASE o \in set
  BY <1>2
<1>3. CASE o \notin set
  <2>1. PICK i \in DOMAIN TxnsOf(b) : o \in Outputs(TxnsOf(b)[i])
    BY <1>3 DEF UpdatedWithBlock
  <2> QED BY <1>1, <2>1 DEF ToSet
<1> QED BY <1>2, <1>3

\* UpdateWithNewBlock leaves a set of outpoints.
LEMMA UpdatedType ==
  ASSUME TypeOK, NEW set \in SUBSET Outpoint, NEW b \in Hashes
  PROVE  UpdatedWithBlock(set, b) \subseteq Outpoint
BY UpdatedFrom, OutputsType

-----------------------------------------------------------------------------
(* Types.                                                                  *)

\* Every node starts with the genesis block, so the initial state is typed.
LEMMA InitType == Init => TypeOK
<1> SUFFICES ASSUME Init PROVE TypeOK
  OBVIOUS
<1>1. blocks \in Seq(BlockType) /\ Len(blocks) = 1
  <2>1. GenesisBlock \in BlockType
    BY DEF GenesisBlock, BlockType, NoHash
  <2>2. blocks = <<GenesisBlock>>
    BY DEF Init
  <2> HIDE DEF BlockType
  <2> QED BY <2>1, <2>2
<1>2. Hashes = {1}
  BY <1>1 DEF Hashes
<1>3. utxo \in [Nodes -> SUBSET Outpoint]
  BY DEF Init, GenesisUtxo, Outpoint, Tx, Genesis
<1>4. <<>> \in Seq(UserTx \cup {Phantom}) /\ <<>> \in Seq(Message)
  OBVIOUS
<1>5. mining \in [Miners -> [prev : Nat, txs : Seq(UserTx \cup {Phantom})]]
  BY <1>4 DEF Init, Idle, NoHash
<1>6. mempool \in [Nodes -> Seq(UserTx \cup {Phantom})] /\ net \in [Links -> Seq(Message)]
  BY <1>4 DEF Init
<1>7. db \in [Nodes -> SUBSET Hashes] /\ lastHash \in [Nodes -> Hashes]
  BY <1>2 DEF Init, Genesis
<1> QED BY <1>1, <1>3, <1>5, <1>6, <1>7 DEF Init, TypeOK

\* The steps that end a process.
LEMMA StopType ==
  ASSUME TypeOK, NEW n \in Nodes, NEW why \in {"killed", "panicked"}, Stop(n, why)
  PROVE  /\ status' \in [Nodes -> {"up", "killed", "panicked"}]
         /\ mempool' \in [Nodes -> Seq(UserTx \cup {Phantom})]
         /\ mining' \in [Miners -> [prev : Nat, txs : Seq(UserTx \cup {Phantom})]]
         /\ storing' \in [Nodes -> SUBSET StoringType]
         /\ admitting' \in [Nodes -> SUBSET [id : Nat, from : Sources, txn : UserTx \cup {Phantom}]]
         /\ net' \in [Links -> Seq(Message)]
<1>1. Idle \in [prev : Nat, txs : Seq(UserTx \cup {Phantom})]
  BY DEF Idle, NoHash
<1>2. mining' \in [Miners -> [prev : Nat, txs : Seq(UserTx \cup {Phantom})]]
  <2> DEFINE T == [prev : Nat, txs : Seq(UserTx \cup {Phantom})]
  <2>1. Idle \in T /\ mining \in [Miners -> T]
    BY <1>1 DEF TypeOK
  <2> HIDE DEF T
  <2>2. mining' \in [Miners -> T]
    BY <2>1 DEF Stop
  <2> QED BY <2>2 DEF T
<1>3. mempool' \in [Nodes -> Seq(UserTx \cup {Phantom})]
  BY DEF TypeOK, Stop
<1>4. net' \in [Links -> Seq(Message)]
  BY DEF TypeOK, Stop
<1> QED BY <1>2, <1>3, <1>4 DEF TypeOK, Stop

\* A killed process loses its memory, which is typed when empty.
LEMMA KillType == ASSUME TypeOK, NEW n \in Nodes, Kill(n) PROVE TypeOK'
<1>1. UNCHANGED <<Hashes, Message, StoringType>>
  BY DEF Kill, chainVars, Hashes, Message, StoringType
<1>2. crashes' \in Nat
  BY DEF TypeOK, Kill
<1> QED BY <1>1, <1>2, StopType DEF TypeOK, Kill, chainVars

\* InitBlockChain and ReIndex restore typed values.
LEMMA RestartType == ASSUME TypeOK, NEW n \in Nodes, Restart(n) PROVE TypeOK'
<1>1. UNCHANGED <<Hashes, Message, StoringType>>
  BY DEF Restart, Hashes, Message, StoringType
<1>2. Genesis \in Hashes
  BY DEF TypeOK, Genesis, Hashes
<1>3. GenesisUtxo \in SUBSET Outpoint
  BY DEF GenesisUtxo, Outpoint, Tx, Genesis
<1> QED BY <1>1, <1>2, <1>3 DEF TypeOK, Restart, poolVars

\* Sets that depend on the blocks sealed so far stay as they are while no
\* block is sealed.
LEMMA SameBlocks ==
  ASSUME UNCHANGED blocks
  PROVE  UNCHANGED <<Hashes, Message, StoringType>>
BY DEF Hashes, Message, StoringType

\* A client's delivery puts a transaction message on one link.
LEMMA SubmitType ==
  ASSUME TypeOK, NEW k \in Clients, NEW n \in Knows[k], NEW t \in UserTx,
         Submit(k, n, t)
  PROVE  TypeOK'
<1>1. n \in Nodes
  BY LedgerAssumption
<1>2. RawTxnMsg(t) \in Message
  BY DEF RawTxnMsg, Message
<1>3. net' \in [Links -> Seq(Message)]
  BY <1>2, BroadcastType DEF Submit
<1>4. sent' \in SUBSET (Clients \X Nodes \X UserTx)
  BY <1>1 DEF TypeOK, Submit
<1>5. UNCHANGED <<Hashes, Message, StoringType>>
  BY SameBlocks DEF Submit, chainVars
<1> QED BY <1>3, <1>4, <1>5 DEF TypeOK, Submit, chainVars

\* The goroutine that admits holds a transaction, the zero one included.
LEMMA ReceiveTxnType ==
  ASSUME TypeOK, NEW l \in Links, ReceiveTxn(l)
  PROVE  TypeOK'
<1>1. PICK i \in Readable(l, {}), id \in FreeIds(l[2]) :
        /\ net[l][i].kind # "blockdata"
        /\ Take(l, i)
        /\ admitting' = [admitting EXCEPT ![l[2]] =
             IF Admissible(l[2], Decoded(net[l][i]))
             THEN @ \cup {[id |-> id, from |-> l[1], txn |-> Decoded(net[l][i])]} ELSE @]
        /\ UNCHANGED <<chainVars, mempool, mining, storing, status, sent,
                       crashes, lost>>
  BY DEF ReceiveTxn
<1>2. i \in DOMAIN net[l]
  BY <1>1 DEF Readable
<1>3. net[l][i] \in Message
  BY <1>2 DEF TypeOK
<1>4. Decoded(net[l][i]) \in UserTx \cup {Phantom}
  BY <1>1, <1>3 DEF Message, Decoded
<1>5. admitting' \in [Nodes -> SUBSET [id : Nat, from : Sources, txn : UserTx \cup {Phantom}]]
  <2>1. id \in Nat
    BY LedgerAssumption DEF FreeIds
  <2> QED BY <1>1, <1>4, <2>1, LinkEnds DEF TypeOK
<1>6. net' \in [Links -> Seq(Message)]
  BY <1>1, <1>2, TakeType
<1>7. UNCHANGED <<Hashes, Message, StoringType>>
  BY <1>1, SameBlocks DEF chainVars
<1> QED BY <1>1, <1>5, <1>6, <1>7 DEF TypeOK, chainVars

\* Step 3 of handleNewTxnMsg, whether the append is lost or not.
LEMMA AdmitType ==
  ASSUME TypeOK, NEW n \in Nodes, NEW a \in admitting[n],
         Admit(n, a) \/ AdmitLost(n, a)
  PROVE  TypeOK'
<1>1. a.txn \in UserTx \cup {Phantom}
  BY DEF TypeOK
<1>2. WrappedTxnMsg(a.txn) \in Message
  BY <1>1 DEF WrappedTxnMsg, Message
<1>3. net' \in [Links -> Seq(Message)]
  BY <1>2, BroadcastType DEF Admit, AdmitLost
<1>4. mempool' \in [Nodes -> Seq(UserTx \cup {Phantom})]
  <2>1. Append(mempool[n], a.txn) \in Seq(UserTx \cup {Phantom})
    BY <1>1 DEF TypeOK
  <2> QED BY <2>1 DEF TypeOK, Admit, AdmitLost
<1>5. admitting' \in [Nodes -> SUBSET [id : Nat, from : Sources, txn : UserTx \cup {Phantom}]]
  BY DEF TypeOK, Admit, AdmitLost
<1>6. lost' \in Nat
  BY DEF TypeOK, Admit, AdmitLost
<1>7. UNCHANGED <<Hashes, Message, StoringType>>
  BY SameBlocks DEF Admit, AdmitLost, chainVars
<1> QED BY <1>3, <1>4, <1>5, <1>6, <1>7 DEF TypeOK, Admit, AdmitLost, chainVars

\* The candidate holds a tip and a mempool.
LEMMA StartMiningType ==
  ASSUME TypeOK, NEW m \in Miners, StartMining(m)
  PROVE  TypeOK'
<1>1. lastHash[m] \in Nat /\ mempool[m] \in Seq(UserTx \cup {Phantom})
  BY DEF TypeOK, Nodes, Hashes
<1>2. mining' \in [Miners -> [prev : Nat, txs : Seq(UserTx \cup {Phantom})]]
  BY <1>1 DEF TypeOK, StartMining
<1>3. UNCHANGED <<Hashes, Message, StoringType>>
  BY SameBlocks DEF StartMining, chainVars
<1> QED BY <1>2, <1>3 DEF TypeOK, StartMining, chainVars, poolVars

\* The only step that seals a block: sets of hashes grow.
LEMMA SealType ==
  ASSUME TypeOK, NEW m \in Miners, Seal(m)
  PROVE  TypeOK'
<1> DEFINE b == [prev |-> mining[m].prev, miner |-> m, txs |-> mining[m].txs]
           j == [from |-> m, blk |-> Len(blocks) + 1, pc |-> "setBlock"]
<1>1. b \in BlockType
  BY DEF TypeOK, BlockType
<1>2. blocks' = Append(blocks, b) /\ blocks \in Seq(BlockType)
  BY DEF TypeOK, Seal
<1>3. blocks' \in Seq(BlockType) /\ Len(blocks') = Len(blocks) + 1 /\ Len(blocks) \in Nat
  <2> HIDE DEF b, BlockType
  <2> QED BY <1>1, <1>2
<1>4. Hashes \subseteq Hashes' /\ Len(blocks) + 1 \in Hashes'
  BY <1>3 DEF Hashes
<1>5. Message \subseteq Message' /\ StoringType \subseteq StoringType'
  BY <1>4 DEF Message, StoringType
<1>6. j \in StoringType'
  BY <1>4 DEF StoringType, Sources, Nodes
<1>7. storing' \in [Nodes -> SUBSET StoringType']
  <2>1. storing' = [storing EXCEPT ![m] = @ \cup {j}]
    BY DEF Seal
  <2> HIDE DEF j
  <2> QED BY <1>5, <1>6, <2>1 DEF TypeOK
<1>8. net' \in [Links -> Seq(Message')]
  <2>1. Seq(Message) \subseteq Seq(Message')
    BY <1>5, SeqMonotone
  <2> QED BY <2>1 DEF TypeOK, Seal
<1>9. db' \in [Nodes -> SUBSET Hashes'] /\ lastHash' \in [Nodes -> Hashes']
  BY <1>4 DEF TypeOK, Seal
<1>10. mining' \in [Miners -> [prev : Nat, txs : Seq(UserTx \cup {Phantom})]]
  <2> DEFINE T == [prev : Nat, txs : Seq(UserTx \cup {Phantom})]
  <2>1. Idle \in T
    BY DEF Idle, NoHash
  <2>2. mining \in [Miners -> T]
    BY DEF TypeOK
  <2> HIDE DEF T
  <2>3. mining' \in [Miners -> T]
    BY <2>1, <2>2 DEF Seal
  <2> QED BY <2>3 DEF T
<1>11. BlockType' = BlockType
  BY DEF BlockType
<1>12. /\ utxo' \in [Nodes -> SUBSET Outpoint]
       /\ mempool' \in [Nodes -> Seq(UserTx \cup {Phantom})]
       /\ admitting' \in [Nodes -> SUBSET [id : Nat, from : Sources, txn : UserTx \cup {Phantom}]]
       /\ status' \in [Nodes -> {"up", "killed", "panicked"}]
       /\ sent' \in SUBSET (Clients \X Nodes \X UserTx)
       /\ crashes' \in Nat /\ lost' \in Nat
  BY DEF TypeOK, Seal, poolVars
<1> QED BY <1>3, <1>7, <1>8, <1>9, <1>10, <1>11, <1>12 DEF TypeOK

\* Step 1 of handleBlockdataMsg: a panic, a goroutine more, or nothing.
LEMMA ReceiveBlockType ==
  ASSUME TypeOK, NEW l \in Links, ReceiveBlock(l)
  PROVE  TypeOK'
<1> DEFINE n == l[2]
<1>1. PICK i \in Readable(l, OpenAt(n)) :
        /\ net[l][i].kind = "blockdata"
        /\ UNCHANGED <<chainVars, sent, crashes, lost>>
        /\ \/ Stop(n, "panicked")
           \/ /\ Take(l, i)
              /\ storing' = [storing EXCEPT ![n] =
                   IF Verdict(n, net[l][i].item) = "valid"
                   THEN @ \cup {[from |-> l[1], blk |-> net[l][i].item, pc |-> "setBlock"]}
                   ELSE @]
              /\ UNCHANGED <<mempool, mining, admitting, status>>
  BY DEF ReceiveBlock
<1>2. i \in DOMAIN net[l]
  BY <1>1 DEF Readable
<1>3. net[l][i] \in Message
  BY <1>2 DEF TypeOK
<1>4. net[l][i].item \in Hashes
  BY <1>1, <1>3 DEF Message
<1>5. UNCHANGED <<Hashes, Message, StoringType>>
  BY <1>1, SameBlocks DEF chainVars
<1>6. CASE Stop(n, "panicked")
  <2>1. n \in Nodes
    BY LinkEnds
  <2> QED BY <1>1, <1>5, <1>6, <2>1, StopType DEF TypeOK, chainVars
<1>7. CASE ~Stop(n, "panicked")
  <2> DEFINE j == [from |-> l[1], blk |-> net[l][i].item, pc |-> "setBlock"]
  <2>1. net' \in [Links -> Seq(Message)]
    BY <1>1, <1>2, <1>7, TakeType
  <2>2. j \in StoringType
    BY <1>4, LinkEnds DEF StoringType
  <2>3. storing' \in [Nodes -> SUBSET StoringType]
    <3>1. storing' = [storing EXCEPT ![n] =
             IF Verdict(n, net[l][i].item) = "valid" THEN @ \cup {j} ELSE @]
      BY <1>1, <1>7
    <3> HIDE DEF j
    <3> QED BY <2>2, <3>1, LinkEnds DEF TypeOK
  <2> QED BY <1>1, <1>5, <1>7, <2>1, <2>3 DEF TypeOK, chainVars
<1> QED BY <1>6, <1>7

\* Goroutine j moves on.
LEMMA GoToType ==
  ASSUME TypeOK, NEW n \in Nodes, NEW j \in storing[n],
         NEW pc \in {"setBlock", "setLastHash", "updateUtxo", "relay"},
         GoTo(n, j, pc)
  PROVE  storing' \in [Nodes -> SUBSET StoringType]
<1>1. [j EXCEPT !.pc = pc] \in StoringType
  <2>1. j \in StoringType
    BY DEF TypeOK
  <2> QED BY <2>1 DEF StoringType
<1> QED BY <1>1 DEF TypeOK, GoTo

\* Each step of storeNewBlock, and the relaying after it.
LEMMA StoreStepType ==
  ASSUME TypeOK, NEW n \in Nodes, NEW j \in storing[n], StoreStep(n, j)
  PROVE  TypeOK'
<1>1. j \in StoringType /\ j.blk \in Hashes
  BY DEF TypeOK, StoringType
<1>2. UNCHANGED blocks
  BY DEF StoreStep, SetBlock, SetLastHash, UpdateUtxo, RelayBlock, chainVars
<1>3. UNCHANGED <<Hashes, Message, StoringType>>
  BY <1>2, SameBlocks
<1>4. CASE SetBlock(n, j)
  <2>1. storing' \in [Nodes -> SUBSET StoringType]
    BY <1>4, GoToType DEF SetBlock
  <2> QED BY <1>1, <1>3, <1>4, <2>1 DEF TypeOK, SetBlock, poolVars
<1>5. CASE SetLastHash(n, j)
  <2>1. storing' \in [Nodes -> SUBSET StoringType]
    BY <1>5, GoToType DEF SetLastHash
  <2> QED BY <1>1, <1>3, <1>5, <2>1 DEF TypeOK, SetLastHash, poolVars
<1>6. CASE UpdateUtxo(n, j)
  <2>1. storing' \in [Nodes -> SUBSET StoringType]
    BY <1>6, GoToType DEF UpdateUtxo
  <2>2. utxo' \in [Nodes -> SUBSET Outpoint]
    <3>1. UpdatedWithBlock(utxo[n], j.blk) \subseteq Outpoint
      BY <1>1, UpdatedType DEF TypeOK
    <3> QED BY <1>6, <3>1 DEF TypeOK, UpdateUtxo
  <2> QED BY <1>3, <1>6, <2>1, <2>2 DEF TypeOK, UpdateUtxo, poolVars
<1>7. CASE RelayBlock(n, j)
  <2>1. BlockMsg(j.blk) \in Message
    BY <1>1 DEF BlockMsg, Message
  <2>2. net' \in [Links -> Seq(Message)]
    BY <1>7, <2>1, BroadcastType DEF RelayBlock
  <2>3. storing' \in [Nodes -> SUBSET StoringType]
    BY <1>7 DEF TypeOK, RelayBlock
  <2> QED BY <1>3, <1>7, <2>2, <2>3 DEF TypeOK, RelayBlock, chainVars, poolVars
<1> QED BY <1>4, <1>5, <1>6, <1>7 DEF StoreStep

\* No step of anybody leaves the types.
LEMMA NextType == TypeOK /\ [Next]_vars => TypeOK'
<1> SUFFICES ASSUME TypeOK, [Next]_vars PROVE TypeOK'
  OBVIOUS
<1>1. CASE UNCHANGED vars
  <2>1. UNCHANGED <<Hashes, Message, StoringType>>
    BY <1>1, SameBlocks DEF vars
  <2> QED BY <1>1, <2>1 DEF vars, TypeOK
<1>2. CASE \E k \in Clients : \E n \in Knows[k], t \in UserTx : Submit(k, n, t)
  BY <1>2, SubmitType
<1>3. CASE \E l \in Links : ReceiveTxn(l) \/ ReceiveBlock(l)
  BY <1>3, ReceiveTxnType, ReceiveBlockType
<1>4. CASE \E n \in Nodes : \E a \in admitting[n] : Admit(n, a) \/ AdmitLost(n, a)
  BY <1>4, AdmitType
<1>5. CASE \E m \in Miners : StartMining(m) \/ Seal(m)
  BY <1>5, StartMiningType, SealType
<1>6. CASE \E n \in Nodes : \E j \in storing[n] : StoreStep(n, j)
  BY <1>6, StoreStepType
<1>7. CASE \E n \in Nodes : Kill(n) \/ Restart(n)
  BY <1>7, KillType, RestartType
<1> QED BY <1>1, <1>2, <1>3, <1>4, <1>5, <1>6, <1>7 DEF Next

\* The variables keep their types in every network, with any clients, any
\* payments and any bounds.
THEOREM TypeCorrect == Spec => []TypeOK
BY InitType, NextType, PTL DEF Spec

-----------------------------------------------------------------------------
(* The order of storeNewBlock.                                             *)

\* A goroutine past SetBlock has its block in the database, and no other
\* step takes a block out.  TipStored and UtxoFromStored are inductive with
\* this and the types.
PastSetBlockStored ==
  \A n \in Nodes : \A j \in storing[n] : j.pc # "setBlock" => j.blk \in db[n]

IInv == PastSetBlockStored /\ TipStored /\ UtxoFromStored

\* The coinbase of a block is one of its transactions.
LEMMA CoinbaseInBlock ==
  ASSUME TypeOK, NEW b \in Hashes
  PROVE  b \in ToSet(TxnsOf(b))
<1>1. blocks[b].txs \in Seq(PoolTx)
  <2>1. blocks[b] \in BlockType
    BY DEF TypeOK, Hashes
  <2> QED BY <2>1 DEF BlockType, PoolTx
<1> DEFINE s == blocks[b].txs
           T == Hashes \cup PoolTx
<1>2. s \in Seq(T)
  BY <1>1, SeqMonotone
<1>3. 1 \in DOMAIN (<<b>> \o s) /\ (<<b>> \o s)[1] = b
  <2>1. b \in T
    OBVIOUS
  <2> HIDE DEF s, T
  <2> QED BY <1>2, <2>1
<1> QED BY <1>3 DEF ToSet, TxnsOf

\* Before the first step nothing is being stored.
LEMMA InitIInv == Init /\ TypeOK => IInv
<1> SUFFICES ASSUME Init, TypeOK PROVE IInv
  OBVIOUS
<1>1. PastSetBlockStored /\ TipStored
  BY DEF Init, PastSetBlockStored, TipStored
<1>2. UtxoFromStored
  <2>1. Genesis \in ToSet(TxnsOf(Genesis))
    <3>1. Genesis \in Hashes
      BY DEF Init, Hashes, Genesis
    <3> QED BY <3>1, CoinbaseInBlock
  <2> QED BY <2>1 DEF Init, GenesisUtxo, UtxoFromStored
<1> QED BY <1>1, <1>2 DEF IInv

\* A sealed block keeps its transactions.
LEMMA TxnsOfStable ==
  ASSUME TypeOK, [Next]_vars, NEW b \in Hashes
  PROVE  TxnsOf(b)' = TxnsOf(b)
<1>1. blocks' = blocks \/ \E m \in Miners : Seal(m)
  BY DEF Next, vars, chainVars, Submit, ReceiveTxn, ReceiveBlock, Admit, AdmitLost,
         StartMining, StoreStep, SetBlock, SetLastHash, UpdateUtxo, RelayBlock,
         Kill, Restart
<1>2. CASE blocks' = blocks
  BY <1>2 DEF TxnsOf
<1>3. CASE \E m \in Miners : Seal(m)
  <2>1. PICK e : blocks' = Append(blocks, e)
    BY <1>3 DEF Seal
  <2>2. blocks'[b] = blocks[b]
    <3>1. blocks \in Seq(BlockType) /\ b \in 1..Len(blocks)
      BY DEF TypeOK, Hashes
    <3> HIDE DEF BlockType
    <3> QED BY <2>1, <3>1
  <2> QED BY <2>2 DEF TxnsOf
<1> QED BY <1>1, <1>2, <1>3

\* Steps after which a node offers no other outputs, and has no more blocks to
\* account for, than before.
LEMMA QuietStep ==
  ASSUME IInv, TypeOK, [Next]_vars, UNCHANGED <<db, lastHash, utxo>>,
         \A n \in Nodes : \A j \in storing'[n] : j \in storing[n] \/ j.pc = "setBlock"
  PROVE  IInv'
<1>1. PastSetBlockStored'
  BY DEF IInv, PastSetBlockStored
<1>2. TipStored'
  BY DEF IInv, TipStored
<1>3. UtxoFromStored'
  <2>1. \A n \in Nodes : \A b \in db[n] : TxnsOf(b)' = TxnsOf(b)
    BY TxnsOfStable DEF TypeOK
  <2> QED BY <2>1 DEF IInv, UtxoFromStored
<1> QED BY <1>1, <1>2, <1>3 DEF IInv

\* InitBlockChain stores the block it points the tip at, and ReIndex lists
\* only its reward.
LEMMA RestartIInv ==
  ASSUME IInv, TypeOK, [Next]_vars, NEW n \in Nodes, Restart(n)
  PROVE  IInv'
<1>1. \A k \in Nodes : db[k] \subseteq db'[k]
  BY DEF TypeOK, Restart
<1>2. PastSetBlockStored'
  BY <1>1 DEF IInv, PastSetBlockStored, Restart
<1>3. TipStored'
  BY DEF IInv, TypeOK, TipStored, Restart
<1>4. UtxoFromStored'
  <2> SUFFICES ASSUME NEW k \in Nodes, NEW o \in utxo'[k]
               PROVE  \E b \in db'[k] : o[1] \in ToSet(TxnsOf(b))'
    BY DEF UtxoFromStored
  <2>1. UNCHANGED blocks
    BY DEF Restart
  <2>2. CASE k = n
    <3>1. Genesis \in Hashes
      BY DEF TypeOK, Hashes, Genesis
    <3>2. o[1] = Genesis /\ Genesis \in db'[k]
      BY <2>2 DEF TypeOK, Restart, GenesisUtxo
    <3> QED BY <2>1, <3>1, <3>2, CoinbaseInBlock DEF TxnsOf
  <2>3. CASE k # n
    BY <1>1, <2>1, <2>3 DEF IInv, TypeOK, UtxoFromStored, Restart, TxnsOf
  <2> QED BY <2>2, <2>3
<1> QED BY <1>2, <1>3, <1>4 DEF IInv

\* SetBlock is what makes its goroutine's block count as stored.
LEMMA SetBlockIInv ==
  ASSUME IInv, TypeOK, [Next]_vars, NEW n \in Nodes, NEW j \in storing[n], SetBlock(n, j)
  PROVE  IInv'
<1>1. /\ db' = [db EXCEPT ![n] = @ \cup {j.blk}] /\ UNCHANGED <<blocks, lastHash, utxo>>
      /\ storing' = [storing EXCEPT ![n] = (@ \ {j}) \cup {[j EXCEPT !.pc = "setLastHash"]}]
  BY DEF SetBlock, GoTo
<1>2. \A k \in Nodes : db[k] \subseteq db'[k]
  BY <1>1 DEF TypeOK
<1>3. j.blk \in db'[n] /\ [j EXCEPT !.pc = "setLastHash"].blk = j.blk
  BY <1>1 DEF TypeOK, StoringType
<1>4. PastSetBlockStored'
  <2> SUFFICES ASSUME NEW k \in Nodes, NEW i \in storing'[k], i.pc # "setBlock"
               PROVE  i.blk \in db'[k]
    BY DEF PastSetBlockStored
  <2>1. CASE i \in storing[k]
    BY <1>2, <2>1 DEF IInv, PastSetBlockStored
  <2>2. CASE i \notin storing[k]
    <3>1. k = n /\ i = [j EXCEPT !.pc = "setLastHash"]
      BY <1>1, <2>2 DEF TypeOK
    <3> QED BY <1>3, <3>1
  <2> QED BY <2>1, <2>2
<1>5. TipStored'
  BY <1>1, <1>2 DEF IInv, TipStored
<1>6. UtxoFromStored'
  BY <1>1, <1>2 DEF IInv, UtxoFromStored, TxnsOf
<1> QED BY <1>4, <1>5, <1>6 DEF IInv

\* A step of goroutine j after SetBlock: its block is in the database.
LEMMA PastSetBlockStep ==
  ASSUME IInv, TypeOK, NEW n \in Nodes, NEW j \in storing[n], j.pc # "setBlock",
         UNCHANGED db,
         \/ storing' = [storing EXCEPT ![n] = @ \ {j}]
         \/ \E pc : storing' = [storing EXCEPT ![n] = (@ \ {j}) \cup {[j EXCEPT !.pc = pc]}]
  PROVE  PastSetBlockStored'
<1> SUFFICES ASSUME NEW k \in Nodes, NEW i \in storing'[k], i.pc # "setBlock"
             PROVE  i.blk \in db[k]
  BY DEF PastSetBlockStored
<1>1. j.blk \in db[n]
  BY DEF IInv, PastSetBlockStored
<1>2. i \in storing[k] \/ (k = n /\ \E pc : i = [j EXCEPT !.pc = pc])
  <2>1. CASE storing' = [storing EXCEPT ![n] = @ \ {j}]
    BY <2>1 DEF TypeOK
  <2>2. CASE \E pc : storing' = [storing EXCEPT ![n] = (@ \ {j}) \cup {[j EXCEPT !.pc = pc]}]
    <3>1. PICK pc : storing' = [storing EXCEPT ![n] = (@ \ {j}) \cup {[j EXCEPT !.pc = pc]}]
      BY <2>2
    <3> DEFINE j2 == [j EXCEPT !.pc = pc]
    <3>2. i \in storing[k] \/ (k = n /\ i = j2)
      <4> HIDE DEF j2
      <4> storing' = [storing EXCEPT ![n] = (@ \ {j}) \cup {j2}]
        BY <3>1 DEF j2
      <4> QED BY DEF TypeOK
    <3> QED BY <3>2
  <2> QED BY <2>1, <2>2
<1>3. CASE i \in storing[k]
  BY <1>3 DEF IInv, PastSetBlockStored
<1>4. CASE i \notin storing[k]
  <2>1. PICK pc : i = [j EXCEPT !.pc = pc]
    BY <1>2, <1>4
  <2>2. j \in StoringType
    BY DEF TypeOK
  <2>3. i.blk = j.blk
    BY <2>1, <2>2 DEF StoringType
  <2> QED BY <1>1, <1>2, <1>4, <2>3
<1> QED BY <1>3, <1>4

\* SetLastHash runs past SetBlock, so the new tip is stored.
LEMMA SetLastHashIInv ==
  ASSUME IInv, TypeOK, NEW n \in Nodes, NEW j \in storing[n], SetLastHash(n, j)
  PROVE  IInv'
<1>1. PastSetBlockStored'
  BY PastSetBlockStep DEF SetLastHash, GoTo
<1>2. TipStored'
  BY DEF IInv, TypeOK, PastSetBlockStored, TipStored, SetLastHash
<1>3. UtxoFromStored'
  BY DEF IInv, UtxoFromStored, SetLastHash, TxnsOf
<1> QED BY <1>1, <1>2, <1>3 DEF IInv

\* An output UpdateWithNewBlock adds comes from the block just stored.
LEMMA UpdateUtxoIInv ==
  ASSUME IInv, TypeOK, NEW n \in Nodes, NEW j \in storing[n], UpdateUtxo(n, j)
  PROVE  IInv'
<1>1. PastSetBlockStored'
  BY PastSetBlockStep DEF UpdateUtxo, GoTo
<1>2. TipStored'
  BY DEF IInv, TipStored, UpdateUtxo
<1>3. UtxoFromStored'
  <2> SUFFICES ASSUME NEW k \in Nodes, NEW o \in utxo'[k]
               PROVE  \E b \in db[k] : o[1] \in ToSet(TxnsOf(b))
    BY DEF UtxoFromStored, UpdateUtxo, TxnsOf
  <2>1. CASE o \in utxo[k]
    BY <2>1 DEF IInv, UtxoFromStored
  <2>2. CASE o \notin utxo[k]
    <3>1. k = n /\ o \in UpdatedWithBlock(utxo[n], j.blk)
      BY <2>2 DEF TypeOK, UpdateUtxo
    <3>2. j.blk \in Hashes /\ j.blk \in db[n]
      BY DEF IInv, TypeOK, PastSetBlockStored, StoringType, UpdateUtxo
    <3>3. PICK t \in ToSet(TxnsOf(j.blk)) : t \in Hashes \cup PoolTx /\ o \in Outputs(t)
      BY <2>2, <3>1, <3>2, UpdatedFrom
    <3>4. o[1] = t
      BY <3>3, OutputsType
    <3> QED BY <3>1, <3>2, <3>3, <3>4
  <2> QED BY <2>1, <2>2
<1> QED BY <1>1, <1>2, <1>3 DEF IInv

\* Relaying touches neither database nor tip nor UTXO set.
LEMMA RelayBlockIInv ==
  ASSUME IInv, TypeOK, NEW n \in Nodes, NEW j \in storing[n], RelayBlock(n, j)
  PROVE  IInv'
<1>1. PastSetBlockStored'
  BY PastSetBlockStep DEF RelayBlock, chainVars
<1>2. TipStored' /\ UtxoFromStored'
  BY DEF IInv, TipStored, UtxoFromStored, RelayBlock, chainVars, TxnsOf
<1> QED BY <1>1, <1>2 DEF IInv

\* No step of anybody breaks the inductive invariant.
LEMMA NextIInv == IInv /\ TypeOK /\ [Next]_vars => IInv'
<1> SUFFICES ASSUME IInv, TypeOK, [Next]_vars PROVE IInv'
  OBVIOUS
<1>1. CASE UNCHANGED vars
  BY <1>1, QuietStep DEF vars
<1>2. CASE \E k \in Clients : \E n \in Knows[k], t \in UserTx : Submit(k, n, t)
  BY <1>2, QuietStep DEF Submit, chainVars
<1>3. CASE \E l \in Links : ReceiveTxn(l)
  BY <1>3, QuietStep DEF ReceiveTxn, chainVars
<1>4. CASE \E l \in Links : ReceiveBlock(l)
  <2>1. PICK l \in Links : ReceiveBlock(l)
    BY <1>4
  <2>2. UNCHANGED <<db, lastHash, utxo>>
    BY <2>1 DEF ReceiveBlock, chainVars
  <2>3. \A n \in Nodes : \A j \in storing'[n] : j \in storing[n] \/ j.pc = "setBlock"
    <3>1. PICK i \in Readable(l, OpenAt(l[2])) :
             \/ Stop(l[2], "panicked")
             \/ storing' = [storing EXCEPT ![l[2]] =
                  IF Verdict(l[2], net[l][i].item) = "valid"
                  THEN @ \cup {[from |-> l[1], blk |-> net[l][i].item, pc |-> "setBlock"]}
                  ELSE @]
      BY <2>1 DEF ReceiveBlock
    <3> DEFINE new == [from |-> l[1], blk |-> net[l][i].item, pc |-> "setBlock"]
    <3>2. new.pc = "setBlock"
      OBVIOUS
    <3>3. CASE Stop(l[2], "panicked")
      BY <3>3, LinkEnds DEF Stop, TypeOK
    <3>4. CASE ~Stop(l[2], "panicked")
      <4> HIDE DEF new
      <4>1. storing' = [storing EXCEPT ![l[2]] =
                IF Verdict(l[2], net[l][i].item) = "valid" THEN @ \cup {new} ELSE @]
        BY <3>1, <3>4 DEF new
      <4> QED BY <4>1, <3>2, LinkEnds DEF TypeOK
    <3> QED BY <3>3, <3>4
  <2> QED BY <2>2, <2>3, QuietStep
<1>5. CASE \E n \in Nodes : \E a \in admitting[n] : Admit(n, a) \/ AdmitLost(n, a)
  BY <1>5, QuietStep DEF Admit, AdmitLost, chainVars
<1>6. CASE \E m \in Miners : StartMining(m)
  BY <1>6, QuietStep DEF StartMining, chainVars
<1>7. CASE \E m \in Miners : Seal(m)
  <2>1. PICK m \in Miners : Seal(m)
    BY <1>7
  <2>2. UNCHANGED <<db, lastHash, utxo>>
    BY <2>1 DEF Seal
  <2>3. \A n \in Nodes : \A j \in storing'[n] : j \in storing[n] \/ j.pc = "setBlock"
    BY <2>1 DEF Seal, TypeOK
  <2> QED BY <2>2, <2>3, QuietStep
<1>8. CASE \E n \in Nodes : \E j \in storing[n] : StoreStep(n, j)
  BY <1>8, SetBlockIInv, SetLastHashIInv, UpdateUtxoIInv, RelayBlockIInv DEF StoreStep
<1>9. CASE \E n \in Nodes : Kill(n)
  <2>1. PICK n \in Nodes : Kill(n)
    BY <1>9
  <2>2. \A k \in Nodes : \A j \in storing'[k] : j \in storing[k]
    BY <2>1 DEF Kill, Stop, TypeOK
  <2> QED BY <2>1, <2>2, QuietStep DEF Kill, chainVars
<1>10. CASE \E n \in Nodes : Restart(n)
  BY <1>10, RestartIInv
<1> QED BY <1>1, <1>2, <1>3, <1>4, <1>5, <1>6, <1>7, <1>8, <1>9, <1>10 DEF Next

\* At every step of every interleaving, and across kills, panics and restarts,
\* the block a node calls its tip is in its database.
THEOREM TipAlwaysStored == Spec => []TipStored
<1>1. IInv => TipStored
  BY DEF IInv
<1> QED BY <1>1, InitIInv, NextIInv, TypeCorrect, PTL DEF Spec

\* No node ever lists an unspent output of a transaction that is in none of
\* the blocks it has stored.
THEOREM UtxoAlwaysFromStored == Spec => []UtxoFromStored
<1>1. IInv => UtxoFromStored
  BY DEF IInv
<1> QED BY <1>1, InitIInv, NextIInv, TypeCorrect, PTL DEF Spec

-----------------------------------------------------------------------------
(***************************************************************************)
(* The network of wallet_test.go with any number of full nodes, clients    *)
(* and payments: one miner in the middle.  Blocks then form one line, and  *)
(* each node has a first part of it.  Because no mempool is ever emptied   *)
(* and a block holds at most one transaction besides the coinbase, only    *)
(* the first transaction of the miner's mempool is ever mined, in every    *)
(* block from then on.                                                     *)
(***************************************************************************)

\* The miner of a network that has one.
Hub == CHOOSE m \in Miners : TRUE

AllUp == \A n \in Nodes : status[n] = "up"

\* The blocks form one line.
OneLine == \A b \in Hashes : blocks[b].prev = b - 1

\* Blocks come from the miner, by message.
BlocksFromHub ==
  \A l \in Links : \A i \in DOMAIN net[l] :
    net[l][i].kind = "blockdata" => l[1] = Hub /\ l[2] \in Peers[Hub]

\* A node stores one block at a time, which the miner has sealed.
OneAtATime(n) == \A j, k \in storing[n] : j = k /\ j.from = Hub

\* Its database holds all blocks up to the one it stores or the tip.
StoredUpTo(n) ==
  /\ storing[n] = {} => db[n] = 1..lastHash[n]
  /\ \A j \in storing[n] :
       /\ db[n] = IF j.pc = "setBlock" THEN 1..(j.blk - 1) ELSE 1..j.blk
       /\ lastHash[n] = IF j.pc \in {"setBlock", "setLastHash"} THEN j.blk - 1 ELSE j.blk

\* The last block a node has received or sealed.
Height(n) ==
  IF \E j \in storing[n] : j.pc \in {"setBlock", "setLastHash"} THEN lastHash[n] + 1
  ELSE lastHash[n]

HubHasAll == Height(Hub) = Len(blocks)

\* The last block the miner has sent to its peers.
Relayed == IF storing[Hub] = {} THEN Len(blocks) ELSE Len(blocks) - 1

\* The blocks a full node lacks are on their way to it, one after another.
OnTheWay(n) ==
  LET link == net[<<Hub, n>>]
      IsBlock(i) == link[i].kind = "blockdata"
  IN  /\ Height(n) <= Relayed
      /\ \A i \in DOMAIN link : IsBlock(i) => link[i].item \in (Height(n) + 1)..Relayed
      /\ \A i, k \in DOMAIN link : IsBlock(i) /\ IsBlock(k) /\ i < k => link[i].item < link[k].item
      /\ n \in Peers[Hub] =>
           \A b \in (Height(n) + 1)..Relayed : \E i \in DOMAIN link : IsBlock(i) /\ link[i].item = b

\* A transaction that spends rewards of the first h blocks, with their keys.
Funded(t, h) == Signed(t) /\ \A o \in Inputs(t) : \E b \in 1..h : o = <<b, 0>>

\* The candidate extends all blocks, with what came into the mempool first or
\* without a transaction; or its Merkle root is never computed.
Candidate ==
  mining[Hub] # Idle =>
    /\ storing[Hub] = {} /\ mining[Hub].prev = Len(blocks)
    /\ Len(blocks) < MaxBlocks
    /\ mining[Hub].txs # <<>> => mempool[Hub] # <<>> /\ mining[Hub].txs[1] = mempool[Hub][1]

\* No other transaction than the first of the mempool is ever mined, and it
\* spends rewards of blocks before the first one it is in.
OnlyFirst ==
  /\ \A b \in Hashes :
       blocks[b].txs # <<>> => /\ mempool[Hub] # <<>>
                               /\ blocks[b].txs = <<mempool[Hub][1]>>
                               /\ Funded(mempool[Hub][1], b - 1)
  /\ mempool[Hub] # <<>> => Funded(mempool[Hub][1], Len(blocks))
  /\ mempool[Hub] = <<>> => \A a \in admitting[Hub] : Funded(a.txn, Len(blocks))

Bounded == storing[Hub] # {} => Len(blocks) <= MaxBlocks

\* What the first h blocks create and do not spend.
TxnsUpTo(h) == UNION {ToSet(TxnsOf(b)) : b \in 1..h}
Unspent(h) == (UNION {Outputs(t) : t \in TxnsUpTo(h)}) \ (UNION {Inputs(t) : t \in TxnsUpTo(h)})

UtxoOfLine(n) ==
  utxo[n] = Unspent(IF UtxoBehindTip(n) THEN lastHash[n] - 1 ELSE lastHash[n])

NodeInv(n) == OneAtATime(n) /\ StoredUpTo(n) /\ UtxoOfLine(n)

HubInv == HubHasAll /\ Candidate /\ OnlyFirst /\ Bounded

StarInv ==
  /\ AllUp /\ OneLine /\ BlocksFromHub /\ HubInv
  /\ \A n \in Nodes : NodeInv(n)
  /\ \A n \in FullNodes : OnTheWay(n)

-----------------------------------------------------------------------------
\* What a star network is made of.
LEMMA StarShape ==
  ASSUME StarNetwork
  PROVE  /\ Hub \in Miners /\ Miners = {Hub} /\ Hub \in Nodes /\ Nodes = {Hub} \cup FullNodes
         /\ Hub \notin FullNodes /\ Peers[Hub] \subseteq FullNodes
         /\ \A f \in FullNodes : f \in Nodes /\ Peers[f] \cap FullNodes = {}
BY LedgerAssumption DEF StarNetwork, Hub, Nodes

\* A coinbase spends nothing and has one output.
LEMMA CoinbaseShape ==
  ASSUME NEW b \in Nat
  PROVE  Inputs(b) = {} /\ Outputs(b) = {<<b, 0>>}
BY LedgerAssumption DEF Inputs, Outputs

\* The transactions of a block: the coinbase, and the first of the mempool or
\* none.
LEMMA BlockTxns ==
  ASSUME StarNetwork, TypeOK, OnlyFirst, NEW b \in Hashes
  PROVE  \/ TxnsOf(b) = <<b>>
         \/ /\ mempool[Hub] # <<>> /\ TxnsOf(b) = <<b, mempool[Hub][1]>>
            /\ Funded(mempool[Hub][1], b - 1)
<1>1. CASE blocks[b].txs = <<>>
  BY <1>1 DEF TxnsOf
<1>2. CASE blocks[b].txs # <<>>
  <2>1. blocks[b].txs = <<mempool[Hub][1]>>
    BY <1>2 DEF OnlyFirst
  <2>2. <<b>> \o <<mempool[Hub][1]>> = <<b, mempool[Hub][1]>>
    BY PairConcat
  <2>3. mempool[Hub] # <<>> /\ Funded(mempool[Hub][1], b - 1)
    BY <1>2 DEF OnlyFirst
  <2> QED BY <2>1, <2>2, <2>3 DEF TxnsOf
<1> QED BY <1>1, <1>2

\* UpdateWithNewBlock for a block without, and with one transaction.
LEMMA UpdatedWithOne ==
  ASSUME NEW set, NEW b \in Nat, TxnsOf(b) = <<b>>
  PROVE  UpdatedWithBlock(set, b) = set \cup Outputs(b)
<1>1. Inputs(b) = {}
  BY CoinbaseShape
<1> QED BY <1>1 DEF UpdatedWithBlock

LEMMA UpdatedWithTwo ==
  ASSUME NEW set, NEW b \in Nat, NEW t, TxnsOf(b) = <<b, t>>
  PROVE  UpdatedWithBlock(set, b)
           = (set \ Inputs(t)) \cup (Outputs(b) \ Inputs(t)) \cup Outputs(t)
<1> DEFINE txs == <<b, t>>
           SpentFrom(i, o) == \E j \in i..Len(txs) : o \in Inputs(txs[j])
<1>1. Inputs(b) = {}
  BY CoinbaseShape
<1>2. Len(txs) = 2 /\ txs[1] = b /\ txs[2] = t /\ DOMAIN txs = {1, 2}
  OBVIOUS
<1>3. \A o : /\ SpentFrom(1, o) <=> o \in Inputs(t)
             /\ SpentFrom(2, o) <=> o \in Inputs(t)
             /\ SpentFrom(3, o) <=> FALSE
  BY <1>1, <1>2
<1>4. UpdatedWithBlock(set, b) = {o \in set : ~SpentFrom(1, o)}
        \cup UNION {{o \in Outputs(txs[i]) : ~SpentFrom(i + 1, o)} : i \in DOMAIN txs}
  BY DEF UpdatedWithBlock
<1> HIDE DEF txs, SpentFrom
<1>5. UNION {{o \in Outputs(txs[i]) : ~SpentFrom(i + 1, o)} : i \in DOMAIN txs}
        = {o \in Outputs(b) : ~SpentFrom(2, o)} \cup {o \in Outputs(t) : ~SpentFrom(3, o)}
  BY <1>2
<1> QED BY <1>3, <1>4, <1>5

\* The blocks before block b list no input that is not an earlier reward.
LEMMA InputsUpTo ==
  ASSUME StarNetwork, TypeOK, OnlyFirst, NEW h \in Nat, h <= Len(blocks), NEW o,
         o \in UNION {Inputs(t) : t \in TxnsUpTo(h)}
  PROVE  /\ mempool[Hub] # <<>> /\ o \in Inputs(mempool[Hub][1])
         /\ \E b \in 1..(h - 1) : o = <<b, 0>>
<1>1. PICK c \in 1..h : \E t \in ToSet(TxnsOf(c)) : o \in Inputs(t)
  BY DEF TxnsUpTo
<1>2. PICK i \in DOMAIN TxnsOf(c) : o \in Inputs(TxnsOf(c)[i])
  BY <1>1 DEF ToSet
<1>3. c \in Hashes /\ c \in Nat
  BY DEF Hashes
<1>4. TxnsOf(c) # <<c>>
  BY <1>2, <1>3, CoinbaseShape
<1>5. /\ mempool[Hub] # <<>> /\ TxnsOf(c) = <<c, mempool[Hub][1]>>
      /\ Funded(mempool[Hub][1], c - 1)
  BY <1>3, <1>4, BlockTxns
<1>6. o \in Inputs(mempool[Hub][1])
  BY <1>2, <1>3, <1>5, CoinbaseShape
<1> QED BY <1>5, <1>6 DEF Funded

\* Updating with one block more gives what re-indexing gives.
LEMMA ApplyBlock ==
  ASSUME StarNetwork, TypeOK, OnlyFirst, NEW b \in Hashes
  PROVE  UpdatedWithBlock(Unspent(b - 1), b) = Unspent(b)
<1> DEFINE t == mempool[Hub][1]
           h == b - 1
           Created(k) == UNION {Outputs(x) : x \in TxnsUpTo(k)}
           Spent(k) == UNION {Inputs(x) : x \in TxnsUpTo(k)}
<1>0. Unspent(h) = Created(h) \ Spent(h) /\ Unspent(b) = Created(b) \ Spent(b)
  BY DEF Unspent
<1> SUFFICES UpdatedWithBlock(Unspent(h), b) = Unspent(b)
  OBVIOUS
<1>1. b \in Nat /\ h \in Nat /\ h <= Len(blocks) /\ b <= Len(blocks)
  BY DEF Hashes, TypeOK
<1>2. Inputs(b) = {} /\ Outputs(b) = {<<b, 0>>}
  BY <1>1, CoinbaseShape
<1>3. TxnsUpTo(b) = TxnsUpTo(h) \cup ToSet(TxnsOf(b))
  <2>1. 1..b = (1..h) \cup {b}
    BY <1>1 DEF Hashes
  <2> HIDE DEF h
  <2> QED BY <2>1 DEF TxnsUpTo
<1>4. <<b, 0>> \notin Spent(h)
  BY <1>1, InputsUpTo
<1>5. CASE TxnsOf(b) = <<b>>
  <2>1. ToSet(TxnsOf(b)) = {b}
    BY <1>5 DEF ToSet
  <2>2. Created(b) = Created(h) \cup Outputs(b) /\ Spent(b) = Spent(h) \cup Inputs(b)
    BY <1>3, <2>1
  <2>3. UpdatedWithBlock(Unspent(h), b) = Unspent(h) \cup Outputs(b)
    BY <1>1, <1>5, UpdatedWithOne
  <2> HIDE DEF h, Created, Spent
  <2> QED BY <1>0, <1>2, <1>4, <2>2, <2>3
<1>6. CASE /\ mempool[Hub] # <<>> /\ TxnsOf(b) = <<b, t>>
           /\ Funded(t, h)
  <2>1. ToSet(TxnsOf(b)) = {b, t}
    BY <1>6 DEF ToSet
  <2>2. /\ Created(b) = Created(h) \cup Outputs(b) \cup Outputs(t)
        /\ Spent(b) = Spent(h) \cup Inputs(b) \cup Inputs(t)
    BY <1>3, <2>1
  <2>3. UpdatedWithBlock(Unspent(h), b)
          = (Unspent(h) \ Inputs(t)) \cup (Outputs(b) \ Inputs(t)) \cup Outputs(t)
    BY <1>1, <1>6, UpdatedWithTwo
  <2>4. Spent(h) \subseteq Inputs(t)
    BY <1>1, InputsUpTo
  <2>5. <<b, 0>> \notin Inputs(t)
    BY <1>1, <1>6 DEF Funded
  <2>6. Outputs(t) \cap Inputs(t) = {}
    <3> SUFFICES ASSUME NEW o \in Outputs(t), o \in Inputs(t) PROVE FALSE
      OBVIOUS
    <3>1. t \in UserTx \cup {Phantom}
      <4>1. mempool[Hub] \in Seq(UserTx \cup {Phantom})
        BY StarShape DEF TypeOK
      <4>2. Len(mempool[Hub]) >= 1
        BY <1>6, <4>1
      <4> QED BY <4>1, <4>2
    <3>2. o[1] = t
      BY <3>1, OutputsType DEF PoolTx
    <3>3. o[1] \in Nat
      BY <1>1, <1>6 DEF Funded
    <3> QED BY <3>1, <3>2, <3>3, LedgerAssumption
  <2> HIDE DEF h, Created, Spent, t
  <2> QED BY <1>0, <1>2, <1>4, <2>2, <2>3, <2>4, <2>5, <2>6
<1> QED BY <1>5, <1>6, BlockTxns

-----------------------------------------------------------------------------
(* What stays as it is.                                                    *)

\* Sealed blocks stay, and there are at least one and never fewer.
LEMMA BlocksStay ==
  ASSUME TypeOK, [Next]_vars
  PROVE  /\ Len(blocks) \in Nat /\ Len(blocks') \in Nat /\ Len(blocks) <= Len(blocks')
         /\ \A b \in Hashes : b \in Nat /\ b \in Hashes' /\ blocks'[b] = blocks[b]
<1>1. blocks' = blocks \/ \E m \in Miners : Seal(m)
  BY DEF Next, vars, chainVars, Submit, ReceiveTxn, ReceiveBlock, Admit, AdmitLost,
         StartMining, StoreStep, SetBlock, SetLastHash, UpdateUtxo, RelayBlock,
         Kill, Restart
<1>2. Len(blocks) \in Nat
  BY DEF TypeOK
<1>3. CASE blocks' = blocks
  BY <1>2, <1>3 DEF Hashes
<1>4. CASE \E m \in Miners : Seal(m)
  <2>1. PICK e : blocks' = Append(blocks, e)
    BY <1>4 DEF Seal
  <2>2. Len(blocks') = Len(blocks) + 1 /\ \A b \in 1..Len(blocks) : blocks'[b] = blocks[b]
    <3>1. blocks \in Seq(BlockType)
      BY DEF TypeOK
    <3> HIDE DEF BlockType
    <3> QED BY <2>1, <3>1
  <2> QED BY <1>2, <2>2 DEF Hashes
<1> QED BY <1>1, <1>3, <1>4

\* What the first blocks create and do not spend.
LEMMA UnspentStable ==
  ASSUME TypeOK, [Next]_vars, NEW h \in Nat, h <= Len(blocks)
  PROVE  Unspent(h)' = Unspent(h)
<1>1. \A b \in 1..h : TxnsOf(b)' = TxnsOf(b)
  BY TxnsOfStable DEF Hashes, TypeOK
<1>2. TxnsUpTo(h)' = TxnsUpTo(h)
  BY <1>1 DEF TxnsUpTo
<1>3. \A t : Inputs(t)' = Inputs(t) /\ Outputs(t)' = Outputs(t)
  BY DEF Inputs, Outputs
<1> QED BY <1>2, <1>3 DEF Unspent

\* What pays for a transaction.
LEMMA FundedStable ==
  ASSUME TypeOK, [Next]_vars, NEW h \in Nat, h <= Len(blocks), NEW t, Funded(t, h),
         NEW k \in Nat, h <= k
  PROVE  Funded(t, k)'
<1>1. \A o \in Inputs(t) : \E b \in 1..h : o = <<b, 0>>
  BY DEF Funded
<1>2. \A o \in Inputs(t) : OutputAt(o)' = OutputAt(o)
  <2> SUFFICES ASSUME NEW o \in Inputs(t) PROVE OutputAt(o)' = OutputAt(o)
    OBVIOUS
  <2>1. PICK b \in 1..h : o = <<b, 0>>
    BY <1>1
  <2>2. b \in Hashes /\ b \notin UserTx
    <3>1. Len(blocks) \in Nat
      BY DEF TypeOK
    <3>2. b \in Nat /\ b \in Hashes
      BY <3>1 DEF Hashes
    <3> QED BY <3>2, LedgerAssumption
  <2>3. blocks'[b] = blocks[b]
    BY <2>2, BlocksStay
  <2> QED BY <2>1, <2>2, <2>3 DEF OutputAt
<1>3. Signed(t)'
  BY <1>2 DEF Signed, Funded, Inputs
<1>4. \A o \in Inputs(t) : \E b \in 1..k : o = <<b, 0>>
  BY <1>1
<1> QED BY <1>3, <1>4 DEF Funded, Inputs

\* A node that a step leaves alone.
LEMMA SameNode ==
  ASSUME TypeOK, [Next]_vars, NEW k \in Nodes, NodeInv(k),
         db'[k] = db[k], lastHash'[k] = lastHash[k], utxo'[k] = utxo[k],
         storing'[k] = storing[k]
  PROVE  NodeInv(k)' /\ Height(k)' = Height(k)
<1>1. lastHash[k] \in Nat /\ lastHash[k] - 1 \in Nat /\ lastHash[k] <= Len(blocks)
      /\ lastHash[k] - 1 <= Len(blocks)
  BY DEF TypeOK, Hashes
<1>2. ASSUME NEW h \in Nat, h <= Len(blocks) PROVE Unspent(h)' = Unspent(h)
  BY <1>2, UnspentStable
<1>3. UtxoBehindTip(k)' = UtxoBehindTip(k) /\ Height(k)' = Height(k)
  BY DEF UtxoBehindTip, Height
<1>4. OneAtATime(k)' /\ StoredUpTo(k)'
  BY DEF NodeInv, OneAtATime, StoredUpTo
<1>5. UtxoOfLine(k)'
  <2>1. PICK h \in Nat : h = IF UtxoBehindTip(k) THEN lastHash[k] - 1 ELSE lastHash[k]
    BY <1>1
  <2>2. h <= Len(blocks)
    BY <1>1, <2>1
  <2>3. h = (IF UtxoBehindTip(k) THEN lastHash[k] - 1 ELSE lastHash[k])'
    BY <1>3, <2>1
  <2>4. utxo[k] = Unspent(h)
    BY <2>1 DEF NodeInv, UtxoOfLine
  <2>5. utxo'[k] = Unspent(h)'
    BY <1>2, <2>2, <2>4
  <2> QED BY <2>3, <2>5 DEF UtxoOfLine
<1> QED BY <1>3, <1>4, <1>5 DEF NodeInv

\* A step leaves link l alone, puts a transaction on it or takes one from it.
NoBlockMoves(l) ==
  \/ net'[l] = net[l]
  \/ \E msg \in Message : msg.kind # "blockdata" /\ net'[l] = Append(net[l], msg)
  \/ 1 \in DOMAIN net[l] /\ net[l][1].kind # "blockdata" /\ net'[l] = RemoveAt(net[l], 1)

\* The blocks on a link, in order, do not depend on the transactions there.
LEMMA SameBlocksOnLink ==
  ASSUME TypeOK, NEW l \in Links, NoBlockMoves(l)
  PROVE  /\ \A i \in DOMAIN net'[l] : net'[l][i].kind = "blockdata" =>
              \E k \in DOMAIN net[l] : net[l][k] = net'[l][i]
         /\ \A i \in DOMAIN net[l] : net[l][i].kind = "blockdata" =>
              \E k \in DOMAIN net'[l] : net'[l][k] = net[l][i]
         /\ \A i, k \in DOMAIN net'[l] :
              i < k /\ net'[l][i].kind = "blockdata" /\ net'[l][k].kind = "blockdata" =>
                \E i2, k2 \in DOMAIN net[l] :
                  i2 < k2 /\ net[l][i2] = net'[l][i] /\ net[l][k2] = net'[l][k]
<1> DEFINE s == net[l]
           t == net'[l]
<1>1. s \in Seq(Message)
  BY DEF TypeOK
<1> SUFFICES /\ \A i \in DOMAIN t : t[i].kind = "blockdata" => \E k \in DOMAIN s : s[k] = t[i]
             /\ \A i \in DOMAIN s : s[i].kind = "blockdata" => \E k \in DOMAIN t : t[k] = s[i]
             /\ \A i, k \in DOMAIN t :
                  i < k /\ t[i].kind = "blockdata" /\ t[k].kind = "blockdata" =>
                    \E i2, k2 \in DOMAIN s : i2 < k2 /\ s[i2] = t[i] /\ s[k2] = t[k]
  OBVIOUS
<1>2. CASE t = s
  BY <1>2
<1>3. CASE \E msg \in Message : msg.kind # "blockdata" /\ t = Append(s, msg)
  <2>1. PICK msg \in Message : msg.kind # "blockdata" /\ t = Append(s, msg)
    BY <1>3
  <2> HIDE DEF s, t, Message
  <2>2. DOMAIN s = 1..Len(s) /\ DOMAIN t = 1..(Len(s) + 1) /\ t[Len(s) + 1] = msg
        /\ \A i \in 1..Len(s) : t[i] = s[i]
    BY <1>1, <2>1
  <2>3. \A i \in DOMAIN t : t[i].kind = "blockdata" => i \in DOMAIN s /\ t[i] = s[i]
    BY <1>1, <2>1, <2>2
  <2>4. \A i \in DOMAIN s : i \in DOMAIN t /\ t[i] = s[i]
    BY <1>1, <2>2
  <2> QED BY <2>3, <2>4
<1>4. CASE 1 \in DOMAIN s /\ s[1].kind # "blockdata" /\ t = RemoveAt(s, 1)
  <2> HIDE DEF s, t, Message
  <2>1. Len(t) = Len(s) - 1 /\ t \in Seq(Message) /\ \A i \in 1..(Len(s) - 1) : t[i] = s[i + 1]
    BY <1>1, <1>4, RemoveHead
  <2>2. \A i \in DOMAIN t : i \in Nat /\ i + 1 \in DOMAIN s /\ t[i] = s[i + 1]
    BY <1>1, <2>1
  <2>3. \A i \in DOMAIN s : i # 1 => i - 1 \in DOMAIN t /\ t[i - 1] = s[i]
    BY <1>1, <2>1
  <2>4. \A i, k \in DOMAIN t : i < k => i + 1 < k + 1
    BY <2>2
  <2> QED BY <1>4, <2>2, <2>3, <2>4
<1> QED BY <1>2, <1>3, <1>4 DEF NoBlockMoves

\* Nothing changes for a full node when neither its last block nor the last
\* block relayed changes.
LEMMA KeepOnTheWay ==
  ASSUME StarNetwork, TypeOK, NEW n \in FullNodes, OnTheWay(n), Height(n)' = Height(n),
         Relayed' = Relayed, NoBlockMoves(<<Hub, n>>)
  PROVE  OnTheWay(n)'
<1> DEFINE s == net[<<Hub, n>>]
           t == net'[<<Hub, n>>]
<1>1. <<Hub, n>> \in Links
  BY StarShape DEF Links, Sources
<1>2. /\ \A i \in DOMAIN t : t[i].kind = "blockdata" => \E k \in DOMAIN s : s[k] = t[i]
      /\ \A i \in DOMAIN s : s[i].kind = "blockdata" => \E k \in DOMAIN t : t[k] = s[i]
      /\ \A i, k \in DOMAIN t :
           i < k /\ t[i].kind = "blockdata" /\ t[k].kind = "blockdata" =>
             \E i2, k2 \in DOMAIN s : i2 < k2 /\ s[i2] = t[i] /\ s[k2] = t[k]
  BY <1>1, SameBlocksOnLink
<1> DEFINE h == Height(n)
           r == Relayed
<1>3. /\ h <= r
      /\ \A i \in DOMAIN s : s[i].kind = "blockdata" => s[i].item \in (h + 1)..r
      /\ \A i, k \in DOMAIN s :
           s[i].kind = "blockdata" /\ s[k].kind = "blockdata" /\ i < k => s[i].item < s[k].item
      /\ n \in Peers[Hub] =>
           \A b \in (h + 1)..r : \E i \in DOMAIN s : s[i].kind = "blockdata" /\ s[i].item = b
  BY DEF OnTheWay
<1>4. /\ \A i \in DOMAIN t : t[i].kind = "blockdata" => t[i].item \in (h + 1)..r
      /\ \A i, k \in DOMAIN t :
           t[i].kind = "blockdata" /\ t[k].kind = "blockdata" /\ i < k => t[i].item < t[k].item
      /\ n \in Peers[Hub] =>
           \A b \in (h + 1)..r : \E i \in DOMAIN t : t[i].kind = "blockdata" /\ t[i].item = b
  <2> HIDE DEF s, t, h, r
  <2>1. \A i \in DOMAIN t : t[i].kind = "blockdata" => t[i].item \in (h + 1)..r
    BY <1>2, <1>3
  <2>2. ASSUME NEW i \in DOMAIN t, NEW k \in DOMAIN t,
               t[i].kind = "blockdata", t[k].kind = "blockdata", i < k
        PROVE  t[i].item < t[k].item
    <3>1. PICK i2 \in DOMAIN s, k2 \in DOMAIN s : i2 < k2 /\ s[i2] = t[i] /\ s[k2] = t[k]
      BY <1>2, <2>2
    <3> QED BY <1>3, <2>2, <3>1
  <2>3. ASSUME n \in Peers[Hub], NEW b \in (h + 1)..r
        PROVE  \E i \in DOMAIN t : t[i].kind = "blockdata" /\ t[i].item = b
    <3>1. PICK i \in DOMAIN s : s[i].kind = "blockdata" /\ s[i].item = b
      BY <1>3, <2>3
    <3> QED BY <1>2, <3>1
  <2> QED BY <2>1, <2>2, <2>3
<1>5. h = Height(n)' /\ r = Relayed'
  OBVIOUS
<1> HIDE DEF h, r
<1> QED BY <1>3, <1>4, <1>5 DEF OnTheWay

\* Steps that move no block from one node to another.
LEMMA KeepNet ==
  ASSUME StarNetwork, TypeOK, BlocksFromHub, \A n \in FullNodes : OnTheWay(n),
         \A n \in FullNodes : Height(n)' = Height(n),
         Relayed' = Relayed, \A l \in Links : NoBlockMoves(l)
  PROVE  BlocksFromHub' /\ \A n \in FullNodes : OnTheWay(n)'
<1>1. \A n \in FullNodes : OnTheWay(n)'
  <2> TAKE n \in FullNodes
  <2>1. <<Hub, n>> \in Links
    BY StarShape DEF Links, Sources
  <2>2. NoBlockMoves(<<Hub, n>>)
    BY <2>1
  <2>3. OnTheWay(n) /\ Height(n)' = Height(n)
    OBVIOUS
  <2> QED BY <2>2, <2>3, KeepOnTheWay
<1>2. BlocksFromHub'
  <2> SUFFICES ASSUME NEW l \in Links, NEW i \in DOMAIN net'[l], net'[l][i].kind = "blockdata"
               PROVE  l[1] = Hub /\ l[2] \in Peers[Hub]
    BY DEF BlocksFromHub
  <2>1. PICK k \in DOMAIN net[l] : net[l][k] = net'[l][i]
    <3>1. NoBlockMoves(l)
      OBVIOUS
    <3> QED BY <3>1, SameBlocksOnLink
  <2> QED BY <2>1 DEF BlocksFromHub
<1> QED BY <1>1, <1>2

\* While the miner's mempool is empty there are only rewards to spend.
LEMMA OnlyRewards ==
  ASSUME StarNetwork, TypeOK, OnlyFirst, mempool[Hub] = <<>>,
         NEW h \in Nat, h <= Len(blocks), NEW o \in Unspent(h)
  PROVE  \E b \in 1..h : o = <<b, 0>>
<1>1. PICK c \in 1..h : \E t \in ToSet(TxnsOf(c)) : o \in Outputs(t)
  BY DEF Unspent, TxnsUpTo
<1>2. c \in Hashes /\ c \in Nat
  BY DEF Hashes
<1>3. TxnsOf(c) = <<c>>
  BY <1>2, BlockTxns
<1>4. ToSet(TxnsOf(c)) = {c}
  BY <1>3 DEF ToSet
<1> QED BY <1>1, <1>2, <1>4, CoinbaseShape

\* A transaction that passes the checks of the miner then is paid for by
\* rewards.
LEMMA AdmissibleFunded ==
  ASSUME StarNetwork, TypeOK, OnlyFirst, mempool[Hub] = <<>>, NodeInv(Hub), NEW t,
         Admissible(Hub, t)
  PROVE  Funded(t, Len(blocks))
<1>1. lastHash[Hub] \in Nat /\ lastHash[Hub] - 1 \in Nat /\ lastHash[Hub] <= Len(blocks)
      /\ lastHash[Hub] - 1 <= Len(blocks) /\ Len(blocks) \in Nat
  BY StarShape DEF TypeOK, Hashes
<1>2. PICK h \in Nat : h = IF UtxoBehindTip(Hub) THEN lastHash[Hub] - 1 ELSE lastHash[Hub]
  BY <1>1
<1>3. h <= Len(blocks) /\ utxo[Hub] = Unspent(h)
  BY <1>1, <1>2 DEF NodeInv, UtxoOfLine
<1>4. \A o \in Inputs(t) : \E b \in 1..Len(blocks) : o = <<b, 0>>
  <2> SUFFICES ASSUME NEW o \in Inputs(t) PROVE \E b \in 1..Len(blocks) : o = <<b, 0>>
    OBVIOUS
  <2>1. o \in Unspent(h)
    BY <1>3 DEF Admissible
  <2>2. PICK b \in 1..h : o = <<b, 0>>
    BY <1>3, <2>1, OnlyRewards
  <2> QED BY <1>1, <1>3, <2>2
<1> QED BY <1>4 DEF Funded, Admissible

\* Steps that seal no block and, at the miner, admit a transaction or let one
\* into the mempool.
LEMMA KeepOnlyFirst ==
  ASSUME StarNetwork, TypeOK, [Next]_vars, OnlyFirst, blocks' = blocks,
         \/ /\ mempool'[Hub] = mempool[Hub]
            /\ \A a \in admitting'[Hub] :
                 \/ a \in admitting[Hub]
                 \/ mempool[Hub] = <<>> => Funded(a.txn, Len(blocks))
         \/ \E a \in admitting[Hub] : mempool'[Hub] = Append(mempool[Hub], a.txn)
  PROVE  OnlyFirst'
<1>1. Len(blocks) \in Nat /\ \A b \in Hashes : b - 1 \in Nat /\ b - 1 <= Len(blocks)
  BY DEF TypeOK, Hashes
<1>2. Hashes' = Hashes
  BY DEF Hashes
<1>3. ASSUME NEW t, NEW h \in Nat, h <= Len(blocks), Funded(t, h)
      PROVE  Funded(t, h)'
  BY <1>3, FundedStable
<1>4. ASSUME NEW t, \A b \in Hashes : blocks[b].txs # <<>> => blocks[b].txs = <<t>> /\ Funded(t, b - 1),
             Funded(t, Len(blocks)), mempool'[Hub] # <<>>, mempool'[Hub][1] = t
      PROVE  OnlyFirst'
  <2>1. \A b \in Hashes : blocks[b].txs # <<>> => Funded(t, b - 1)'
    BY <1>1, <1>3, <1>4
  <2>2. Funded(t, Len(blocks))'
    BY <1>1, <1>3, <1>4
  <2>3. Funded(t, Len(blocks))' = Funded(mempool[Hub][1], Len(blocks))'
    BY <1>4
  <2>4. \A b \in Hashes : Funded(t, b - 1)' = Funded(mempool[Hub][1], b - 1)'
    BY <1>4
  <2> QED BY <1>2, <1>4, <2>1, <2>2, <2>3, <2>4 DEF OnlyFirst
<1>5. mempool[Hub] \in Seq(PoolTx)
  BY StarShape DEF TypeOK, PoolTx
<1>6. CASE mempool[Hub] # <<>> /\ mempool'[Hub] # <<>> /\ mempool'[Hub][1] = mempool[Hub][1]
  <2>1. PICK t : t = mempool[Hub][1]
    OBVIOUS
  <2>2. \A b \in Hashes : blocks[b].txs # <<>> => blocks[b].txs = <<t>> /\ Funded(t, b - 1)
    BY <2>1 DEF OnlyFirst
  <2>3. Funded(t, Len(blocks))
    BY <1>6, <2>1 DEF OnlyFirst
  <2> QED BY <1>4, <1>6, <2>1, <2>2, <2>3
<1>7. CASE mempool[Hub] = <<>> /\ mempool'[Hub] = <<>>
  <2>1. \A b \in Hashes : blocks[b].txs = <<>>
    BY <1>7 DEF OnlyFirst
  <2>2. \A a \in admitting'[Hub] : Funded(a.txn, Len(blocks))
    <3>1. ~ \E a \in admitting[Hub] : mempool'[Hub] = Append(mempool[Hub], a.txn)
      BY <1>7
    <3> QED BY <1>7, <3>1 DEF OnlyFirst
  <2>3. \A a \in admitting'[Hub] : Funded(a.txn, Len(blocks))'
    BY <1>1, <1>3, <2>2
  <2> QED BY <1>2, <1>7, <2>1, <2>3 DEF OnlyFirst
<1>8. CASE mempool[Hub] = <<>> /\ mempool'[Hub] # <<>>
  <2>1. PICK a \in admitting[Hub] : mempool'[Hub] = Append(mempool[Hub], a.txn)
    BY <1>8
  <2>2. mempool'[Hub][1] = a.txn
    BY <1>8, <2>1
  <2>3. Funded(a.txn, Len(blocks))
    BY <1>8 DEF OnlyFirst
  <2>4. \A b \in Hashes : blocks[b].txs = <<>>
    BY <1>8 DEF OnlyFirst
  <2>5. PICK t : t = a.txn
    OBVIOUS
  <2> QED BY <1>4, <1>8, <2>2, <2>3, <2>4, <2>5
<1>9. mempool[Hub] # <<>> => mempool'[Hub] # <<>> /\ mempool'[Hub][1] = mempool[Hub][1]
  <2>1. CASE mempool'[Hub] = mempool[Hub]
    BY <2>1
  <2>2. CASE \E a \in admitting[Hub] : mempool'[Hub] = Append(mempool[Hub], a.txn)
    <3>1. PICK e : mempool'[Hub] = Append(mempool[Hub], e)
      BY <2>2
    <3> QED BY <1>5, <3>1
  <2> QED BY <2>1, <2>2
<1> QED BY <1>6, <1>7, <1>8, <1>9

\* The candidate is the same, or waits for a Merkle root that needs it longer.
LEMMA KeepCandidate ==
  ASSUME StarNetwork, TypeOK, Candidate, mining'[Hub] = mining[Hub], blocks' = blocks,
         storing'[Hub] = storing[Hub],
         \/ mempool'[Hub] = mempool[Hub]
         \/ \E e : mempool'[Hub] = Append(mempool[Hub], e)
  PROVE  Candidate'
<1>1. mempool[Hub] \in Seq(PoolTx)
  BY StarShape DEF TypeOK, PoolTx
<1>2. mempool[Hub] # <<>> => mempool'[Hub] # <<>> /\ mempool'[Hub][1] = mempool[Hub][1]
  BY <1>1
<1> QED BY <1>2 DEF Candidate, Idle

\* Steps that move neither blocks nor tips.
LEMMA PoolStep ==
  ASSUME StarNetwork, TypeOK, [Next]_vars, StarInv,
         UNCHANGED <<blocks, db, lastHash, utxo, storing, status>>,
         \A l \in Links : NoBlockMoves(l), Candidate', OnlyFirst'
  PROVE  StarInv'
<1>1. \A n \in Nodes : NodeInv(n)' /\ Height(n)' = Height(n)
  <2> TAKE n \in Nodes
  <2>1. NodeInv(n)
    BY DEF StarInv
  <2>2. db'[n] = db[n] /\ lastHash'[n] = lastHash[n] /\ utxo'[n] = utxo[n]
        /\ storing'[n] = storing[n]
    OBVIOUS
  <2> QED BY <2>1, <2>2, SameNode
<1>2. Relayed' = Relayed
  BY DEF Relayed
<1>3. BlocksFromHub' /\ \A n \in FullNodes : OnTheWay(n)'
  BY <1>1, <1>2, KeepNet, StarShape DEF StarInv
<1>4. AllUp' /\ OneLine'
  BY DEF StarInv, AllUp, OneLine, Hashes
<1>5. HubHasAll' /\ Bounded'
  BY <1>1, StarShape DEF StarInv, HubInv, HubHasAll, Bounded
<1> QED BY <1>1, <1>3, <1>4, <1>5 DEF StarInv, HubInv

\* A node sends a transaction.
LEMMA TxnSent ==
  ASSUME TypeOK, NEW n, NEW targets, NEW msg \in Message, msg.kind # "blockdata",
         Broadcast(n, targets, msg)
  PROVE  \A l \in Links : NoBlockMoves(l)
BY DEF Broadcast, NoBlockMoves

LEMMA SubmitStar ==
  ASSUME StarNetwork, TypeOK, [Next]_vars, StarInv,
         NEW k \in Clients, NEW n \in Knows[k], NEW t \in UserTx, Submit(k, n, t)
  PROVE  StarInv'
<1>1. RawTxnMsg(t) \in Message /\ RawTxnMsg(t).kind # "blockdata"
  BY DEF RawTxnMsg, Message
<1>2. \A l \in Links : NoBlockMoves(l)
  BY <1>1, TxnSent DEF Submit
<1>3. /\ UNCHANGED <<blocks, db, lastHash, utxo, storing, status>>
      /\ UNCHANGED <<mempool, mining, admitting>>
  BY DEF Submit, chainVars
<1>4. OnlyFirst'
  BY <1>3, KeepOnlyFirst DEF StarInv, HubInv
<1>5. Candidate'
  BY <1>3, KeepCandidate DEF StarInv, HubInv
<1> QED BY <1>2, <1>3, <1>4, <1>5, PoolStep

\* The message read is the first of its link.
LEMMA ReceiveTxnStar ==
  ASSUME StarNetwork, TypeOK, [Next]_vars, StarInv, NEW l \in Links, ReceiveTxn(l)
  PROVE  StarInv'
<1>1. PICK i \in Readable(l, {}), id \in FreeIds(l[2]) :
        /\ net[l][i].kind # "blockdata"
        /\ Take(l, i)
        /\ admitting' = [admitting EXCEPT ![l[2]] =
             IF Admissible(l[2], Decoded(net[l][i]))
             THEN @ \cup {[id |-> id, from |-> l[1], txn |-> Decoded(net[l][i])]} ELSE @]
        /\ UNCHANGED <<chainVars, mempool, mining, storing, status, sent,
                       crashes, lost>>
  BY DEF ReceiveTxn
<1>2. i = 1 /\ 1 \in DOMAIN net[l]
  BY <1>1 DEF Readable, StarNetwork
<1>3. \A k \in Links : NoBlockMoves(k)
  <2>1. net' = [net EXCEPT ![l] = RemoveAt(@, 1)]
    BY <1>1, <1>2 DEF Take
  <2> QED BY <1>1, <1>2, <2>1 DEF TypeOK, NoBlockMoves
<1>4. OnlyFirst'
  <2> DEFINE new == [id |-> id, from |-> l[1], txn |-> Decoded(net[l][i])]
  <2>1. \A a \in admitting'[Hub] : a \in admitting[Hub] \/ (l[2] = Hub /\ a = new /\ Admissible(Hub, new.txn))
    <3>1. admitting' = [admitting EXCEPT ![l[2]] =
             IF Admissible(l[2], new.txn) THEN @ \cup {new} ELSE @]
      BY <1>1
    <3> HIDE DEF new
    <3> QED BY <3>1, StarShape, LinkEnds DEF TypeOK
  <2>2. mempool[Hub] = <<>> /\ Admissible(Hub, new.txn) => Funded(new.txn, Len(blocks))
    <3>1. NodeInv(Hub) /\ OnlyFirst
      BY StarShape DEF StarInv, HubInv
    <3> HIDE DEF new
    <3> QED BY <3>1, AdmissibleFunded
  <2>3. \A a \in admitting'[Hub] :
          a \in admitting[Hub] \/ (mempool[Hub] = <<>> => Funded(a.txn, Len(blocks)))
    <3> HIDE DEF new
    <3> QED BY <2>1, <2>2
  <2> HIDE DEF new
  <2>4. blocks' = blocks /\ mempool'[Hub] = mempool[Hub] /\ OnlyFirst
    BY <1>1 DEF chainVars, StarInv, HubInv
  <2> QED BY <2>3, <2>4, KeepOnlyFirst
<1>5. Candidate'
  BY <1>1, KeepCandidate DEF StarInv, HubInv, chainVars
<1> QED BY <1>1, <1>3, <1>4, <1>5, PoolStep DEF chainVars

LEMMA AdmitStar ==
  ASSUME StarNetwork, TypeOK, [Next]_vars, StarInv,
         NEW n \in Nodes, NEW a \in admitting[n], Admit(n, a) \/ AdmitLost(n, a)
  PROVE  StarInv'
<1>1. a.txn \in UserTx \cup {Phantom}
  BY DEF TypeOK
<1>2. WrappedTxnMsg(a.txn) \in Message /\ WrappedTxnMsg(a.txn).kind # "blockdata"
  BY <1>1 DEF WrappedTxnMsg, Message
<1>3. \A l \in Links : NoBlockMoves(l)
  BY <1>2, TxnSent DEF Admit, AdmitLost
<1>4. /\ UNCHANGED <<blocks, db, lastHash, utxo, storing, status, mining>>
      /\ admitting' = [admitting EXCEPT ![n] = @ \ {a}]
      /\ mempool' = mempool \/ mempool' = [mempool EXCEPT ![n] = Append(@, a.txn)]
  BY DEF Admit, AdmitLost, chainVars
<1>5. \/ mempool'[Hub] = mempool[Hub]
      \/ n = Hub /\ mempool'[Hub] = Append(mempool[Hub], a.txn)
  BY <1>4, StarShape DEF TypeOK
<1>6. \A b \in admitting'[Hub] : b \in admitting[Hub]
  BY <1>4, StarShape DEF TypeOK
<1>7. OnlyFirst'
  BY <1>4, <1>5, <1>6, KeepOnlyFirst DEF StarInv, HubInv
<1>8. Candidate'
  BY <1>4, <1>5, KeepCandidate DEF StarInv, HubInv
<1> QED BY <1>3, <1>4, <1>7, <1>8, PoolStep

\* The candidate is built when the miner is at rest, on all blocks.
LEMMA StartMiningStar ==
  ASSUME StarNetwork, TypeOK, [Next]_vars, StarInv, NEW m \in Miners, StartMining(m)
  PROVE  StarInv'
<1>1. m = Hub
  BY StarShape
<1>2. storing[Hub] = {}
  BY <1>1, StarShape DEF StarInv, NodeInv, OneAtATime, StartMining, OpenAt
<1>3. lastHash[Hub] = Len(blocks)
  BY <1>2 DEF StarInv, HubInv, HubHasAll, Height
<1>4. Len(blocks) < MaxBlocks
  <2>1. {k \in Miners : mining[k] # Idle} = {}
    BY <1>1, StarShape DEF StartMining
  <2>2. Cardinality({k \in Miners : mining[k] # Idle}) = 0
    BY <2>1, FS_EmptySet
  <2> QED BY <2>2 DEF StartMining, TypeOK
<1>5. mining'[Hub] = [prev |-> lastHash[Hub], txs |-> mempool[Hub]]
  BY <1>1 DEF StartMining, TypeOK
<1>6. UNCHANGED <<blocks, db, lastHash, utxo, storing, status, net, mempool, admitting>>
  BY DEF StartMining, chainVars, poolVars
<1>7. Candidate'
  BY <1>2, <1>3, <1>4, <1>5, <1>6 DEF Candidate
<1>8. OnlyFirst'
  BY <1>6, KeepOnlyFirst DEF StarInv, HubInv
<1>9. \A l \in Links : NoBlockMoves(l)
  BY <1>6 DEF NoBlockMoves
<1> QED BY <1>6, <1>7, <1>8, <1>9, PoolStep

\* The new block extends all blocks, with the first transaction or none.
LEMMA SealStar ==
  ASSUME StarNetwork, TypeOK, [Next]_vars, StarInv, NEW m \in Miners, Seal(m)
  PROVE  StarInv'
<1> DEFINE e == [prev |-> mining[m].prev, miner |-> m, txs |-> mining[m].txs]
           j == [from |-> m, blk |-> Len(blocks) + 1, pc |-> "setBlock"]
<1>1. m = Hub /\ Hub \in Nodes
  BY StarShape
<1>2. /\ storing[Hub] = {} /\ mining[Hub].prev = Len(blocks) /\ Len(blocks) < MaxBlocks
      /\ mining[Hub].txs # <<>> => mempool[Hub] # <<>> /\ mining[Hub].txs[1] = mempool[Hub][1]
  BY <1>1 DEF StarInv, HubInv, Candidate, Seal
<1>3. /\ blocks' = Append(blocks, e)
      /\ storing' = [storing EXCEPT ![Hub] = {j}]
      /\ mining' = [mining EXCEPT ![Hub] = Idle]
      /\ UNCHANGED <<db, lastHash, utxo, poolVars, net, status>>
  BY <1>1, <1>2 DEF Seal, TypeOK
<1>4. /\ Len(blocks) \in Nat /\ Len(blocks') = Len(blocks) + 1
      /\ \A b \in 1..Len(blocks) : blocks'[b] = blocks[b]
      /\ blocks'[Len(blocks) + 1] = e
  <2>1. blocks \in Seq(BlockType)
    BY DEF TypeOK
  <2> HIDE DEF BlockType, e
  <2> QED BY <1>3, <2>1
<1>5. storing'[Hub] = {j} /\ \A n \in FullNodes : storing'[n] = storing[n]
  BY <1>1, <1>3, StarShape DEF TypeOK
<1>6. lastHash[Hub] = Len(blocks)
  BY <1>2 DEF StarInv, HubInv, HubHasAll, Height
<1>7. j.blk = Len(blocks) + 1 /\ j.pc = "setBlock" /\ j.from = Hub
  BY <1>1
<1> HIDE DEF j
<1>8. AllUp' /\ OneLine'
  <2>1. AllUp'
    BY <1>3 DEF StarInv, AllUp
  <2>2. OneLine'
    BY <1>1, <1>2, <1>4 DEF StarInv, OneLine, Hashes
  <2> QED BY <2>1, <2>2
<1>9. NodeInv(Hub)'
  <2>1. OneAtATime(Hub)'
    BY <1>5, <1>7 DEF OneAtATime
  <2>2. StoredUpTo(Hub)'
    <3>1. db[Hub] = 1..lastHash[Hub]
      BY <1>1, <1>2 DEF StarInv, NodeInv, StoredUpTo
    <3> QED BY <1>3, <1>4, <1>5, <1>6, <1>7, <3>1 DEF StoredUpTo
  <2>3. UtxoOfLine(Hub)'
    <3>1. ~UtxoBehindTip(Hub) /\ ~UtxoBehindTip(Hub)'
      BY <1>2, <1>5, <1>7 DEF UtxoBehindTip
    <3>2. PICK h \in Nat : h = lastHash[Hub] /\ h <= Len(blocks)
      BY <1>4, <1>6
    <3>3. utxo[Hub] = Unspent(h)
      BY <1>1, <3>1, <3>2 DEF StarInv, NodeInv, UtxoOfLine
    <3>4. Unspent(h)' = Unspent(h)
      BY <3>2, UnspentStable
    <3> QED BY <1>3, <3>1, <3>2, <3>3, <3>4 DEF UtxoOfLine
  <2> QED BY <2>1, <2>2, <2>3 DEF NodeInv
<1>10. \A n \in FullNodes : NodeInv(n)' /\ Height(n)' = Height(n)
  <2> TAKE n \in FullNodes
  <2>1. n \in Nodes /\ NodeInv(n)
    BY StarShape DEF StarInv
  <2>2. db'[n] = db[n] /\ lastHash'[n] = lastHash[n] /\ utxo'[n] = utxo[n]
        /\ storing'[n] = storing[n]
    BY <1>3, <1>5
  <2> QED BY <2>1, <2>2, SameNode
<1>11. Relayed' = Relayed
  BY <1>2, <1>4, <1>5 DEF Relayed
<1>12. BlocksFromHub' /\ \A n \in FullNodes : OnTheWay(n)'
  <2>1. \A l \in Links : NoBlockMoves(l)
    BY <1>3 DEF NoBlockMoves
  <2>2. BlocksFromHub /\ \A n \in FullNodes : OnTheWay(n)
    BY DEF StarInv
  <2>3. \A n \in FullNodes : Height(n)' = Height(n)
    BY <1>10
  <2> QED BY <1>11, <2>1, <2>2, <2>3, KeepNet
<1>13. HubHasAll' /\ Bounded'
  <2>1. HubHasAll'
    BY <1>3, <1>4, <1>5, <1>6, <1>7 DEF HubHasAll, Height
  <2>2. Bounded'
    BY <1>2, <1>4, LedgerAssumption DEF Bounded
  <2> QED BY <2>1, <2>2
<1>14. Candidate'
  <2>1. mining'[Hub] = Idle
    BY <1>1, <1>3, StarShape DEF TypeOK
  <2> QED BY <2>1 DEF Candidate, Idle
<1>15. OnlyFirst'
  <2>1. PICK t : t = mempool[Hub][1]
    OBVIOUS
  <2>2. mempool' = mempool /\ admitting' = admitting
    BY <1>3 DEF poolVars
  <2>3. mining[Hub].txs # <<>> => mining[Hub].txs = <<t>>
    <3>1. mining[Hub].txs \in Seq(PoolTx)
      BY <1>1 DEF TypeOK, PoolTx
    <3>2. Len(mining[Hub].txs) <= 1
      BY <1>1, <3>1 DEF Seal, MerkleRootReturns
    <3> HIDE DEF PoolTx
    <3> QED BY <1>2, <2>1, <3>1, <3>2
  <2>4. OnlyFirst
    BY DEF StarInv, HubInv
  <2>5. ASSUME NEW x, NEW h \in Nat, NEW k \in Nat, h <= Len(blocks), h <= k, Funded(x, h)
        PROVE  Funded(x, k)'
    BY <2>5, FundedStable
  <2>6. \A b \in Hashes : b \in Nat /\ b - 1 \in Nat /\ b - 1 <= Len(blocks) /\ blocks'[b] = blocks[b]
    BY <1>4 DEF Hashes
  <2>7. Hashes' = Hashes \cup {Len(blocks) + 1}
    BY <1>4 DEF Hashes
  <2>8. ASSUME NEW b \in Hashes', blocks'[b].txs # <<>>
        PROVE  mempool[Hub] # <<>> /\ blocks'[b].txs = <<t>> /\ Funded(t, b - 1)'
    <3>1. CASE b \in Hashes
      <4>1. mempool[Hub] # <<>> /\ blocks[b].txs = <<t>> /\ Funded(t, b - 1)
        BY <2>1, <2>4, <2>6, <2>8, <3>1 DEF OnlyFirst
      <4> QED BY <2>5, <2>6, <3>1, <4>1
    <3>2. CASE b = Len(blocks) + 1
      <4>1. blocks'[b] = e /\ e.txs = mining[Hub].txs
        BY <1>1, <1>4, <3>2
      <4>2. mempool[Hub] # <<>> /\ blocks'[b].txs = <<t>>
        BY <1>2, <2>3, <2>8, <4>1
      <4>3. Funded(t, Len(blocks))
        BY <2>1, <2>4, <4>2 DEF OnlyFirst
      <4>4. PICK h \in Nat : h = Len(blocks)
        BY <1>4
      <4>5. Funded(t, h)'
        BY <2>5, <4>3, <4>4
      <4>6. h = b - 1
        BY <3>2, <4>4
      <4> QED BY <4>2, <4>5, <4>6
    <3> QED BY <2>7, <2>8, <3>1, <3>2
  <2>9. mempool[Hub] # <<>> => Funded(t, Len(blocks))'
    <3>1. PICK h \in Nat, k \in Nat : h = Len(blocks) /\ k = Len(blocks')
      BY <1>4
    <3>2. mempool[Hub] # <<>> => Funded(t, k)'
      BY <1>4, <2>1, <2>4, <2>5, <3>1 DEF OnlyFirst
    <3> QED BY <3>1, <3>2
  <2>10. mempool[Hub] = <<>> => \A a \in admitting[Hub] : Funded(a.txn, Len(blocks))'
    <3>1. PICK h \in Nat, k \in Nat : h = Len(blocks) /\ k = Len(blocks')
      BY <1>4
    <3>2. mempool[Hub] = <<>> => \A a \in admitting[Hub] : Funded(a.txn, k)'
      BY <1>4, <2>4, <2>5, <3>1 DEF OnlyFirst
    <3> QED BY <3>1, <3>2
  <2>11. t = mempool'[Hub][1]
    BY <2>1, <2>2
  <2> HIDE DEF e
  <2> QED BY <2>2, <2>8, <2>9, <2>10, <2>11 DEF OnlyFirst
<1> QED BY <1>8, <1>9, <1>10, <1>12, <1>13, <1>14, <1>15, StarShape DEF StarInv, HubInv

\* A node's chain is all blocks up to its tip.
LEMMA ChainIsLine ==
  ASSUME StarNetwork, TypeOK, StarInv, NEW n \in Nodes
  PROVE  /\ lastHash[n] \in Nat /\ lastHash[n] <= Len(blocks)
         /\ ChainOf(n) = [i \in 1..lastHash[n] |-> i]
<1> DEFINE h == lastHash[n]
           d == db[n]
<1>1. h \in 1..Len(blocks) /\ Len(blocks) \in Nat /\ d \subseteq 1..Len(blocks)
  BY DEF TypeOK, Hashes
<1>2. 1..h \subseteq d
  <2>1. StoredUpTo(n)
    BY DEF StarInv, NodeInv
  <2>2. \A j \in storing[n] : j.blk \in Nat
    BY DEF TypeOK, StoringType, Hashes
  <2>3. CASE storing[n] = {}
    BY <2>1, <2>3 DEF StoredUpTo
  <2>4. CASE storing[n] # {}
    <3>1. PICK j \in storing[n] : TRUE
      BY <2>4
    <3>2. /\ d = IF j.pc = "setBlock" THEN 1..(j.blk - 1) ELSE 1..j.blk
          /\ h = IF j.pc \in {"setBlock", "setLastHash"} THEN j.blk - 1 ELSE j.blk
      BY <2>1, <3>1 DEF StoredUpTo
    <3> HIDE DEF h, d
    <3> QED BY <2>2, <3>2
  <2> QED BY <2>3, <2>4
<1>3. \A k \in 1..Len(blocks) : blocks[k].prev = k - 1
  BY DEF StarInv, OneLine, Hashes
<1>4. ParentsFirst(blocks, d)
  <2> HIDE DEF d
  <2> QED BY <1>1, <1>3 DEF ParentsFirst
<1>5. ChainFrom(blocks, d, h) = [i \in 1..h |-> i]
  <2>1. h \in 0..Len(blocks) /\ \A k \in 1..h : blocks[k].prev = k - 1
    <3> HIDE DEF h
    <3> QED BY <1>1, <1>3
  <2> HIDE DEF d, h
  <2> QED BY <1>2, <1>4, <2>1, ChainOfLine
<1> QED BY <1>1, <1>5 DEF ChainOf

\* The transactions a node finds on its chain.
LEMMA RewardsOnChain ==
  ASSUME StarNetwork, TypeOK, StarInv, NEW n \in Nodes, NEW b \in 1..lastHash[n]
  PROVE  b \in TxnsOnChain(n)
<1>1. b \in ToSet(ChainOf(n))
  BY ChainIsLine DEF ToSet
<1>2. b \in Hashes
  BY ChainIsLine DEF Hashes, TypeOK
<1>3. b \in ToSet(TxnsOf(b))
  BY <1>2, CoinbaseInBlock
<1> QED BY <1>1, <1>3 DEF TxnsOnChain

\* The block after a node's tip passes verifyBlock: every transaction it
\* holds is signed and spends rewards the node has on its chain.
LEMMA NextIsValid ==
  ASSUME StarNetwork, TypeOK, StarInv, NEW n \in Nodes, NEW b \in Hashes,
         b = lastHash[n] + 1
  PROVE  Verdict(n, b) = "valid"
<1> DEFINE txs == TxnsOf(b)
           Absent(t) == \E o \in Inputs(t) : o[1] \notin TxnsOnChain(n)
<1>1. b \in Nat /\ lastHash[n] \in Nat
  BY DEF Hashes, TypeOK
<1>2. Inputs(b) = {}
  BY <1>1, CoinbaseShape
<1>3. Signed(b) /\ ~Absent(b)
  BY <1>2 DEF Signed
<1>4. ASSUME NEW t, Funded(t, b - 1) PROVE Signed(t) /\ ~Absent(t)
  <2>1. Signed(t)
    BY <1>4 DEF Funded
  <2>2. ASSUME NEW o \in Inputs(t) PROVE o[1] \in TxnsOnChain(n)
    <3>1. PICK k \in 1..(b - 1) : o = <<k, 0>>
      BY <1>4 DEF Funded
    <3>2. k \in 1..lastHash[n]
      BY <1>1, <3>1
    <3> QED BY <3>1, <3>2, RewardsOnChain
  <2> QED BY <2>1, <2>2
<1>5. \A i \in DOMAIN txs : Signed(txs[i]) /\ ~Absent(txs[i])
  <2>1. CASE TxnsOf(b) = <<b>>
    BY <1>3, <2>1
  <2>2. CASE /\ mempool[Hub] # <<>> /\ TxnsOf(b) = <<b, mempool[Hub][1]>>
             /\ Funded(mempool[Hub][1], b - 1)
    <3>1. Signed(mempool[Hub][1]) /\ ~Absent(mempool[Hub][1])
      BY <1>4, <2>2
    <3>2. DOMAIN txs = {1, 2} /\ txs[1] = b /\ txs[2] = mempool[Hub][1]
      BY <2>2
    <3> HIDE DEF txs, Absent
    <3> QED BY <1>3, <3>1, <3>2
  <2>3. OnlyFirst
    BY DEF StarInv, HubInv
  <2> QED BY <2>1, <2>2, <2>3, BlockTxns
<1>6. ~ \E i \in DOMAIN txs : /\ Absent(txs[i])
                              /\ \A k \in 1..i - 1 : Signed(txs[k])
  BY <1>5
<1>7. Verdict(n, b) =
        CASE \E i \in DOMAIN txs : /\ Absent(txs[i])
                                   /\ \A k \in 1..i - 1 : Signed(txs[k]) -> "panic"
          [] \A i \in DOMAIN txs : Signed(txs[i]) /\ ~Absent(txs[i])   -> "valid"
          [] OTHER                                                     -> "invalid"
  BY DEF Verdict
<1> HIDE DEF txs, Absent
<1> QED BY <1>5, <1>6, <1>7

\* The first block on the way to a full node is the one after its tip.
LEMMA FirstOnTheWay ==
  ASSUME StarNetwork, TypeOK, NEW n \in FullNodes, OnTheWay(n), n \in Peers[Hub],
         Height(n) \in Nat, Relayed \in Nat,
         1 \in DOMAIN net[<<Hub, n>>], net[<<Hub, n>>][1].kind = "blockdata"
  PROVE  net[<<Hub, n>>][1].item = Height(n) + 1
<1> DEFINE s == net[<<Hub, n>>]
           h == Height(n)
           r == Relayed
<1>1. s[1].item \in (h + 1)..r
  BY DEF OnTheWay
<1>2. h + 1 \in (h + 1)..r
  <2> HIDE DEF h, r, s
  <2> QED BY <1>1 DEF h, r
<1>3. PICK i \in DOMAIN s : s[i].kind = "blockdata" /\ s[i].item = h + 1
  BY <1>2 DEF OnTheWay
<1>4. s \in Seq(Message)
  BY StarShape DEF TypeOK, Links, Sources
<1>5. i # 1 => s[1].item < s[i].item
  <2>1. i # 1 => 1 < i
    BY <1>4
  <2> QED BY <1>3, <2>1 DEF OnTheWay
<1> HIDE DEF s, h, r
<1>6. h \in Nat /\ r \in Nat
  BY DEF h, r
<1>7. s[1].item = h + 1
  BY <1>1, <1>3, <1>5, <1>6
<1> QED BY <1>7 DEF s, h

\* Numbers of blocks are numbers.
LEMMA HeightType ==
  ASSUME TypeOK, NEW n \in Nodes
  PROVE  Height(n) \in Nat /\ lastHash[n] \in Nat
BY DEF TypeOK, Hashes, Height

LEMMA RelayedType ==
  ASSUME StarNetwork, TypeOK
  PROVE  Relayed \in Nat
<1>1. lastHash[Hub] \in 1..Len(blocks) /\ Len(blocks) \in Nat
  BY StarShape DEF TypeOK, Hashes
<1> QED BY <1>1 DEF Relayed

\* What is on the way to a node that has taken the next block.
LEMMA TakeFromTheWay ==
  ASSUME StarNetwork, TypeOK, NEW n \in FullNodes, OnTheWay(n), n \in Peers[Hub],
         1 \in DOMAIN net[<<Hub, n>>], net[<<Hub, n>>][1].kind = "blockdata",
         net'[<<Hub, n>>] = RemoveAt(net[<<Hub, n>>], 1),
         Height(n)' = Height(n) + 1, Relayed' = Relayed
  PROVE  OnTheWay(n)'
<1> DEFINE s == net[<<Hub, n>>]
           t == net'[<<Hub, n>>]
           h == Height(n)
           r == Relayed
<1>1. s \in Seq(Message)
  BY StarShape DEF TypeOK, Links, Sources
<1>2. h \in Nat /\ r \in Nat
  BY HeightType, RelayedType, StarShape
<1>3. /\ h <= r
      /\ \A i \in DOMAIN s : s[i].kind = "blockdata" => s[i].item \in (h + 1)..r
      /\ \A i, k \in DOMAIN s :
           s[i].kind = "blockdata" /\ s[k].kind = "blockdata" /\ i < k => s[i].item < s[k].item
      /\ \A b \in (h + 1)..r : \E i \in DOMAIN s : s[i].kind = "blockdata" /\ s[i].item = b
  BY DEF OnTheWay
<1>4. s[1].item = h + 1
  BY <1>2, FirstOnTheWay
<1>5. /\ Len(t) = Len(s) - 1 /\ t \in Seq(Message)
      /\ \A i \in 1..(Len(s) - 1) : t[i] = s[i + 1]
  <2> HIDE DEF Message
  <2> QED BY <1>1, RemoveHead
<1>6. \A i \in DOMAIN t : i \in Nat /\ i >= 1 /\ i + 1 \in DOMAIN s /\ t[i] = s[i + 1]
  <2> HIDE DEF s, t
  <2> QED BY <1>1, <1>5
<1>7. \A i \in DOMAIN s : i # 1 => i - 1 \in DOMAIN t /\ t[i - 1] = s[i]
  <2> HIDE DEF s, t
  <2> QED BY <1>1, <1>5
<1>8. /\ h + 1 <= r
      /\ \A i \in DOMAIN t : t[i].kind = "blockdata" => t[i].item \in (h + 2)..r
      /\ \A i, k \in DOMAIN t :
           t[i].kind = "blockdata" /\ t[k].kind = "blockdata" /\ i < k => t[i].item < t[k].item
      /\ \A b \in (h + 2)..r : \E i \in DOMAIN t : t[i].kind = "blockdata" /\ t[i].item = b
  <2>0. 1 \in DOMAIN s /\ s[1].kind = "blockdata"
    OBVIOUS
  <2> HIDE DEF s, t, h, r
  <2>1. h + 1 <= r
    BY <1>2, <1>3, <1>4, <2>0
  <2>2. ASSUME NEW i \in DOMAIN t, t[i].kind = "blockdata" PROVE t[i].item \in (h + 2)..r
    <3>1. s[1].item < s[i + 1].item /\ s[i + 1].item \in (h + 1)..r
      BY <1>3, <1>6, <2>0, <2>2
    <3> QED BY <1>2, <1>4, <1>6, <3>1
  <2>3. ASSUME NEW i \in DOMAIN t, NEW k \in DOMAIN t, t[i].kind = "blockdata",
               t[k].kind = "blockdata", i < k
        PROVE  t[i].item < t[k].item
    <3>1. i + 1 < k + 1 /\ i + 1 \in DOMAIN s /\ k + 1 \in DOMAIN s
      BY <1>6, <2>3
    <3>2. s[i + 1] = t[i] /\ s[k + 1] = t[k]
      BY <1>6
    <3> QED BY <1>3, <2>3, <3>1, <3>2
  <2>4. ASSUME NEW b \in (h + 2)..r
        PROVE  \E i \in DOMAIN t : t[i].kind = "blockdata" /\ t[i].item = b
    <3>1. b \in (h + 1)..r /\ b # h + 1
      BY <1>2
    <3>2. PICK i \in DOMAIN s : s[i].kind = "blockdata" /\ s[i].item = b
      BY <1>3, <3>1
    <3>3. i # 1
      BY <1>4, <3>1, <3>2
    <3> QED BY <1>7, <3>2, <3>3
  <2> QED BY <2>1, <2>2, <2>3, <2>4
<1>9. Height(n)' = h + 1 /\ Relayed' = r /\ h + 1 + 1 = h + 2
  <2>1. h + 1 + 1 = h + 2
    <3> HIDE DEF h
    <3> QED BY <1>2
  <2> QED BY <2>1
<1> HIDE DEF h, r
<1> QED BY <1>8, <1>9 DEF OnTheWay

\* Step 1 of handleBlockdataMsg: no panic, and the block is the next one.
LEMMA ReceiveBlockStar ==
  ASSUME StarNetwork, TypeOK, [Next]_vars, StarInv, NEW l \in Links, ReceiveBlock(l)
  PROVE  StarInv'
<1> DEFINE n == l[2]
<1>1. PICK i \in Readable(l, OpenAt(n)) :
        /\ net[l][i].kind = "blockdata"
        /\ UNCHANGED <<chainVars, sent, crashes, lost>>
        /\ \/ Verdict(n, net[l][i].item) = "panic"
           \/ /\ Take(l, i)
              /\ storing' = [storing EXCEPT ![n] =
                   IF Verdict(n, net[l][i].item) = "valid"
                   THEN @ \cup {[from |-> l[1], blk |-> net[l][i].item, pc |-> "setBlock"]}
                   ELSE @]
              /\ UNCHANGED <<mempool, mining, admitting, status>>
  BY DEF ReceiveBlock
<1>2. i = 1 /\ 1 \in DOMAIN net[l] /\ l[1] \notin OpenAt(n)
  BY <1>1 DEF Readable, StarNetwork
<1>3. l[1] = Hub /\ n \in Peers[Hub]
  BY <1>1, <1>2 DEF StarInv, BlocksFromHub
<1>4. n \in FullNodes /\ n \in Nodes /\ n # Hub /\ Hub \in Nodes
  BY <1>3, StarShape
<1>5. l = <<Hub, n>>
  BY <1>3 DEF Links
<1>6. storing[n] = {}
  <2>1. \A j \in storing[n] : j.from = Hub
    BY <1>4 DEF StarInv, NodeInv, OneAtATime
  <2> QED BY <1>2, <1>3, <2>1 DEF OpenAt
<1> DEFINE b == net[l][1].item
           j == [from |-> Hub, blk |-> b, pc |-> "setBlock"]
<1>7. Height(n) = lastHash[n] /\ lastHash[n] \in Nat
  BY <1>4, <1>6, HeightType DEF Height
<1>8. b = lastHash[n] + 1
  <2>1. OnTheWay(n) /\ Height(n) \in Nat /\ Relayed \in Nat
    BY <1>4, HeightType, RelayedType DEF StarInv
  <2>2. net[<<Hub, n>>][1].kind = "blockdata" /\ 1 \in DOMAIN net[<<Hub, n>>]
    BY <1>1, <1>2, <1>5
  <2> QED BY <1>3, <1>4, <1>5, <1>7, <2>1, <2>2, FirstOnTheWay
<1>9. b \in Hashes
  <2>1. net[l][1] \in Message
    BY <1>2 DEF TypeOK
  <2> QED BY <1>1, <1>2, <2>1 DEF Message
<1>10. Verdict(n, b) = "valid"
  <2> HIDE DEF b, n
  <2> QED BY <1>4, <1>8, <1>9, NextIsValid
<1>11. /\ net' = [net EXCEPT ![l] = RemoveAt(@, 1)]
       /\ storing' = [storing EXCEPT ![n] = {j}]
       /\ UNCHANGED <<mempool, mining, admitting, status, blocks, db, lastHash, utxo>>
  BY <1>1, <1>2, <1>3, <1>6, <1>10 DEF Take, chainVars
<1>12. storing'[n] = {j} /\ \A k \in Nodes : k # n => storing'[k] = storing[k]
  BY <1>4, <1>11 DEF TypeOK
<1>13. j.blk = lastHash[n] + 1 /\ j.pc = "setBlock" /\ j.from = Hub
  BY <1>8
<1> HIDE DEF j, b
<1>14. AllUp' /\ OneLine'
  BY <1>11 DEF StarInv, AllUp, OneLine, Hashes
<1>15. \A k \in Nodes : k # n => NodeInv(k)' /\ Height(k)' = Height(k)
  <2> TAKE k \in Nodes
  <2> HAVE k # n
  <2>1. NodeInv(k) /\ db'[k] = db[k] /\ lastHash'[k] = lastHash[k] /\ utxo'[k] = utxo[k]
        /\ storing'[k] = storing[k]
    BY <1>11, <1>12 DEF StarInv
  <2> QED BY <2>1, SameNode
<1>16. NodeInv(n)'
  <2>1. OneAtATime(n)'
    BY <1>12, <1>13 DEF OneAtATime
  <2>2. StoredUpTo(n)'
    <3>1. db[n] = 1..lastHash[n]
      BY <1>4, <1>6 DEF StarInv, NodeInv, StoredUpTo
    <3> QED BY <1>7, <1>11, <1>12, <1>13, <3>1 DEF StoredUpTo
  <2>3. UtxoOfLine(n)'
    <3>1. ~UtxoBehindTip(n) /\ ~UtxoBehindTip(n)'
      BY <1>6, <1>12, <1>13 DEF UtxoBehindTip
    <3>2. PICK h \in Nat : h = lastHash[n] /\ h <= Len(blocks)
      BY <1>4, ChainIsLine
    <3>3. utxo[n] = Unspent(h)
      BY <1>4, <3>1, <3>2 DEF StarInv, NodeInv, UtxoOfLine
    <3>4. Unspent(h)' = Unspent(h)
      BY <3>2, UnspentStable
    <3> QED BY <1>11, <3>1, <3>2, <3>3, <3>4 DEF UtxoOfLine
  <2> QED BY <2>1, <2>2, <2>3 DEF NodeInv
<1>17. Relayed' = Relayed
  BY <1>4, <1>11, <1>12 DEF Relayed
<1>18. \A k \in FullNodes : OnTheWay(k)'
  <2> TAKE k \in FullNodes
  <2>1. OnTheWay(k)
    BY DEF StarInv
  <2>2. CASE k = n
    <3>1. Height(n)' = Height(n) + 1
      BY <1>7, <1>11, <1>12, <1>13 DEF Height
    <3>2. net'[<<Hub, n>>] = RemoveAt(net[<<Hub, n>>], 1)
      BY <1>5, <1>11 DEF TypeOK
    <3>3. net[<<Hub, n>>][1].kind = "blockdata" /\ 1 \in DOMAIN net[<<Hub, n>>]
      BY <1>1, <1>2, <1>5
    <3> QED BY <1>3, <1>17, <2>1, <2>2, <3>1, <3>2, <3>3, TakeFromTheWay
  <2>3. CASE k # n
    <3>1. k \in Nodes /\ Height(k)' = Height(k)
      BY <1>15, <2>3, StarShape
    <3>2. NoBlockMoves(<<Hub, k>>)
      <4>1. <<Hub, k>> # l
        BY <1>5, <2>3
      <4> QED BY <1>11, <4>1, StarShape DEF NoBlockMoves, TypeOK, Links, Sources
    <3> QED BY <1>17, <2>1, <3>1, <3>2, KeepOnTheWay
  <2> QED BY <2>2, <2>3
<1>19. BlocksFromHub'
  <2> SUFFICES ASSUME NEW k \in Links, NEW x \in DOMAIN net'[k], net'[k][x].kind = "blockdata"
               PROVE  k[1] = Hub /\ k[2] \in Peers[Hub]
    BY DEF BlocksFromHub
  <2>1. CASE k = l
    BY <1>3, <2>1
  <2>2. CASE k # l
    BY <1>11, <2>2 DEF StarInv, BlocksFromHub, TypeOK
  <2> QED BY <2>1, <2>2
<1>20. HubHasAll' /\ Bounded'
  <2>1. Height(Hub)' = Height(Hub) /\ storing'[Hub] = storing[Hub]
    BY <1>4, <1>12, <1>15
  <2> QED BY <1>11, <2>1 DEF StarInv, HubInv, HubHasAll, Bounded
<1>21. Candidate' /\ OnlyFirst'
  <2>1. storing'[Hub] = storing[Hub]
    BY <1>4, <1>12
  <2> QED BY <1>11, <2>1, KeepCandidate, KeepOnlyFirst DEF StarInv, HubInv
<1> QED BY <1>14, <1>15, <1>16, <1>18, <1>19, <1>20, <1>21 DEF StarInv, HubInv

\* A step of the goroutine that stores node n's next block.
LEMMA StoringStar ==
  ASSUME StarNetwork, TypeOK, [Next]_vars, StarInv, NEW n \in Nodes, NEW j \in storing[n],
         UNCHANGED <<blocks, net, status, mempool, admitting, mining>>,
         storing'[n] # {}, NodeInv(n)', Height(n)' = Height(n),
         \A k \in Nodes : k # n => /\ db'[k] = db[k] /\ lastHash'[k] = lastHash[k]
                                   /\ utxo'[k] = utxo[k] /\ storing'[k] = storing[k]
  PROVE  StarInv'
<1>1. \A k \in Nodes : NodeInv(k)' /\ Height(k)' = Height(k)
  <2> TAKE k \in Nodes
  <2>1. CASE k = n
    BY <2>1
  <2>2. CASE k # n
    <3>1. NodeInv(k) /\ db'[k] = db[k] /\ lastHash'[k] = lastHash[k] /\ utxo'[k] = utxo[k]
          /\ storing'[k] = storing[k]
      BY <2>2 DEF StarInv
    <3> QED BY <3>1, SameNode
  <2> QED BY <2>1, <2>2
<1>2. storing[Hub] = {} <=> storing'[Hub] = {}
  BY StarShape
<1>3. Relayed' = Relayed
  BY <1>2 DEF Relayed
<1>4. BlocksFromHub' /\ \A k \in FullNodes : OnTheWay(k)'
  <2>1. \A l \in Links : NoBlockMoves(l)
    BY DEF NoBlockMoves
  <2>2. BlocksFromHub /\ \A k \in FullNodes : OnTheWay(k)
    BY DEF StarInv
  <2>3. \A k \in FullNodes : Height(k)' = Height(k)
    BY <1>1, StarShape
  <2> QED BY <1>3, <2>1, <2>2, <2>3, KeepNet
<1>5. AllUp' /\ OneLine'
  BY DEF StarInv, AllUp, OneLine, Hashes
<1>6. HubHasAll' /\ Bounded'
  BY <1>1, <1>2, StarShape DEF StarInv, HubInv, HubHasAll, Bounded
<1>7. Candidate'
  BY <1>2 DEF StarInv, HubInv, Candidate, Idle
<1>8. OnlyFirst'
  BY KeepOnlyFirst DEF StarInv, HubInv
<1> QED BY <1>1, <1>4, <1>5, <1>6, <1>7, <1>8 DEF StarInv, HubInv

\* The goroutine is the only one of its node.
LEMMA GoToAlone ==
  ASSUME TypeOK, NEW n \in Nodes, OneAtATime(n), NEW j \in storing[n], NEW pc, GoTo(n, j, pc)
  PROVE  \E j2 : /\ storing' = [storing EXCEPT ![n] = {j2}]
                 /\ j2.from = Hub /\ j2.blk = j.blk /\ j2.pc = pc
<1> DEFINE j2 == [j EXCEPT !.pc = pc]
<1>1. j2.from = j.from /\ j2.blk = j.blk /\ j2.pc = pc
  <2>1. j \in StoringType
    BY DEF TypeOK
  <2> QED BY <2>1 DEF StoringType
<1> HIDE DEF j2
<1>2. j.from = Hub /\ storing[n] \ {j} = {}
  BY DEF OneAtATime
<1>3. storing' = [storing EXCEPT ![n] = (@ \ {j}) \cup {j2}]
  BY DEF GoTo, j2
<1>4. storing' = [storing EXCEPT ![n] = {j2}]
  BY <1>2, <1>3 DEF TypeOK
<1> QED BY <1>1, <1>2, <1>4

\* Each step of storeNewBlock keeps database, tip and UTXO set in line.
LEMMA StoreStar ==
  ASSUME StarNetwork, TypeOK, [Next]_vars, StarInv, NEW n \in Nodes, NEW j \in storing[n],
         SetBlock(n, j) \/ SetLastHash(n, j) \/ UpdateUtxo(n, j)
  PROVE  StarInv'
<1>1. OneAtATime(n) /\ StoredUpTo(n) /\ UtxoOfLine(n)
  BY DEF StarInv, NodeInv
<1>2. UNCHANGED <<blocks, net, status, mempool, admitting, mining>>
  BY DEF SetBlock, SetLastHash, UpdateUtxo, poolVars
<1>3. j.blk \in Hashes /\ j.blk \in Nat /\ j.blk - 1 \in Nat /\ j.blk <= Len(blocks)
  <2>1. j \in StoringType
    BY DEF TypeOK
  <2> QED BY <2>1 DEF StoringType, Hashes, TypeOK
<1>4. lastHash[n] \in Nat
  BY HeightType
<1>5. PICK b \in Nat : b = j.blk
  BY <1>3
<1>6. Unspent(b - 1)' = Unspent(b - 1) /\ Unspent(b)' = Unspent(b)
  <2>1. PICK h \in Nat : h = b - 1
    BY <1>3, <1>5
  <2>2. Unspent(h)' = Unspent(h)
    BY <1>3, <1>5, <2>1, UnspentStable
  <2>3. Unspent(b)' = Unspent(b)
    BY <1>3, <1>5, UnspentStable
  <2> QED BY <2>1, <2>2, <2>3
<1>7. CASE SetBlock(n, j)
  <2>1. PICK j2 : /\ storing' = [storing EXCEPT ![n] = {j2}]
                  /\ j2.from = Hub /\ j2.blk = b /\ j2.pc = "setLastHash"
    BY <1>1, <1>5, <1>7, GoToAlone DEF SetBlock
  <2>2. storing'[n] = {j2} /\ \A k \in Nodes : k # n => storing'[k] = storing[k]
    BY <2>1 DEF TypeOK
  <2>3. db[n] = 1..(b - 1) /\ lastHash[n] = b - 1
    BY <1>1, <1>5, <1>7 DEF StoredUpTo, SetBlock
  <2>4. /\ db'[n] = db[n] \cup {b} /\ lastHash' = lastHash /\ utxo' = utxo
        /\ \A k \in Nodes : k # n => db'[k] = db[k]
    BY <1>5, <1>7 DEF SetBlock, TypeOK
  <2>5. db'[n] = 1..b
    <3>1. b >= 1
      BY <1>3, <1>5
    <3> QED BY <2>3, <2>4, <3>1
  <2>6. ~UtxoBehindTip(n) /\ ~UtxoBehindTip(n)'
    BY <1>1, <1>7, <2>1, <2>2 DEF UtxoBehindTip, OneAtATime, SetBlock
  <2>7. UtxoOfLine(n)'
    <3>1. utxo[n] = Unspent(b - 1)
      BY <1>1, <2>3, <2>6 DEF UtxoOfLine
    <3> QED BY <1>6, <2>3, <2>4, <2>6, <3>1 DEF UtxoOfLine
  <2>8. NodeInv(n)'
    BY <2>1, <2>2, <2>3, <2>4, <2>5, <2>7 DEF NodeInv, OneAtATime, StoredUpTo
  <2>9. Height(n)' = Height(n)
    BY <1>7, <2>1, <2>2, <2>4 DEF Height, SetBlock
  <2> QED BY <1>2, <2>2, <2>4, <2>8, <2>9, StoringStar
<1>8. CASE SetLastHash(n, j)
  <2>1. PICK j2 : /\ storing' = [storing EXCEPT ![n] = {j2}]
                  /\ j2.from = Hub /\ j2.blk = b /\ j2.pc = "updateUtxo"
    BY <1>1, <1>5, <1>8, GoToAlone DEF SetLastHash
  <2>2. storing'[n] = {j2} /\ \A k \in Nodes : k # n => storing'[k] = storing[k]
    BY <2>1 DEF TypeOK
  <2>3. db[n] = 1..b /\ lastHash[n] = b - 1
    BY <1>1, <1>5, <1>8 DEF StoredUpTo, SetLastHash
  <2>4. /\ db' = db /\ lastHash'[n] = b /\ utxo' = utxo
        /\ \A k \in Nodes : k # n => lastHash'[k] = lastHash[k]
    BY <1>5, <1>8 DEF SetLastHash, TypeOK
  <2>6. ~UtxoBehindTip(n) /\ UtxoBehindTip(n)'
    BY <1>1, <1>8, <2>1, <2>2 DEF UtxoBehindTip, OneAtATime, SetLastHash
  <2>7. UtxoOfLine(n)'
    <3>1. utxo[n] = Unspent(b - 1)
      BY <1>1, <2>3, <2>6 DEF UtxoOfLine
    <3> QED BY <1>6, <2>4, <2>6, <3>1 DEF UtxoOfLine
  <2>8. NodeInv(n)'
    BY <2>1, <2>2, <2>3, <2>4, <2>7 DEF NodeInv, OneAtATime, StoredUpTo
  <2>9. Height(n)' = Height(n)
    <3>1. Height(n) = b
      BY <1>8, <2>3 DEF Height, SetLastHash
    <3>2. Height(n)' = b
      BY <2>1, <2>2, <2>4 DEF Height
    <3> QED BY <3>1, <3>2
  <2> QED BY <1>2, <2>2, <2>4, <2>8, <2>9, StoringStar
<1>9. CASE UpdateUtxo(n, j)
  <2>1. PICK j2 : /\ storing' = [storing EXCEPT ![n] = {j2}]
                  /\ j2.from = Hub /\ j2.blk = b /\ j2.pc = "relay"
    BY <1>1, <1>5, <1>9, GoToAlone DEF UpdateUtxo
  <2>2. storing'[n] = {j2} /\ \A k \in Nodes : k # n => storing'[k] = storing[k]
    BY <2>1 DEF TypeOK
  <2>3. db[n] = 1..b /\ lastHash[n] = b
    BY <1>1, <1>5, <1>9 DEF StoredUpTo, UpdateUtxo
  <2>4. /\ db' = db /\ lastHash' = lastHash /\ utxo'[n] = UpdatedWithBlock(utxo[n], b)
        /\ \A k \in Nodes : k # n => utxo'[k] = utxo[k]
    BY <1>5, <1>9 DEF UpdateUtxo, TypeOK
  <2>6. UtxoBehindTip(n) /\ ~UtxoBehindTip(n)'
    BY <1>1, <1>9, <2>1, <2>2 DEF UtxoBehindTip, OneAtATime, UpdateUtxo
  <2>7. UtxoOfLine(n)'
    <3>1. utxo[n] = Unspent(b - 1)
      BY <1>1, <2>3, <2>6 DEF UtxoOfLine
    <3>2. UpdatedWithBlock(utxo[n], b) = Unspent(b)
      <4>1. OnlyFirst /\ b \in Hashes
        BY <1>3, <1>5 DEF StarInv, HubInv
      <4> QED BY <3>1, <4>1, ApplyBlock
    <3> QED BY <1>6, <2>3, <2>4, <2>6, <3>2 DEF UtxoOfLine
  <2>8. NodeInv(n)'
    BY <2>1, <2>2, <2>3, <2>4, <2>7 DEF NodeInv, OneAtATime, StoredUpTo
  <2>9. Height(n)' = Height(n)
    BY <1>1, <1>9, <2>1, <2>2, <2>4 DEF Height, UpdateUtxo, OneAtATime
  <2> QED BY <1>2, <2>2, <2>4, <2>8, <2>9, StoringStar
<1> QED BY <1>7, <1>8, <1>9

\* What is on the way to a peer of the miner when the next block is sent.
LEMMA PutOnTheWay ==
  ASSUME StarNetwork, TypeOK, NEW n \in FullNodes, OnTheWay(n), Height(n)' = Height(n),
         Relayed' = Relayed + 1, NEW msg \in Message, msg.kind = "blockdata",
         msg.item = Relayed + 1, net'[<<Hub, n>>] = Append(net[<<Hub, n>>], msg)
  PROVE  OnTheWay(n)'
<1> DEFINE s == net[<<Hub, n>>]
           t == net'[<<Hub, n>>]
           h == Height(n)
           r == Relayed
<1>1. s \in Seq(Message)
  BY StarShape DEF TypeOK, Links, Sources
<1>2. h \in Nat /\ r \in Nat
  BY HeightType, RelayedType, StarShape
<1>3. /\ h <= r
      /\ \A i \in DOMAIN s : s[i].kind = "blockdata" => s[i].item \in (h + 1)..r
      /\ \A i, k \in DOMAIN s :
           s[i].kind = "blockdata" /\ s[k].kind = "blockdata" /\ i < k => s[i].item < s[k].item
      /\ n \in Peers[Hub] =>
           \A b \in (h + 1)..r : \E i \in DOMAIN s : s[i].kind = "blockdata" /\ s[i].item = b
  BY DEF OnTheWay
<1>4. /\ Len(s) \in Nat /\ DOMAIN s = 1..Len(s) /\ DOMAIN t = 1..(Len(s) + 1)
      /\ t[Len(s) + 1] = msg /\ \A i \in 1..Len(s) : t[i] = s[i]
  <2> HIDE DEF Message, s
  <2> QED BY <1>1 DEF s
<1>5. /\ h <= r + 1
      /\ \A i \in DOMAIN t : t[i].kind = "blockdata" => t[i].item \in (h + 1)..(r + 1)
      /\ \A i, k \in DOMAIN t :
           t[i].kind = "blockdata" /\ t[k].kind = "blockdata" /\ i < k => t[i].item < t[k].item
      /\ n \in Peers[Hub] =>
           \A b \in (h + 1)..(r + 1) : \E i \in DOMAIN t : t[i].kind = "blockdata" /\ t[i].item = b
  <2>0. msg.kind = "blockdata" /\ msg.item = r + 1
    OBVIOUS
  <2> HIDE DEF s, t, h, r
  <2>1. ASSUME NEW i \in DOMAIN t, t[i].kind = "blockdata" PROVE t[i].item \in (h + 1)..(r + 1)
    <3>1. CASE i \in 1..Len(s)
      <4>1. t[i].item \in (h + 1)..r
        BY <1>3, <1>4, <2>1, <3>1
      <4> QED BY <1>2, <4>1
    <3>2. CASE i = Len(s) + 1
      BY <1>2, <1>3, <1>4, <2>0, <3>2
    <3> QED BY <1>4, <3>1, <3>2
  <2>2. ASSUME NEW i \in DOMAIN t, NEW k \in DOMAIN t, t[i].kind = "blockdata",
               t[k].kind = "blockdata", i < k
        PROVE  t[i].item < t[k].item
    <3>1. i \in 1..Len(s)
      BY <1>4, <2>2
    <3>2. t[i].item \in (h + 1)..r
      BY <1>3, <1>4, <2>2, <3>1
    <3>3. CASE k \in 1..Len(s)
      BY <1>3, <1>4, <2>2, <3>1, <3>3
    <3>4. CASE k = Len(s) + 1
      BY <1>2, <1>4, <2>0, <3>2, <3>4
    <3> QED BY <1>4, <3>3, <3>4
  <2>3. ASSUME n \in Peers[Hub], NEW b \in (h + 1)..(r + 1)
        PROVE  \E i \in DOMAIN t : t[i].kind = "blockdata" /\ t[i].item = b
    <3>1. CASE b = r + 1
      <4>1. Len(s) + 1 \in DOMAIN t
        BY <1>4
      <4> QED BY <1>4, <2>0, <3>1, <4>1
    <3>2. CASE b # r + 1
      <4>1. b \in (h + 1)..r
        BY <1>2, <3>2
      <4>2. PICK i \in DOMAIN s : s[i].kind = "blockdata" /\ s[i].item = b
        BY <1>3, <2>3, <4>1
      <4>3. i \in DOMAIN t /\ t[i] = s[i]
        BY <1>4
      <4> QED BY <4>2, <4>3
    <3> QED BY <3>1, <3>2
  <2> QED BY <1>2, <1>3, <2>1, <2>2, <2>3
<1>6. Height(n)' = h /\ Relayed' = r + 1
  OBVIOUS
<1> HIDE DEF h, r
<1> QED BY <1>5, <1>6 DEF OnTheWay

\* A full node that is no peer of the miner gets nothing.
LEMMA NotOnTheWay ==
  ASSUME StarNetwork, TypeOK, NEW n \in FullNodes, OnTheWay(n), Height(n)' = Height(n),
         Relayed' = Relayed + 1, n \notin Peers[Hub], net'[<<Hub, n>>] = net[<<Hub, n>>]
  PROVE  OnTheWay(n)'
<1> DEFINE s == net[<<Hub, n>>]
           h == Height(n)
           r == Relayed
<1>1. h \in Nat /\ r \in Nat
  BY HeightType, RelayedType, StarShape
<1>2. /\ h <= r
      /\ \A i \in DOMAIN s : s[i].kind = "blockdata" => s[i].item \in (h + 1)..r
      /\ \A i, k \in DOMAIN s :
           s[i].kind = "blockdata" /\ s[k].kind = "blockdata" /\ i < k => s[i].item < s[k].item
  BY DEF OnTheWay
<1>3. /\ h <= r + 1
      /\ \A i \in DOMAIN s : s[i].kind = "blockdata" => s[i].item \in (h + 1)..(r + 1)
  <2> HIDE DEF s, h, r
  <2>1. (h + 1)..r \subseteq (h + 1)..(r + 1)
    BY <1>1
  <2> QED BY <1>1, <1>2, <2>1
<1>4. Height(n)' = h /\ Relayed' = r + 1 /\ net'[<<Hub, n>>] = s
  OBVIOUS
<1> HIDE DEF h, r
<1> QED BY <1>2, <1>3, <1>4 DEF OnTheWay

\* Relaying: the miner sends its newest block to all its peers, a full node
\* has nobody to send it to.
LEMMA RelayStar ==
  ASSUME StarNetwork, TypeOK, [Next]_vars, StarInv, NEW n \in Nodes, NEW j \in storing[n],
         RelayBlock(n, j)
  PROVE  StarInv'
<1>1. j.from = Hub /\ storing[n] = {j} /\ j.pc = "relay"
  BY DEF StarInv, NodeInv, OneAtATime, RelayBlock
<1>2. storing'[n] = {} /\ \A k \in Nodes : k # n => storing'[k] = storing[k]
  BY <1>1 DEF RelayBlock, TypeOK
<1>3. UNCHANGED <<blocks, db, lastHash, utxo, mempool, admitting, mining, status>>
  BY DEF RelayBlock, chainVars, poolVars
<1>4. db[n] = 1..lastHash[n] /\ lastHash[n] = j.blk
  BY <1>1 DEF StarInv, NodeInv, StoredUpTo
<1>5. Height(n) = lastHash[n] /\ Height(n)' = lastHash[n]
  BY <1>1, <1>2, <1>3 DEF Height
<1>6. NodeInv(n)'
  <2>1. UtxoOfLine(n)'
    <3>1. ~UtxoBehindTip(n) /\ ~UtxoBehindTip(n)'
      BY <1>1, <1>2 DEF UtxoBehindTip
    <3>2. PICK h \in Nat : h = lastHash[n] /\ h <= Len(blocks)
      BY ChainIsLine
    <3>3. utxo[n] = Unspent(h)
      BY <3>1, <3>2 DEF StarInv, NodeInv, UtxoOfLine
    <3>4. Unspent(h)' = Unspent(h)
      BY <3>2, UnspentStable
    <3> QED BY <1>3, <3>1, <3>2, <3>3, <3>4 DEF UtxoOfLine
  <2> QED BY <1>2, <1>3, <1>4, <2>1 DEF NodeInv, OneAtATime, StoredUpTo
<1>7. \A k \in Nodes : NodeInv(k)' /\ Height(k)' = Height(k)
  <2> TAKE k \in Nodes
  <2>1. CASE k = n
    BY <1>5, <1>6, <2>1
  <2>2. CASE k # n
    <3>1. NodeInv(k) /\ db'[k] = db[k] /\ lastHash'[k] = lastHash[k] /\ utxo'[k] = utxo[k]
          /\ storing'[k] = storing[k]
      BY <1>2, <1>3, <2>2 DEF StarInv
    <3> QED BY <3>1, SameNode
  <2> QED BY <2>1, <2>2
<1>8. BlocksFromHub' /\ \A k \in FullNodes : OnTheWay(k)'
  <2>1. CASE n # Hub
    <3>1. BlockTargets(n, j.from) = {}
      BY <1>1, <2>1, StarShape DEF BlockTargets
    <3>2. net' = net
      <4>1. net' = [l \in Links |-> net[l]]
        BY <3>1 DEF RelayBlock, Broadcast
      <4> QED BY <4>1 DEF TypeOK
    <3>3. \A l \in Links : NoBlockMoves(l)
      BY <3>2 DEF NoBlockMoves
    <3>4. Relayed' = Relayed
      BY <1>2, <1>3, <2>1, StarShape DEF Relayed
    <3>5. \A k \in FullNodes : Height(k)' = Height(k)
      BY <1>7, StarShape
    <3>6. BlocksFromHub /\ \A k \in FullNodes : OnTheWay(k)
      BY DEF StarInv
    <3> QED BY <3>3, <3>4, <3>5, <3>6, KeepNet
  <2>2. CASE n = Hub
    <3>1. j.blk = Len(blocks)
      BY <1>4, <1>5, <2>2 DEF StarInv, HubInv, HubHasAll
    <3>2. Relayed = Len(blocks) - 1 /\ Relayed' = Len(blocks) /\ Len(blocks) \in Nat
      <4>1. storing[Hub] # {} /\ storing'[Hub] = {}
        BY <1>1, <1>2, <2>2
      <4> QED BY <1>3, <4>1, BlocksStay DEF Relayed
    <3>3. Relayed' = Relayed + 1 /\ j.blk = Relayed + 1
      BY <3>1, <3>2
    <3> DEFINE msg == BlockMsg(j.blk)
    <3>4. msg \in Message /\ msg.kind = "blockdata" /\ msg.item = Relayed + 1
      <4>1. j.blk \in Hashes
        BY DEF TypeOK, StoringType
      <4> QED BY <3>3, <4>1 DEF BlockMsg, Message
    <3>5. \A l \in Links : net'[l] = IF l[1] = Hub /\ l[2] \in Peers[Hub] THEN Append(net[l], msg) ELSE net[l]
      <4>1. \A l \in Links : status[l[2]] = "up"
        BY LinkEnds DEF StarInv, AllUp
      <4>2. BlockTargets(n, j.from) = Peers[Hub]
        BY <1>1, <2>2 DEF BlockTargets
      <4> HIDE DEF msg
      <4> QED BY <2>2, <4>1, <4>2 DEF RelayBlock, Broadcast, msg
    <3> HIDE DEF msg
    <3>6. \A k \in FullNodes : OnTheWay(k)'
      <4> TAKE k \in FullNodes
      <4>1. OnTheWay(k) /\ Height(k)' = Height(k)
        BY <1>7, StarShape DEF StarInv
      <4>2. <<Hub, k>> \in Links
        BY StarShape DEF Links, Sources
      <4>3. CASE k \in Peers[Hub]
        <5>1. net'[<<Hub, k>>] = Append(net[<<Hub, k>>], msg)
          BY <3>5, <4>2, <4>3
        <5> QED BY <3>3, <3>4, <4>1, <5>1, PutOnTheWay
      <4>4. CASE k \notin Peers[Hub]
        <5>1. net'[<<Hub, k>>] = net[<<Hub, k>>]
          BY <3>5, <4>2, <4>4
        <5> QED BY <3>3, <4>1, <4>4, <5>1, NotOnTheWay
      <4> QED BY <4>3, <4>4
    <3>7. BlocksFromHub'
      <4> SUFFICES ASSUME NEW l \in Links, NEW i \in DOMAIN net'[l], net'[l][i].kind = "blockdata"
                   PROVE  l[1] = Hub /\ l[2] \in Peers[Hub]
        BY DEF BlocksFromHub
      <4>1. CASE net'[l] = net[l]
        BY <4>1 DEF StarInv, BlocksFromHub
      <4>2. CASE net'[l] # net[l]
        BY <3>5, <4>2
      <4> QED BY <4>1, <4>2
    <3> QED BY <3>6, <3>7
  <2> QED BY <2>1, <2>2
<1>9. AllUp' /\ OneLine'
  BY <1>3 DEF StarInv, AllUp, OneLine, Hashes
<1>10. HubHasAll' /\ Bounded'
  <2>1. HubHasAll'
    BY <1>3, <1>7, StarShape DEF StarInv, HubInv, HubHasAll
  <2>2. Bounded'
    BY <1>2, <1>3, StarShape DEF StarInv, HubInv, Bounded
  <2> QED BY <2>1, <2>2
<1>11. Candidate'
  <2>1. mining[Hub] # Idle => storing'[Hub] = {}
    BY <1>2, StarShape DEF StarInv, HubInv, Candidate
  <2> QED BY <1>3, <2>1 DEF StarInv, HubInv, Candidate, Idle
<1>12. OnlyFirst'
  BY <1>3, KeepOnlyFirst DEF StarInv, HubInv
<1> QED BY <1>7, <1>8, <1>9, <1>10, <1>11, <1>12 DEF StarInv, HubInv

\* Before the first step everybody has the genesis block and its reward.
LEMMA InitStar == ASSUME StarNetwork, Init, TypeOK PROVE StarInv
<1>1. Len(blocks) = 1 /\ blocks[1] = GenesisBlock /\ Hashes = {1}
  <2>1. Len(blocks) = 1 /\ blocks[1] = GenesisBlock
    BY DEF Init
  <2> QED BY <2>1 DEF Hashes
<1>2. \A n \in Nodes : /\ db[n] = {1} /\ lastHash[n] = 1 /\ storing[n] = {}
                       /\ utxo[n] = {<<1, 0>>} /\ status[n] = "up"
  BY DEF Init, Genesis, GenesisUtxo
<1>3. Unspent(1) = {<<1, 0>>}
  <2>1. TxnsOf(1) = <<1>>
    BY <1>1 DEF TxnsOf, GenesisBlock
  <2>2. TxnsUpTo(1) = {1}
    <3>1. ToSet(TxnsOf(1)) = {1}
      BY <2>1 DEF ToSet
    <3>2. 1..1 = {1}
      OBVIOUS
    <3> QED BY <3>1, <3>2 DEF TxnsUpTo
  <2>3. Inputs(1) = {} /\ Outputs(1) = {<<1, 0>>}
    BY CoinbaseShape
  <2> QED BY <2>2, <2>3 DEF Unspent
<1>4. \A n \in Nodes : NodeInv(n)
  <2> TAKE n \in Nodes
  <2>1. ~UtxoBehindTip(n)
    BY <1>2 DEF UtxoBehindTip
  <2>2. 1..1 = {1}
    OBVIOUS
  <2>3. UtxoOfLine(n)
    BY <1>2, <1>3, <2>1 DEF UtxoOfLine
  <2> QED BY <1>2, <2>2, <2>3 DEF NodeInv, OneAtATime, StoredUpTo
<1>5. AllUp /\ OneLine /\ BlocksFromHub
  BY <1>1, <1>2 DEF Init, AllUp, OneLine, BlocksFromHub, GenesisBlock, NoHash
<1>6. Height(Hub) = 1 /\ Relayed = 1
  BY <1>1, <1>2, StarShape DEF Height, Relayed
<1>7. HubInv
  <2>1. mining[Hub] = Idle /\ mempool[Hub] = <<>> /\ admitting[Hub] = {}
    BY StarShape DEF Init
  <2>2. blocks[1].txs = <<>>
    BY <1>1 DEF GenesisBlock
  <2>3. OnlyFirst
    BY <1>1, <2>1, <2>2 DEF OnlyFirst
  <2> QED BY <1>1, <1>2, <1>6, <2>1, <2>3, StarShape DEF HubInv, HubHasAll, Candidate, Bounded
<1>8. \A n \in FullNodes : OnTheWay(n)
  <2> TAKE n \in FullNodes
  <2>1. Height(n) = 1
    BY <1>2, StarShape DEF Height
  <2>2. net[<<Hub, n>>] = <<>>
    BY StarShape DEF Init, Links, Sources
  <2> QED BY <1>6, <2>1, <2>2 DEF OnTheWay
<1> QED BY <1>4, <1>5, <1>7, <1>8 DEF StarInv

\* Nobody is killed, and nobody has to be restarted.
LEMMA NoRestarts ==
  ASSUME StarNetwork, TypeOK, StarInv, NEW n \in Nodes
  PROVE  ~Kill(n) /\ ~Restart(n)
BY DEF StarNetwork, TypeOK, StarInv, AllUp, Kill, Restart

\* No step of anybody breaks the invariant.
LEMMA NextStar == ASSUME StarNetwork, TypeOK, StarInv, [Next]_vars PROVE StarInv'
<1>1. CASE UNCHANGED vars
  <2>1. \A l \in Links : NoBlockMoves(l)
    BY <1>1 DEF vars, NoBlockMoves
  <2>2. UNCHANGED <<blocks, db, lastHash, utxo, storing, status, mempool, admitting, mining>>
    BY <1>1 DEF vars
  <2> QED BY <2>1, <2>2, PoolStep, KeepCandidate, KeepOnlyFirst DEF StarInv, HubInv
<1>2. CASE \E k \in Clients : \E n \in Knows[k], t \in UserTx : Submit(k, n, t)
  BY <1>2, SubmitStar
<1>3. CASE \E l \in Links : ReceiveTxn(l) \/ ReceiveBlock(l)
  BY <1>3, ReceiveTxnStar, ReceiveBlockStar
<1>4. CASE \E n \in Nodes : \E a \in admitting[n] : Admit(n, a) \/ AdmitLost(n, a)
  BY <1>4, AdmitStar
<1>5. CASE \E m \in Miners : StartMining(m) \/ Seal(m)
  BY <1>5, StartMiningStar, SealStar
<1>6. CASE \E n \in Nodes : \E j \in storing[n] : StoreStep(n, j)
  BY <1>6, StoreStar, RelayStar DEF StoreStep
<1>7. CASE \E n \in Nodes : Kill(n) \/ Restart(n)
  BY <1>7, NoRestarts
<1> QED BY <1>1, <1>2, <1>3, <1>4, <1>5, <1>6, <1>7 DEF Next

LEMMA StarAlways == ASSUME StarNetwork PROVE Spec => [](TypeOK /\ StarInv)
<1>1. Init /\ TypeOK => StarInv
  BY InitStar
<1>2. TypeOK /\ StarInv /\ [Next]_vars => StarInv'
  BY NextStar
<1> QED BY <1>1, <1>2, TypeCorrect, PTL DEF Spec

\* In a star network no node ever panics: what verifyTransaction looks up is
\* always on the chain.
THEOREM StarNeverPanics == ASSUME StarNetwork PROVE Spec => []NoPanic
<1>1. StarInv => NoPanic
  BY DEF StarInv, AllUp, NoPanic
<1> QED BY <1>1, StarAlways, PTL

\* And the UTXO set that UpdateWithNewBlock builds up is what ReIndex would
\* compute, on every node and whatever transactions wait in its mempool.
THEOREM StarUtxoMatches == ASSUME StarNetwork PROVE Spec => []UtxoMatchesChain
<1>1. ASSUME TypeOK, StarInv PROVE UtxoMatchesChain
  <2> SUFFICES ASSUME NEW n \in Nodes, ~UtxoBehindTip(n)
               PROVE  utxo[n] = UnspentOn(ChainOf(n))
    BY DEF UtxoMatchesChain
  <2>1. utxo[n] = Unspent(lastHash[n])
    BY <1>1 DEF StarInv, NodeInv, UtxoOfLine
  <2>2. ChainOf(n) = [i \in 1..lastHash[n] |-> i]
    BY <1>1, ChainIsLine
  <2>3. ToSet(ChainOf(n)) = 1..lastHash[n]
    BY <2>2 DEF ToSet
  <2> QED BY <2>1, <2>3 DEF UnspentOn, Unspent, TxnsUpTo
<1> QED BY <1>1, StarAlways, PTL

-----------------------------------------------------------------------------
\* The chains of the full nodes follow the chain of the miner.
Log == INSTANCE ChainLog WITH
         Followers <- FullNodes, First <- Genesis, Block <- 2..MaxBlocks,
         log <- ChainOf(Hub), seen <- [n \in FullNodes |-> ChainOf(n)]

Lines == \A n \in Nodes : ChainOf(n) = [i \in 1..lastHash[n] |-> i]

\* Only SetLastHash moves a tip.
LEMMA TipMoves ==
  ASSUME StarNetwork, TypeOK, StarInv, [Next]_vars, lastHash' # lastHash
  PROVE  \E n \in Nodes : \E j \in storing[n] : SetLastHash(n, j)
BY NoRestarts
   DEF Next, vars, chainVars, Submit, ReceiveTxn, ReceiveBlock, Admit, AdmitLost,
       StartMining, Seal, StoreStep, SetBlock, UpdateUtxo, RelayBlock

\* One block more.
LEMMA LineAppend ==
  ASSUME NEW h \in Nat
  PROVE  /\ Append([i \in 1..h |-> i], h + 1) = [i \in 1..(h + 1) |-> i]
         /\ Len([i \in 1..h |-> i]) = h
<1> DEFINE s == [i \in 1..h |-> i]
<1>1. s \in Seq(Nat) /\ Len(s) = h
  OBVIOUS
<1> QED BY <1>1

\* A step of the network is a step of the log, or leaves it alone.
LEMMA StepFollows ==
  ASSUME StarNetwork, TypeOK, StarInv, Lines, Lines', [Next]_vars
  PROVE  [Log!Next]_Log!vars
<1>1. CASE lastHash' = lastHash
  <2>1. \A n \in Nodes : ChainOf(n)' = ChainOf(n)
    BY <1>1 DEF Lines
  <2>2. ChainOf(Hub)' = ChainOf(Hub)
    BY <2>1, StarShape
  <2>3. [n \in FullNodes |-> ChainOf(n)]' = [n \in FullNodes |-> ChainOf(n)]
    BY <2>1, StarShape
  <2> QED BY <2>2, <2>3 DEF Log!vars
<1>2. CASE lastHash' # lastHash
  <2>0. PICK n \in Nodes : \E j \in storing[n] : SetLastHash(n, j)
    BY <1>2, TipMoves
  <2>1. PICK j \in storing[n] : SetLastHash(n, j)
    BY <2>0
  <2>2. lastHash'[n] = j.blk /\ \A k \in Nodes : k # n => lastHash'[k] = lastHash[k]
    BY <2>1 DEF SetLastHash, TypeOK
  <2>3. lastHash[n] = j.blk - 1 /\ Height(n) = j.blk /\ j.blk \in Nat /\ lastHash[n] \in Nat
    <3>1. j.blk \in Nat /\ lastHash[n] \in Nat
      BY DEF TypeOK, StoringType, Hashes
    <3>2. StoredUpTo(n)
      BY DEF StarInv, NodeInv
    <3>3. lastHash[n] = j.blk - 1
      BY <2>1, <3>2 DEF StoredUpTo, SetLastHash
    <3> QED BY <2>1, <3>1, <3>3 DEF Height, SetLastHash
  <2>4. PICK h \in Nat : h = lastHash[n] /\ lastHash'[n] = h + 1
    BY <2>2, <2>3
  <2>5. \A k \in Nodes : k # n => ChainOf(k)' = ChainOf(k)
    <3> TAKE k \in Nodes
    <3> HAVE k # n
    <3>1. lastHash'[k] = lastHash[k]
      BY <2>2
    <3>2. ChainOf(k)' = [i \in 1..lastHash'[k] |-> i]
      BY DEF Lines
    <3>3. ChainOf(k) = [i \in 1..lastHash[k] |-> i]
      BY DEF Lines
    <3> QED BY <3>1, <3>2, <3>3
  <2>6. ChainOf(n) = [i \in 1..h |-> i] /\ ChainOf(n)' = [i \in 1..(h + 1) |-> i]
    BY <2>4 DEF Lines
  <2>7. ChainOf(n)' = Append(ChainOf(n), h + 1) /\ Len(ChainOf(n)) = h
    BY <2>6, LineAppend
  <2>8. CASE n = Hub
    <3>1. h + 1 \in 2..MaxBlocks
      <4>1. h + 1 = Len(blocks) /\ Len(blocks) <= MaxBlocks
        BY <2>1, <2>3, <2>4, <2>8 DEF StarInv, HubInv, HubHasAll, Bounded
      <4>2. h >= 1
        BY <2>4 DEF TypeOK, Hashes
      <4> QED BY <4>1, <4>2, LedgerAssumption
    <3>2. [k \in FullNodes |-> ChainOf(k)]' = [k \in FullNodes |-> ChainOf(k)]
      BY <2>5, <2>8, StarShape
    <3>3. ChainOf(Hub)' = Append(ChainOf(Hub), h + 1)
      BY <2>7, <2>8
    <3>4. Log!Extend
      BY <3>1, <3>2, <3>3 DEF Log!Extend
    <3> QED BY <3>4 DEF Log!Next
  <2>9. CASE n # Hub
    <3>1. n \in FullNodes
      BY <2>9, StarShape
    <3>2. PICK g \in Nat : g = lastHash[Hub]
      BY HeightType, StarShape
    <3>3. h + 1 <= g
      <4>1. Height(n) <= Relayed
        BY <3>1 DEF StarInv, OnTheWay
      <4>2. Relayed <= lastHash[Hub]
        <5>1. Height(Hub) = Len(blocks) /\ Len(blocks) \in Nat
          BY BlocksStay DEF StarInv, HubInv, HubHasAll
        <5>2. lastHash[Hub] \in Nat
          BY <3>2
        <5>3. CASE storing[Hub] = {}
          BY <5>1, <5>2, <5>3 DEF Relayed, Height
        <5>4. CASE storing[Hub] # {}
          BY <5>1, <5>2, <5>4 DEF Relayed, Height
        <5> QED BY <5>3, <5>4
      <4>3. Relayed \in Nat
        BY RelayedType
      <4> QED BY <2>3, <2>4, <3>2, <4>1, <4>2, <4>3
    <3>4. ChainOf(Hub) = [i \in 1..g |-> i] /\ ChainOf(Hub)' = ChainOf(Hub)
      BY <2>5, <2>9, <3>2, StarShape DEF Lines
    <3>5. Len(ChainOf(Hub)) = g /\ ChainOf(Hub)[h + 1] = h + 1
      BY <3>3, <3>4, LineAppend
    <3> DEFINE seen == [k \in FullNodes |-> ChainOf(k)]
    <3>6. seen' = [seen EXCEPT ![n] = Append(@, ChainOf(Hub)[Len(@) + 1])]
      <4>1. \A k \in FullNodes : ChainOf(k)' = IF k = n THEN Append(ChainOf(n), h + 1) ELSE ChainOf(k)
        BY <2>5, <2>7, StarShape
      <4>2. seen[n] = ChainOf(n)
        BY <3>1
      <4> QED BY <2>7, <3>5, <4>1, <4>2
    <3>7. Len(seen[n]) < Len(ChainOf(Hub))
      BY <2>7, <3>1, <3>3, <3>5
    <3>8. Log!Follow(n)
      BY <3>4, <3>6, <3>7 DEF Log!Follow
    <3> QED BY <3>1, <3>8 DEF Log!Next
  <2> QED BY <2>8, <2>9
<1> QED BY <1>1, <1>2

\* In a star network of any size block relaying implements ChainLog: every
\* full node's chain grows along the miner's, block by block without a gap,
\* and never changes what it has.
THEOREM StarFollowsMiner == ASSUME StarNetwork PROVE Spec => Log!Spec
<1>1. ASSUME TypeOK, StarInv PROVE Lines
  BY <1>1, ChainIsLine DEF Lines
<1>2. ASSUME Init, Lines PROVE Log!Init
  <2>1. \A n \in Nodes : ChainOf(n) = <<Genesis>>
    <3>1. [i \in 1..1 |-> i] = <<1>>
      OBVIOUS
    <3> QED BY <1>2, <3>1 DEF Init, Lines, Genesis
  <2> QED BY <2>1, StarShape DEF Log!Init
<1>3. TypeOK /\ StarInv /\ Lines /\ Lines' /\ [Next]_vars => [Log!Next]_Log!vars
  BY StepFollows
<1> QED BY <1>1, <1>2, <1>3, StarAlways, PTL DEF Spec, Log!Spec
=============================================================================
