----------------------------- MODULE BlockSync -----------------------------
(***************************************************************************)
(* How full nodes and miners fetch the blocks they lack: getblocks, inv,   *)
(* getdata and blockdata, while a miner extends the chain and a full node  *)
(* may be killed and started again.  Every message has a connection and a  *)
(* goroutine of its own, so the messages on their way form a bag.  The     *)
(* pool that hands out the getdata messages is the one of InvWorkers as    *)
(* seen from outside (InvCall), and storeNewBlock is one step, which       *)
(* Ledger cuts.  SPV nodes, which are asked for blocks too and have none,  *)
(* are not among the nodes here; InvWorkers has them.                      *)
(***************************************************************************)
EXTENDS BlockStore, SequencesExt, FiniteSetsExt, Bags

CONSTANTS
  Nodes,
  Miners,         \* those of type MINER; the others are full nodes
  Neighbours,     \* Neighbours[n]: nodes whose verack reaches node n
  Mined,          \* the blocks there are or will be, parents first
  Setups,         \* the networks to start from, see Setup
  InvLimit,       \* hashes in an inv message: 500
  MAX_BLOCKS_IN_TRANSIT_PER_PEER,
  SleepIsEnough,  \* TRUE: blocks asked for are handled within 3 seconds
  Handlers        \* bound: inv messages a node handles at the same time

\* The tips of the nodes; up to which block the miners mine those no node
\* has, or 0; which nodes may be killed and started once: such a node is not
\* one others greet when they start, but greets its neighbours itself; and
\* which nodes may handle two verack messages at the same time.
Setup == [tips : [Nodes -> DOMAIN Mined], until : {0} \cup DOMAIN Mined,
          restarting : SUBSET Nodes, racing : SUBSET Nodes]

\* A block that is not in the database is read as the zero Block.
Blocks == Append(Mined, [prev |-> NoHash])
Zero   == Len(Blocks)

ASSUME BlockSyncAssumption ==
  /\ Miners \subseteq Nodes /\ Neighbours \in [Nodes -> SUBSET Nodes]
  /\ Mined \in Seq([prev : Nat]) /\ Mined # <<>>
  /\ \A b \in DOMAIN Mined : Mined[b].prev < b
  /\ \A b \in DOMAIN Mined : Mined[b].prev = NoHash => b = Genesis
  /\ Setups \subseteq Setup
  /\ InvLimit \in Nat \ {0}
  /\ MAX_BLOCKS_IN_TRANSIT_PER_PEER \in Nat \ {0}
  /\ SleepIsEnough \in BOOLEAN
  /\ Handlers \in Nat

VARIABLES
  db,        \* db[n]: hashes stored in node n's LevelDB
  lastHash,  \* lastHash[n]: Blockchain.LastHash
  peers,     \* peers[n]: connectedPeers, in the order they were added
  count,     \* count[n]: getdataMessageCount
  handler,   \* handler[n][h]: a call of handleInvMsg, or Free
  net,       \* the messages sent and not yet handled
  candidate, \* candidate[n]: PrevHash of the block a miner works on
  up,        \* the nodes that are running
  restarted, \* the nodes that were killed
  setup      \* one of Setups; it does not change

vars == <<db, lastHash, peers, count, handler, net, candidate, up, restarted, setup>>
process == <<up, restarted, setup>>
start == setup.tips

-----------------------------------------------------------------------------
(* Walking the chain.                                                      *)

ChainOf(n) == ChainFrom(Blocks, db[n], lastHash[n])

\* The walk ends at a block that is not there.
HasHole(n) == ChainOf(n) = <<>> \/ Blocks[Head(ChainOf(n))].prev # NoHash

\* GetUnmatchedBlocks, first result: the target is met on the walk.  At a
\* hole the walk meets the zero Block, whose hash may be the one asked for.
BlockExisted(n, target) ==
  target \in ToSet(ChainOf(n)) \/ (HasHole(n) /\ target = Zero)

\* GetUnmatchedBlocks, second result, oldest block first.
UnmatchedBlocks(n, target) ==
  LET chain == ChainOf(n)
  IN  IF target \in ToSet(chain)
      THEN SubSeq(chain, (CHOOSE i \in DOMAIN chain : chain[i] = target) + 1, Len(chain))
      ELSE chain

\* Faulty variant: the newest blocks are announced, not the oldest.
AnnouncedNewest(n, target) ==
  LET new == UnmatchedBlocks(n, target)
  IN  SubSeq(new, Max({1, Len(new) + 1 - InvLimit}), Len(new))

\* The hashes handleGetblocksMsg puts into an inv message.
Announced(n, target) ==
  LET new == UnmatchedBlocks(n, target)
  IN  SubSeq(new, 1, Min({InvLimit, Len(new)}))

\* Faulty variant: the block at the tip is not in the database yet.
BlocksFromHashesLate(p, hashes) ==
  [i \in DOMAIN hashes |->
     IF hashes[i] \in db[p] \ {lastHash[p]} THEN hashes[i] ELSE Zero]

\* GetBlocksFromHashes, from the database of node p.
BlocksFromHashes(p, hashes) ==
  [i \in DOMAIN hashes |-> IF hashes[i] \in db[p] THEN hashes[i] ELSE Zero]

\* The getdata messages of handleInvMsg: full ones, and the rest.
GetdataMsgs(hashes) ==
  LET size == MAX_BLOCKS_IN_TRANSIT_PER_PEER
  IN  [k \in 1..(Len(hashes) + size - 1) \div size |->
         SubSeq(hashes, (k - 1) * size + 1, Min({k * size, Len(hashes)}))]

-----------------------------------------------------------------------------
(* Messages.                                                               *)

GetblocksMsg(n, p) == [kind |-> "getblocks", to |-> p, from |-> n, top |-> lastHash[n]]
InvMsg(p, hashes)  == [kind |-> "inv", to |-> p, list |-> hashes]

FreshMsg(p, b) == [kind |-> "fresh", to |-> p, blk |-> b]

\* `call` is the handler that waits for the blocks; it is not transmitted.
BlockdataMsg(n, h, k, list) ==
  [kind |-> "blockdata", to |-> n, call |-> h, index |-> k, list |-> list]

Received(n, kind) == {msg \in BagToSet(net) : msg.kind = kind /\ msg.to = n}

\* A send to a node that is not running fails to dial and is dropped.
Sent(msgs) == SetToBag({msg \in msgs : msg.to \in up})

Reply(msg, answers) == net' = (net (-) SetToBag({msg})) (+) Sent(answers)

\* A loop over connectedPeers sends a message for every entry of the list.
SentToEach(n, msgs) ==
  [msg \in {m \in msgs : m.to \in up} |->
     Cardinality({i \in DOMAIN peers[n] : peers[n][i] = msg.to})]

Free == [list |-> <<>>, todo |-> {}, workers |-> 0]

-----------------------------------------------------------------------------
Init ==
  /\ setup \in Setups
  /\ lastHash = start
  /\ db = [n \in Nodes |-> ToSet(ChainFrom(Blocks, DOMAIN Mined, lastHash[n]))]
  /\ peers = [n \in Nodes |-> <<>>]
  /\ count = [n \in Nodes |-> 0]
  /\ handler = [n \in Nodes |-> [h \in 1..Handlers |-> Free]]
  /\ net = EmptyBag
  /\ candidate = [n \in Miners |-> NoHash]
  /\ up = Nodes
  /\ restarted = {}

\* handleVerackMsg: p becomes a peer and is asked for its blocks.
HandleVerack(n, p) ==
  /\ {n, p} \subseteq up
  /\ p \notin ToSet(peers[n])
  /\ peers' = [peers EXCEPT ![n] = Append(@, p)]
  /\ net' = net (+) Sent({GetblocksMsg(n, p)})
  /\ UNCHANGED <<db, lastHash, count, handler, candidate, process>>

\* Two verack handlers check the list before either appends: a node gets into
\* it twice, or the append of one is overwritten by the other's.
RaceVeracks(n, p, q) ==
  /\ {n, p, q} \subseteq up /\ n \in setup.racing
  /\ {p, q} \cap ToSet(peers[n]) = {}
  /\ \E added \in {<<p, q>>, <<q>>} : peers' = [peers EXCEPT ![n] = @ \o added]
  /\ net' = net (+) Sent({GetblocksMsg(n, p)}) (+) Sent({GetblocksMsg(n, q)})
  /\ UNCHANGED <<db, lastHash, count, handler, candidate, process>>

\* Faulty variant: the chain is announced also from an unknown tip on.
HandleGetblocksAnyway(n) ==
  \E msg \in Received(n, "getblocks") :
    /\ Reply(msg, IF UnmatchedBlocks(n, msg.top) = <<>> THEN {}
                  ELSE {InvMsg(msg.from, Announced(n, msg.top))})
    /\ UNCHANGED <<db, lastHash, peers, count, handler, candidate, process>>

\* Announce what the other node lacks; ask it when its tip is not known here.
HandleGetblocks(n) ==
  \E msg \in Received(n, "getblocks") :
    /\ Reply(msg, IF ~BlockExisted(n, msg.top) THEN {GetblocksMsg(n, msg.from)}
                  ELSE IF UnmatchedBlocks(n, msg.top) = <<>> THEN {}
                  ELSE {InvMsg(msg.from, Announced(n, msg.top))})
    /\ UNCHANGED <<db, lastHash, peers, count, handler, candidate, process>>

\* handleInvMsg up to the workers: one for each of the first entries of the
\* peer list, as many as there are messages to send.
HandleInv(n) ==
  \E msg \in Received(n, "inv") :
    LET free == {h \in 1..Handlers : handler[n][h] = Free}
        msgs == GetdataMsgs(msg.list)
    IN  /\ free # {}
        /\ count' = [count EXCEPT ![n] = Len(msgs)]
        /\ handler' = [handler EXCEPT ![n][Min(free)] =
             [list |-> msgs, todo |-> DOMAIN msgs,
              workers |-> Min({Len(peers[n]), Len(msgs)})]]
        /\ Reply(msg, {})
        /\ UNCHANGED <<db, lastHash, peers, candidate, process>>

(***************************************************************************)
(* Worker w sends getdata message k to its peer, whose handleGetdataMsg    *)
(* has sent the blocks when the worker goes on.  Messages are taken in     *)
(* order, each by one worker: all but one of the workers may still be at   *)
(* earlier ones.                                                           *)
(***************************************************************************)
Ask(n, h) ==
  LET call == handler[n][h]
  IN  \E k \in call.todo, w \in 1..call.workers :
        LET peer == peers[n][w]
            blocks == BlocksFromHashes(peer, call.list[k])
        IN  /\ Cardinality({j \in call.todo : j < k}) < call.workers
            /\ handler' = [handler EXCEPT ![n][h].todo = @ \ {k}]
            /\ net' = IF peer \in up
                      THEN net (+) Sent({BlockdataMsg(n, h, k, blocks)}) ELSE net
        /\ UNCHANGED <<db, lastHash, peers, count, candidate, process>>

\* handleBlockdataMsg for blocks asked for: all are stored, and the chunk
\* with the last index, as the count is now, sets the tip.
HandleBlockdata(n) ==
  \E msg \in Received(n, "blockdata") :
    /\ db' = [db EXCEPT ![n] = @ \cup ToSet(msg.list)]
    /\ lastHash' = [lastHash EXCEPT ![n] =
                      IF msg.index = count[n] THEN Last(msg.list) ELSE @]
    /\ Reply(msg, {})
    /\ UNCHANGED <<peers, count, handler, candidate, process>>

\* Faulty variant: no more blocks are asked for afterwards.
FinishInvSilent(n, h) ==
  /\ handler[n][h] # Free
  /\ handler[n][h].todo = {}
  /\ SleepIsEnough => \A msg \in Received(n, "blockdata") : msg.call # h
  /\ handler' = [handler EXCEPT ![n][h] = Free]
  /\ UNCHANGED <<db, lastHash, peers, count, net, candidate, process>>

\* wg.Wait has returned and three seconds are over: ReIndex (of the UTXO
\* set), and getblocks to all peers.
FinishInv(n, h) ==
  /\ handler[n][h] # Free
  /\ handler[n][h].todo = {}
  /\ SleepIsEnough => \A msg \in Received(n, "blockdata") : msg.call # h
  /\ handler' = [handler EXCEPT ![n][h] = Free]
  /\ net' = net (+) SentToEach(n, {GetblocksMsg(n, p) : p \in ToSet(peers[n])})
  /\ UNCHANGED <<db, lastHash, peers, count, candidate, process>>

-----------------------------------------------------------------------------
(* New blocks, and restarts.                                               *)

Unmined == (1..setup.until) \ UNION {db[n] : n \in Nodes}

\* startMining up to mineBlock, as long as there are blocks to be mined.
StartMining(n) ==
  /\ n \in up
  /\ candidate[n] = NoHash
  /\ \E b \in Unmined : Mined[b].prev = lastHash[n]
  /\ candidate' = [candidate EXCEPT ![n] = lastHash[n]]
  /\ UNCHANGED <<db, lastHash, peers, count, handler, net, process>>

\* startMining from there on: the new block becomes the tip and goes to all
\* peers.
Seal(n) ==
  \E b \in Unmined :
    /\ candidate[n] # NoHash /\ Mined[b].prev = candidate[n]
    /\ db' = [db EXCEPT ![n] = @ \cup {b}]
    /\ lastHash' = [lastHash EXCEPT ![n] = b]
    /\ net' = net (+) SentToEach(n, {FreshMsg(p, b) : p \in ToSet(peers[n])})
    /\ candidate' = [candidate EXCEPT ![n] = NoHash]
    /\ UNCHANGED <<peers, count, handler, process>>

\* Faulty variant: the block is taken only when it extends the tip.
HandleFreshOnTip(n) ==
  \E msg \in Received(n, "fresh") :
    /\ IF Blocks[msg.blk].prev = lastHash[n]
       THEN /\ db' = [db EXCEPT ![n] = @ \cup {msg.blk}]
            /\ lastHash' = [lastHash EXCEPT ![n] = msg.blk]
       ELSE UNCHANGED <<db, lastHash>>
    /\ net' = (net (-) SetToBag({msg}))
                (+) SentToEach(n, {FreshMsg(p, msg.blk) : p \in ToSet(peers[n]) \ Miners})
    /\ UNCHANGED <<peers, count, handler, candidate, process>>

\* handleBlockdataMsg for a newly mined block, which is valid: it becomes
\* the tip, also above a hole, and goes to the full nodes.
HandleFresh(n) ==
  \E msg \in Received(n, "fresh") :
    /\ db' = [db EXCEPT ![n] = @ \cup {msg.blk}]
    /\ lastHash' = [lastHash EXCEPT ![n] = msg.blk]
    /\ net' = (net (-) SetToBag({msg}))
                (+) SentToEach(n, {FreshMsg(p, msg.blk) : p \in ToSet(peers[n]) \ Miners})
    /\ UNCHANGED <<peers, count, handler, candidate, process>>

\* The process ends: memory and the connections into it are gone.
Kill(n) ==
  /\ n \in setup.restarting \ restarted
  /\ up' = up \ {n} /\ restarted' = restarted \cup {n}
  /\ peers' = [peers EXCEPT ![n] = <<>>]
  /\ count' = [count EXCEPT ![n] = 0]
  /\ handler' = [handler EXCEPT ![n] = [h \in 1..Handlers |-> Free]]
  /\ candidate' = [k \in Miners |-> IF k = n THEN NoHash ELSE candidate[k]]
  /\ net' = [msg \in {msg \in DOMAIN net : msg.to # n} |-> net[msg]]
  /\ UNCHANGED <<db, lastHash, setup>>

\* Faulty variant: no tip is set when the database exists already.
RestartTipless(n) ==
  /\ n \notin up
  /\ up' = up \cup {n}
  /\ db' = [db EXCEPT ![n] = @ \cup {Genesis}]
  /\ lastHash' = [lastHash EXCEPT ![n] = NoHash]
  /\ UNCHANGED <<peers, count, handler, net, candidate, restarted, setup>>

\* NewFullNode on the existing database: the tip is the genesis block again.
Restart(n) ==
  /\ n \notin up
  /\ up' = up \cup {n}
  /\ db' = [db EXCEPT ![n] = @ \cup {Genesis}]
  /\ lastHash' = [lastHash EXCEPT ![n] = Genesis]
  /\ UNCHANGED <<peers, count, handler, net, candidate, restarted, setup>>

Next ==
  \/ \E n \in Nodes :
       \/ \E p \in Neighbours[n] : HandleVerack(n, p)
       \/ \E p, q \in Neighbours[n] : RaceVeracks(n, p, q)
       \/ HandleGetblocks(n) \/ HandleInv(n) \/ HandleBlockdata(n) \/ HandleFresh(n)
       \/ \E h \in 1..Handlers : Ask(n, h) \/ FinishInv(n, h)
       \/ Kill(n) \/ Restart(n)
  \/ \E n \in Miners : StartMining(n) \/ Seal(n)

Spec == Init /\ [][Next]_vars

\* Every message is handled, every goroutine that can run is scheduled, and
\* a node that was killed is started again.  That a neighbour's verack comes
\* once more when its append was overwritten is not what the code does: with
\* two nodes, which the run has, an append is only ever overwritten by one of
\* the same neighbour.
Fairness ==
  /\ \A n \in Nodes :
       /\ \A p \in Neighbours[n] : WF_vars(HandleVerack(n, p))
       /\ WF_vars(HandleGetblocks(n)) /\ WF_vars(HandleInv(n)) /\ WF_vars(HandleBlockdata(n))
       /\ WF_vars(HandleFresh(n))
       /\ \A h \in 1..Handlers : WF_vars(Ask(n, h)) /\ WF_vars(FinishInv(n, h))
       /\ WF_vars(Restart(n))

FairSpec == Spec /\ Fairness

-----------------------------------------------------------------------------
Message ==
  [kind : {"getblocks"}, to : Nodes, from : Nodes, top : DOMAIN Blocks]
    \cup [kind : {"inv"}, to : Nodes, list : Seq(DOMAIN Blocks)]
    \cup [kind : {"blockdata"}, to : Nodes, call : 1..Handlers, index : Nat,
          list : Seq(DOMAIN Blocks)]
    \cup [kind : {"fresh"}, to : Nodes, blk : DOMAIN Mined]

\* Types; a call has no more workers than its node has peers, and peers are
\* never removed from the list.  With three nodes the zero Block may be
\* stored, become a tip and be announced like others.
TypeOK ==
  /\ db \in [Nodes -> SUBSET DOMAIN Blocks]
  /\ lastHash \in [Nodes -> DOMAIN Blocks]
  /\ peers \in [Nodes -> Seq(Nodes)]
  /\ count \in [Nodes -> Nat]
  /\ handler \in [Nodes -> [1..Handlers ->
       [list : Seq(Seq(DOMAIN Blocks)), todo : SUBSET Nat, workers : Nat]]]
  /\ \A n \in Nodes : \A h \in 1..Handlers : handler[n][h].workers <= Len(peers[n])
  /\ IsABag(net) /\ BagToSet(net) \subseteq Message
  /\ candidate \in [Miners -> {NoHash} \cup DOMAIN Blocks]
  /\ up \subseteq Nodes /\ restarted \subseteq Nodes /\ setup \in Setups

\* Two nodes, none of which takes itself for a peer.
Pair == \E a, b \in Nodes : Nodes = {a, b} /\ a \notin Neighbours[a] /\ b \notin Neighbours[b]

\* No node stores the zero Block that stands for a block the node asked does
\* not have: of two nodes, the one that announces blocks can serve them,
\* also after a restart that has made its chain shorter.
NoZeroBlock == \A n \in Nodes : Zero \notin db[n]

\* Everybody is connected, nothing is on its way and no handler is at work
\* (one that started before its node had a peer has no workers and stays).
Quiet ==
  /\ up = Nodes /\ \A n \in Nodes : ToSet(peers[n]) = Neighbours[n]
  /\ net = EmptyBag
  /\ \A n \in Nodes : \A h \in 1..Handlers : handler[n][h].workers = 0

Ancestors(b) == ToSet(ChainFrom(Blocks, DOMAIN Mined, b))

\* A node that was killed asks for everything from the genesis block on: all
\* of it fits into one inv message.
RestartFits ==
  setup.restarting # {} =>
    \A n \in Nodes : Len(ChainFrom(Blocks, DOMAIN Mined, start[n])) <= InvLimit + 1

\* When the exchange is over and nobody mines, all nodes have the same tip
\* and every block below it, although chunks overtake one another, handlers
\* overwrite each other's getdataMessageCount, the tip moves back and forth
\* meanwhile, and a restart forgets it.  When more than one inv message is
\* needed, a question asked before the restart can be answered after it with
\* blocks above those lost in it, and these are never asked for.
QuietMeansSynced ==
  Quiet /\ setup.until = 0 /\ RestartFits =>
    \A n, k \in Nodes : lastHash[n] = lastHash[k] /\ ~HasHole(n)

\* The nodes' chains are parts of one chain; a miner's is all of it.
OneChain ==
  /\ \A n, k \in Nodes :
       start[n] \in Ancestors(start[k]) \/ start[k] \in Ancestors(start[n])
  /\ setup.until > 0 => \A n \in Miners, k \in Nodes : start[k] \in Ancestors(start[n])

\* What a node lacks at the start fits into one inv message, and so do all
\* blocks if it is killed.
OneInv ==
  \A n, k \in Nodes :
    /\ Cardinality(Ancestors(start[n]) \ Ancestors(start[k])) <= InvLimit
    /\ k \in setup.restarting => setup.until <= InvLimit + 1

\* Miners start on a block when the others are their peers; it is sent only
\* to nodes that have asked a peer for the older ones.
AskedFirst ==
  /\ \A n \in Miners : candidate[n] # NoHash => ToSet(peers[n]) = Neighbours[n]
  /\ \A msg \in BagToSet(net) : msg.kind = "fresh" => peers[msg.to] # <<>>

\* No node that is killed has blocks that another one may be asking it for.
KilledBehind == \A n \in setup.restarting, k \in Nodes : start[n] \in Ancestors(start[k])

\* Nodes whose chains are parts of one chain all get to the end of it, and
\* then stop asking, also when one is killed while it fetches blocks.
SyncConverges ==
  OneChain /\ KilledBehind /\ setup.until = 0 =>
    <>[](Quiet /\ \A n \in Nodes : lastHash[n] = Max({start[k] : k \in Nodes}))

\* New blocks do not get in the way: when a node that lacks at most one inv
\* message's blocks asks for them before it is sent a new one, it gets all of
\* them, whatever overtakes what, and no hole remains below its tip.
FreshBlocksFit ==
  OneChain /\ OneInv /\ setup.until > 0 /\ []AskedFirst =>
    <>[](Quiet /\ \A n, k \in Nodes : db[n] = db[k] /\ ~HasHole(n))

\* Two nodes whose chains fork never exchange a block: each keeps asking the
\* other and neither knows the other's tip.
ForkStays ==
  ~OneChain /\ setup.restarting = {} /\ setup.until = 0 =>
    \A n \in Nodes : lastHash[n] = start[n] /\ db[n] = Ancestors(start[n])
=============================================================================
