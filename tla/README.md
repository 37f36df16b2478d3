# EChain: specification and proofs

EChain is a small Bitcoin-like network in Go: full nodes, miners and SPV nodes
that exchange blocks and transactions over TCP, and a wallet that pays and asks
for balances. This directory holds TLA+ modules that model it, TLC
configurations that model-check them, and TLAPS proofs of the results that hold
for every size of the network. Paths below are relative to the repository.

1. [The system](#1-the-system): components, state, operations, what is hard
2. [The modules](#2-the-modules): which module models what, and how
3. [The runs](#3-the-runs): what each one checks and shows, bounds, fairness
4. [What the runs found](#4-what-the-runs-found)
5. [The proofs](#5-the-proofs)
6. [What the models take for granted](#6-what-the-models-take-for-granted)
7. [Not modelled, and the plan](#7-not-modelled-and-the-plan)

## 1. The system

Every node is one process. It listens on a port; each message has a TCP
connection of its own, and `handleConnection` runs in a goroutine of its own per
connection (`network/fullnode.go`, `StartP2PNode`). There is one mutex in the
program (in the getdata pool) and it protects nothing else, so all handlers of a
node run concurrently over unprotected shared state: `connectedPeers`,
`mempool`, `getdataMessageCount`, `Blockchain.LastHash`, and the LevelDB
database with blocks, tip and UTXO set.

| Component | State | Operations | What makes it correct |
|---|---|---|---|
| Ledger of full nodes and miners (`network/fullnode.go`, `network/miner.go`) | database, `LastHash`, UTXO set, `mempool` | `handleNewTxnMsg`, `handleBlockdataMsg` for a fresh block, `verifyBlock`, `storeNewBlock`, `startMining`, relaying, start-up | the tip is a stored block; the UTXO set is the one of the chain; received blocks do not crash a node; every block reaches every node; relaying ends |
| Block store (`blockchain/blockchain.go`) | blocks by hash, tip | `SetBlock`, `SetLastHash`, `SetHeader`, iteration to the genesis block, `GetUnmatchedBlocks`, `GetUnmatchedHeaders`, `GetBlocksFromHashes` | a walk ends at the genesis block, not at a block that is missing |
| UTXO set (`blockchain/utxoset.go`) | outputs by transaction | `UpdateWithNewBlock`, `UpdateWithNewTransaction`, `ReIndex`, `FindUTXO` | concurrent calls have the effect of single steps; updating block by block gives what re-indexing gives |
| Merkle tree (`blockchain/merkle.go`) | none | `SetMerkleRoot`, `GetMerkleProof`, the check in `handleMerkleblockMsg` | both return; the proof leads to the root |
| getdata pool (`handleInvMsg`) | shared index, mutex, WaitGroup | workers that ask peers for blocks | each message is sent once; the join waits for all and returns |
| Block synchronisation (`network/fullnode.go`) | tip, database, `getdataMessageCount` | getblocks, inv, getdata, blockdata | nodes on one chain all get to its end and stop asking, also when blocks are mined meanwhile or a node is restarted |
| Handshake and gossip (all three node types) | `connectedPeers`, `forwardedAddrList` | start-up, version, verack, addr | both sides list each other once; the exchange ends; a newcomer meets the network |
| SPV node (`network/spv.go`) | headers, filtered UTXO set, `monitorAddrList`, `updatedBlockHeader` channel | getheaders, headers, merkleblock, newaddr, getutxo | headers without gaps; a payment to a monitored address is seen and nothing else is; handlers do not wait for ever |
| Wallet (`wallet/`) | keys, connected nodes | `Transfer`, `GetBalance` | a call returns; a transfer spends outputs that are unspent as far as the node asked knows |
| Codec and transport (`network/utils.go`, `network/message.go`) | none | gob encoding, dial and send | a message is decoded as what it was |
| Command line (`main.go`) | none | starts one node | |

How they interact. A wallet asks SPV nodes for unspent outputs and sends a raw
transaction to the nodes it knows; an SPV node passes the bytes on. A full node
or miner checks it, puts it into its mempool and relays it to its full-node and
miner peers. A miner builds a block from its tip and its whole mempool every ten
seconds, stores it and sends it to them; a node that gets a block verifies it,
stores it, makes it its tip whatever its parent is, updates the UTXO set and
relays it to full nodes, and its transactions of interest, in merkleblock
messages, to SPV nodes. An SPV node that lacks the block's header waits three
seconds, asks its peers for headers, and goes on when one of the headers
messages that follow wakes it. A node that becomes a peer is asked for the
blocks it has (getblocks), announces them (inv), is asked for them in messages
of ten (getdata) and sends them (blockdata). Nodes become peers by version and
verack messages, and hear of others by addr messages.

What is hard here: handlers interleave between the steps of `storeNewBlock` and
between a check and the append that follows it; two goroutines read and write
back the same UTXO entry; messages overtake one another; a node counts the
messages of one download in a variable another download overwrites; a fixed
pause stands for "the blocks have arrived"; a wake-up is lost when nobody waits
yet; restarts put the tip back while the database stays; floods end only if
something remembers what was seen; errors of lookups and decodings are dropped
and zero values go on their way. `PROJECT.json` lists these hazards one by one,
each at its line and with the properties that watch it.

## 2. The modules

```
BlockStore        what a database holds, the backward walk
 ├─ Ledger        mining, blocks, transactions, crash and restart
 │   ├─ MCLedgerSolo   one miner, one full node, a client; refines ChainLog
 │   ├─ MCLedgerNet    two miners and a client
 │   └─ LedgerProofs ── DataLemmas
 ├─ BlockSync     getblocks, inv, getdata, blockdata; fresh blocks; restart
 │   ├─ MCBlockSync
 │   └─ SyncProofs ── DataLemmas
 └─ UtxoStore     the UTXO set's reads and writes, one by one
     ├─ MCUtxoStore
     └─ UtxoStoreProofs ── DataLemmas
ChainLog          abstract: one growing chain and followers that copy it
Merkle            SetMerkleRoot, GetMerkleProof, the SPV node's check
 └─ MerkleProofs
InvCall           abstract: what BlockSync takes for granted of such a call
InvWorkers        one call of handleInvMsg; refines InvCall
 └─ SyncProofs    proofs about both: the pool, and the exchange that uses it
Handshake         version, verack, addr; start and stop
 ├─ MCHandshake
 └─ HandshakeProofs
Spv               headers, merkleblocks, filters, the SPV node's UTXO set
 ├─ MCSpv
 └─ SpvProofs
Wallet            getUTXOs, Transfer, GetBalance
 ├─ MCWallet
 └─ WalletProofs
DataLemmas        numbers, lists and the backward walk: what the proofs share
```

How they fit together: each module takes from its neighbours what these show.
Ledger, BlockSync and Spv start from peers that list each other (Handshake);
BlockSync's `Ask` is a worker of InvWorkers as seen from outside (InvCall says what
that is, and InvWorkers implements it; only InvWorkers has SPV nodes among the
peers that are asked), and its `HandleFresh`
is `ReceiveBlock` to `RelayBlock` of Ledger in one step; UtxoStore
cuts what Ledger does in `UpdateUtxo`; Wallet's `Mine` and `Learn` are what
Ledger and Spv may do with a transaction.

**BlockStore.** A hash is the index of a block in the sequence of all blocks
ever sealed. `ChainFrom` is the walk of `BlockChainIterator`: it stops at an
empty `PrevHash`, and at a hash that is not in the database, because `Get`'s
error is dropped and the zero Block it decodes to has an empty `PrevHash` too.

**Ledger.** State of node `n`: `db[n]` (stored hashes), `lastHash[n]`, `utxo[n]`,
`mempool[n]`; `mining[m]` is the candidate of `startMining`; `storing[n]` and
`admitting[n]` are the goroutines in the middle of a handler (`id` only tells two
with the same transaction of one link apart); `net[<<s, n>>]`
holds the messages from `s` that `n` has not read.

| Action | Code |
|---|---|
| `Submit` | a client delivers the bytes of a transaction to a node |
| `ReceiveTxn` | `handleNewTxnMsg` up to the last check; handlers overlap, also those of one link |
| `Admit`, `AdmitLost` | its step 3; `AdmitLost` is the append another append overwrites |
| `StartMining`, `Seal` | `startMining` up to and including `mineBlock` |
| `ReceiveBlock` | `handleBlockdataMsg` step 1, `verifyBlock`: invalid, valid or panic |
| `SetBlock`, `SetLastHash`, `UpdateUtxo` | the three steps of `storeNewBlock` |
| `RelayBlock` | `handleBlockdataMsg` step 3, or step 2 of `startMining` |
| `Kill`, `Restart` | the process is stopped; `InitBlockChain` and `ReIndex` on the same directory |

The handlers are cut where another goroutine's step can matter: after the
checks, and between the writes to database, tip and UTXO set. `Verdict` is
`verifyBlock` with its order of evaluation: an invalid transaction before the
one that would panic makes the block invalid instead. `Decoded` is what gob
does: wallets send a `Transaction`, nodes relay a `NewTxnMessage` around one,
and the handler decodes both as a `Transaction`; the second has no field in
common with it and the zero transaction, `Phantom`, comes out and passes every
check.

**ChainLog** says what relaying fresh blocks is for: the miner's chain grows and
every follower copies it block by block, without a gap, to the end.
`MCLedgerSolo!Log` maps it to the chains the code walks from the two tips.

**UtxoStore.** The `utxo-` keys of one database, and the calls that work on them:
`job[w]` is a goroutine in `UpdateWithNewBlock` or `ReIndex`.

| Action | Code |
|---|---|
| `StoreNewBlock` | `storeNewBlock` up to the call of `UpdateWithNewBlock` |
| `ReadSpent`, `WriteBatch` | `UpdateWithNewTransaction`: the entries it spends from, and the LevelDB batch |
| `StartReIndex`, `DeleteAll`, `ReadTip`, `PutTxn` | `ReIndex`: iterator, batch of deletions, iterator of the chain, one `Put` per transaction on the way back |
| `Download` | `handleBlockdataMsg` for a block that was asked for: no UTXO update |

`ideal` is the abstract set: what it would be if every call were one step.
`race` remembers how calls have overlapped since it was last rebuilt: "same" if
two applications took outputs of one transaction, "cross" if one spent what the
other created or a re-indexing was involved.

**Merkle.** One behaviour runs `SetMerkleRoot` and then `GetMerkleProof` for one
transaction of one block, loop by loop. Hashes are terms. `Computed` is the loop
of `handleMerkleblockMsg` that folds the proof into a root.

**InvCall.** One call of `handleInvMsg` from outside: `Ask` sends one of the messages left,
whose peer may not answer, `Arrive` stores the blocks of one, `Finish` goes on. `InvWorkers!Outside` maps it to the
counters and workers of the pool.

**InvWorkers.** One call of `handleInvMsg`: `Lock`, `Take`, `Count`, `Return`,
`Send`, `Done` are the statements of a worker, `Join` is `wg.Wait()`, `Wake` the
end of the three seconds, `StoreBlocks` the blockdata handler of a chunk. `Serving`
are the peers that answer, which an SPV node does not; `Late` are the messages
whose blocks may take longer than the pause. `unserved` is history.

**BlockSync.** State of node `n`: `db[n]`, `lastHash[n]`, `peers[n]`, `count[n]`
(`getdataMessageCount`), `handler[n]` (calls of `handleInvMsg`), `candidate[n]`
of a miner. Messages on their way form a bag: each has its own connection and
goroutine, so any may be handled first.

| Action | Code |
|---|---|
| `HandleVerack`, `HandleGetblocks`, `HandleInv` | the handlers; `HandleInv` up to the workers |
| `RaceVeracks` | two verack handlers at once: both have checked `connectedPeers` before either appends, so a peer is listed twice, or one append is lost |
| `Ask` | a worker's blocking send of getdata together with the peer's `handleGetdataMsg` |
| `HandleBlockdata` | `handleBlockdataMsg` for blocks asked for |
| `FinishInv` | the end of `handleInvMsg`, with getblocks to all peers |
| `StartMining`, `Seal`, `HandleFresh` | `startMining`; `handleBlockdataMsg` for a fresh block, relay included |
| `Kill`, `Restart` | the process ends; `NewFullNode` on the same database |

`call` in a blockdata message and `setup` are history: they are not in the
program, and no guard but the timing assumption and the bounds reads them. The
500 hashes of an inv message and the ten blocks of a getdata message are the
constants `InvLimit` and `MAX_BLOCKS_IN_TRANSIT_PER_PEER`. Loops over
`connectedPeers` send a message per entry (`SentToEach`), and workers are the
positions of that list, so a peer that is in it twice is asked twice.

**Handshake.** State of node `n`: `peers[n]`, `forwarded[n]`, and `greeting[n]`,
the initial peers its start-up goroutine has still to greet.

| Action | Code |
|---|---|
| `Start`, `Greet` | `StartP2PNode`: listen; two seconds later a version message to each initial peer |
| `Stop` | the process ends; the lists are in memory only |
| `HandleVersion` | `handleVersionMsg`: verack, and a version message unless the sender is listed |
| `HandleVerack` | `handleVerackMsg`: append the sender, send it one's own address |
| `RaceVeracks` | two of these at once: both have checked before either appends, so a peer is listed twice or an append is lost |
| `HandleAddr` | `handleAddrMsg`: greet the address, pass it on to all other peers once |

A message to a node that does not listen fails to dial and is dropped (`Put`).

**Spv.** One miner extends a chain, one full node follows it; a hash is a height.
`work` is the bag of messages on their way and of merkleblock handlers that
sleep or were woken; `waiting[n]` is the queue at `<-updatedBlockHeader`.

| Action | Code |
|---|---|
| `Connect` | `handleVerackMsg`: a peer more, which is asked for headers |
| `HandleNewAddr`, `HandleFilterload` | `handleNewAddrMsg` of the SPV node, `handleFilterloadMsg` of the full node |
| `HandleBlockdata` | steps 2 and 4 of the full node's `handleBlockdataMsg` |
| `HandleGetheaders` | both `handleGetheadersMsg`, through `GetUnmatchedHeaders` |
| `HandleHeaders` | `handleHeadersMsg`: headers stored, the last one the tip, one waiting handler woken if there is one |
| `HandleMerkleblock`, `Ask`, `Resume` | `handleMerkleblockMsg` up to the pause, from the pause to the wait, and after it |
| `Restart` | `NewSPVNode` on the same directory: headers and outputs stay, tip, peers and addresses do not |

`promised` and `spent` are history: the outputs the full node has told each SPV
node of, and all that the transactions it was told spend.

**Wallet.** One address's calls, in sequence. `Begin` starts a goroutine per SPV
node; `Ask`, `PutFlag`, `PutResult` are its dial-and-read and its two channel
sends; `Poll` is the 200 millisecond loop of `getUTXOs`, `Take` the read of the
result with what `Transfer` makes of it: outputs in map order until they are
worth the amount, and the change. `Mine` and `Learn` are the environment: a
transaction gets into the chain, and a merkleblock with it changes what an SPV
node lists: in any order, perhaps never, and any number of times, since SPV nodes
send merkleblocks to and fro and blocks contain old transactions again. `views[n]`
is history: what node `n` has listed since the call began.

Definitions under a comment "Faulty variant" are not part of the model. Each is
a plausible mistake in the code, used to confirm that a property can fail.

## 3. The runs

Runs that pass. The numbers of states are TLC's.

| Run | Instance | Properties | States |
|---|---|---|---|
| `LedgerSolo` | miner, full node, client; one payment, three mined blocks; links read in order, two transactions checked at a time | `TypeOK`, `UtxoMatchesChain`, `NoPanic`, `FollowsMiner`, `TxnFloodEnds` | 71810 |
| `LedgerNetCrash` | two miners, a client, one payment; two mined blocks, messages in any order, one kill, restarts at any time | `TipStored`, `UtxoFromStored`, `BlocksStoredEverywhere` | 208142 |
| `UtxoStore` | two goroutines, three calls, a tree of seven blocks | `TypeOK`, `AsIfAtomic`, `NoOutputLost` | 600519 |
| `Merkle` | every block of up to five transactions out of three | `TypeOK`, `ProofVerifies`, `ManyLeavesNeverReturn`, `FewLeavesReturn` | 14532 |
| `InvWorkers` | four messages, one of them answered late; three peers, one of them an SPV node | `PoolTypeOK`, `AllServedStored`, `SentAsPromised`, `Completes` | 26353 |
| `BlockSync` | two nodes, any two chains out of a tree of seven blocks; or one of them killed; or one of them mining; or both; some with overlapping verack handlers | `TypeOK`, `NoZeroBlock`, `QuietMeansSynced`, `ForkStays`, `SyncConverges`, `FreshBlocksFit` | 199849 |
| `Handshake` | two initial peers that start, stop and race at any time; three nodes, one or two of them initial peers | `TypeOK`, `PeersOnce`, `ListsMutual`, `InitialPeersConnect`, `Quiesces`, `LateJoinerMeetsAll` | 108255 |
| `Spv` | a miner, a full node and one or two SPV nodes, in seven setups | `TypeOK`, `HeadersRooted`, `UtxoProved`, `BalanceTrue`, `HeaderFetched`, `PaymentArrives` | 45314 |
| `Wallet` | two calls, two SPV nodes, one of them with a filter at a full node; one coin | `TypeOK`, `PaysFromFreshAnswer`, `CallsEnd` | 179483 |

What they show.

* **LedgerSolo.** In the network of `wallet_test.go` the full node's chain is
  always a prefix of the miner's and catches up (`FollowsMiner`, a refinement of
  `ChainLog` with its fairness). The miner's mempool is never emptied, so the
  payment is mined in every later block again: `UtxoMatchesChain` says the
  repeated batches bring no spent output back. `NoPanic`: no block the full node
  gets refers to a transaction that is not on its chain, the case in which
  `verifyTransaction` indexes a map miss. A transaction is relayed to every peer,
  the sender included; the mempool check ends it, although it runs unlocked: two
  handlers may both pass it, append the transaction twice and relay it twice, or
  lose an append (`TxnFloodEnds`).
* **LedgerNetCrash.** Between any two steps, across a kill, panics (which the
  reordering and the restart do produce) and restarts, the tip is in the
  database and every listed output comes from a stored block. As long as every
  process runs, each block ends in each database, through forks and tips that
  are overwritten (`BlocksStoredEverywhere`); miners relay only their own blocks,
  so this needs the miners to be connected. Two miners that know only a common
  third one never hear of each other's blocks.
* **UtxoStore.** Calls that do not overlap, or whose transactions touch different
  entries, have the effect of single steps (`AsIfAtomic`); this includes a block
  that is applied twice and a re-indexing from any state. Two blocks that take
  outputs of one transaction at once can bring a spent output back, but lose
  none (`NoOutputLost`). A re-indexing that meets an application can do both.
* **Merkle.** `nextHashList` is not emptied between levels. With one or two
  transactions both functions return and the proof verifies; with more they do
  not return.
* **InvWorkers.** A worker that finds no message left returns with the mutex
  locked and the rest block on it for ever. This does not stop the handler: the
  WaitGroup counts messages, not workers. When the UTXO set is rebuilt, only blocks
  that were asked of the SPV node, or whose answer takes longer than the pause, are
  missing (`AllServedStored`); nothing asks for them again. `SentAsPromised` is a refinement: to the rest
  of the node the call looks as in InvCall, whose `Ask` and `Finish` have the guards of
  `Ask` and `FinishInv` in BlockSync.
* **BlockSync.** Chunks overtake one another, two downloads of a node run at once
  and overwrite each other's `getdataMessageCount`, the tip jumps back and chains
  have holes for a while. When nobody mines, both nodes are in the end at the end
  of the longer chain with no hole and nothing is on its way, also when a node
  others do not download from is killed (`SyncConverges`, `QuietMeansSynced`), and
  when a node lists the other twice and so asks and announces everything twice. With
  restarts the second is claimed only when one inv message holds the whole chain
  (`RestartFits`): the proof attempt showed that it fails otherwise, and TLC agrees,
  with six blocks, inv messages of two and chunks of one. The first chunk of a
  second inv message is lost with the process, after the second chunk has moved
  the tip and another handler has asked from there; that question is answered
  after the restart, with blocks above the hole. The blocks asked for from the
  genesis block on end below it, and the last question names the tip. When
  their chains fork, neither learns a block of the other. `FreshBlocksFit` is about
  blocks mined meanwhile. Its conditions are the ones the runs showed to be
  needed: a fresh block that comes before the node's first getblocks becomes a
  tip its peers know, and the blocks below are never asked for; a fresh block
  during a download that takes more than one inv message leaves a hole for the
  same reason; so does a block mined before the other side was listed. A new
  miner that is behind starts a branch. A serving node that is killed in the
  middle of a download leaves the other with a hole below its tip, and getblocks
  messages go to and fro for ever.
* **Handshake.** In whatever order the initial peers start, stop and come back,
  the exchange ends and those that run list each other; no peer is listed twice
  or on one side only unless verack handlers overlap. A node that joins a settled
  network meets every node of it, also those it has not heard of. What does not
  hold, and is not claimed: two nodes that are not initial peers and join at the
  same time may never meet; one that greets before any initial peer listens never
  joins; after an initial peer has been restarted, those that list it are not
  listed by it again; an address is passed on once in the life of a process.
* **Spv.** Headers are stored without gaps although answers arrive in any order
  (`HeadersRooted`), a handler that was woken by the wrong headers adds nothing
  (`UtxoProved`), and a header that is missing is fetched (`HeaderFetched`). When the
  network settles between blocks and each holds one transaction of interest,
  the transaction reaches every SPV node (`PaymentArrives`), and the balance of a
  single one is what it was told (`BalanceTrue`), whether its wallet has one side of
  the payment or both. Two transactions of interest in one block may be applied in
  any order, or one of them not at all (section 4): `PaymentsApart` excludes that. The
  exceptions are in the
  statements: a node that is not connected to the miner asks nobody (its
  merkleblock names the full node) and its handler waits for ever; one that lacks
  more than a headers message holds may not get the one it waits for; a block
  that reaches the full node twice puts spent outputs back; a restart forgets the
  monitored addresses, while the full node keeps the filter. Outputs that are not
  monitored are listed and never removed. Two SPV nodes relay one merkleblock to
  and fro for ever.
* **Wallet.** A call returns, and the goroutines that answer late still get rid
  of their answers (`CallsEnd`): the channels have room for every node. A transfer
  spends outputs that the node it heard from listed, together, after the call began
  (`PaysFromFreshAnswer`); an answer to the call before, in which they may be unspent
  still, is never taken for the answer to this one. That is all a wallet can rely
  on. An output may be spent twice: when the node has not heard of the earlier
  payment, and also when it has and puts the output back, because the merkleblock
  that created it comes again (`network/spv.go:158`, `blockchain/utxoset.go:92`).

### Bounds, and why they are enough

* `MaxBlocks`: three mined blocks in `LedgerSolo` give the payment its funds
  (block 2), mine it once (3) and mine it again (4), the case `UtxoMatchesChain`
  is about. Two suffice for a fork with a tip that moves from one branch to the
  other. A miner that starts on a bounded-out block simply stays idle.
* `MaxCrashes` 1: either miner may be killed at any point, once. Restarts are
  unbounded, as are panics.
* `Admitters` 2: handlers of a node past the checks at one time, one in
  `LedgerNetCrash`, which is about blocks. Two append the same transaction twice.
* `MaxLost` 2: lost appends. With an unbounded number of them two nodes could
  relay for ever what neither ever keeps. The race is over in microseconds and
  the number bounded in any real run; two lets it happen at both ends.
* `UtxoStore`: two goroutines (`Workers`) and three calls (`MaxStarts`) let two overlap
  and a third come after them. In the tree, a transaction with two outputs is
  spent in parent and child, in siblings, and is mined again after it was spent.
* `MaxList` (Merkle): the list that grows for ever is cut off at 9; the longest
  list of a returning call has 2. For the rest there is a proof. `MaxLeaves` 5:
  odd and even levels, and two passes.
* `InvWorkers`: more messages than peers, and more than one peer, so that a
  worker goes round again and another finds nothing left. The SPV node is asked for none,
  one or several of the messages.
* `BlockSync`: six blocks against an announcement of at most three and chunks of
  two give a full and a partial chunk and a second round. `Handlers` is a slot
  count, not the program's: a call that starts before its node has a peer waits
  for ever for workers it does not have, and in the model it keeps its slot. So
  there must be more slots than such calls can be; with six slots two downloads
  can overlap beside them, and in the instance checked they are never all in use. A peer that is
  listed twice adds questions and answers, so the setups with it have short
  chains.
* `Handshake`: `stops` and `races` 1, in a pair of nodes that start and stop at any
  time. Equal messages on their way are counted up to `copies`; a further one is
  handled together with one on its way, and no handler does more the second time.
  Networks of three start and stop only when all is quiet (`apart`), with one copy;
  gossip needs three nodes.
* `Spv`: `limit` (headers in a message) is two, or one in the setup where the node is
  too far behind; chains of two or three blocks; one repeated block, one restart,
  each in a setup of its own (`MCSpv`); in the seventh the wallet has the payer's
  address and the payee's, so that two filters are on their way.
* `Wallet`: `Polls` 1 instead of 11: a call may give up before, between or after the
  answers. A coin of 3 and the amount 2 give a payment with change, one that spends
  this change or the coin again, and one for which there is too little. `Capacity` is the number of SPV nodes; the code's channels hold as
  many as there are nodes of any type.
* `Peers`, `Knows`, `Neighbours` are constants: whose verack a node gets. `Handshake`
  says when that is what happens.

### Fairness

Weak fairness of each handler and goroutine step, never of clients, kills,
connecting or races: the Go scheduler runs every goroutine that can run, and a
TCP connection to a running node delivers. In Ledger `Seal` is fair because a
nonce search ends with probability one. In BlockSync a node that was killed is
started again. In Handshake and Spv weak fairness of disjunctions is enough: some
message of a kind is handled as long as there is one, and that it is a
particular one is not needed. In Wallet only the goroutines and the
caller's loop are fair, not the nodes' answers. No strong fairness is assumed.

`CHECK_DEADLOCK FALSE` is in every configuration: clients may stop paying, the
bound on blocks stops the miners, a Merkle computation and a handler end,
synchronised nodes have nothing to say, and wallets stop calling.

## 4. What the runs found

Two runs check a statement of the repository that the code does not keep; each
has a counterexample.

| Run | Statement | What happens |
|---|---|---|
| `LedgerSoloStall` / `MiningCompletes` | "Miner nodes create new block every 10 seconds" (`wallet/wallet_test.go:50`) | the payment comes back as a zero transaction (`network/fullnode.go:395`), the candidate then has three transactions and `SetMerkleRoot` never returns (`blockchain/merkle.go:33`) |
| `SpvStuckHandler` / `EveryPaymentArrives` | "Wait for miner node to pick new transaction from mempool and start mining" (`wallet/wallet_test.go:49`), after which the balances must show it (`:55`) | a block holds two transactions of interest, the miner's reward and the payment; the handler of the reward asks for the header and gets it; the one of the payment, whose three seconds end later, does not look again (`network/spv.go:120`), asks from the new tip, gets no answer, and waits for ever (`network/spv.go:129`) |

Also seen while modelling, and stated in the models as what the code does:
`verifyTransaction` looks an input up among all transactions of the chain and does not
ask whether it is spent (`network/fullnode.go:241`); two
full nodes that are peers relay one block to each other for ever, because nobody
remembers what was relayed (`network/fullnode.go:306`); an SPV node among the first
peers is asked for blocks and drops the request, and its share is never asked for
again (`network/fullnode.go:209`; constant `Serving` of InvWorkers); with three nodes,
a peer that lags behind is asked for blocks it does not have and sends zero
Blocks, one of which may become a tip (`blockchain/blockchain.go:239`); a node that is
killed in the middle of a long download and started again can end with the right
tip and a hole below it, without anybody asking any more
(`network/fullnode.go:232`; section 3, BlockSync).

## 5. The proofs

Everything under a `THEOREM` or `LEMMA` is proved to the last leaf by TLAPS, for
every value of the constants that meets the named assumption of the module
(`LedgerAssumption`, `UtxoStoreAssumption`, `MerkleAssumption`, `InvAssumption`,
`BlockSyncAssumption`, `HandshakeAssumption`, `SpvAssumption`, `WalletAssumption`); those assumptions only
give types, that miners, full nodes, SPV nodes and clients are different
processes, that parents come before their children and only the genesis block has
none (in `BlockSync`), that payments spend
outpoints and pay natural amounts (positive ones in `Wallet`), and that a wallet
knows finitely many nodes. Some theorems have a hypothesis of their own, named
below: `StarNetwork`, `SpendsFromBelow`, `LosesNoAppend`, `Pair`, `Couple` and
`SleepIsEnough`.

* `LedgerProofs!TypeCorrect`, `TipAlwaysStored`, `UtxoAlwaysFromStored`. The last
  two are not inductive alone: a goroutine that is about to set the tip must
  know its block is stored. `IInv` adds `PastSetBlockStored`, every goroutine of
  `storeNewBlock` past `SetBlock` holds a block in its node's database. `Seal`
  extends `blocks`, so `TxnsOfStable` (a sealed block keeps its transactions) is
  needed for `UtxoFromStored`; `UpdatedFrom` says where an output of
  `UpdateWithNewBlock` comes from. One lemma per action. They cover any network,
  any number of kills, and reordering.
* `LedgerProofs!StarNeverPanics`, `StarUtxoMatches`, `StarFollowsMiner`: no node
  panics, a node's UTXO set is the one its chain defines, and the network is a
  `ChainLog` (the refinement without its fairness), for any number of full nodes,
  clients, transactions and blocks. Their hypothesis `StarNetwork` is one miner,
  full nodes that know only the miner, links read in order and no kill: with two
  miners or a full node between full nodes there are forks or holes, and the
  first two are false, as `LedgerNetCrash` shows. The invariant `StarInv` follows
  a block from the miner to the nodes: blocks form one line, each node has the
  first `Height(n)` of them, and the link to a full node holds exactly the ones
  that are relayed and not yet handled, in order (`OnTheWay`); at most one
  goroutine stores (`OneAtATime`). The payments need a fact about the code that is
  easily overlooked: no mempool is ever emptied, and `SetMerkleRoot` does not
  return for three transactions, so a block holds at most one payment, and that
  is the first one the miner ever admitted, in every block from then on
  (`OnlyFirst`, `Candidate`). Applying such a block a second time changes nothing
  (`ApplyBlock`), and its inputs are rewards of blocks below (`Funded`), which is
  why `verifyBlock` finds them (`NextIsValid`).
* `MerkleProofs!TypeCorrect`, `ManyLeavesHang`. `SetMerkleRoot` never returns for
  three or more transactions, however many. `IInv` adds `Growing`: during the first
  pass the next list is long enough for what has been read of the current one, and
  later passes only add to it. The bound `MaxList` only removes steps, and the
  theorem holds for every value of it. `ProofsVerify`: of one or two transactions
  `GetMerkleProof` gives a path that the SPV node's check accepts. With more it
  does not return at all, so the invariant `FewInv` may simply follow the
  computation; the fold of the check is a recursive function, whose existence is
  shown by exhibiting it.
* `SyncProofs!PoolTypeCorrect` (the WaitGroup does not go below zero, which
  would panic), `NothingAskedTwice`, `JoinWaitsForAll`, `MutexHeld`. The inductive
  invariant ties the index, the counter and the workers together: the worker in
  the critical section is about to count the next message (`NextTaken`), busy
  workers hold different counted messages (`Apart`), a message has been sent once
  exactly when it was counted and nobody is about to send it (`AskedWhenTaken`),
  and the counter is what is left plus the busy workers (`WgCounts`). That this
  counter equals zero only with no busy worker gives the join. `NothingMissed`
  (`AllServedStored`): whichever peers serve blocks and however long the answers
  take, a chunk that is not stored when the UTXO set is rebuilt was asked of a peer
  that does not serve, or is one of those that take longer than the pause. Each
  message that was sent is stored, on its way or unserved (`NoneMissing`).
  `CallAsPromised`: the pool implements InvCall, action by action. The step that needs
  an argument is `Send`: a worker overtakes at most one message for each of the
  other workers, because the messages before its own that are not sent yet can be
  mapped one to one to the workers that hold them (`OvertakenBound`). `Wake` maps to
  `Finish` by the join.
* `SyncProofs!TypeCorrect`, `NothingUnserved`: the types hold in any network, with
  mining, restarts and overlapping verack handlers, which every theorem about
  BlockSync covers. The zero Block is never stored when there are two nodes
  (`Pair`): every hash that is announced, asked for or on its way is in the
  database of the one other node, and databases only grow (`Served`). With three
  nodes it is false, as section 4 says.
* `SyncProofs!ForksNeverMerge`: two nodes on different branches only exchange
  getblocks messages, each with its sender's tip, and their databases stay what
  they were (`Forked`). `TipsUnknown` is the reason: neither tip is on the other's
  chain.
* `SyncProofs!QuietIsSynced` (`QuietMeansSynced`): for two nodes that
  are connected (`Couple`), chains of any length and any limits, with
  `SleepIsEnough`, and with either of them killed and restarted, or both, as long as one
  inv message then holds a whole chain. Which tip a node ends with depends on races
  between downloads; the invariants are about what these cannot change.
  * Nobody killed, one chain (`Follows(a, b)`). Node a is the one that is behind. Its
    blocks, those on their way to it and those its handlers will ask for, together
    lack no parent (`NoGaps`), and this stays so when a list that is announced to it
    is added (`Fits`), because the list follows upon a tip that a had (`AnswerIs`).
    Whenever a has nothing to wait for, it has b's tip or a question from its own
    tip is on its way (`Pursued`).
  * Nobody killed, two branches: `Forked`, as above, so they never become quiet.
  * Somebody killed (`After(f, l)`). After a kill databases may have holes and the
    blocks on their way may never come, so `NoGaps` is lost. Two things remain.
    First, whoever is idle has the other's tip or is being asked for more, since
    every question names the tip of its sender (`Agreed`): when it is quiet, the tips
    are equal. Second, f takes only blocks of the chain that l had at the start
    (`Takes`, no block is ever made up). While l was not killed it keeps that chain,
    and f, which was, has it all under way, or its question from the genesis block is
    still to be answered with all of it (`Rescue`; this is where `RestartFits` is
    needed): at the end f has everything. When l was killed, it takes as a tip or
    downloads only what f has with everything below (`Trails`): the common tip is one
    of these, or l's old one, complete in l, and f's own tip is then among what f
    has whole. What each handler does to databases, tips and messages under way is
    stated once (`GetblocksMoves` to `RestartMoves`), and `Orderly` keeps what all of
    this relies on: nobody loses a block, a killed node has an empty memory, no list
    is empty, and blocks go to handlers that wait for them.

  The prover forced `RestartFits` into this form: it counts the blocks of the walk,
  which is what an inv message is cut from. It also needs that only the genesis
  block has no parent: every node starts with the same one, and `startMining` gives
  each block the miner's tip as its parent. Before they were proved, TLC found
  `Forked` and `Follows` to hold on the `BlockSync` setups, and the invariants after a
  kill on trees of three to five blocks, with one of the nodes killed or both; no run
  repeats that.
* `UtxoStoreProofs!TypeCorrect`, `NothingLost`, `CallsAsIfAtomic`: however the reads,
  batches and deletions of overlapping calls interleave, no output of the ideal
  set is missing once all calls have returned, unless a re-indexing overlapped or
  one call's block spends from another's, and nothing is listed too much unless
  entries were shared as well. The invariant says this of the middle of the
  calls: an output of the ideal set is listed and nobody is about to spend it, or
  is still to be created (`Kept`); the converse where no entry is shared (`Exact`);
  what a call has read of an entry is not out of date in a way that matters when
  it is written back (`SeenKept`, `SeenExact`); calls that run together touch
  different entries (`Apart`); a re-indexing runs alone (`Alone`), and what it has
  put so far, with what the rest of its walk creates and spends, is the ideal
  (`ReIndexOK`). TLC found them to hold on the `UtxoStore` setup
  before they were proved; no run repeats that. The hypothesis
  `SpendsFromBelow`, wallets spend outputs of mined blocks only, is needed:
  `ReIndex` walks blocks backwards but the transactions of a block forwards, and
  would list an output that is spent in its own block.
* `SpvProofs!TypeCorrect`, `HeadersStayRooted`, `OutputsProved`. A headers message is
  the answer to a question asked some time ago, perhaps before a restart: that
  storing it leaves no gap needs `Truthful`, the tip named by a getheaders message
  is a header its sender has, and its receiver has all headers before the first
  one of a headers message. These stay true of messages on their way because headers are never
  removed (`HaveGrows`), which a restart
  does not change. `OutputsProved` then needs only that a handler looks for the
  header again once it was woken, and that a merkleblock's transaction is in the
  block it names.
* `SpvProofs!BalanceStaysTrue` (`BalanceTrue`): for any addresses, transactions and
  chains, once the handlers of a single SPV node are done it lists, of the outputs it
  was told of, those it was not told to be spent. `BalanceInv` says what holds in the
  middle. Apart from filters there is one message, or one handler at work, at a time
  (`ActiveOK`: the network settles before the next block); handlers wait in the order
  of their blocks (`QueueOK`), as they are woken; an output promised and not spent is
  listed or its transaction is with a handler, and one that was spent is not listed
  unless a handler holds a transaction that spends it (`BalanceOK`). `PaymentsApart` is
  needed: of two transactions of one block the one that spends may be applied first.
  Two facts came out of the attempt. An SPV node removes the inputs of all
  addresses it monitors by then, which may be more than the full node's filter
  covered when the block came, so `spent` counts all inputs. And two filters sent one after another may be
  handled in reverse order, so that the older and shorter one stays: the full node
  then tells the SPV node less than its wallet monitors, although never anything
  wrong (`FiltersOK`). TLC found `BalanceInv` to hold on the `Spv` setups before it was
  proved; no run repeats that.
* `HandshakeProofs!TypeCorrect`, `NobodyListsHimself`, `PeersListedOnce`. `NoSelf` is not
  inductive: a node's address is passed on by nodes that do not know where it
  comes from. `NetOK` adds that no message is to the node it is about; every
  handler keeps this because it answers the node the message is about, and
  addresses are passed on to all peers but that one. `PeersOnce` needs that two
  verack handlers of a node do not overlap, and nothing of the messages.
* `HandshakeProofs!PeersListEachOther`, `InitialPeersMeet`: once nothing is on its way,
  who lists a node is listed by it (without stops and races), and initial peers
  that run are connected, restarts and overlapping handlers included. The
  invariants say what stands in for a missing entry: whoever sends a version or
  verack has, or will get, the receiver as a peer (`Senders`, `Returned`), and of two
  running initial peers one has the other to greet or a message between them is
  on its way that will make them peers (`Connecting`). `InitialPeersMeet` has the
  hypothesis `LosesNoAppend`: TLC finds that with three initial peers and one pair
  of overlapping verack handlers an append is lost and two of them remain
  connected on one side only; nobody repairs this.
* `WalletProofs!TypeCorrect`, `FreshAnswersOnly` (`PaysFromFreshAnswer`). The
  inductive invariant `IInv` says that an answer to the call under way, with its
  goroutine or in its channel, is contained in one of the node's `views`
  (`AnswersFresh`), that the channels of calls not begun are empty (`Untouched`), and
  how far the polling loop is (`Polling`). New channels for every call are what keeps
  an answer with its call; nothing is needed of what SPV nodes list.
* `DataLemmas` is what the others share. Induction over numbers is stated with
  sets (`NumbersInduction`: a set that has a number when it has all smaller ones
  has them all) and comes from the library's fact that finite sets are well
  ordered by inclusion. `ChainFrom` is shown to exist by building it up block by
  block (`WalkExists`); then come its recursion (`ChainStep`), and what it passes
  through (`ChainBelow`, `ChainElements`), on a line of blocks (`ChainOfLine`) and in
  databases that hold more (`ChainOfStored`) or lack no parent (`ChainToRoot`,
  `ChainLinks`). Facts on bags of messages are in `SpvProofs`, `HandshakeProofs` and
  `SyncProofs`: the library's theorems on finite sets cannot be used beside the
  community module `BagsExt`.

Only model-checked. Liveness (`FollowsMiner`'s fairness, `BlocksStoredEverywhere`,
`TxnFloodEnds`, `Completes`, `FewLeavesReturn`, `SyncConverges`, `FreshBlocksFit`,
`Quiesces`, `LateJoinerMeetsAll`, `HeaderFetched`, `PaymentArrives`, `CallsEnd`) and
anything with ENABLED are beyond the prover. `UtxoMatchesChain` and `NoPanic` are
proved for star networks only and are false on forks, where a block of another
branch neither rolls back nor checks anything. Every other safety invariant of a
run is proved in full, but for the hypotheses named above. Synchronisation of
three or more nodes is neither checked nor proved, but for the types.

## 6. What the models take for granted

* SHA-256 is injective and signatures cannot be forged. A transaction is
  `UserTx`, a coinbase (named by its block: `Locktime` is in milliseconds and a
  miner seals at most one block in ten seconds), or `Phantom`. Owners are strings,
  values small numbers: only equality and the sum comparison are used. Equal
  inputs have equal hashes in all processes, which gob guarantees only within
  one process (see the hazard at `blockchain/transaction.go:42`).
* `InOrder`: in the runs that say so, a link is read in the order it was written,
  and a block after the one before it is stored. Blocks are ten seconds apart and a
  handler takes milliseconds; handlers of transactions overlap with one another
  and with that of a block, and links from different nodes interleave.
  `LedgerNetCrash` does without. Reordering on one link does produce holes below
  the tip and tips that go back; `FollowsMiner` is not claimed there.
* `SleepIsEnough`, in BlockSync: blocks asked for are stored within the three seconds
  `handleInvMsg` waits. Nothing enforces it; InvWorkers does without (`Late`), and says
  what re-indexing may then not see.
* BlockSync has full nodes and miners. An SPV node among the first peers takes a share
  of the getdata messages and answers none: InvWorkers has that, with what is
  missing afterwards; what becomes of the chain is not followed further.
* Relaying to all peers is one step, although the code sends to them in a loop:
  each send only adds to a different link. In Ledger, goroutines of one node in
  the same state with the same block from the same source are one element of
  `storing`; their steps have the same effect.
* A send to a node that is down is dropped (`sendMessage` returns on a dial
  error). Messages in flight to a node that goes down are lost; those it sent
  arrive. Peer lists survive a restart in Ledger; in the code, and in BlockSync,
  Handshake and Spv, they have to be built again.
* `UpdateWithNewBlock` is one step in Ledger, and so are `ReIndex` at start-up and
  `verifyBlock`; UtxoStore says when that is right. `storeNewBlock` is one step in
  BlockSync; Ledger says what happens between its writes.
* A Merkle root that is never computed blocks the miner, not the process: other
  goroutines of the node go on. In Spv every Merkle path leads to its root.
* In BlockSync `handleBlockdataMsg` of a chunk (store all, then set the tip) is one
  step: only the tip and the database matter to others, and the tip is read by
  getblocks handlers before or after. Fresh blocks are valid there.
* All nodes have the same protocol version, as the constant in `network/network.go`
  makes sure; a handshake with another version is not modelled.
* In Spv the network is a chain: one miner, one full node that follows it, SPV
  nodes that know both. Setups that are `spaced` let the network settle before the
  next block is mined or nodes connect: blocks are ten seconds apart. The answer
  to a handler's own question does not arrive before the handler waits, a few
  instructions later. Handlers are woken in the order they began to wait, as Go's
  channels do it.
* A wallet's calls are made one after another. The network takes its transactions
  in the order of what they spend; conflicting ones may both be mined, because
  `verifyTransaction` does not ask whether an input is spent. Amounts are positive, which the code does not check.

## 7. Not modelled, and the plan

Done, in this order: the ledger, the two computations it calls that may not
return (Merkle tree, getdata pool), synchronisation, then the UTXO set step by
step, the handshake, SPV nodes, the wallet, and synchronisation with blocks
mined and nodes restarted meanwhile; and the theorems of section 5. Nothing of the
plan is left. What could come next goes beyond it:

* Synchronisation of three or more nodes. A peer that lags behind is asked for
  blocks it does not have (section 4), so the statements of `BlockSync` fail as they
  are, and weaker ones that are worth having would be about a network in which
  everybody has the same chain but one.
* `QuietMeansSynced` while blocks are mined, under the conditions `FreshBlocksFit` has.
* The liveness properties, when the prover can do them.

Left out for good:

* The command line (`main.go`): it starts one node and has no state.
* Keys, addresses, base58 and the wallet file: encodings and file I/O. A wallet is
  therefore only partly modelled. (The bloom filter is a list of addresses in the
  code, and is one in Spv.)
* gob, hashing and signatures as such: only the decoding that gives another
  message than was sent is in the models. Codec and transport are therefore only
  partly modelled.
* Unsynchronised accesses to Go maps and slices beyond their effect on the values
  (lost and doubled appends, an early end of the process).
* Log output, and the timing of pauses beyond what `InOrder`, `SleepIsEnough` and
  `spaced` say.
