----------------------------- MODULE UtxoStore -----------------------------
(***************************************************************************)
(* The UTXO set in a node's LevelDB, write by write: the goroutines that   *)
(* apply blocks and the ones that re-index it share it without a lock.     *)
(* `ideal` says what it would be if each of them ran in one step.          *)
(***************************************************************************)
EXTENDS BlockStore, SequencesExt, FiniteSetsExt

CONSTANTS
  Tx,        \* transaction hashes
  Ins,       \* Ins[t]: the outpoints transaction t spends
  Size,      \* Size[t]: number of its outputs
  Mined,     \* the blocks that exist, parents first: previous block, transactions
  Workers,   \* bound: applications and re-indexings at the same time
  MaxStarts  \* bound: applications and re-indexings altogether

Outpoint == Tx \X Nat

ASSUME UtxoStoreAssumption ==
  /\ Ins \in [Tx -> SUBSET Outpoint]
  /\ Size \in [Tx -> Nat]
  /\ Mined \in Seq([prev : Nat, txs : Seq(Tx)])
  /\ Genesis \in DOMAIN Mined
  /\ \A b \in DOMAIN Mined : Mined[b].prev < b /\ Mined[b].txs # <<>>
  /\ MaxStarts \in Nat

VARIABLES
  stored,  \* hashes of the blocks in the database
  tip,     \* the hash under LAST_HASH
  utxo,    \* the entries under utxo-: from a transaction to output indices
  job,     \* job[w]: a call of UpdateWithNewBlock or ReIndex, or Idle
  starts,  \* calls so far
  ideal,   \* the outpoints that would be listed if calls were single steps
  race     \* how calls have overlapped since `ideal` was last rebuilt

vars == <<stored, tip, utxo, job, starts, ideal, race>>

-----------------------------------------------------------------------------
Outputs(t)   == {<<t, i>> : i \in 0..Size[t] - 1}
TxnsOf(b)    == ToSet(Mined[b].txs)
SpentBy(t)   == {o[1] : o \in Ins[t]}
SpentIn(b)   == UNION {SpentBy(t) : t \in TxnsOf(b)}
Listed       == UNION {{<<x, i>> : i \in utxo[x]} : x \in DOMAIN utxo}

\* Indices of outputs of transaction t among the outpoints of a set.
IndicesIn(set, t) == {o[2] : o \in {o \in set : o[1] = t}}

\* Database writes: entries put, keys deleted.
Put(db, entries)  == [t \in DOMAIN db \cup DOMAIN entries |->
                        IF t \in DOMAIN entries THEN entries[t] ELSE db[t]]
Delete(db, keys)  == [t \in DOMAIN db \ keys |-> db[t]]

\* UpdateWithNewBlock in one step: an outpoint is listed afterwards when the
\* last transaction touching it creates it, or none does and it was listed.
UpdatedWithBlock(set, b) ==
  LET txs == Mined[b].txs
      SpentFrom(i, o) == \E k \in i..Len(txs) : o \in Ins[txs[k]]
  IN  {o \in set : ~SpentFrom(1, o)}
        \cup UNION {{o \in Outputs(txs[i]) : ~SpentFrom(i + 1, o)} : i \in DOMAIN txs}

\* ReIndex in one step: what the chain below block b creates and does not spend.
UnspentBelow(b) ==
  LET txs == UNION {TxnsOf(c) : c \in stored \cap ToSet(ChainFrom(Mined, stored, b))}
  IN  (UNION {Outputs(t) : t \in txs}) \ (UNION {Ins[t] : t \in txs})

\* Blocks are as wallets and miners make them: a transaction spends outputs
\* of transactions in blocks below its own, for its inputs come from a UTXO
\* set that holds the outputs of mined blocks only.
TxnsBelow(b) ==
  UNION {TxnsOf(c) : c \in ToSet(ChainFrom(Mined, DOMAIN Mined, Mined[b].prev))}
SpendsFromBelow == \A b \in DOMAIN Mined : SpentIn(b) \subseteq TxnsBelow(b)

-----------------------------------------------------------------------------
Idle == [pc |-> "idle", blk |-> NoHash, i |-> 0, seen |-> <<>>, spent |-> {}]

Init ==
  /\ stored = {Genesis}
  /\ tip = Genesis
  /\ utxo = [t \in TxnsOf(Genesis) |-> 0..Size[t] - 1]
  /\ job = [w \in Workers |-> Idle]
  /\ starts = 0
  /\ ideal = UNION {Outputs(t) : t \in TxnsOf(Genesis)}
  /\ race = "none"

Running == {w \in Workers : job[w] # Idle}
Applying(w) == job[w].pc \in {"read", "write"}

\* A call begins: at most MaxStarts of them do.
Begin(w, call) ==
  /\ job[w] = Idle
  /\ starts < MaxStarts
  /\ starts' = starts + 1
  /\ job' = [job EXCEPT ![w] = call]

\* How the application of block b overlaps with the calls that run: they
\* are re-indexings or one spends what the other creates ("cross"), or
\* both spend outputs of one transaction ("same").
Overlap(b) ==
  IF \E w \in Running : ~Applying(w) \/ SpentIn(b) \cap TxnsOf(job[w].blk) # {}
                          \/ TxnsOf(b) \cap SpentIn(job[w].blk) # {}
  THEN "cross"
  ELSE IF \E w \in Running : SpentIn(b) \cap SpentIn(job[w].blk) # {} THEN "same"
  ELSE "none"

Worse(r, s) == IF "cross" \in {r, s} THEN "cross" ELSE IF r = "none" THEN s ELSE r

\* storeNewBlock for a fresh block, which may be one that came before, up
\* to the call of UpdateWithNewBlock.
StoreNewBlock(w, b) ==
  /\ Mined[b].prev \in stored
  /\ Begin(w, [Idle EXCEPT !.pc = "read", !.blk = b, !.i = 1])
  /\ stored' = stored \cup {b}
  /\ tip' = b
  /\ ideal' = UpdatedWithBlock(ideal, b)
  /\ race' = Worse(race, Overlap(b))
  /\ UNCHANGED utxo

\* handleBlockdataMsg for blocks asked for, up to block b: database and tip.
Download(b) ==
  /\ b \notin stored /\ Mined[b].prev \in stored
  /\ stored' = stored \cup {b}
  /\ tip' = b
  /\ UNCHANGED <<utxo, job, starts, ideal, race>>

\* UpdateWithNewTransaction: the entries of the transactions it spends from.
ReadSpent(w) ==
  LET j == job[w]
      t == Mined[j.blk].txs[j.i]
  IN  /\ j.pc = "read"
      /\ job' = [job EXCEPT ![w].pc = "write",
           ![w].seen = [x \in SpentBy(t) |-> IF x \in DOMAIN utxo THEN utxo[x] ELSE {}]]
      /\ UNCHANGED <<stored, tip, utxo, starts, ideal, race>>

AfterTxn(j) ==
  IF j.i = Len(Mined[j.blk].txs) THEN Idle
  ELSE [j EXCEPT !.pc = "read", !.i = @ + 1, !.seen = <<>>]

\* Faulty variant: an entry that was spent from is deleted altogether.
WriteBatchAll(w) ==
  LET j == job[w]
      t == Mined[j.blk].txs[j.i]
  IN  /\ j.pc = "write"
      /\ utxo' = Put(Delete(utxo, SpentBy(t)), [x \in {t} |-> 0..Size[t] - 1])
      /\ job' = [job EXCEPT ![w] = AfterTxn(j)]
      /\ UNCHANGED <<stored, tip, starts, ideal, race>>

\* Faulty variant: outputs are numbered from one.
WriteBatchFromOne(w) ==
  LET j    == job[w]
      t    == Mined[j.blk].txs[j.i]
      left == [x \in SpentBy(t) |-> j.seen[x] \ IndicesIn(Ins[t], x)]
      keep == {x \in SpentBy(t) : left[x] # {}}
  IN  /\ j.pc = "write"
      /\ utxo' = Delete(Put(Put(utxo, [x \in {t} |-> 1..Size[t]]),
                            [x \in keep |-> left[x]]), SpentBy(t) \ keep)
      /\ job' = [job EXCEPT ![w] = AfterTxn(j)]
      /\ UNCHANGED <<stored, tip, starts, ideal, race>>

\* UpdateWithNewTransaction, the batch: its outputs, and of each entry read
\* what is left, which replaces the entry or, when empty, deletes it.
WriteBatch(w) ==
  LET j    == job[w]
      t    == Mined[j.blk].txs[j.i]
      left == [x \in SpentBy(t) |-> j.seen[x] \ IndicesIn(Ins[t], x)]
      keep == {x \in SpentBy(t) : left[x] # {}}
  IN  /\ j.pc = "write"
      /\ utxo' = Delete(Put(Put(utxo, [x \in {t} |-> 0..Size[t] - 1]),
                            [x \in keep |-> left[x]]), SpentBy(t) \ keep)
      /\ job' = [job EXCEPT ![w] = AfterTxn(j)]
      /\ UNCHANGED <<stored, tip, starts, ideal, race>>

\* ReIndex: the iterator sees the keys as they are now.
StartReIndex(w) ==
  /\ Begin(w, [Idle EXCEPT !.pc = "delete", !.seen = [t \in DOMAIN utxo |-> {}]])
  /\ race' = IF Running = {} THEN "none" ELSE "cross"
  /\ UNCHANGED <<stored, tip, utxo, ideal>>

DeleteAll(w) ==
  /\ job[w].pc = "delete"
  /\ utxo' = Delete(utxo, DOMAIN job[w].seen)
  /\ job' = [job EXCEPT ![w].pc = "tip", ![w].seen = <<>>]
  /\ UNCHANGED <<stored, tip, starts, ideal, race>>

ReadTip(w) ==
  /\ job[w].pc = "tip"
  /\ job' = [job EXCEPT ![w].pc = "walk", ![w].blk = tip, ![w].i = 1]
  /\ ideal' = UnspentBelow(tip)
  /\ UNCHANGED <<stored, tip, utxo, starts, race>>

\* The walk goes on in the block, with the previous one, or ends.
AfterPut(j) ==
  LET prev == Mined[j.blk].prev
  IN  IF j.i < Len(Mined[j.blk].txs) THEN [j EXCEPT !.i = @ + 1]
      ELSE IF prev \in stored THEN [j EXCEPT !.blk = prev, !.i = 1]
      ELSE Idle

\* Faulty variant: what later blocks spend is forgotten from block to block.
PutTxnForgetful(w) ==
  LET j == job[w]
      t == Mined[j.blk].txs[j.i]
  IN  /\ j.pc = "walk"
      /\ utxo' = Put(utxo, [x \in {t} |-> 0..Size[t] - 1])
      /\ job' = [job EXCEPT ![w] = AfterPut(j)]
      /\ UNCHANGED <<stored, tip, starts, ideal, race>>

\* One transaction of the walk back: mark what it spends, put what of its
\* own outputs no transaction met so far spends.
PutTxn(w) ==
  LET j     == job[w]
      t     == Mined[j.blk].txs[j.i]
      spent == j.spent \cup Ins[t]
      next  == AfterPut(j)
  IN  /\ j.pc = "walk"
      /\ utxo' = Put(utxo, [x \in {t} |-> (0..Size[t] - 1) \ IndicesIn(spent, t)])
      /\ job' = [job EXCEPT ![w] = IF next = Idle THEN Idle ELSE [next EXCEPT !.spent = spent]]
      /\ UNCHANGED <<stored, tip, starts, ideal, race>>

Next ==
  \/ \E b \in DOMAIN Mined : Download(b) \/ \E w \in Workers : StoreNewBlock(w, b)
  \/ \E w \in Workers :
       \/ ReadSpent(w) \/ WriteBatch(w)
       \/ StartReIndex(w) \/ DeleteAll(w) \/ ReadTip(w) \/ PutTxn(w)

Spec == Init /\ [][Next]_vars

-----------------------------------------------------------------------------
JobOK(j) ==
  /\ DOMAIN j = DOMAIN Idle
  /\ j.pc \in {"idle", "read", "write", "delete", "tip", "walk"}
  /\ j.blk \in 0..Len(Mined) /\ j.i \in Nat
  /\ j.pc \in {"read", "write", "walk"} => j.blk \in stored /\ j.i \in DOMAIN Mined[j.blk].txs
  /\ DOMAIN j.seen \subseteq Tx /\ \A x \in DOMAIN j.seen : j.seen[x] \subseteq 0..Size[x] - 1
  /\ j.spent \subseteq Outpoint

TypeOK ==
  /\ stored \subseteq DOMAIN Mined
  /\ tip \in stored
  /\ DOMAIN utxo \subseteq Tx /\ \A t \in DOMAIN utxo : utxo[t] \subseteq 0..Size[t] - 1
  /\ DOMAIN job = Workers /\ \A w \in Workers : JobOK(job[w])
  /\ starts \in 0..MaxStarts
  /\ ideal \subseteq Outpoint
  /\ race \in {"none", "same", "cross"}

\* Calls that did not get in each other's way had the effect of single
\* steps: blocks applied one after another or touching different entries,
\* and a re-indexing, whatever the set was before it, also when a
\* transaction was mined again after its outputs had been spent.
AsIfAtomic == Running = {} /\ race = "none" => Listed = ideal

\* Two applications that take outputs of one transaction at the same time
\* can bring a spent output back, but they lose no unspent one: that takes
\* a block that spends what the other creates, or a re-indexing.
NoOutputLost == Running = {} /\ race # "cross" => ideal \subseteq Listed
=============================================================================
