-------------------------- MODULE UtxoStoreProofs --------------------------
(* That the UTXO set is what single steps would have made of it, for any   *)
(* blocks, any number of goroutines and any number of calls.               *)
EXTENDS UtxoStore, DataLemmas, TLAPS

-----------------------------------------------------------------------------
(* Types.                                                                  *)

\* Entries as read, or the keys an iterator saw.
Entries == UNION {[D -> SUBSET Nat] : D \in SUBSET Tx}

Job == [pc : {"idle", "read", "write", "delete", "tip", "walk"},
        blk : 0..Len(Mined), i : Nat, seen : Entries, spent : SUBSET Outpoint]

Txns(b) == Mined[b].txs

\* A call: where it is in the blocks, and what it remembers.
JobInv(j) ==
  /\ j \in Job
  /\ j.pc \in {"read", "write", "walk"} => j.blk \in stored /\ j.i \in DOMAIN Txns(j.blk)
  /\ \A x \in DOMAIN j.seen : j.seen[x] \subseteq 0..Size[x] - 1
  /\ j.pc = "idle" => j = Idle
  /\ j.pc # "walk" => j.spent = {}
  /\ j.pc = "write" => DOMAIN j.seen = SpentBy(Txns(j.blk)[j.i])

EntriesOK == DOMAIN utxo \subseteq Tx /\ \A t \in DOMAIN utxo : utxo[t] \subseteq 0..Size[t] - 1

\* Stronger than TypeOK, and kept by every step.  Blocks are stored with
\* their parents.
Types ==
  /\ stored \subseteq DOMAIN Mined /\ tip \in stored
  /\ \A b \in stored : Mined[b].prev \in stored \cup {NoHash}
  /\ EntriesOK
  /\ job \in [Workers -> Job] /\ \A w \in Workers : JobInv(job[w])
  /\ starts \in 0..MaxStarts /\ ideal \subseteq Outpoint /\ race \in {"none", "same", "cross"}

LEMMA Typed == Types => TypeOK
<1> SUFFICES ASSUME Types, NEW w \in Workers PROVE JobOK(job[w])
  BY DEF Types, TypeOK, EntriesOK
<1> DEFINE j == job[w]
<1>1. j \in Job /\ JobInv(j)
  BY DEF Types
<1>2. DOMAIN j = DOMAIN Idle
  BY <1>1 DEF Job, Idle
<1>3. DOMAIN j.seen \subseteq Tx
  BY <1>1 DEF Job, Entries
<1> QED BY <1>1, <1>2, <1>3 DEF JobInv, JobOK, Job, Txns

\* Blocks have transactions, and come after their parents.
LEMMA Block ==
  ASSUME NEW b \in DOMAIN Mined
  PROVE  /\ b \in 1..Len(Mined) /\ b \in Nat /\ b # NoHash
         /\ Mined[b].prev \in Nat /\ Mined[b].prev < b
         /\ Txns(b) \in Seq(Tx) /\ Len(Txns(b)) \in Nat /\ DOMAIN Txns(b) = 1..Len(Txns(b))
         /\ 1 \in DOMAIN Txns(b) /\ TxnsOf(b) = {Txns(b)[k] : k \in DOMAIN Txns(b)}
         /\ \A k \in DOMAIN Txns(b) : Txns(b)[k] \in Tx
<1>1. Mined \in Seq([prev : Nat, txs : Seq(Tx)]) /\ Mined[b].prev < b /\ Mined[b].txs # <<>>
  BY UtxoStoreAssumption
<1>2. Mined[b] \in [prev : Nat, txs : Seq(Tx)]
  <2> DEFINE B == [prev : Nat, txs : Seq(Tx)]
  <2>1. Mined \in Seq(B)
    BY <1>1
  <2> HIDE DEF B
  <2>2. Mined[b] \in B
    BY <2>1
  <2> QED BY <2>2 DEF B
<1> QED BY <1>1, <1>2 DEF NoHash, Txns, TxnsOf, ToSet

\* What a transaction spends are outpoints of transactions.
LEMMA Txn ==
  ASSUME NEW t \in Tx
  PROVE  /\ Size[t] \in Nat /\ Ins[t] \subseteq Outpoint /\ SpentBy(t) \subseteq Tx
         /\ Outputs(t) \subseteq Outpoint
         /\ \A k : <<t, k>> \in Outputs(t) <=> k \in 0..Size[t] - 1
<1>1. Size[t] \in Nat /\ Ins[t] \subseteq Outpoint
  BY UtxoStoreAssumption
<1> QED BY <1>1 DEF SpentBy, Outputs, Outpoint

LEMMA IdleInv == Idle \in Job /\ JobInv(Idle)
<1>1. <<>> \in Entries
  <2>1. <<>> \in [{} -> SUBSET Nat]
    OBVIOUS
  <2> QED BY <2>1 DEF Entries
<1>2. Len(Mined) \in Nat
  BY UtxoStoreAssumption
<1> QED BY <1>1, <1>2 DEF Idle, Job, JobInv, NoHash

LEMMA InitTypes == Init => Types
<1> SUFFICES ASSUME Init PROVE Types
  OBVIOUS
<1>1. Genesis \in DOMAIN Mined /\ Mined[Genesis].prev = NoHash
  <2>1. Genesis \in DOMAIN Mined
    BY UtxoStoreAssumption
  <2>2. Mined[Genesis].prev \in Nat /\ Mined[Genesis].prev < 1
    BY <2>1, Block DEF Genesis
  <2> QED BY <2>1, <2>2 DEF NoHash
<1>2. EntriesOK
  BY <1>1, Block DEF Init, EntriesOK
<1>3. ideal \subseteq Outpoint
  BY <1>1, Block, Txn DEF Init
<1> QED BY <1>1, <1>2, <1>3, IdleInv, UtxoStoreAssumption DEF Init, Types

\* A call goes on: the other calls are where they were.
LEMMA OneJob ==
  ASSUME Types, NEW w \in Workers, NEW j, JobInv(j), job' = [job EXCEPT ![w] = j],
         stored \subseteq stored'
  PROVE  job' \in [Workers -> Job] /\ \A v \in Workers : JobInv(job[v])'
<1>1. j \in Job
  BY DEF JobInv
<1>2. job' \in [Workers -> Job]
  BY <1>1 DEF Types
<1>3. \A v \in Workers : JobInv(job'[v])
  BY DEF Types
<1>4. \A k : JobInv(k) => JobInv(k)'
  BY DEF JobInv
<1>5. ASSUME NEW v \in Workers PROVE JobInv(job[v])'
  <2>1. PICK k : k = job'[v]
    OBVIOUS
  <2>2. JobInv(k)'
    BY <1>3, <1>4, <2>1
  <2> QED BY <2>1, <2>2 DEF JobInv
<1> QED BY <1>2, <1>5

\* The call a worker is at.
LEMMA JobIs ==
  ASSUME Types, NEW w \in Workers
  PROVE  /\ JobInv(job[w]) /\ job[w] \in Job
         /\ job[w].pc \in {"read", "write", "walk"} =>
              /\ job[w].blk \in stored /\ job[w].blk \in DOMAIN Mined
              /\ job[w].i \in DOMAIN Txns(job[w].blk) /\ Txns(job[w].blk)[job[w].i] \in Tx
BY Block DEF Types, JobInv

(* What the transactions of block b from the i-th on spend, and create     *)
(* without spending it.                                                    *)
Spends(b, i, o)  == \E k \in i..Len(Txns(b)) : o \in Ins[Txns(b)[k]]
Creates(b, i, o) ==
  \E m \in i..Len(Txns(b)) : o \in Outputs(Txns(b)[m]) /\ ~Spends(b, m + 1, o)

LEMMA Updated ==
  ASSUME NEW b \in DOMAIN Mined, NEW set \in SUBSET Outpoint
  PROVE  /\ UpdatedWithBlock(set, b) \subseteq Outpoint
         /\ \A o : o \in UpdatedWithBlock(set, b)
                     <=> Creates(b, 1, o) \/ (o \in set /\ ~Spends(b, 1, o))
<1>1. \A o : o \in UpdatedWithBlock(set, b)
               <=> Creates(b, 1, o) \/ (o \in set /\ ~Spends(b, 1, o))
  <2>1. DOMAIN Txns(b) = 1..Len(Txns(b))
    BY Block
  <2> QED BY <2>1 DEF UpdatedWithBlock, Creates, Spends, Txns
<1>2. \A o : Creates(b, 1, o) => o \in Outpoint
  BY Block, Txn DEF Creates
<1> QED BY <1>1, <1>2

LEMMA StoreNewBlockTypes ==
  ASSUME Types, NEW w \in Workers, NEW b \in DOMAIN Mined, StoreNewBlock(w, b)
  PROVE  Types'
<1> DEFINE j == [Idle EXCEPT !.pc = "read", !.blk = b, !.i = 1]
<1>1. /\ Mined[b].prev \in stored /\ stored' = stored \cup {b} /\ tip' = b
      /\ starts < MaxStarts /\ starts' = starts + 1 /\ job' = [job EXCEPT ![w] = j]
      /\ ideal' = UpdatedWithBlock(ideal, b) /\ race' = Worse(race, Overlap(b)) /\ utxo' = utxo
  BY DEF StoreNewBlock, Begin
<1>2. JobInv(j)'
  <2>1. j \in Job /\ j.pc = "read" /\ j.blk = b /\ j.i = 1 /\ j.seen = <<>> /\ j.spent = {}
    <3>1. Idle \in Job /\ Idle.seen = <<>> /\ Idle.spent = {}
      BY IdleInv DEF Idle
    <3>2. b \in 0..Len(Mined)
      BY Block
    <3>3. j \in Job
      BY <3>1, <3>2 DEF Job
    <3>4. j.pc = "read" /\ j.blk = b /\ j.i = 1 /\ j.seen = Idle.seen /\ j.spent = Idle.spent
      BY <3>1 DEF Job
    <3> QED BY <3>1, <3>3, <3>4
  <2> HIDE DEF j
  <2> QED BY <1>1, <2>1, Block DEF JobInv
<1>3. job' \in [Workers -> Job] /\ \A v \in Workers : JobInv(job[v])'
  <2>1. j \in Job
    BY <1>2 DEF JobInv
  <2> HIDE DEF j
  <2>2. job' \in [Workers -> Job]
    BY <1>1, <2>1 DEF Types
  <2>3. ASSUME NEW v \in Workers PROVE JobInv(job[v])'
    <3>1. CASE v = w
      <4>1. job'[v] = j
        BY <1>1, <3>1 DEF Types
      <4> QED BY <1>2, <4>1 DEF JobInv
    <3>2. CASE v # w
      <4>1. job'[v] = job[v] /\ JobInv(job[v])
        BY <1>1, <3>2 DEF Types
      <4> QED BY <1>1, <4>1 DEF JobInv
    <3> QED BY <3>1, <3>2
  <2> QED BY <2>2, <2>3
<1>4. ideal' \subseteq Outpoint
  BY <1>1, Updated DEF Types
<1>5. race' \in {"none", "same", "cross"}
  BY <1>1 DEF Types, Worse, Overlap
<1>6. starts' \in 0..MaxStarts
  <2>1. starts < MaxStarts /\ starts' = starts + 1 /\ starts \in 0..MaxStarts /\ MaxStarts \in Nat
    BY <1>1, UtxoStoreAssumption DEF Types
  <2> QED BY ONLY <2>1
<1> QED BY <1>1, <1>3, <1>4, <1>5, <1>6 DEF Types, EntriesOK

LEMMA DownloadTypes ==
  ASSUME Types, NEW b \in DOMAIN Mined, Download(b)
  PROVE  Types'
<1>1. \A v \in Workers : JobInv(job[v])'
  BY DEF Download, Types, JobInv
<1> QED BY <1>1 DEF Download, Types, EntriesOK

LEMMA ReadSpentTypes ==
  ASSUME Types, NEW w \in Workers, ReadSpent(w)
  PROVE  Types'
<1> DEFINE t == Txns(job[w].blk)[job[w].i]
           seen == [x \in SpentBy(t) |-> IF x \in DOMAIN utxo THEN utxo[x] ELSE {}]
           j == [job[w] EXCEPT !.pc = "write", !.seen = seen]
<1>1. /\ job[w].pc = "read" /\ UNCHANGED <<stored, tip, utxo, starts, ideal, race>>
      /\ job' = [job EXCEPT ![w].pc = "write", ![w].seen = seen]
  BY DEF ReadSpent, Txns
<1>2. job' = [job EXCEPT ![w] = j]
  BY <1>1 DEF Types
<1>3. t \in Tx /\ SpentBy(t) \subseteq Tx
  BY <1>1, JobIs, Txn
<1>4. seen \in Entries /\ \A x \in DOMAIN seen : seen[x] \subseteq 0..Size[x] - 1
  <2>1. \A x \in SpentBy(t) : seen[x] \subseteq 0..Size[x] - 1 /\ seen[x] \in SUBSET Nat
    BY <1>3, Txn DEF Types, EntriesOK
  <2>2. seen \in [SpentBy(t) -> SUBSET Nat]
    BY <2>1
  <2> HIDE DEF seen
  <2> QED BY <1>3, <2>1, <2>2 DEF Entries
<1>5. JobInv(j)
  <2>1. j \in Job /\ j.pc = "write" /\ j.seen = seen /\ j.blk = job[w].blk /\ j.i = job[w].i /\ j.spent = job[w].spent
    BY <1>4, JobIs DEF Job
  <2>2. DOMAIN seen = SpentBy(Txns(j.blk)[j.i])
    BY <2>1
  <2> HIDE DEF j, seen, t
  <2> QED BY <1>1, <1>4, <2>1, <2>2, JobIs DEF JobInv
<1> HIDE DEF j
<1> QED BY <1>1, <1>2, <1>5, OneJob DEF Types, EntriesOK

\* After a transaction, the call reads for the next one of its block or ends.
LEMMA AfterTxnIs ==
  ASSUME Types, NEW w \in Workers, job[w].pc = "write"
  PROVE  LET j == AfterTxn(job[w])
         IN  /\ JobInv(j)
             /\ job[w].i = Len(Txns(job[w].blk)) => j = Idle
             /\ job[w].i # Len(Txns(job[w].blk)) =>
                  j.pc = "read" /\ j.blk = job[w].blk /\ j.i = job[w].i + 1
<1> DEFINE j == AfterTxn(job[w])
           n == [job[w] EXCEPT !.pc = "read", !.i = @ + 1, !.seen = <<>>]
<1>1. job[w] \in Job /\ JobInv(job[w]) /\ job[w].blk \in stored /\ job[w].blk \in DOMAIN Mined
  BY JobIs
<1>2. /\ Len(Txns(job[w].blk)) \in Nat /\ DOMAIN Txns(job[w].blk) = 1..Len(Txns(job[w].blk))
      /\ job[w].i \in 1..Len(Txns(job[w].blk))
  BY <1>1, Block, JobIs
<1>3. <<>> \in Entries /\ <<>> = [x \in {} |-> {}]
  BY IdleInv DEF Job, Idle
<1>4. /\ n \in Job /\ n.pc = "read" /\ n.blk = job[w].blk /\ n.i = job[w].i + 1
      /\ n.seen = <<>> /\ n.spent = job[w].spent
  <2> DEFINE none == <<>>
             m == [job[w] EXCEPT !.pc = "read", !.i = @ + 1, !.seen = none]
  <2>1. none \in Entries
    BY <1>3
  <2> HIDE DEF none
  <2>2. m.pc = "read" /\ m.blk = job[w].blk /\ m.i = job[w].i + 1 /\ m.seen = none /\ m.spent = job[w].spent
    BY <1>1 DEF Job
  <2>3. job[w].i + 1 \in Nat
    BY <1>2
  <2>4. m \in Job
    BY <1>1, <2>1, <2>3 DEF Job
  <2> QED BY <2>2, <2>4 DEF none
<1>5. job[w].i # Len(Txns(job[w].blk)) => JobInv(n)
  <2>1. job[w].i # Len(Txns(job[w].blk)) => job[w].i + 1 \in DOMAIN Txns(job[w].blk)
    BY <1>2
  <2> HIDE DEF n
  <2> QED BY <1>1, <1>4, <2>1 DEF JobInv
<1>6. j = IF job[w].i = Len(Txns(job[w].blk)) THEN Idle ELSE n
  BY DEF AfterTxn, Txns
<1> HIDE DEF n, j
<1> QED BY <1>4, <1>5, <1>6, IdleInv DEF j

\* Database writes keep the entries sets of indices of outputs.
LEMMA PutEntries ==
  ASSUME NEW db, DOMAIN db \subseteq Tx, \A x \in DOMAIN db : db[x] \subseteq 0..Size[x] - 1,
         NEW more, DOMAIN more \subseteq Tx, \A x \in DOMAIN more : more[x] \subseteq 0..Size[x] - 1
  PROVE  DOMAIN Put(db, more) \subseteq Tx /\ \A x \in DOMAIN Put(db, more) : Put(db, more)[x] \subseteq 0..Size[x] - 1
BY DEF Put

LEMMA WriteBatchTypes ==
  ASSUME Types, NEW w \in Workers, WriteBatch(w)
  PROVE  Types'
<1> DEFINE t == Txns(job[w].blk)[job[w].i]
           left == [x \in SpentBy(t) |-> job[w].seen[x] \ IndicesIn(Ins[t], x)]
           keep == {x \in SpentBy(t) : left[x] # {}}
           own == [x \in {t} |-> 0..Size[t] - 1]
           kept == [x \in keep |-> left[x]]
<1>1. /\ job[w].pc = "write" /\ utxo' = Delete(Put(Put(utxo, own), kept), SpentBy(t) \ keep)
      /\ job' = [job EXCEPT ![w] = AfterTxn(job[w])]
      /\ UNCHANGED <<stored, tip, starts, ideal, race>>
  BY DEF WriteBatch, Txns
<1>2. t \in Tx /\ SpentBy(t) \subseteq Tx /\ DOMAIN job[w].seen = SpentBy(t)
      /\ \A x \in SpentBy(t) : job[w].seen[x] \subseteq 0..Size[x] - 1
  BY <1>1, JobIs, Txn DEF JobInv
<1>3. EntriesOK'
  <2>1. DOMAIN own \subseteq Tx /\ \A x \in DOMAIN own : own[x] \subseteq 0..Size[x] - 1
    BY <1>2
  <2>2. DOMAIN kept \subseteq Tx /\ \A x \in DOMAIN kept : kept[x] \subseteq 0..Size[x] - 1
    BY <1>2
  <2>3. DOMAIN utxo \subseteq Tx /\ \A x \in DOMAIN utxo : utxo[x] \subseteq 0..Size[x] - 1
    BY DEF Types, EntriesOK
  <2> HIDE DEF own, kept, keep
  <2> DEFINE a == Put(utxo, own)
             b == Put(a, kept)
  <2>4. DOMAIN a \subseteq Tx /\ \A x \in DOMAIN a : a[x] \subseteq 0..Size[x] - 1
    BY <2>1, <2>3, PutEntries
  <2> HIDE DEF a
  <2>5. DOMAIN b \subseteq Tx /\ \A x \in DOMAIN b : b[x] \subseteq 0..Size[x] - 1
    BY <2>2, <2>4, PutEntries
  <2>6. utxo' = Delete(b, SpentBy(t) \ keep)
    BY <1>1 DEF a
  <2> HIDE DEF b
  <2> QED BY <2>5, <2>6 DEF EntriesOK, Delete
<1>4. JobInv(AfterTxn(job[w]))
  BY <1>1, AfterTxnIs
<1> HIDE DEF own, kept
<1> QED BY <1>1, <1>3, <1>4, OneJob DEF Types

LEMMA StartReIndexTypes ==
  ASSUME Types, NEW w \in Workers, StartReIndex(w)
  PROVE  Types'
<1> DEFINE seen == [t \in DOMAIN utxo |-> {}]
           j == [Idle EXCEPT !.pc = "delete", !.seen = seen]
<1>1. /\ starts < MaxStarts /\ starts' = starts + 1 /\ job' = [job EXCEPT ![w] = j]
      /\ race' = IF Running = {} THEN "none" ELSE "cross"
      /\ UNCHANGED <<stored, tip, utxo, ideal>>
  BY DEF StartReIndex, Begin
<1>2. JobInv(j)
  <2>1. seen \in Entries /\ \A x \in DOMAIN seen : seen[x] \subseteq 0..Size[x] - 1
    <3>1. seen \in [DOMAIN utxo -> SUBSET Nat] /\ DOMAIN utxo \subseteq Tx
      BY DEF Types, EntriesOK
    <3> QED BY <3>1 DEF Entries
  <2>2. Idle \in Job /\ Idle.spent = {}
    BY IdleInv DEF Idle
  <2> HIDE DEF seen
  <2>3. j \in Job /\ j.pc = "delete" /\ j.seen = seen /\ j.spent = {}
    BY <2>1, <2>2 DEF Job
  <2> HIDE DEF j
  <2> QED BY <2>1, <2>3 DEF JobInv
<1>3. starts' \in 0..MaxStarts
  <2>1. starts < MaxStarts /\ starts' = starts + 1 /\ starts \in 0..MaxStarts /\ MaxStarts \in Nat
    BY <1>1, UtxoStoreAssumption DEF Types
  <2> QED BY ONLY <2>1
<1> HIDE DEF j
<1> QED BY <1>1, <1>2, <1>3, OneJob DEF Types, EntriesOK

LEMMA DeleteAllTypes ==
  ASSUME Types, NEW w \in Workers, DeleteAll(w)
  PROVE  Types'
<1> DEFINE j == [job[w] EXCEPT !.pc = "tip", !.seen = <<>>]
<1>1. /\ job[w].pc = "delete" /\ utxo' = Delete(utxo, DOMAIN job[w].seen)
      /\ job' = [job EXCEPT ![w].pc = "tip", ![w].seen = <<>>]
      /\ UNCHANGED <<stored, tip, starts, ideal, race>>
  BY DEF DeleteAll
<1>2. job' = [job EXCEPT ![w] = j]
  BY <1>1 DEF Types
<1>3. JobInv(j)
  <2>1. <<>> \in Entries /\ <<>> = [x \in {} |-> {}]
    BY IdleInv DEF Job, Idle
  <2>2. j \in Job /\ j.pc = "tip" /\ j.seen = <<>> /\ j.spent = job[w].spent
    BY <2>1, JobIs DEF Job
  <2> HIDE DEF j
  <2> QED BY <1>1, <2>1, <2>2, JobIs DEF JobInv
<1>4. EntriesOK'
  BY <1>1 DEF Types, EntriesOK, Delete
<1> HIDE DEF j
<1> QED BY <1>1, <1>2, <1>3, <1>4, OneJob DEF Types

\* The block the tip is, and where the walk begins.
LEMMA ReadTipIs ==
  ASSUME Types, NEW w \in Workers, ReadTip(w)
  PROVE  \E j : /\ JobInv(j) /\ j.pc = "walk" /\ j.blk = tip /\ j.i = 1 /\ j.spent = {}
                /\ job' = [job EXCEPT ![w] = j]
<1> DEFINE j == [job[w] EXCEPT !.pc = "walk", !.blk = tip, !.i = 1]
<1>1. job[w].pc = "tip" /\ job' = [job EXCEPT ![w].pc = "walk", ![w].blk = tip, ![w].i = 1]
  BY DEF ReadTip
<1>2. job' = [job EXCEPT ![w] = j]
  BY <1>1 DEF Types
<1>3. tip \in stored /\ tip \in 0..Len(Mined) /\ 1 \in DOMAIN Txns(tip)
  BY Block DEF Types
<1>4. /\ j \in Job /\ j.pc = "walk" /\ j.blk = tip /\ j.i = 1
      /\ j.seen = job[w].seen /\ j.spent = job[w].spent
  BY <1>3, JobIs DEF Job
<1>5. JobInv(j) /\ job[w].spent = {}
  <2> HIDE DEF j
  <2> QED BY <1>1, <1>3, <1>4, JobIs DEF JobInv
<1> HIDE DEF j
<1> QED BY <1>2, <1>4, <1>5

LEMMA ReadTipTypes ==
  ASSUME Types, NEW w \in Workers, ReadTip(w)
  PROVE  Types'
<1>1. PICK j : JobInv(j) /\ job' = [job EXCEPT ![w] = j]
  BY ReadTipIs
<1>2. ideal' = UnspentBelow(tip) /\ UNCHANGED <<stored, tip, utxo, starts, race>>
  BY DEF ReadTip
<1>3. UnspentBelow(tip) \subseteq Outpoint
  BY Block, Txn DEF UnspentBelow, Types
<1> QED BY <1>1, <1>2, <1>3, OneJob DEF Types, EntriesOK

\* The walk goes on with the next transaction, the previous block, or ends.
LEMMA PutTxnIs ==
  ASSUME Types, NEW w \in Workers, PutTxn(w)
  PROVE  LET b     == job[w].blk
             t     == Txns(b)[job[w].i]
             spent == job[w].spent \cup Ins[t]
             prev  == Mined[b].prev
         IN  /\ job[w].pc = "walk"
             /\ utxo' = Put(utxo, [x \in {t} |-> (0..Size[t] - 1) \ IndicesIn(spent, t)])
             /\ UNCHANGED <<stored, tip, starts, ideal, race>>
             /\ \E j : /\ JobInv(j) /\ job' = [job EXCEPT ![w] = j]
                       /\ \/ /\ job[w].i < Len(Txns(b))
                             /\ j.pc = "walk" /\ j.blk = b /\ j.i = job[w].i + 1 /\ j.spent = spent
                          \/ /\ job[w].i = Len(Txns(b)) /\ prev \in stored
                             /\ j.pc = "walk" /\ j.blk = prev /\ j.i = 1 /\ j.spent = spent
                          \/ job[w].i = Len(Txns(b)) /\ prev = NoHash /\ j = Idle
<1> DEFINE b == job[w].blk
           t == Txns(b)[job[w].i]
           spent == job[w].spent \cup Ins[t]
           prev == Mined[b].prev
           next == AfterPut(job[w])
           j == IF next = Idle THEN Idle ELSE [next EXCEPT !.spent = spent]
<1>1. /\ job[w].pc = "walk"
      /\ utxo' = Put(utxo, [x \in {t} |-> (0..Size[t] - 1) \ IndicesIn(spent, t)])
      /\ UNCHANGED <<stored, tip, starts, ideal, race>>
      /\ job' = [job EXCEPT ![w] = j]
  BY DEF PutTxn, Txns
<1>2. /\ job[w] \in Job /\ JobInv(job[w]) /\ b \in stored /\ b \in DOMAIN Mined /\ t \in Tx
      /\ Len(Txns(b)) \in Nat /\ DOMAIN Txns(b) = 1..Len(Txns(b)) /\ job[w].i \in 1..Len(Txns(b))
      /\ prev \in stored \cup {NoHash}
  BY <1>1, JobIs, Block DEF Types
<1>3. spent \in SUBSET Outpoint
  BY <1>2, Txn DEF Job
<1>4. NoHash \notin stored
  BY Block DEF Types
<1>5. CASE job[w].i < Len(Txns(b))
  <2> DEFINE n == [job[w] EXCEPT !.i = @ + 1]
             m == [n EXCEPT !.spent = spent]
  <2>1. next = n
    BY <1>5 DEF AfterPut, Txns
  <2>2. n \in Job /\ n.pc = "walk" /\ n.blk = b /\ n.i = job[w].i + 1 /\ n.seen = job[w].seen
    BY <1>1, <1>2 DEF Job
  <2>3. n # Idle
    BY <2>2 DEF Idle
  <2> HIDE DEF n, spent
  <2>4. /\ m \in Job /\ m.pc = "walk" /\ m.blk = b /\ m.i = job[w].i + 1 /\ m.seen = job[w].seen
        /\ m.spent = spent
    BY <1>3, <2>2 DEF Job
  <2>5. j = m
    BY <2>1, <2>3
  <2>6. job[w].i + 1 \in DOMAIN Txns(b)
    BY <1>2, <1>5
  <2> HIDE DEF m, j, b
  <2>7. JobInv(j)
    BY <1>2, <2>4, <2>5, <2>6 DEF JobInv
  <2> QED BY <1>1, <1>5, <2>4, <2>5, <2>7 DEF b, spent
<1>6. CASE ~(job[w].i < Len(Txns(b))) /\ prev \in stored
  <2> DEFINE n == [job[w] EXCEPT !.blk = prev, !.i = 1]
             m == [n EXCEPT !.spent = spent]
  <2>0. prev \in DOMAIN Mined /\ 1 \in DOMAIN Txns(prev) /\ prev \in 0..Len(Mined)
    BY <1>6, Block DEF Types
  <2>1. next = n
    BY <1>6 DEF AfterPut, Txns
  <2>2. n \in Job /\ n.pc = "walk" /\ n.blk = prev /\ n.i = 1 /\ n.seen = job[w].seen
    BY <1>1, <1>2, <2>0 DEF Job
  <2>3. n # Idle
    BY <2>2 DEF Idle
  <2> HIDE DEF n, spent
  <2>4. /\ m \in Job /\ m.pc = "walk" /\ m.blk = prev /\ m.i = 1 /\ m.seen = job[w].seen
        /\ m.spent = spent
    BY <1>3, <2>2 DEF Job
  <2>5. j = m
    BY <2>1, <2>3
  <2>6. job[w].i = Len(Txns(b))
    BY <1>2, <1>6
  <2> HIDE DEF m, j, b, prev
  <2>7. JobInv(j)
    BY <1>2, <1>6, <2>0, <2>4, <2>5 DEF JobInv
  <2> QED BY <1>1, <1>6, <2>4, <2>5, <2>6, <2>7 DEF b, spent, prev
<1>7. CASE ~(job[w].i < Len(Txns(b))) /\ prev \notin stored
  <2>1. next = Idle
    BY <1>7 DEF AfterPut, Txns
  <2>2. job[w].i = Len(Txns(b)) /\ prev = NoHash
    BY <1>2, <1>7
  <2> QED BY <1>1, <2>1, <2>2, IdleInv
<1> QED BY <1>5, <1>6, <1>7

LEMMA PutTxnTypes ==
  ASSUME Types, NEW w \in Workers, PutTxn(w)
  PROVE  Types'
<1> DEFINE t == Txns(job[w].blk)[job[w].i]
           entry == [x \in {t} |-> (0..Size[t] - 1) \ IndicesIn(job[w].spent \cup Ins[t], t)]
<1>1. PICK j : JobInv(j) /\ job' = [job EXCEPT ![w] = j]
  BY PutTxnIs
<1>2. utxo' = Put(utxo, entry) /\ UNCHANGED <<stored, tip, starts, ideal, race>> /\ t \in Tx
  BY PutTxnIs, JobIs
<1>3. DOMAIN entry \subseteq Tx /\ \A x \in DOMAIN entry : entry[x] \subseteq 0..Size[x] - 1
  BY <1>2
<1>4. EntriesOK'
  <2> HIDE DEF entry
  <2>1. DOMAIN Put(utxo, entry) \subseteq Tx
        /\ \A x \in DOMAIN Put(utxo, entry) : Put(utxo, entry)[x] \subseteq 0..Size[x] - 1
    BY <1>3, PutEntries DEF Types, EntriesOK
  <2> QED BY <1>2, <2>1 DEF EntriesOK
<1> HIDE DEF entry, t
<1> QED BY <1>1, <1>2, <1>4, OneJob DEF Types

LEMMA NextTypes == ASSUME Types, [Next]_vars PROVE Types'
<1>1. CASE UNCHANGED vars
  BY <1>1 DEF vars, Types, EntriesOK, JobInv
<1>2. CASE Next
  BY <1>2, StoreNewBlockTypes, DownloadTypes, ReadSpentTypes, WriteBatchTypes, StartReIndexTypes,
     DeleteAllTypes, ReadTipTypes, PutTxnTypes DEF Next
<1> QED BY <1>1, <1>2

LEMMA TypesAlways == Spec => []Types
<1>1. Types /\ [Next]_vars => Types'
  BY NextTypes
<1> QED BY <1>1, InitTypes, PTL DEF Spec

\* Calls stay within the blocks, and the entries list outputs that
\* transactions have.
THEOREM TypeCorrect == Spec => []TypeOK
BY TypesAlways, Typed, PTL

-----------------------------------------------------------------------------
(* What is listed.                                                         *)

Entry(x) == IF x \in DOMAIN utxo THEN utxo[x] ELSE {}

LEMMA ListedIs ==
  ASSUME Types
  PROVE  /\ Listed \subseteq Outpoint
         /\ \A x, k : <<x, k>> \in Listed <=> k \in Entry(x)
<1>1. \A x, k : <<x, k>> \in Listed <=> k \in Entry(x)
  BY DEF Listed, Entry
<1>2. ASSUME NEW o \in Listed PROVE o \in Outpoint
  <2>1. PICK x \in DOMAIN utxo : \E k \in utxo[x] : o = <<x, k>>
    BY <1>2 DEF Listed
  <2>2. x \in Tx /\ utxo[x] \subseteq Nat
    BY Txn DEF Types, EntriesOK
  <2> QED BY <2>1, <2>2 DEF Outpoint
<1> QED BY <1>1, <1>2

LEMMA Indices ==
  ASSUME NEW set \in SUBSET Outpoint, NEW x
  PROVE  \A k : k \in IndicesIn(set, x) <=> <<x, k>> \in set
BY DEF IndicesIn, Outpoint

\* An outpoint is its transaction and its index.
LEMMA OutpointIs == \A o \in Outpoint : o = <<o[1], o[2]>> /\ o[1] \in Tx /\ o[2] \in Nat
BY DEF Outpoint

LEMMA OutputsIs ==
  ASSUME NEW t \in Tx, NEW o \in Outputs(t)
  PROVE  o \in Outpoint /\ o[1] = t /\ o = <<o[1], o[2]>>
BY Txn, OutpointIs DEF Outputs

\* The blocks in the walk from a stored block.
LEMMA MinedParents ==
  /\ ParentsFirst(Mined, DOMAIN Mined)
  /\ Types => ParentsFirst(Mined, stored)
<1>1. Len(Mined) \in Nat /\ DOMAIN Mined = 1..Len(Mined)
  BY UtxoStoreAssumption
<1>2. \A b \in DOMAIN Mined : Mined[b].prev \in 0..(b - 1)
  BY Block
<1> QED BY <1>1, <1>2 DEF ParentsFirst, Types

\* No transaction spends its own outputs: it would spend from below itself
\* in the first block that holds it.
LEMMA NoSelfSpend ==
  ASSUME SpendsFromBelow, NEW b \in DOMAIN Mined, NEW t \in TxnsOf(b)
  PROVE  t \notin SpentBy(t)
<1> SUFFICES ASSUME t \in SpentBy(t) PROVE FALSE
  OBVIOUS
<1> DEFINE Holding == {c \in DOMAIN Mined : t \in TxnsOf(c)}
<1>1. Holding \in SUBSET Nat /\ b \in Holding
  BY Block
<1>2. PICK c \in Holding : \A d \in Holding : c <= d
  <2> HIDE DEF Holding
  <2> QED BY <1>1, LeastNumber
<1> DEFINE p == Mined[c].prev
<1>3. t \in TxnsBelow(c)
  BY <1>2 DEF SpendsFromBelow, SpentIn
<1>4. PICK d \in ToSet(ChainFrom(Mined, DOMAIN Mined, p)) : t \in TxnsOf(d)
  BY <1>3 DEF TxnsBelow
<1>5. p \in Nat /\ p < c /\ p \in 0..Len(Mined) /\ c \in Nat
  BY <1>2, Block
<1>6. ChainFrom(Mined, DOMAIN Mined, p) \in Seq(DOMAIN Mined \cap 1..p)
  BY <1>5, MinedParents, ChainBelow
<1>7. d \in DOMAIN Mined /\ d \in 1..p
  <2> DEFINE A == DOMAIN Mined \cap 1..p
             r == ChainFrom(Mined, DOMAIN Mined, p)
  <2>1. r \in Seq(A)
    BY <1>6
  <2>2. d \in ToSet(r)
    BY <1>4
  <2> HIDE DEF A, r
  <2>3. d \in A
    BY <2>1, <2>2 DEF ToSet
  <2> QED BY <2>3 DEF A
<1>8. d \in Holding
  BY <1>4, <1>7
<1> QED BY <1>2, <1>5, <1>7, <1>8

\* What the walk visits from a block down: that block's transactions and
\* those below.
LEMMA BelowIs ==
  ASSUME NEW b \in DOMAIN Mined
  PROVE  /\ Mined[b].prev = NoHash => TxnsBelow(b) = {}
         /\ Mined[b].prev \in DOMAIN Mined =>
              TxnsBelow(b) = TxnsOf(Mined[b].prev) \cup TxnsBelow(Mined[b].prev)
<1> DEFINE Chain(h) == ChainFrom(Mined, DOMAIN Mined, h)
           p == Mined[b].prev
<1>1. ASSUME p = NoHash PROVE TxnsBelow(b) = {}
  <2>1. NoHash \in 0..Len(Mined) /\ NoHash \notin DOMAIN Mined
    BY UtxoStoreAssumption, Block DEF NoHash
  <2>2. Chain(NoHash) = <<>>
    BY <2>1, MinedParents, ChainStep
  <2> QED BY <1>1, <2>2 DEF TxnsBelow, ToSet
<1>2. ASSUME p \in DOMAIN Mined PROVE TxnsBelow(b) = TxnsOf(p) \cup TxnsBelow(p)
  <2>1. ToSet(Chain(p)) = {p} \cup ToSet(Chain(Mined[p].prev))
    BY <1>2, MinedParents, ChainElements, Block
  <2> QED BY <2>1 DEF TxnsBelow
<1> QED BY <1>1, <1>2

\* What a re-indexing in one step leaves listed, transaction by transaction.
LEMMA UnspentBelowIs ==
  ASSUME Types
  PROVE  LET txs == TxnsOf(tip) \cup TxnsBelow(tip)
         IN  UnspentBelow(tip) = (UNION {Outputs(t) : t \in txs}) \ (UNION {Ins[t] : t \in txs})
<1> DEFINE Chain(d, h) == ChainFrom(Mined, d, h)
           p == Mined[tip].prev
           below == UNION {TxnsOf(c) : c \in stored \cap ToSet(Chain(stored, tip))}
<1>1. /\ tip \in stored /\ stored \subseteq DOMAIN Mined /\ DOMAIN Mined = 1..Len(Mined)
      /\ p \in stored \cup {0} /\ \A k \in stored : Mined[k].prev \in stored \cup {0}
  BY Block DEF Types, NoHash
<1>2. ToSet(Chain(stored, tip)) = {tip} \cup ToSet(Chain(stored, p))
  BY <1>1, MinedParents, ChainElements
<1>3. Chain(stored, p) = Chain(DOMAIN Mined, p)
  <2>1. stored \subseteq DOMAIN Mined \cap 1..Len(Mined)
    BY <1>1
  <2> HIDE DEF p
  <2> QED BY <1>1, <2>1, MinedParents, ChainOfStored
<1>4. ToSet(Chain(stored, tip)) \subseteq stored
  <2> DEFINE A == stored \cap 1..tip
             r == Chain(stored, tip)
  <2>1. r \in Seq(A)
    BY <1>1, MinedParents, ChainBelow
  <2>2. A \subseteq stored
    OBVIOUS
  <2> HIDE DEF A, r
  <2>3. ToSet(r) \subseteq A
    BY ONLY <2>1 DEF ToSet
  <2> QED BY <2>2, <2>3 DEF r
<1>5. below = TxnsOf(tip) \cup TxnsBelow(tip)
  <2>1. stored \cap ToSet(Chain(stored, tip)) = {tip} \cup ToSet(Chain(DOMAIN Mined, p))
    BY <1>2, <1>3, <1>4
  <2> QED BY <2>1 DEF TxnsBelow
<1>6. UnspentBelow(tip) = (UNION {Outputs(t) : t \in below}) \ (UNION {Ins[t] : t \in below})
  BY DEF UnspentBelow
<1> QED BY <1>5, <1>6

-----------------------------------------------------------------------------
(* Applications of blocks.                                                 *)

AllApply == \A w \in Running : Applying(w)

\* Applications that run together touch different entries, or ("same") at
\* least create nothing that another spends.
Apart ==
  race # "cross" /\ AllApply => \A v, w \in Running : v # w =>
    /\ SpentIn(job[v].blk) \cap TxnsOf(job[w].blk) = {}
    /\ race = "none" => SpentIn(job[v].blk) \cap SpentIn(job[w].blk) = {}

\* What the running calls are still to create, and to spend.
ToCreate(o) == \E w \in Running : Creates(job[w].blk, job[w].i, o)
ToSpend(o)  == \E w \in Running : Spends(job[w].blk, job[w].i, o)

\* Nothing of the ideal is lost: it is listed and nobody is about to spend
\* it, or it is still to be created.
Kept ==
  race # "cross" /\ AllApply =>
    \A o \in ideal : ToCreate(o) \/ (o \in Listed /\ ~ToSpend(o))

\* And where entries are not shared, nothing else is listed.
Exact ==
  race = "none" /\ AllApply =>
    \A o \in Outpoint : ToCreate(o) \/ (o \in Listed /\ ~ToSpend(o)) => o \in ideal

\* What a call has read is not missing anything of the ideal by the time it
\* writes, and where entries are not shared it is what is still there.
SeenKept ==
  race # "cross" /\ AllApply => \A w \in Running : job[w].pc = "write" =>
    \A o \in ideal :
      o[1] \in DOMAIN job[w].seen /\ ~ToCreate(o) => o[2] \in job[w].seen[o[1]]

SeenExact ==
  race = "none" /\ AllApply => \A w \in Running : job[w].pc = "write" =>
    \A x \in DOMAIN job[w].seen : job[w].seen[x] = Entry(x)

-----------------------------------------------------------------------------
(* Re-indexings.                                                           *)

\* A re-indexing that nothing overlaps with runs alone.
Alone == race # "cross" => \A w \in Running : ~Applying(w) => Running = {w}

\* The transactions the walk of call j has still to visit.
Rest(j) == {Txns(j.blk)[m] : m \in j.i..Len(Txns(j.blk))} \cup TxnsBelow(j.blk)

\* The ideal is what is listed and what is still to be put, less what was met
\* as spent and what the rest spends; and what is listed wrongly so far is
\* going to be put again.
WalkOK(j) ==
  /\ ideal = (Listed \cup (UNION {Outputs(t) : t \in Rest(j)}))
               \ (j.spent \cup (UNION {Ins[t] : t \in Rest(j)}))
  /\ \A o \in Listed \cap j.spent : o[1] \in Rest(j)

ReIndexOK ==
  race # "cross" => \A w \in Running :
    /\ job[w].pc = "delete" => DOMAIN utxo = DOMAIN job[w].seen
    /\ job[w].pc = "tip" => DOMAIN utxo = {}
    /\ job[w].pc = "walk" => WalkOK(job[w])

\* The inductive invariant.
IInv ==
  Types /\ Apart /\ Kept /\ Exact /\ SeenKept /\ SeenExact /\ Alone /\ ReIndexOK

LEMMA RunningIs ==
  ASSUME Types
  PROVE  /\ Running = {w \in Workers : job[w].pc # "idle"}
         /\ \A w \in Running : Applying(w) \/ job[w].pc \in {"delete", "tip", "walk"}
<1>1. \A w \in Workers : job[w] \in Job /\ (job[w].pc = "idle" => job[w] = Idle)
  BY DEF Types, JobInv
<1>2. Idle.pc = "idle"
  BY DEF Idle
<1> QED BY <1>1, <1>2 DEF Running, Applying, Job

\* When all is as at the start, nothing runs and the genesis block's outputs
\* are listed.
LEMMA InitIInv == Init => IInv
<1> SUFFICES ASSUME Init PROVE IInv
  OBVIOUS
<1>1. Types /\ Running = {}
  BY InitTypes DEF Init, Running
<1>2. Listed = ideal
  <2> DEFINE G == TxnsOf(Genesis)
  <2>1. G \subseteq Tx
    BY Block, UtxoStoreAssumption
  <2>2. utxo = [t \in G |-> 0..Size[t] - 1] /\ ideal = UNION {Outputs(t) : t \in G}
    BY DEF Init
  <2> HIDE DEF G
  <2>3. \A t \in G : {<<t, i>> : i \in utxo[t]} = Outputs(t)
    BY <2>2 DEF Outputs
  <2>4. DOMAIN utxo = G
    BY <2>2
  <2> QED BY <2>2, <2>3, <2>4 DEF Listed
<1> QED BY <1>1, <1>2 DEF IInv, Apart, Kept, Exact, SeenKept, SeenExact, Alone, ReIndexOK, ToCreate, ToSpend

\* A call that starts, or goes on, among the running ones.
LEMMA RunningStep ==
  ASSUME Types, Types', NEW w \in Workers, NEW j, job' = [job EXCEPT ![w] = j]
  PROVE  /\ job'[w] = j /\ \A v \in Workers : v # w => job'[v] = job[v]
         /\ Running' = IF j.pc = "idle" THEN Running \ {w} ELSE Running \cup {w}
<1>1. job'[w] = j /\ \A v \in Workers : v # w => job'[v] = job[v]
  BY DEF Types
<1>2. Running' = {v \in Workers : job'[v].pc # "idle"}
  <2>1. \A v \in Workers : job'[v].pc = "idle" => job'[v] = Idle
    BY DEF Types, JobInv
  <2>2. Idle.pc = "idle"
    BY DEF Idle
  <2> QED BY <2>1, <2>2 DEF Running
<1>3. Running = {v \in Workers : job[v].pc # "idle"}
  BY RunningIs
<1> QED BY <1>1, <1>2, <1>3

LEMMA OverlapIs ==
  ASSUME Types, NEW b \in DOMAIN Mined, Overlap(b) # "cross"
  PROVE  /\ AllApply
         /\ \A v \in Running : /\ SpentIn(b) \cap TxnsOf(job[v].blk) = {}
                               /\ TxnsOf(b) \cap SpentIn(job[v].blk) = {}
                               /\ Overlap(b) = "none" => SpentIn(b) \cap SpentIn(job[v].blk) = {}
BY DEF Overlap, AllApply

LEMMA WorseIs ==
  ASSUME NEW r \in {"none", "same", "cross"}, NEW t \in {"none", "same", "cross"}
  PROVE  /\ Worse(r, t) # "cross" => r # "cross" /\ t # "cross"
         /\ Worse(r, t) = "none" => r = "none" /\ t = "none"
BY DEF Worse

\* What a block's transactions spend and create are outpoints of transactions
\* it spends from, and of its own.
LEMMA BlockTouches ==
  ASSUME NEW b \in DOMAIN Mined, NEW i \in Nat, i # 0, NEW o
  PROVE  /\ Spends(b, i, o) => o \in Outpoint /\ o[1] \in SpentIn(b)
         /\ Creates(b, i, o) => o \in Outpoint /\ o[1] \in TxnsOf(b)
<1>1. \A k \in i..Len(Txns(b)) : Txns(b)[k] \in TxnsOf(b) /\ Txns(b)[k] \in Tx
  BY Block
<1>2. Spends(b, i, o) => o \in Outpoint /\ o[1] \in SpentIn(b)
  <2> SUFFICES ASSUME NEW k \in i..Len(Txns(b)), o \in Ins[Txns(b)[k]]
               PROVE  o \in Outpoint /\ o[1] \in SpentIn(b)
    BY DEF Spends
  <2>1. Txns(b)[k] \in TxnsOf(b) /\ Txns(b)[k] \in Tx
    BY <1>1
  <2> QED BY <2>1, Txn DEF SpentIn, SpentBy
<1>3. Creates(b, i, o) => o \in Outpoint /\ o[1] \in TxnsOf(b)
  <2> SUFFICES ASSUME NEW k \in i..Len(Txns(b)), o \in Outputs(Txns(b)[k])
               PROVE  o \in Outpoint /\ o[1] \in TxnsOf(b)
    BY DEF Creates
  <2> QED BY <1>1, OutputsIs
<1> QED BY <1>2, <1>3

\* From one transaction of a block to the next.
LEMMA Onward ==
  ASSUME NEW b \in DOMAIN Mined, NEW i \in DOMAIN Txns(b), NEW o
  PROVE  /\ Spends(b, i, o) <=> o \in Ins[Txns(b)[i]] \/ Spends(b, i + 1, o)
         /\ Creates(b, i, o) <=> \/ Creates(b, i + 1, o)
                                 \/ o \in Outputs(Txns(b)[i]) /\ ~Spends(b, i + 1, o)
         /\ i = Len(Txns(b)) => ~Spends(b, i + 1, o) /\ ~Creates(b, i + 1, o)
<1> DEFINE n == Len(Txns(b))
<1>1. n \in Nat /\ i \in 1..n
  BY Block
<1> HIDE DEF n
<1>2. i..n = {i} \cup ((i + 1)..n) /\ (i = n => (i + 1)..n = {})
  BY <1>1
<1> USE DEF n
<1>3. /\ Spends(b, i, o) <=> o \in Ins[Txns(b)[i]] \/ Spends(b, i + 1, o)
      /\ i = Len(Txns(b)) => ~Spends(b, i + 1, o)
  BY <1>2 DEF Spends
<1>4. /\ Creates(b, i, o) <=> \/ Creates(b, i + 1, o)
                              \/ o \in Outputs(Txns(b)[i]) /\ ~Spends(b, i + 1, o)
      /\ i = Len(Txns(b)) => ~Creates(b, i + 1, o)
  BY <1>2 DEF Creates
<1> QED BY <1>3, <1>4

\* The batch of a transaction: its own entry, the entries it spends from as
\* they were read, less what it spends, and no other.
LEMMA WriteBatchIs ==
  ASSUME SpendsFromBelow, Types, NEW w \in Workers, WriteBatch(w)
  PROVE  LET t == Txns(job[w].blk)[job[w].i]
         IN  /\ job[w].pc = "write" /\ UNCHANGED <<stored, tip, starts, ideal, race>>
             /\ job' = [job EXCEPT ![w] = AfterTxn(job[w])]
             /\ t \in Tx /\ DOMAIN job[w].seen = SpentBy(t) /\ t \notin SpentBy(t)
             /\ \A x : Entry(x)' = IF x = t THEN 0..Size[t] - 1
                                   ELSE IF x \in SpentBy(t) THEN job[w].seen[x] \ IndicesIn(Ins[t], x)
                                   ELSE Entry(x)
<1> DEFINE t == Txns(job[w].blk)[job[w].i]
           left == [x \in SpentBy(t) |-> job[w].seen[x] \ IndicesIn(Ins[t], x)]
           keep == {x \in SpentBy(t) : left[x] # {}}
           own == [x \in {t} |-> 0..Size[t] - 1]
           kept == [x \in keep |-> left[x]]
<1>1. /\ job[w].pc = "write" /\ utxo' = Delete(Put(Put(utxo, own), kept), SpentBy(t) \ keep)
      /\ job' = [job EXCEPT ![w] = AfterTxn(job[w])]
      /\ UNCHANGED <<stored, tip, starts, ideal, race>>
  BY DEF WriteBatch, Txns
<1>2. /\ job[w].blk \in DOMAIN Mined /\ t \in TxnsOf(job[w].blk) /\ t \in Tx
      /\ DOMAIN job[w].seen = SpentBy(t)
  <2>1. /\ job[w].blk \in DOMAIN Mined /\ job[w].i \in DOMAIN Txns(job[w].blk) /\ t \in Tx
        /\ DOMAIN job[w].seen = SpentBy(t)
    BY <1>1, JobIs DEF JobInv
  <2> QED BY <2>1, Block
<1>3. t \notin SpentBy(t)
  BY <1>2, NoSelfSpend
<1>4. ASSUME NEW x
      PROVE Entry(x)' = IF x = t THEN 0..Size[t] - 1
                        ELSE IF x \in SpentBy(t) THEN job[w].seen[x] \ IndicesIn(Ins[t], x)
                        ELSE Entry(x)
  <2> DEFINE a == Put(utxo, own)
             c == Put(a, kept)
  <2>1. DOMAIN own = {t} /\ own[t] = 0..Size[t] - 1
    OBVIOUS
  <2>2. DOMAIN kept = keep /\ \A y \in keep : kept[y] = left[y]
    OBVIOUS
  <2>3. \A y \in SpentBy(t) : left[y] = job[w].seen[y] \ IndicesIn(Ins[t], y)
    OBVIOUS
  <2>4. keep \subseteq SpentBy(t) /\ \A y \in SpentBy(t) \ keep : left[y] = {}
    OBVIOUS
  <2> HIDE DEF own, kept, keep, left, t
  <2>5. /\ x \in DOMAIN a <=> x = t \/ x \in DOMAIN utxo
        /\ x \in DOMAIN a => a[x] = IF x = t THEN 0..Size[t] - 1 ELSE utxo[x]
    BY <2>1 DEF Put
  <2> HIDE DEF a
  <2>6. /\ x \in DOMAIN c <=> x \in keep \/ x \in DOMAIN a
        /\ x \in DOMAIN c => c[x] = IF x \in keep THEN left[x] ELSE a[x]
    BY <2>2 DEF Put
  <2>7. utxo' = Delete(c, SpentBy(t) \ keep)
    BY <1>1 DEF a
  <2> HIDE DEF c
  <2>8. /\ x \in DOMAIN utxo' <=> x \in DOMAIN c /\ x \notin SpentBy(t) \ keep
        /\ x \in DOMAIN utxo' => utxo'[x] = c[x]
    BY <2>7 DEF Delete
  <2>9. Entry(x)' = IF x \in DOMAIN utxo' THEN utxo'[x] ELSE {}
    BY DEF Entry
  <2>10. Entry(x) = IF x \in DOMAIN utxo THEN utxo[x] ELSE {}
    BY DEF Entry
  <2> QED BY ONLY <1>3, <2>3, <2>4, <2>5, <2>6, <2>8, <2>9, <2>10
<1> HIDE DEF t, left, keep, own, kept
<1> QED BY <1>1, <1>2, <1>3, <1>4 DEF t

\* What is listed after it.
LEMMA ListedAfter ==
  ASSUME SpendsFromBelow, Types, Types', NEW w \in Workers, WriteBatch(w), NEW o \in Outpoint
  PROVE  LET t == Txns(job[w].blk)[job[w].i]
         IN  o \in Listed' <=>
               \/ o \in Outputs(t)
               \/ o[1] \in SpentBy(t) /\ o[2] \in job[w].seen[o[1]] /\ o \notin Ins[t]
               \/ o[1] # t /\ o[1] \notin SpentBy(t) /\ o \in Listed
<1> DEFINE t == Txns(job[w].blk)[job[w].i]
           x == o[1]
           k == o[2]
<1>1. o = <<x, k>> /\ x \in Tx /\ k \in Nat
  BY OutpointIs
<1>2. t \in Tx /\ t \notin SpentBy(t)
      /\ Entry(x)' = IF x = t THEN 0..Size[t] - 1
                     ELSE IF x \in SpentBy(t) THEN job[w].seen[x] \ IndicesIn(Ins[t], x)
                     ELSE Entry(x)
  BY WriteBatchIs
<1>3. o \in Listed <=> k \in Entry(x)
  <2> HIDE DEF x, k
  <2> QED BY <1>1, ListedIs
<1>4. o \in Listed' <=> k \in Entry(x)'
  <2>1. \A z, l : <<z, l>> \in Listed' <=> l \in Entry(z)'
    BY DEF Listed, Entry
  <2> HIDE DEF x, k
  <2> QED BY <1>1, <2>1
<1>5. o \in Ins[t] <=> k \in IndicesIn(Ins[t], x)
  <2>1. Ins[t] \in SUBSET Outpoint
    BY <1>2, Txn
  <2> HIDE DEF x, k
  <2> QED BY <1>1, <2>1, Indices
<1>6. o \in Outputs(t) <=> x = t /\ k \in 0..Size[t] - 1
  <2>1. o \in Outputs(t) <=> \E l \in 0..Size[t] - 1 : o = <<t, l>>
    BY DEF Outputs
  <2> HIDE DEF x, k
  <2> QED BY <1>1, <2>1
<1> HIDE DEF x, k, t
<1>7. o \in Listed' <=>
        \/ o \in Outputs(t)
        \/ x \in SpentBy(t) /\ k \in job[w].seen[x] /\ o \notin Ins[t]
        \/ x # t /\ x \notin SpentBy(t) /\ o \in Listed
  BY ONLY <1>2, <1>3, <1>4, <1>5, <1>6
<1> QED BY <1>7 DEF x, k, t

\* The others' share of what is still to come.
OthersCreate(w, o) == \E v \in Running \ {w} : Creates(job[v].blk, job[v].i, o)
OthersSpend(w, o)  == \E v \in Running \ {w} : Spends(job[v].blk, job[v].i, o)

\* A worker that writes a batch of a block goes on with the block's next
\* transaction or ends; either way what follows in it is still to come.
LEMMA AfterBatch ==
  ASSUME SpendsFromBelow, Types, Types', NEW w \in Workers, WriteBatch(w)
  PROVE  LET b == job[w].blk  i == job[w].i
         IN  /\ w \in Running /\ Running' \subseteq Running
             /\ b \in DOMAIN Mined /\ i \in DOMAIN Txns(b)
             /\ \A v \in Workers : v # w => job'[v] = job[v] /\ (v \in Running' <=> v \in Running)
             /\ w \in Running' => job'[w].pc = "read" /\ job'[w].blk = b
             /\ \A o : /\ ToCreate(o) <=> Creates(b, i, o) \/ OthersCreate(w, o)
                       /\ ToSpend(o) <=> Spends(b, i, o) \/ OthersSpend(w, o)
                       /\ ToCreate(o)' <=> Creates(b, i + 1, o) \/ OthersCreate(w, o)
                       /\ ToSpend(o)' <=> Spends(b, i + 1, o) \/ OthersSpend(w, o)
<1> DEFINE b == job[w].blk
           i == job[w].i
           j == AfterTxn(job[w])
<1>1. job[w].pc = "write" /\ job' = [job EXCEPT ![w] = j]
  BY WriteBatchIs
<1>2. b \in DOMAIN Mined /\ i \in DOMAIN Txns(b)
  BY <1>1, JobIs
<1>3. /\ i = Len(Txns(b)) => j = Idle
      /\ i # Len(Txns(b)) => j.pc = "read" /\ j.blk = b /\ j.i = i + 1
  BY <1>1, AfterTxnIs
<1>4. Idle.pc = "idle"
  BY DEF Idle
<1> HIDE DEF j
<1>5. /\ job'[w] = j /\ \A v \in Workers : v # w => job'[v] = job[v]
      /\ Running' = IF j.pc = "idle" THEN Running \ {w} ELSE Running \cup {w}
  BY <1>1, RunningStep
<1>6. w \in Running /\ Running \subseteq Workers
  BY <1>1, RunningIs
<1> HIDE DEF b, i
<1>7. \A o : /\ i = Len(Txns(b)) => ~Spends(b, i + 1, o) /\ ~Creates(b, i + 1, o)
  BY <1>2, Onward
<1>8. \A o : /\ ToCreate(o) <=> Creates(b, i, o) \/ OthersCreate(w, o)
             /\ ToSpend(o) <=> Spends(b, i, o) \/ OthersSpend(w, o)
  BY <1>6 DEF ToCreate, ToSpend, OthersCreate, OthersSpend, b, i
<1>9. ASSUME NEW o
      PROVE  /\ ToCreate(o)' <=> \E v \in Running' : Creates(job'[v].blk, job'[v].i, o)
             /\ ToSpend(o)' <=> \E v \in Running' : Spends(job'[v].blk, job'[v].i, o)
  BY DEF ToCreate, ToSpend, Creates, Spends, Txns
<1>10. \A o : /\ ToCreate(o)' <=> Creates(b, i + 1, o) \/ OthersCreate(w, o)
              /\ ToSpend(o)' <=> Spends(b, i + 1, o) \/ OthersSpend(w, o)
  <2>1. CASE i = Len(Txns(b))
    <3>1. Running' = Running \ {w}
      BY <1>3, <1>4, <1>5, <2>1
    <3> QED BY <1>5, <1>6, <1>7, <1>9, <2>1, <3>1 DEF OthersCreate, OthersSpend
  <2>2. CASE i # Len(Txns(b))
    <3>1. Running' = Running /\ job'[w].blk = b /\ job'[w].i = i + 1
      BY <1>3, <1>5, <1>6, <2>2
    <3> QED BY <1>5, <1>6, <1>9, <3>1 DEF OthersCreate, OthersSpend
  <2> QED BY <2>1, <2>2
<1>11. w \in Running' => job'[w].pc = "read" /\ job'[w].blk = b
  BY <1>3, <1>4, <1>5
<1>12. \A v \in Workers : v # w => (v \in Running' <=> v \in Running)
  BY <1>5
<1> QED BY <1>2, <1>5, <1>6, <1>8, <1>10, <1>11, <1>12 DEF b, i

\* A running application: its block, and what it can still touch.
LEMMA Application ==
  ASSUME Types, NEW v \in Running, Applying(v)
  PROVE  /\ v \in Workers /\ job[v].blk \in DOMAIN Mined
         /\ job[v].i \in DOMAIN Txns(job[v].blk)
         /\ Txns(job[v].blk)[job[v].i] \in TxnsOf(job[v].blk)
         /\ SpentBy(Txns(job[v].blk)[job[v].i]) \subseteq SpentIn(job[v].blk)
         /\ job[v].pc = "write" => DOMAIN job[v].seen \subseteq SpentIn(job[v].blk)
         /\ \A o : /\ Creates(job[v].blk, job[v].i, o) => o \in Outpoint /\ o[1] \in TxnsOf(job[v].blk)
                   /\ Spends(job[v].blk, job[v].i, o) => o[1] \in SpentIn(job[v].blk)
<1> DEFINE b == job[v].blk
           i == job[v].i
<1>1. v \in Workers /\ job[v].pc \in {"read", "write"}
  BY DEF Running, Applying
<1>2. b \in DOMAIN Mined /\ i \in DOMAIN Txns(b) /\ JobInv(job[v])
  BY <1>1, JobIs
<1>3. Txns(b)[i] \in TxnsOf(b) /\ i \in Nat /\ i # 0
  <2> HIDE DEF b, i
  <2> QED BY <1>2, Block
<1>4. SpentBy(Txns(b)[i]) \subseteq SpentIn(b)
  BY <1>3 DEF SpentIn
<1>5. job[v].pc = "write" => DOMAIN job[v].seen = SpentBy(Txns(b)[i])
  BY <1>2 DEF JobInv
<1>6. \A o : /\ Creates(b, i, o) => o \in Outpoint /\ o[1] \in TxnsOf(b)
             /\ Spends(b, i, o) => o[1] \in SpentIn(b)
  <2> HIDE DEF b, i
  <2> QED BY <1>2, <1>3, BlockTouches
<1> QED BY <1>1, <1>2, <1>3, <1>4, <1>5, <1>6

\* Applications that run together stay out of each other's way.
LEMMA WorkersApart ==
  ASSUME Types, Apart, race # "cross", AllApply, NEW v \in Running, NEW w \in Running, v # w
  PROVE  /\ SpentIn(job[v].blk) \cap TxnsOf(job[w].blk) = {}
         /\ SpentIn(job[w].blk) \cap TxnsOf(job[v].blk) = {}
         /\ race = "none" => SpentIn(job[v].blk) \cap SpentIn(job[w].blk) = {}
BY DEF Apart

LEMMA WriteBatchKeeps ==
  ASSUME SpendsFromBelow, IInv, Types', NEW w \in Workers, WriteBatch(w)
  PROVE  IInv'
<1> DEFINE b == job[w].blk
           i == job[w].i
           t == Txns(b)[i]
<1>1. Types /\ Apart /\ Kept /\ Exact /\ SeenKept /\ SeenExact /\ Alone
  BY DEF IInv
<1>2. /\ job[w].pc = "write" /\ UNCHANGED <<stored, tip, starts, ideal, race>> /\ t \in Tx
      /\ DOMAIN job[w].seen = SpentBy(t) /\ t \notin SpentBy(t)
  BY <1>1, WriteBatchIs
<1>3. /\ w \in Running /\ Running' \subseteq Running /\ b \in DOMAIN Mined /\ i \in DOMAIN Txns(b)
      /\ \A v \in Workers : v # w => job'[v] = job[v] /\ (v \in Running' <=> v \in Running)
      /\ w \in Running' => job'[w].pc = "read" /\ job'[w].blk = b
      /\ \A o : /\ ToCreate(o) <=> Creates(b, i, o) \/ OthersCreate(w, o)
                /\ ToSpend(o) <=> Spends(b, i, o) \/ OthersSpend(w, o)
                /\ ToCreate(o)' <=> Creates(b, i + 1, o) \/ OthersCreate(w, o)
                /\ ToSpend(o)' <=> Spends(b, i + 1, o) \/ OthersSpend(w, o)
  BY <1>1, AfterBatch
<1>4. \A o \in Outpoint :
        o \in Listed' <=>
          \/ o \in Outputs(t)
          \/ o[1] \in SpentBy(t) /\ o[2] \in job[w].seen[o[1]] /\ o \notin Ins[t]
          \/ o[1] # t /\ o[1] \notin SpentBy(t) /\ o \in Listed
  BY <1>1, ListedAfter
<1>5. Applying(w) /\ Running \subseteq Workers
  BY <1>2 DEF Applying, Running
<1>6. t \in TxnsOf(b) /\ SpentBy(t) \subseteq SpentIn(b)
  BY <1>1, <1>3, <1>5, Application
<1>7. \A o : /\ Spends(b, i, o) <=> o \in Ins[t] \/ Spends(b, i + 1, o)
             /\ Creates(b, i, o) <=> Creates(b, i + 1, o) \/ (o \in Outputs(t) /\ ~Spends(b, i + 1, o))
  <2> HIDE DEF b, i
  <2> QED BY <1>3, Onward
<1>8. AllApply' => AllApply
  BY <1>3, <1>5 DEF AllApply, Applying
<1>9. ASSUME race # "cross", AllApply, NEW v \in Running, v # w
      PROVE  /\ t \notin SpentIn(job[v].blk)
             /\ race = "none" => SpentBy(t) \cap SpentIn(job[v].blk) = {}
             /\ SpentBy(t) \cap TxnsOf(job[v].blk) = {}
  BY <1>1, <1>3, <1>6, <1>9, WorkersApart
<1>10. \A o \in Outputs(t) : o[1] = t /\ o \in Outpoint
  BY <1>2, OutputsIs
<1>11. \A o \in Ins[t] : o[1] \in SpentBy(t)
  BY DEF SpentBy
<1>12. race # "cross" => AllApply
  BY <1>1, <1>3, <1>5 DEF Alone, AllApply
<1>13. Apart'
  BY <1>1, <1>2, <1>3, <1>5, <1>8 DEF Apart
<1>14. Kept'
  <2> SUFFICES ASSUME race # "cross", AllApply, NEW o \in ideal, ~ToCreate(o)'
               PROVE  o \in Listed' /\ ~ToSpend(o)'
    BY <1>2, <1>8 DEF Kept
  <2>1. o \in Outpoint
    BY <1>1 DEF Types
  <2>2. CASE ToCreate(o)
    <3>1. o \in Outputs(t) /\ ~Spends(b, i + 1, o)
      BY <1>3, <1>7, <2>2
    <3>2. ~OthersSpend(w, o)
      <4> SUFFICES ASSUME NEW v \in Running \ {w}, Spends(job[v].blk, job[v].i, o)
                   PROVE  FALSE
        BY DEF OthersSpend
      <4>1. Applying(v)
        BY DEF AllApply
      <4>2. o[1] \in SpentIn(job[v].blk)
        BY <1>1, <4>1, Application
      <4> QED BY <1>9, <1>10, <3>1, <4>2
    <3> QED BY <1>3, <1>4, <2>1, <3>1, <3>2
  <2>3. CASE ~ToCreate(o)
    <3>1. o \in Listed /\ ~ToSpend(o)
      BY <1>1, <2>3 DEF Kept
    <3>2. o \notin Ins[t] /\ ~ToSpend(o)'
      BY <1>3, <1>7, <3>1
    <3>3. o[1] = t => o \in Outputs(t)
      <4>1. o = <<o[1], o[2]>> /\ o[2] \in Entry(o[1])
        BY <1>1, <2>1, <3>1, OutpointIs, ListedIs
      <4>2. Entry(t) \subseteq 0..Size[t] - 1
        BY <1>1 DEF Entry, Types, EntriesOK
      <4> HIDE DEF t
      <4> QED BY <4>1, <4>2 DEF Outputs
    <3>4. o[1] \in SpentBy(t) => o[2] \in job[w].seen[o[1]]
      BY <1>1, <1>2, <1>3, <2>3 DEF SeenKept
    <3> HIDE DEF t, b, i
    <3> QED BY <1>4, <2>1, <3>1, <3>2, <3>3, <3>4
  <2> QED BY <2>2, <2>3
<1>15. Exact'
  <2> SUFFICES ASSUME race = "none", AllApply, NEW o \in Outpoint,
                      ToCreate(o)' \/ (o \in Listed' /\ ~ToSpend(o)')
               PROVE  o \in ideal
    BY <1>2, <1>8 DEF Exact
  <2>1. ToCreate(o) \/ (o \in Listed /\ ~ToSpend(o)) => o \in ideal
    BY <1>1 DEF Exact
  <2>2. CASE ToCreate(o)'
    BY <1>3, <1>7, <2>1, <2>2
  <2>3. CASE o \in Listed' /\ ~ToSpend(o)' /\ o \in Outputs(t)
    BY <1>3, <1>7, <2>1, <2>3
  <2>4. CASE o \in Listed' /\ ~ToSpend(o)' /\ o \notin Outputs(t)
    <3>1. o \notin Ins[t]
      BY <1>4, <1>11, <2>4
    <3>2. ~ToSpend(o)
      BY <1>3, <1>7, <2>4, <3>1
    <3>3. o \in Listed
      <4>1. \A x \in SpentBy(t) : job[w].seen[x] = Entry(x)
        BY <1>1, <1>2, <1>3 DEF SeenExact
      <4>2. o = <<o[1], o[2]>>
        BY OutpointIs
      <4>3. o \in Listed <=> o[2] \in Entry(o[1])
        BY <1>1, <4>2, ListedIs
      <4> HIDE DEF t, b, i
      <4> QED BY <1>4, <2>4, <4>1, <4>3
    <3> QED BY <2>1, <3>2, <3>3
  <2> QED BY <2>2, <2>3, <2>4
<1>16. SeenKept'
  <2> SUFFICES ASSUME race # "cross", AllApply, NEW v \in Running', job'[v].pc = "write",
                      NEW o \in ideal, o[1] \in DOMAIN job'[v].seen, ~ToCreate(o)'
               PROVE  o[2] \in job'[v].seen[o[1]]
    BY <1>2, <1>8 DEF SeenKept
  <2>1. v # w /\ v \in Running /\ job'[v] = job[v]
    BY <1>3, <1>5
  <2>2. Applying(v) /\ o[1] \in SpentIn(job[v].blk)
    BY <1>1, <2>1, Application DEF AllApply
  <2>3. ~ToCreate(o)
    BY <1>3, <1>7, <1>9, <1>10, <2>1, <2>2
  <2> QED BY <1>1, <2>1, <2>3 DEF SeenKept
<1>17. SeenExact'
  <2> SUFFICES ASSUME race = "none", AllApply, NEW v \in Running', job'[v].pc = "write",
                      NEW x \in DOMAIN job'[v].seen
               PROVE  job'[v].seen[x] = Entry(x)'
    BY <1>2, <1>8 DEF SeenExact
  <2>1. v # w /\ v \in Running /\ job'[v] = job[v]
    BY <1>3, <1>5
  <2>2. Applying(v) /\ x \in SpentIn(job[v].blk)
    BY <1>1, <2>1, Application DEF AllApply
  <2>3. x # t /\ x \notin SpentBy(t)
    BY <1>9, <2>1, <2>2
  <2>4. Entry(x)' = Entry(x)
    BY <1>1, <2>3, WriteBatchIs
  <2> QED BY <1>1, <2>1, <2>4 DEF SeenExact
<1>18. race # "cross" => \A v \in Running' : Applying(v)' /\ job'[v].pc \in {"read", "write"}
  BY <1>3, <1>5, <1>12 DEF AllApply, Applying
<1>19. Alone' /\ ReIndexOK'
  <2>1. \A v \in Running' : race' # "cross" => Applying(v)' /\ job'[v].pc \in {"read", "write"}
    BY <1>2, <1>18
  <2>2. Alone'
    BY <2>1 DEF Alone
  <2>3. ReIndexOK'
    BY <2>1 DEF ReIndexOK
  <2> QED BY <2>2, <2>3
<1> QED BY <1>13, <1>14, <1>15, <1>16, <1>17, <1>19 DEF IInv

LEMMA StoreNewBlockKeeps ==
  ASSUME IInv, Types', NEW w \in Workers, NEW b \in DOMAIN Mined, StoreNewBlock(w, b)
  PROVE  IInv'
<1> DEFINE j == [Idle EXCEPT !.pc = "read", !.blk = b, !.i = 1]
<1>1. Types /\ Apart /\ Kept /\ Exact /\ SeenKept /\ SeenExact
  BY DEF IInv
<1>2. /\ job[w] = Idle /\ job' = [job EXCEPT ![w] = j] /\ utxo' = utxo
      /\ ideal' = UpdatedWithBlock(ideal, b) /\ race' = Worse(race, Overlap(b))
  BY DEF StoreNewBlock, Begin
<1>3. j.pc = "read" /\ j.blk = b /\ j.i = 1
  BY DEF Idle
<1> HIDE DEF j
<1>4. /\ w \notin Running /\ Running \subseteq Workers /\ Running' = Running \cup {w}
      /\ job'[w] = j /\ \A v \in Running : job'[v] = job[v]
  BY <1>1, <1>2, <1>3, RunningStep DEF Running
<1>5. ASSUME race' # "cross"
      PROVE  /\ race # "cross" /\ AllApply
             /\ \A v \in Running : /\ SpentIn(b) \cap TxnsOf(job[v].blk) = {}
                                   /\ TxnsOf(b) \cap SpentIn(job[v].blk) = {}
                                   /\ race' = "none" => SpentIn(b) \cap SpentIn(job[v].blk) = {}
             /\ race' = "none" => race = "none"
  <2>1. race \in {"none", "same", "cross"} /\ Overlap(b) \in {"none", "same", "cross"}
    BY <1>1 DEF Types, Overlap
  <2>2. Overlap(b) # "cross" /\ race # "cross"
        /\ (race' = "none" => race = "none" /\ Overlap(b) = "none")
    BY <1>2, <1>5, <2>1, WorseIs
  <2> QED BY <1>1, <2>2, OverlapIs
<1>6. ASSUME NEW o
      PROVE  /\ ToCreate(o)' <=> Creates(b, 1, o) \/ ToCreate(o)
             /\ ToSpend(o)' <=> Spends(b, 1, o) \/ ToSpend(o)
  <2>1. /\ ToCreate(o)' <=> \E v \in Running' : Creates(job'[v].blk, job'[v].i, o)
        /\ ToSpend(o)' <=> \E v \in Running' : Spends(job'[v].blk, job'[v].i, o)
    BY DEF ToCreate, ToSpend, Creates, Spends, Txns
  <2> QED BY <1>3, <1>4, <2>1 DEF ToCreate, ToSpend
<1>7. \A o : o \in ideal' <=> Creates(b, 1, o) \/ (o \in ideal /\ ~Spends(b, 1, o))
  BY <1>1, <1>2, Updated DEF Types
<1>8. Listed' = Listed /\ \A x : Entry(x)' = Entry(x)
  BY <1>2 DEF Listed, Entry
<1>9. \A v \in Running' : job'[v].pc = "write" => v \in Running /\ job'[v] = job[v]
  BY <1>3, <1>4
<1>10. Apart'
  <2> SUFFICES ASSUME race' # "cross", NEW u \in Running', NEW v \in Running', u # v
               PROVE  /\ SpentIn(job'[u].blk) \cap TxnsOf(job'[v].blk) = {}
                      /\ race' = "none" => SpentIn(job'[u].blk) \cap SpentIn(job'[v].blk) = {}
    BY DEF Apart
  <2>1. CASE u \in Running /\ v \in Running
    BY <1>1, <1>4, <1>5, <2>1, WorkersApart
  <2>2. CASE u = w /\ v \in Running
    BY <1>3, <1>4, <1>5, <2>2
  <2>3. CASE u \in Running /\ v = w
    BY <1>3, <1>4, <1>5, <2>3
  <2> QED BY <1>4, <2>1, <2>2, <2>3
<1>11. Kept'
  <2> SUFFICES ASSUME race' # "cross", NEW o \in ideal', ~ToCreate(o)'
               PROVE  o \in Listed' /\ ~ToSpend(o)'
    BY DEF Kept
  <2>1. o \in ideal /\ ~Spends(b, 1, o) /\ ~ToCreate(o)
    BY <1>6, <1>7
  <2>2. o \in Listed /\ ~ToSpend(o)
    BY <1>1, <1>5, <2>1 DEF Kept
  <2> QED BY <1>6, <1>8, <2>1, <2>2
<1>12. Exact'
  <2> SUFFICES ASSUME race' = "none", NEW o \in Outpoint,
                      ToCreate(o)' \/ (o \in Listed' /\ ~ToSpend(o)')
               PROVE  o \in ideal'
    BY DEF Exact
  <2>1. AllApply /\ race = "none"
    BY <1>5
  <2>2. CASE Creates(b, 1, o)
    BY <1>7, <2>2
  <2>3. CASE ToCreate(o)
    <3>1. PICK v \in Running : Creates(job[v].blk, job[v].i, o)
      BY <2>3 DEF ToCreate
    <3>2. o[1] \in TxnsOf(job[v].blk)
      BY <1>1, <2>1, <3>1, Application DEF AllApply
    <3>3. ~Spends(b, 1, o)
      BY <1>5, <3>2, BlockTouches
    <3>4. o \in ideal
      BY <1>1, <2>1, <2>3 DEF Exact
    <3> QED BY <1>7, <3>3, <3>4
  <2>4. CASE o \in Listed' /\ ~ToSpend(o)'
    <3>1. o \in ideal
      BY <1>1, <1>6, <1>8, <2>1, <2>4 DEF Exact
    <3> QED BY <1>6, <1>7, <2>4, <3>1
  <2> QED BY <1>6, <2>2, <2>3, <2>4
<1>13. SeenKept'
  <2> SUFFICES ASSUME race' # "cross", NEW v \in Running', job'[v].pc = "write",
                      NEW o \in ideal', o[1] \in DOMAIN job'[v].seen, ~ToCreate(o)'
               PROVE  o[2] \in job'[v].seen[o[1]]
    BY DEF SeenKept
  <2>1. v \in Running /\ job'[v] = job[v] /\ race # "cross" /\ AllApply
    BY <1>5, <1>9
  <2>2. o \in ideal /\ ~ToCreate(o)
    BY <1>6, <1>7
  <2> QED BY <1>1, <2>1, <2>2 DEF SeenKept
<1>14. SeenExact'
  <2> SUFFICES ASSUME race' = "none", NEW v \in Running', job'[v].pc = "write",
                      NEW x \in DOMAIN job'[v].seen
               PROVE  job'[v].seen[x] = Entry(x)'
    BY DEF SeenExact
  <2> QED BY <1>1, <1>5, <1>8, <1>9 DEF SeenExact
<1>15. race' # "cross" => \A v \in Running' : Applying(v)' /\ job'[v].pc \in {"read", "write"}
  BY <1>3, <1>4, <1>5 DEF AllApply, Applying
<1>16. Alone' /\ ReIndexOK'
  <2>1. Alone'
    BY <1>15 DEF Alone
  <2>2. ReIndexOK'
    BY <1>15 DEF ReIndexOK
  <2> QED BY <2>1, <2>2
<1> QED BY <1>10, <1>11, <1>12, <1>13, <1>14, <1>16 DEF IInv

LEMMA DownloadKeeps ==
  ASSUME IInv, Types', NEW b \in DOMAIN Mined, Download(b)
  PROVE  IInv'
<1>1. UNCHANGED <<utxo, job, starts, ideal, race>>
  BY DEF Download
<1>2. Running' = Running /\ Listed' = Listed /\ AllApply' = AllApply
  BY <1>1 DEF Running, Listed, AllApply, Applying
<1>3. \A o : (ToCreate(o)' <=> ToCreate(o)) /\ (ToSpend(o)' <=> ToSpend(o))
  BY <1>1, <1>2 DEF ToCreate, ToSpend, Creates, Spends, Txns
<1>4. Apart' /\ Kept' /\ Exact' /\ SeenKept' /\ SeenExact'
  BY <1>1, <1>2, <1>3 DEF IInv, Apart, Kept, Exact, SeenKept, SeenExact, Entry
<1>5. Alone' /\ ReIndexOK'
  BY <1>1, <1>2 DEF IInv, Alone, ReIndexOK, Applying, WalkOK, Rest, Txns, TxnsBelow
<1> QED BY <1>4, <1>5 DEF IInv

LEMMA ReadSpentKeeps ==
  ASSUME IInv, Types', NEW w \in Workers, ReadSpent(w)
  PROVE  IInv'
<1> DEFINE t == Txns(job[w].blk)[job[w].i]
           seen == [x \in SpentBy(t) |-> Entry(x)]
           j == [job[w] EXCEPT !.pc = "write", !.seen = seen]
<1>1. Types /\ Apart /\ Kept /\ Exact /\ SeenKept /\ SeenExact /\ Alone /\ ReIndexOK
  BY DEF IInv
<1>2. job[w].pc = "read" /\ UNCHANGED <<stored, tip, utxo, starts, ideal, race>>
      /\ job' = [job EXCEPT ![w].pc = "write", ![w].seen = seen]
  BY DEF ReadSpent, Txns, Entry
<1>3. job' = [job EXCEPT ![w] = j]
  BY <1>1, <1>2 DEF Types
<1>4. j.pc = "write" /\ j.seen = seen /\ j.blk = job[w].blk /\ j.i = job[w].i
  BY <1>1 DEF Types, Job
<1> HIDE DEF j
<1>5. w \in Running /\ Running \subseteq Workers
  BY <1>1, <1>2, RunningIs
<1>6. Running' = Running /\ job'[w] = j /\ \A v \in Running : v # w => job'[v] = job[v]
  <2>1. /\ job'[w] = j /\ \A v \in Workers : v # w => job'[v] = job[v]
        /\ Running' = IF j.pc = "idle" THEN Running \ {w} ELSE Running \cup {w}
    BY <1>1, <1>3, RunningStep
  <2>2. Running \cup {w} = Running /\ j.pc # "idle"
    BY <1>4, <1>5
  <2> QED BY <1>5, <2>1, <2>2
<1>7. \A v \in Running : job'[v].blk = job[v].blk /\ job'[v].i = job[v].i /\ (Applying(v)' <=> Applying(v))
  BY <1>2, <1>4, <1>6 DEF Applying
<1>8. \A o : (ToCreate(o)' <=> ToCreate(o)) /\ (ToSpend(o)' <=> ToSpend(o))
  BY <1>6, <1>7 DEF ToCreate, ToSpend, Creates, Spends, Txns
<1>9. Listed' = Listed /\ (\A x : Entry(x)' = Entry(x)) /\ AllApply' = AllApply
  BY <1>2, <1>6, <1>7 DEF Listed, Entry, AllApply
<1>10. Apart' /\ Kept' /\ Exact'
  <2>1. Apart'
    BY <1>1, <1>2, <1>6, <1>7, <1>9 DEF Apart
  <2>2. Kept' /\ Exact'
    BY <1>1, <1>2, <1>8, <1>9 DEF Kept, Exact
  <2> QED BY <2>1, <2>2
<1>11. SeenKept'
  <2> SUFFICES ASSUME race # "cross", AllApply, NEW v \in Running, job'[v].pc = "write",
                      NEW o \in ideal, o[1] \in DOMAIN job'[v].seen, ~ToCreate(o)
               PROVE  o[2] \in job'[v].seen[o[1]]
    BY <1>2, <1>6, <1>8, <1>9 DEF SeenKept
  <2>1. CASE v # w
    BY <1>1, <1>6, <2>1 DEF SeenKept
  <2>2. CASE v = w
    <3>1. o \in Listed /\ o \in Outpoint
      BY <1>1 DEF Kept, Types
    <3>2. o[2] \in Entry(o[1])
      BY <1>1, <3>1, OutpointIs, ListedIs
    <3> QED BY <1>4, <1>6, <2>2, <3>2
  <2> QED BY <2>1, <2>2
<1>12. SeenExact'
  <2> SUFFICES ASSUME race = "none", AllApply, NEW v \in Running, job'[v].pc = "write",
                      NEW x \in DOMAIN job'[v].seen
               PROVE  job'[v].seen[x] = Entry(x)
    BY <1>2, <1>6, <1>9 DEF SeenExact
  <2> QED BY <1>1, <1>4, <1>6 DEF SeenExact
<1>13. Alone'
  BY <1>1, <1>2, <1>6, <1>7 DEF Alone
<1>14. ReIndexOK'
  <2>1. race # "cross" => \A v \in Running : Applying(v)
    BY <1>1, <1>2, <1>5 DEF Alone, Applying
  <2>2. race' # "cross" => \A v \in Running' : job'[v].pc \in {"read", "write"}
    BY <1>2, <1>6, <1>7, <2>1 DEF Applying
  <2> QED BY <2>2 DEF ReIndexOK
<1> QED BY <1>10, <1>11, <1>12, <1>13, <1>14 DEF IInv

\* While a re-indexing runs, the facts on applications are not at issue.
LEMMA StartReIndexKeeps ==
  ASSUME IInv, Types', NEW w \in Workers, StartReIndex(w)
  PROVE  IInv'
<1> DEFINE seen == [t \in DOMAIN utxo |-> {}]
           j == [Idle EXCEPT !.pc = "delete", !.seen = seen]
<1>1. /\ job[w] = Idle /\ job' = [job EXCEPT ![w] = j]
      /\ race' = IF Running = {} THEN "none" ELSE "cross"
      /\ UNCHANGED <<stored, tip, utxo, ideal>>
  BY DEF StartReIndex, Begin
<1>2. j.pc = "delete" /\ j.seen = seen
  BY DEF Idle
<1>3. DOMAIN seen = DOMAIN utxo
  OBVIOUS
<1> HIDE DEF j, seen
<1>4. Running' = Running \cup {w} /\ job'[w] = j
  BY <1>1, <1>2, RunningStep DEF IInv
<1>5. ~Applying(w)' /\ w \in Running'
  BY <1>2, <1>4 DEF Applying
<1>6. Apart' /\ Kept' /\ Exact' /\ SeenKept' /\ SeenExact'
  BY <1>5 DEF AllApply, Apart, Kept, Exact, SeenKept, SeenExact
<1>7. race' # "cross" => Running' = {w}
  BY <1>1, <1>4
<1>8. Alone'
  BY <1>7 DEF Alone
<1>9. ReIndexOK'
  BY <1>1, <1>2, <1>3, <1>4, <1>7 DEF ReIndexOK
<1> QED BY <1>6, <1>8, <1>9 DEF IInv

LEMMA DeleteAllKeeps ==
  ASSUME IInv, Types', NEW w \in Workers, DeleteAll(w)
  PROVE  IInv'
<1> DEFINE none == <<>>
           j == [job[w] EXCEPT !.pc = "tip", !.seen = none]
<1>1. /\ job[w].pc = "delete" /\ utxo' = Delete(utxo, DOMAIN job[w].seen)
      /\ job' = [job EXCEPT ![w].pc = "tip", ![w].seen = none]
      /\ UNCHANGED <<stored, tip, starts, ideal, race>>
  BY DEF DeleteAll
<1>2. job' = [job EXCEPT ![w] = j] /\ j.pc = "tip"
  BY <1>1 DEF IInv, Types, Job
<1> HIDE DEF j
<1>3. w \in Running /\ ~Applying(w) /\ Types /\ Alone /\ ReIndexOK
  BY <1>1, RunningIs DEF IInv, Applying
<1>4. Running' = Running /\ job'[w] = j
  <2>1. job'[w] = j /\ Running' = IF j.pc = "idle" THEN Running \ {w} ELSE Running \cup {w}
    BY <1>2, <1>3, RunningStep
  <2>2. Running \cup {w} = Running /\ j.pc # "idle"
    BY <1>2, <1>3
  <2> QED BY <2>1, <2>2
<1>5. ~Applying(w)' /\ w \in Running'
  BY <1>2, <1>3, <1>4 DEF Applying
<1>6. Apart' /\ Kept' /\ Exact' /\ SeenKept' /\ SeenExact'
  BY <1>5 DEF AllApply, Apart, Kept, Exact, SeenKept, SeenExact
<1>7. race' # "cross" => Running' = {w} /\ DOMAIN utxo' = {}
  BY <1>1, <1>3, <1>4 DEF Alone, ReIndexOK, Delete
<1>8. Alone'
  BY <1>7 DEF Alone
<1>9. ReIndexOK'
  BY <1>2, <1>4, <1>7 DEF ReIndexOK
<1> QED BY <1>6, <1>8, <1>9 DEF IInv

LEMMA ReadTipKeeps ==
  ASSUME IInv, Types', NEW w \in Workers, ReadTip(w)
  PROVE  IInv'
<1>1. Types /\ Alone /\ ReIndexOK
  BY DEF IInv
<1>2. /\ job[w].pc = "tip" /\ ideal' = UnspentBelow(tip)
      /\ UNCHANGED <<stored, tip, utxo, starts, race>>
  BY DEF ReadTip
<1>3. PICK j : /\ j.pc = "walk" /\ j.blk = tip /\ j.i = 1 /\ j.spent = {}
               /\ job' = [job EXCEPT ![w] = j]
  BY <1>1, ReadTipIs
<1>4. w \in Running /\ ~Applying(w)
  BY <1>1, <1>2, RunningIs DEF Applying
<1>5. Running' = Running /\ job'[w] = j
  <2>1. job'[w] = j /\ Running' = IF j.pc = "idle" THEN Running \ {w} ELSE Running \cup {w}
    BY <1>1, <1>3, RunningStep
  <2>2. Running \cup {w} = Running /\ j.pc # "idle"
    BY <1>3, <1>4
  <2> QED BY <2>1, <2>2
<1>6. ~Applying(w)' /\ w \in Running'
  BY <1>3, <1>4, <1>5 DEF Applying
<1>7. Apart' /\ Kept' /\ Exact' /\ SeenKept' /\ SeenExact'
  BY <1>6 DEF AllApply, Apart, Kept, Exact, SeenKept, SeenExact
<1>8. race' # "cross" => Running' = {w} /\ DOMAIN utxo = {}
  BY <1>1, <1>2, <1>4, <1>5 DEF Alone, ReIndexOK
<1>9. Alone'
  BY <1>8 DEF Alone
<1>10. ASSUME DOMAIN utxo = {}
       PROVE  WalkOK(j)'
  <2>1. Listed' = {}
    BY <1>2, <1>10 DEF Listed
  <2>2. Rest(j) = TxnsOf(tip) \cup TxnsBelow(tip)
    BY <1>1, <1>3, Block DEF Rest, Types
  <2> DEFINE O == UNION {Outputs(t) : t \in Rest(j)}
             I == UNION {Ins[t] : t \in Rest(j)}
  <2>3. ideal' = O \ I
    BY <1>1, <1>2, <2>2, UnspentBelowIs
  <2>4. ideal' = (Listed' \cup O) \ (j.spent \cup I)
    <3> HIDE DEF O, I
    <3> QED BY <1>3, <2>1, <2>3
  <2>5. Rest(j)' = Rest(j)
    BY DEF Rest, Txns, TxnsBelow
  <2> QED BY <2>1, <2>4, <2>5 DEF WalkOK
<1>11. ReIndexOK'
  <2> SUFFICES ASSUME race' # "cross", NEW v \in Running'
               PROVE  /\ job'[v].pc # "delete" /\ job'[v].pc # "tip"
                      /\ WalkOK(job[v])'
    BY DEF ReIndexOK
  <2>1. job'[v] = j /\ DOMAIN utxo = {}
    BY <1>5, <1>8
  <2>2. WalkOK(j)'
    BY <1>10, <2>1
  <2> QED BY <1>3, <2>1, <2>2 DEF WalkOK, Rest
<1> QED BY <1>7, <1>9, <1>11 DEF IInv

\* A step of the walk settles transaction t: what it lists of t's outputs is
\* right unless transactions R, still to come, change it.
LEMMA Settled ==
  ASSUME Types, Types', NEW w \in Workers, PutTxn(w), WalkOK(job[w]),
         NEW R \in SUBSET Tx,
         Rest(job[w]) = {Txns(job[w].blk)[job[w].i]} \cup R,
         SpentBy(Txns(job[w].blk)[job[w].i]) \subseteq R
  PROVE  LET spent == job[w].spent \cup Ins[Txns(job[w].blk)[job[w].i]]
         IN  /\ ideal' = (Listed' \cup (UNION {Outputs(x) : x \in R}))
                           \ (spent \cup (UNION {Ins[x] : x \in R}))
             /\ \A o \in Listed' \cap spent : o[1] \in R
<1> DEFINE t == Txns(job[w].blk)[job[w].i]
           spent == job[w].spent \cup Ins[t]
           O == UNION {Outputs(x) : x \in R}
           I == UNION {Ins[x] : x \in R}
           entry == [x \in {t} |-> (0..Size[t] - 1) \ IndicesIn(spent, t)]
<1>1. /\ job[w].pc = "walk" /\ utxo' = Put(utxo, entry)
      /\ UNCHANGED <<stored, tip, starts, ideal, race>>
  BY PutTxnIs
<1>2. t \in Tx /\ job[w].spent \in SUBSET Outpoint
  BY <1>1, JobIs DEF Job
<1>3. spent \in SUBSET Outpoint /\ Ins[t] \subseteq Outpoint
  BY <1>2, Txn
<1>4. \A o \in Outpoint : o \in Listed' <=>
        (o \in Outputs(t) /\ o \notin spent) \/ (o[1] # t /\ o \in Listed)
  <2> TAKE o \in Outpoint
  <2> DEFINE x == o[1]
             k == o[2]
  <2>1. o = <<x, k>>
    BY OutpointIs
  <2>2. (o \in Listed' <=> k \in Entry(x)') /\ (o \in Listed <=> k \in Entry(x))
    <3>1. \A z, l : <<z, l>> \in Listed' <=> l \in Entry(z)'
      BY DEF Listed, Entry
    <3> HIDE DEF x, k
    <3> QED BY <2>1, <3>1, ListedIs
  <2>3. Entry(x)' = IF x = t THEN (0..Size[t] - 1) \ IndicesIn(spent, t) ELSE Entry(x)
    <3>1. DOMAIN entry = {t} /\ entry[t] = (0..Size[t] - 1) \ IndicesIn(spent, t)
      OBVIOUS
    <3> HIDE DEF entry, spent, t
    <3> QED BY <1>1, <3>1 DEF Entry, Put
  <2>4. x = t => (o \in spent <=> k \in IndicesIn(spent, t))
    <3> HIDE DEF x, k, spent, t
    <3> QED BY <1>3, <2>1, Indices
  <2>5. o \in Outputs(t) <=> x = t /\ k \in 0..Size[t] - 1
    <3>1. o \in Outputs(t) <=> \E l \in 0..Size[t] - 1 : o = <<t, l>>
      BY DEF Outputs
    <3> HIDE DEF x, k, t
    <3> QED BY <2>1, <3>1
  <2> HIDE DEF x, k, spent, t
  <2>6. o \in Listed' <=> (o \in Outputs(t) /\ o \notin spent) \/ (x # t /\ o \in Listed)
    BY ONLY <2>2, <2>3, <2>4, <2>5
  <2> QED BY <2>6 DEF x
<1>5. Listed \subseteq Outpoint /\ Listed' \subseteq Outpoint
  <2>1. Listed \subseteq Outpoint
    BY ListedIs
  <2>2. \A o \in Listed' : o \in Outpoint
    <3> TAKE o \in Listed'
    <3>1. PICK x \in DOMAIN utxo' : \E k \in utxo'[x] : o = <<x, k>>
      BY DEF Listed
    <3>2. x \in Tx /\ utxo'[x] \subseteq 0..Size[x] - 1 /\ Size[x] \in Nat
      BY Txn DEF Types, EntriesOK
    <3> QED BY <3>1, <3>2 DEF Outpoint
  <2> QED BY <2>1, <2>2
<1>6. \A o \in Listed : o[1] = t => o \in Outputs(t)
  <2> TAKE o \in Listed
  <2>1. o = <<o[1], o[2]>> /\ o[2] \in Entry(o[1])
    BY <1>5, OutpointIs, ListedIs
  <2>2. Entry(t) \subseteq 0..Size[t] - 1
    BY DEF Entry, Types, EntriesOK
  <2> HIDE DEF t
  <2> QED BY <2>1, <2>2 DEF Outputs
<1>7. /\ ideal = (Listed \cup Outputs(t) \cup O) \ (spent \cup I)
      /\ \A o \in Listed \cap job[w].spent : o[1] \in R \cup {t}
  <2>1. /\ UNION {Outputs(x) : x \in Rest(job[w])} = Outputs(t) \cup O
        /\ UNION {Ins[x] : x \in Rest(job[w])} = Ins[t] \cup I
    <3>1. Rest(job[w]) = {t} \cup R
      OBVIOUS
    <3> HIDE DEF t
    <3> QED BY <3>1
  <2>2. /\ ideal = (Listed \cup (UNION {Outputs(x) : x \in Rest(job[w])}))
                     \ (job[w].spent \cup (UNION {Ins[x] : x \in Rest(job[w])}))
        /\ \A o \in Listed \cap job[w].spent : o[1] \in Rest(job[w])
    BY DEF WalkOK
  <2>3. ideal = (Listed \cup (Outputs(t) \cup O)) \ (job[w].spent \cup (Ins[t] \cup I))
    BY <2>1, <2>2
  <2> HIDE DEF O, I
  <2> QED BY <2>2, <2>3
<1>8. \A o \in Outputs(t) : o \in Outpoint /\ o[1] = t
  BY <1>2, OutputsIs
<1>9. \A o \in Ins[t] : o[1] \in R
  BY DEF SpentBy
<1>10. ideal' = (Listed' \cup O) \ (spent \cup I)
  <2> HIDE DEF O, I, t
  <2>1. ideal' = (Listed \cup Outputs(t) \cup O) \ (spent \cup I)
    BY <1>1, <1>7
  <2>2. \A o : o \notin spent => (o \in Listed \cup Outputs(t) <=> o \in Listed')
    BY <1>4, <1>5, <1>6, <1>8
  <2> HIDE DEF spent
  <2> QED BY <2>1, <2>2
<1>11. \A o \in Listed' \cap spent : o[1] \in R
  <2> TAKE o \in Listed' \cap spent
  <2> HIDE DEF t
  <2>1. o[1] # t /\ o \in Listed
    BY <1>4, <1>5
  <2> QED BY <1>7, <1>9, <2>1
<1> HIDE DEF O, I, spent, t
<1> QED BY <1>10, <1>11 DEF O, I, spent, t

LEMMA PutTxnKeeps ==
  ASSUME SpendsFromBelow, IInv, Types', NEW w \in Workers, PutTxn(w)
  PROVE  IInv'
<1> DEFINE b == job[w].blk
           i == job[w].i
           t == Txns(b)[i]
           spent == job[w].spent \cup Ins[t]
           prev == Mined[b].prev
<1>1. Types /\ Alone /\ ReIndexOK
  BY DEF IInv
<1>2. /\ job[w].pc = "walk" /\ UNCHANGED <<stored, tip, starts, ideal, race>>
      /\ b \in DOMAIN Mined /\ i \in DOMAIN Txns(b)
  BY <1>1, PutTxnIs, JobIs
<1>3. CASE race = "cross"
  BY <1>2, <1>3 DEF IInv, Apart, Kept, Exact, SeenKept, SeenExact, Alone, ReIndexOK
<1>4. ASSUME race # "cross"
      PROVE  IInv'
  <2>1. Running = {w} /\ WalkOK(job[w])
    <3>1. w \in Running /\ ~Applying(w)
      BY <1>1, <1>2, RunningIs DEF Applying
    <3> QED BY <1>1, <1>2, <1>4, <3>1 DEF Alone, ReIndexOK
  <2>2. PICK j : /\ job' = [job EXCEPT ![w] = j]
                 /\ \/ /\ i < Len(Txns(b))
                       /\ j.pc = "walk" /\ j.blk = b /\ j.i = i + 1 /\ j.spent = spent
                    \/ /\ i = Len(Txns(b)) /\ prev \in stored
                       /\ j.pc = "walk" /\ j.blk = prev /\ j.i = 1 /\ j.spent = spent
                    \/ i = Len(Txns(b)) /\ prev = NoHash /\ j = Idle
    BY <1>1, PutTxnIs
  <2>3. job'[w] = j /\ Running' = IF j.pc = "idle" THEN Running \ {w} ELSE Running \cup {w}
    BY <1>1, <2>2, RunningStep
  <2>4. /\ t \in TxnsOf(b) /\ t \in Tx /\ SpentBy(t) \subseteq TxnsBelow(b) /\ TxnsBelow(b) \subseteq Tx
        /\ Rest(job[w]) = {t} \cup {Txns(b)[m] : m \in (i + 1)..Len(Txns(b))} \cup TxnsBelow(b)
    <3>1. t \in TxnsOf(b) /\ t \in Tx
      <4> HIDE DEF b, i
      <4> QED BY <1>2, Block
    <3>2. SpentBy(t) \subseteq TxnsBelow(b)
      BY <1>2, <3>1 DEF SpendsFromBelow, SpentIn
    <3>3. TxnsBelow(b) \subseteq Tx
      <4> SUFFICES ASSUME NEW c \in ToSet(ChainFrom(Mined, DOMAIN Mined, prev))
                   PROVE  TxnsOf(c) \subseteq Tx
        BY DEF TxnsBelow
      <4> DEFINE A == DOMAIN Mined \cap 1..prev
                 r == ChainFrom(Mined, DOMAIN Mined, prev)
      <4>1. prev \in 0..Len(Mined)
        <5> HIDE DEF b
        <5> QED BY <1>2, Block
      <4>2. r \in Seq(A)
        <5> HIDE DEF prev
        <5> QED BY <4>1, MinedParents, ChainBelow
      <4> HIDE DEF A, r
      <4>3. c \in A
        BY <4>2 DEF ToSet, r
      <4> QED BY <4>3, Block DEF A
    <3>4. i..Len(Txns(b)) = {i} \cup ((i + 1)..Len(Txns(b)))
      <4> DEFINE n == Len(Txns(b))
      <4>1. n \in Nat /\ i \in 1..n
        BY <1>2, Block
      <4> HIDE DEF n, i
      <4>2. i..n = {i} \cup ((i + 1)..n)
        BY ONLY <4>1
      <4> QED BY <4>2 DEF n
    <3>5. Rest(job[w]) = {Txns(b)[m] : m \in i..Len(Txns(b))} \cup TxnsBelow(b)
      BY DEF Rest
    <3>6. {Txns(b)[m] : m \in i..Len(Txns(b))} = {t} \cup {Txns(b)[m] : m \in (i + 1)..Len(Txns(b))}
      BY <3>4
    <3> QED BY <3>1, <3>2, <3>3, <3>5, <3>6
  <2>5. ASSUME NEW R \in SUBSET Tx, Rest(job[w]) = {t} \cup R, SpentBy(t) \subseteq R
        PROVE  /\ ideal' = (Listed' \cup (UNION {Outputs(x) : x \in R}))
                             \ (spent \cup (UNION {Ins[x] : x \in R}))
               /\ \A o \in Listed' \cap spent : o[1] \in R
    BY <1>1, <2>1, <2>5, Settled
  <2>6. ASSUME j.pc = "walk", j.spent = spent, Rest(j) \subseteq Tx,
               Rest(job[w]) = {t} \cup Rest(j), SpentBy(t) \subseteq Rest(j)
        PROVE  IInv'
    <3>1. Running' = {w} /\ ~Applying(w)'
      BY <2>1, <2>3, <2>6 DEF Applying
    <3>2. Apart' /\ Kept' /\ Exact' /\ SeenKept' /\ SeenExact' /\ Alone'
      BY <3>1 DEF AllApply, Apart, Kept, Exact, SeenKept, SeenExact, Alone
    <3>3. Rest(j)' = Rest(j)
      BY DEF Rest, Txns, TxnsBelow
    <3>4. WalkOK(j)'
      <4> DEFINE R == Rest(j)
      <4>1. /\ ideal' = (Listed' \cup (UNION {Outputs(x) : x \in R}))
                          \ (spent \cup (UNION {Ins[x] : x \in R}))
            /\ \A o \in Listed' \cap spent : o[1] \in R
        BY <2>5, <2>6
      <4> HIDE DEF spent
      <4> QED BY <2>6, <3>3, <4>1 DEF WalkOK
    <3>5. ReIndexOK'
      <4> SUFFICES ASSUME NEW v \in Running'
                   PROVE  /\ job'[v].pc # "delete" /\ job'[v].pc # "tip"
                          /\ WalkOK(job[v])'
        BY DEF ReIndexOK
      <4>1. job'[v] = j
        BY <2>3, <3>1
      <4> QED BY <2>6, <3>4, <4>1 DEF WalkOK, Rest
    <3> QED BY <3>2, <3>5 DEF IInv
  <2>7. CASE i < Len(Txns(b)) /\ j.pc = "walk" /\ j.blk = b /\ j.i = i + 1 /\ j.spent = spent
    <3>1. Rest(j) = {Txns(b)[m] : m \in (i + 1)..Len(Txns(b))} \cup TxnsBelow(b)
      BY <2>7 DEF Rest
    <3>2. \A m \in (i + 1)..Len(Txns(b)) : Txns(b)[m] \in Tx
      <4> HIDE DEF b
      <4>1. DOMAIN Txns(b) = 1..Len(Txns(b)) /\ Len(Txns(b)) \in Nat /\ i \in 1..Len(Txns(b))
            /\ \A m \in DOMAIN Txns(b) : Txns(b)[m] \in Tx
        BY <1>2, Block
      <4> HIDE DEF i
      <4> QED BY <4>1
    <3>3. Rest(j) \subseteq Tx /\ Rest(job[w]) = {t} \cup Rest(j) /\ SpentBy(t) \subseteq Rest(j)
      <4> HIDE DEF b, i, t
      <4> QED BY <2>4, <3>1, <3>2
    <3> QED BY <2>6, <2>7, <3>3
  <2>8. ASSUME i = Len(Txns(b))
        PROVE  Rest(job[w]) = {t} \cup TxnsBelow(b)
    <3>1. (i + 1)..Len(Txns(b)) = {}
      <4>1. Len(Txns(b)) \in Nat
        <5> HIDE DEF b
        <5> QED BY <1>2, Block
      <4> HIDE DEF b, i
      <4> QED BY <2>8, <4>1
    <3>2. {Txns(b)[m] : m \in (i + 1)..Len(Txns(b))} = {}
      BY <3>1
    <3> HIDE DEF t
    <3> QED BY <2>4, <3>2
  <2>9. CASE i = Len(Txns(b)) /\ prev \in stored
             /\ j.pc = "walk" /\ j.blk = prev /\ j.i = 1 /\ j.spent = spent
    <3>1. prev \in DOMAIN Mined
      BY <1>1, <2>9 DEF Types
    <3>2. Rest(j) = TxnsOf(prev) \cup TxnsBelow(prev)
      <4> HIDE DEF prev
      <4> QED BY <2>9, <3>1, Block DEF Rest
    <3>3. TxnsBelow(b) = TxnsOf(prev) \cup TxnsBelow(prev)
      <4> HIDE DEF b
      <4> QED BY <1>2, <3>1, BelowIs
    <3>4. Rest(j) \subseteq Tx /\ Rest(job[w]) = {t} \cup Rest(j) /\ SpentBy(t) \subseteq Rest(j)
      BY <2>4, <2>8, <2>9, <3>2, <3>3
    <3> QED BY <2>6, <2>9, <3>4
  <2>10. CASE i = Len(Txns(b)) /\ prev = NoHash /\ j = Idle
    <3>1. TxnsBelow(b) = {}
      <4> HIDE DEF b
      <4> QED BY <1>2, <2>10, BelowIs
    <3>2. Running' = {}
      BY <2>1, <2>3, <2>10 DEF Idle
    <3>3. Rest(job[w]) = {t} \cup {} /\ SpentBy(t) \subseteq {}
      BY <2>4, <2>8, <2>10, <3>1
    <3>4. /\ ideal' = (Listed' \cup (UNION {Outputs(x) : x \in {}}))
                        \ (spent \cup (UNION {Ins[x] : x \in {}}))
          /\ \A o \in Listed' \cap spent : o[1] \in {}
      BY <2>5, <3>3
    <3>5. ideal' = Listed'
      <4>1. UNION {Outputs(x) : x \in {}} = {} /\ UNION {Ins[x] : x \in {}} = {}
        OBVIOUS
      <4> HIDE DEF spent
      <4> QED BY <3>4, <4>1
    <3>6. \A o : ~ToCreate(o)' /\ ~ToSpend(o)'
      BY <3>2 DEF ToCreate, ToSpend
    <3> QED BY <3>2, <3>5, <3>6 DEF IInv, Apart, Kept, Exact, SeenKept, SeenExact, Alone, ReIndexOK
  <2> QED BY <2>2, <2>7, <2>9, <2>10
<1> QED BY <1>3, <1>4

LEMMA NextKeeps ==
  ASSUME SpendsFromBelow, IInv, [Next]_vars
  PROVE  IInv'
<1>1. Types'
  BY NextTypes DEF IInv
<1>2. CASE UNCHANGED vars
  <2>1. UNCHANGED <<utxo, job, ideal, race>>
    BY <1>2 DEF vars
  <2>2. Running' = Running /\ Listed' = Listed /\ AllApply' = AllApply
    BY <2>1 DEF Running, Listed, AllApply, Applying
  <2>3. \A o : (ToCreate(o)' <=> ToCreate(o)) /\ (ToSpend(o)' <=> ToSpend(o))
    BY <2>1, <2>2 DEF ToCreate, ToSpend, Creates, Spends, Txns
  <2>4. Apart' /\ Kept' /\ Exact' /\ SeenKept' /\ SeenExact'
    BY <2>1, <2>2, <2>3 DEF IInv, Apart, Kept, Exact, SeenKept, SeenExact, Entry
  <2>5. Alone' /\ ReIndexOK'
    BY <2>1, <2>2 DEF IInv, Alone, ReIndexOK, Applying, WalkOK, Rest, Txns, TxnsBelow
  <2> QED BY <1>1, <2>4, <2>5 DEF IInv
<1>3. CASE Next
  BY <1>1, <1>3, StoreNewBlockKeeps, DownloadKeeps, ReadSpentKeeps, WriteBatchKeeps,
     StartReIndexKeeps, DeleteAllKeeps, ReadTipKeeps, PutTxnKeeps DEF Next
<1> QED BY <1>2, <1>3

LEMMA IInvAlways == ASSUME SpendsFromBelow PROVE Spec => []IInv
<1>1. IInv /\ [Next]_vars => IInv'
  BY NextKeeps
<1> QED BY <1>1, InitIInv, PTL DEF Spec

-----------------------------------------------------------------------------
\* Applications of blocks that overlap without one spending what another
\* creates lose no unspent output: a payment stays spendable however the
\* goroutines of two blocks interleave.
THEOREM NothingLost == ASSUME SpendsFromBelow PROVE Spec => []NoOutputLost
<1>1. IInv => NoOutputLost
  BY DEF IInv, NoOutputLost, Kept, AllApply, ToCreate
<1> QED BY <1>1, IInvAlways, PTL

\* Calls that touch no common entry, and re-indexings that run alone, leave
\* the UTXO set that single steps would have left: whatever the set was
\* before a re-indexing, and also when a transaction was mined twice.
THEOREM CallsAsIfAtomic == ASSUME SpendsFromBelow PROVE Spec => []AsIfAtomic
<1>1. IInv => AsIfAtomic
  <2> SUFFICES ASSUME IInv, Running = {}, race = "none" PROVE Listed = ideal
    BY DEF AsIfAtomic
  <2>1. Listed \subseteq Outpoint
    BY ListedIs DEF IInv
  <2>2. AllApply /\ \A o : ~ToCreate(o) /\ ~ToSpend(o)
    BY DEF AllApply, ToCreate, ToSpend
  <2>3. ideal \subseteq Listed
    BY <2>2 DEF IInv, Kept
  <2>4. Listed \subseteq ideal
    BY <2>1, <2>2 DEF IInv, Exact
  <2> QED BY <2>3, <2>4
<1> QED BY <1>1, IInvAlways, PTL
=============================================================================
