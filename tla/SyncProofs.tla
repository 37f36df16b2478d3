----------------------------- MODULE SyncProofs -----------------------------
(* How a node fetches blocks, in two parts.  The goroutine pool of one     *)
(* handleInvMsg, for any number of messages and of peers: no block is      *)
(* asked for twice, the WaitGroup counter never becomes negative, and      *)
(* wg.Wait returns only when everything has been asked for.  And the       *)
(* exchange between nodes, for any networks, blocks and limits, in which   *)
(* the pool is seen from outside: of two nodes, what is announced is there *)
(* when it is asked for, and whoever is behind, or was killed and starts   *)
(* again from the genesis block, catches up.                               *)
EXTENDS InvWorkers, BlockSync, DataLemmas, TLAPS

-----------------------------------------------------------------------------
(* The inductive invariant.                                                *)

\* The types, but for the sign of the WaitGroup counter.
WeakType ==
  /\ messageIndex \in 0..MessageCount
  /\ holder \in Worker \cup {Nobody}
  /\ wg \in Int
  /\ pc \in [Worker -> {"lock", "take", "count", "send", "done", "returned"}]
  /\ item \in [Worker -> 0..MessageCount]
  /\ asked \in [Msgs -> Nat]
  /\ transit \subseteq Msgs
  /\ stored \subseteq Msgs /\ unserved \subseteq Msgs
  /\ main \in {"wait", "sleep", "reindexed"}

\* The worker inside the critical section is about to count the next message.
NextTaken ==
  \A w \in Worker :
    pc[w] = "count" => messageIndex < MessageCount /\ item[w] = messageIndex + 1

\* Busy workers hold different messages, all of them counted.
Apart ==
  /\ \A w \in Busy : item[w] \in 1..messageIndex
  /\ \A v, w \in Busy : item[v] = item[w] => v = w

Sending(k) == \E w \in Worker : pc[w] = "send" /\ item[w] = k

\* A message was sent once when it has been taken and no worker is about to
\* send it, and otherwise not at all.
AskedWhenTaken ==
  \A k \in Msgs :
    asked[k] = IF k <= messageIndex /\ ~Sending(k) THEN 1 ELSE 0

\* Once wg.Wait has returned the counter stays at zero.
JoinedAtZero == main # "wait" => wg = 0

IInv == /\ WeakType /\ HeldByOne /\ NextTaken /\ Apart
        /\ AskedWhenTaken /\ WgCounts /\ JoinedAtZero

-----------------------------------------------------------------------------
(* Facts about the set of busy workers.                                    *)

\* There are finitely many workers, so finitely many busy ones.
LEMMA BusyFinite == IsFiniteSet(Busy) /\ Cardinality(Busy) \in Nat
<1>1. IsFiniteSet(1..NumPeers)
  BY FS_Interval, InvAssumption
<1>2. Busy \in SUBSET (1..NumPeers)
  BY DEF Busy, Worker
<1> QED BY <1>1, <1>2, FS_Subset, FS_CardinalityType

\* The counter is not negative, and at zero everything has been taken and
\* nobody is busy.
LEMMA CounterMeaning ==
  ASSUME WeakType, WgCounts
  PROVE  /\ wg \in Nat
         /\ wg = 0 <=> messageIndex = MessageCount /\ Busy = {}
<1> DEFINE c == Cardinality(Busy)
<1>1. c \in Nat /\ (c = 0 <=> Busy = {})
  BY BusyFinite, FS_EmptySet
<1>2. wg = MessageCount - messageIndex + c /\ messageIndex \in 0..MessageCount
  BY DEF WgCounts, WeakType
<1> HIDE DEF c
<1> QED BY <1>1, <1>2, InvAssumption

\* Zero is no worker.
LEMMA NobodyIsNoWorker == Nobody \notin Worker
BY DEF Nobody, Worker

-----------------------------------------------------------------------------
\* Before the workers start, nothing is taken and the counter is full.
LEMMA InitIInv == PoolInit => IInv
<1> SUFFICES ASSUME PoolInit PROVE IInv
  OBVIOUS
<1>1. WeakType
  BY InvAssumption DEF PoolInit, WeakType
<1>2. HeldByOne /\ NextTaken
  BY NobodyIsNoWorker DEF PoolInit, HeldByOne, NextTaken
<1>3. Busy = {}
  BY DEF PoolInit, Busy
<1>4. Apart
  BY <1>3 DEF Apart
<1>5. AskedWhenTaken
  BY DEF PoolInit, AskedWhenTaken, Msgs
<1>6. WgCounts
  <2>1. Cardinality(Busy) = 0
    BY <1>3, FS_EmptySet
  <2> QED BY <2>1, InvAssumption DEF PoolInit, WgCounts
<1>7. JoinedAtZero
  BY DEF PoolInit, JoinedAtZero
<1> QED BY <1>1, <1>2, <1>4, <1>5, <1>6, <1>7 DEF IInv

\* A step that changes neither the set of busy workers nor what they hold.
LEMMA QuietStep ==
  ASSUME IInv, Busy' = Busy, \A k \in Msgs : Sending(k)' <=> Sending(k),
         \A w \in Busy : item'[w] = item[w],
         UNCHANGED <<messageIndex, wg, asked, main>>
  PROVE  Apart' /\ AskedWhenTaken' /\ WgCounts' /\ JoinedAtZero'
<1>1. Apart'
  BY DEF IInv, Apart
<1>2. AskedWhenTaken'
  BY DEF IInv, AskedWhenTaken, Msgs
<1>3. WgCounts'
  BY DEF IInv, WgCounts
<1>4. JoinedAtZero'
  BY DEF IInv, JoinedAtZero
<1> QED BY <1>1, <1>2, <1>3, <1>4

\* Entering the critical section: nobody else is inside.
LEMMA LockStep ==
  ASSUME IInv, NEW w \in Worker, Lock(w)
  PROVE  IInv'
<1> USE DEF IInv
<1>1. WeakType'
  BY DEF WeakType, Lock, GoTo
<1>2. HeldByOne' /\ NextTaken'
  BY NobodyIsNoWorker DEF WeakType, HeldByOne, NextTaken, Lock, GoTo
<1>3. Busy' = Busy /\ \A k \in Msgs : Sending(k)' <=> Sending(k)
  BY DEF WeakType, Busy, Sending, Lock, GoTo
<1>4. Apart' /\ AskedWhenTaken' /\ WgCounts' /\ JoinedAtZero'
  BY <1>3, QuietStep DEF Lock
<1> QED BY <1>1, <1>2, <1>4

\* Reading the next message: it is not counted yet.
LEMMA TakeStep ==
  ASSUME IInv, NEW w \in Worker, Take(w)
  PROVE  IInv'
<1> USE DEF IInv
<1>1. WeakType'
  BY InvAssumption DEF WeakType, Take, GoTo
<1>2. HeldByOne' /\ NextTaken'
  BY DEF WeakType, HeldByOne, NextTaken, Take, GoTo
<1>3. Busy' = Busy /\ \A k \in Msgs : Sending(k)' <=> Sending(k)
  BY DEF WeakType, Busy, Sending, Take, GoTo
<1>4. \A v \in Busy : item'[v] = item[v]
  BY DEF WeakType, Busy, Take
<1>5. Apart' /\ AskedWhenTaken' /\ WgCounts' /\ JoinedAtZero'
  BY <1>3, <1>4, QuietStep DEF Take
<1> QED BY <1>1, <1>2, <1>5

\* The message is counted and the worker joins the busy ones.
LEMMA CountStep ==
  ASSUME IInv, NEW w \in Worker, Count(w)
  PROVE  IInv'
<1> USE DEF IInv
<1>1. messageIndex < MessageCount /\ item[w] = messageIndex + 1
  BY DEF NextTaken, Count
<1>2. WeakType'
  BY <1>1, InvAssumption DEF WeakType, Count, GoTo
<1>3. HeldByOne' /\ NextTaken'
  \* nobody else is inside the critical section
  BY NobodyIsNoWorker DEF WeakType, HeldByOne, NextTaken, Count, GoTo
<1>4. w \notin Busy /\ Busy' = Busy \cup {w}
  BY DEF WeakType, Busy, Count, GoTo
<1>5. Apart'
  BY <1>1, <1>4 DEF WeakType, Apart, Count
<1>6. AskedWhenTaken'
  <2> SUFFICES ASSUME NEW k \in Msgs
               PROVE  asked'[k] = IF k <= messageIndex' /\ ~Sending(k)' THEN 1 ELSE 0
    BY DEF AskedWhenTaken
  <2>1. CASE k = messageIndex + 1
    <3>1. Sending(k)'
      BY <1>1, <2>1 DEF WeakType, Sending, Count, GoTo
    <3>2. asked[k] = 0
      BY <2>1 DEF WeakType, AskedWhenTaken
    <3> QED BY <3>1, <3>2 DEF Count
  <2>2. CASE k # messageIndex + 1
    <3>1. Sending(k)' <=> Sending(k)
      BY <1>1, <2>2 DEF WeakType, Sending, Count, GoTo
    <3>2. k <= messageIndex + 1 <=> k <= messageIndex
      BY <2>2 DEF WeakType, Msgs
    <3> QED BY <3>1, <3>2 DEF AskedWhenTaken, Count
  <2> QED BY <2>1, <2>2
<1>7. WgCounts'
  <2>1. Cardinality(Busy') = Cardinality(Busy) + 1
    BY <1>4, BusyFinite, FS_AddElement
  <2> QED BY <2>1, BusyFinite, InvAssumption DEF WeakType, WgCounts, Count
<1>8. JoinedAtZero'
  BY DEF JoinedAtZero, Count
<1> QED BY <1>2, <1>3, <1>5, <1>6, <1>7, <1>8

\* The early return: its worker stays the holder of the mutex.
LEMMA ReturnStep ==
  ASSUME IInv, NEW w \in Worker, Return(w)
  PROVE  IInv'
<1> USE DEF IInv
<1>1. WeakType'
  BY DEF WeakType, Return, GoTo
<1>2. HeldByOne' /\ NextTaken'
  BY DEF WeakType, HeldByOne, NextTaken, Return, GoTo
<1>3. Busy' = Busy /\ \A k \in Msgs : Sending(k)' <=> Sending(k)
  BY DEF WeakType, Busy, Sending, Return, GoTo
<1>4. Apart' /\ AskedWhenTaken' /\ WgCounts' /\ JoinedAtZero'
  BY <1>3, QuietStep DEF Return
<1> QED BY <1>1, <1>2, <1>4

\* The message goes out: no other worker is sending it.
LEMMA SendStep ==
  ASSUME IInv, NEW w \in Worker, Send(w)
  PROVE  IInv'
<1> USE DEF IInv
<1>1. w \in Busy /\ item[w] \in 1..messageIndex /\ item[w] \in Msgs
  BY DEF WeakType, Apart, Busy, Send, Msgs
<1>2. WeakType'
  BY <1>1 DEF WeakType, Send, GoTo
<1>3. HeldByOne' /\ NextTaken'
  BY DEF WeakType, HeldByOne, NextTaken, Send, GoTo
<1>4. Busy' = Busy
  BY DEF WeakType, Busy, Send, GoTo
<1>5. Apart' /\ WgCounts' /\ JoinedAtZero'
  BY <1>4 DEF Apart, WgCounts, JoinedAtZero, Send
<1>6. AskedWhenTaken'
  <2> SUFFICES ASSUME NEW k \in Msgs
               PROVE  asked'[k] = IF k <= messageIndex' /\ ~Sending(k)' THEN 1 ELSE 0
    BY DEF AskedWhenTaken
  <2>1. CASE k = item[w]
    <3>1. Sending(k)
      BY <2>1 DEF Sending, Send
    <3>2. asked[k] = 0
      BY <3>1 DEF AskedWhenTaken
    <3>3. ~Sending(k)'
      BY <1>1, <2>1 DEF WeakType, Apart, Busy, Sending, Send, GoTo
    <3>4. asked'[k] = 1
      BY <2>1, <3>2 DEF WeakType, Send
    <3> QED BY <1>1, <2>1, <3>3, <3>4 DEF WeakType, Send
  <2>2. CASE k # item[w]
    <3>1. Sending(k)' <=> Sending(k)
      BY <2>2 DEF WeakType, Sending, Send, GoTo
    <3>2. asked'[k] = asked[k]
      BY <2>2 DEF WeakType, Send
    <3> QED BY <3>1, <3>2 DEF AskedWhenTaken, Send
  <2> QED BY <2>1, <2>2
<1> QED BY <1>2, <1>3, <1>5, <1>6

\* The worker leaves the busy ones, and the counter goes down with them.
LEMMA DoneStep ==
  ASSUME IInv, NEW w \in Worker, Done(w)
  PROVE  IInv'
<1> USE DEF IInv
<1>1. WeakType'
  BY DEF WeakType, Done, GoTo
<1>2. HeldByOne' /\ NextTaken'
  BY DEF WeakType, HeldByOne, NextTaken, Done, GoTo
<1>3. w \in Busy /\ Busy' = Busy \ {w}
  BY DEF WeakType, Busy, Done, GoTo
<1>4. Apart'
  BY <1>3 DEF Apart, Done
<1>5. AskedWhenTaken'
  <2>1. \A k \in Msgs : Sending(k)' <=> Sending(k)
    BY DEF WeakType, Sending, Done, GoTo
  <2> QED BY <2>1 DEF AskedWhenTaken, Done
<1>6. WgCounts'
  <2>1. Cardinality(Busy') = Cardinality(Busy) - 1
    BY <1>3, BusyFinite, FS_RemoveElement
  <2> QED BY <2>1, BusyFinite, InvAssumption DEF WeakType, WgCounts, Done
<1>7. JoinedAtZero'
  \* a counter at zero leaves nobody busy
  BY <1>3, CounterMeaning DEF JoinedAtZero, Done
<1> QED BY <1>1, <1>2, <1>4, <1>5, <1>6, <1>7

\* Steps of the handler and of handleBlockdataMsg.
LEMMA OtherStep ==
  ASSUME IInv, (\E k \in Msgs : StoreBlocks(k)) \/ Join \/ Wake \/ UNCHANGED poolVars
  PROVE  IInv'
<1> USE DEF IInv
<1>1. /\ UNCHANGED <<messageIndex, holder, wg, pc, item, asked>>
      /\ main' = main \/ wg = 0
      /\ main' \in {"wait", "sleep", "reindexed"}
      /\ transit' \subseteq Msgs /\ stored' \subseteq Msgs /\ unserved' \subseteq Msgs
  BY DEF WeakType, JoinedAtZero, StoreBlocks, Join, Wake, poolVars
<1>2. WeakType' /\ HeldByOne' /\ NextTaken'
  BY <1>1 DEF WeakType, HeldByOne, NextTaken
<1>3. Busy' = Busy /\ \A k \in Msgs : Sending(k)' <=> Sending(k)
  BY <1>1 DEF Busy, Sending
<1>4. Apart' /\ AskedWhenTaken' /\ WgCounts' /\ JoinedAtZero'
  BY <1>1, <1>3 DEF Apart, AskedWhenTaken, WgCounts, JoinedAtZero
<1> QED BY <1>2, <1>4

\* No step of anybody breaks the inductive invariant.
LEMMA NextIInv == IInv /\ [PoolNext]_poolVars => IInv'
BY LockStep, TakeStep, CountStep, ReturnStep, SendStep, DoneStep, OtherStep
   DEF PoolNext, WorkerStep

\* So it holds throughout.
LEMMA PoolInductive == PoolSpec => []IInv
BY InitIInv, NextIInv, PTL DEF PoolSpec

-----------------------------------------------------------------------------
\* The types, with a WaitGroup counter that never becomes negative: Done
\* never panics.
THEOREM PoolTypeCorrect == PoolSpec => []PoolTypeOK
<1>1. IInv => PoolTypeOK
  BY CounterMeaning DEF IInv, WeakType, PoolTypeOK
<1> QED BY <1>1, PoolInductive, PTL

\* No message is sent twice, by whatever workers.
THEOREM NothingAskedTwice == PoolSpec => []AskedOnce
<1>1. IInv => AskedOnce
  BY DEF IInv, AskedWhenTaken, AskedOnce
<1> QED BY <1>1, PoolInductive, PTL

\* With everything taken and nobody busy, every message has been sent.
LEMMA JoinedMeansAsked == IInv => JoinedAfterAll
<1> SUFFICES ASSUME IInv, main # "wait", NEW k \in Msgs PROVE asked[k] = 1
  BY DEF JoinedAfterAll
<1>1. messageIndex = MessageCount /\ Busy = {}
  BY CounterMeaning DEF IInv, JoinedAtZero
<1>2. ~Sending(k)
  BY <1>1 DEF Sending, Busy
<1> QED BY <1>1, <1>2 DEF IInv, AskedWhenTaken, Msgs

\* wg.Wait returns only when every message has been sent.
THEOREM JoinWaitsForAll == PoolSpec => []JoinedAfterAll
BY JoinedMeansAsked, PoolInductive, PTL

\* One worker inside the critical section; the one that returns keeps the
\* mutex, and no worker can take it again.
THEOREM MutexHeld == PoolSpec => []HeldByOne
<1>1. IInv => HeldByOne
  BY DEF IInv
<1> QED BY <1>1, PoolInductive, PTL

-----------------------------------------------------------------------------
(* What was asked for, and what has been stored after three seconds.       *)

\* The blocks of a message that was sent are on their way or stored, unless
\* it went to a peer that has none.
NoneMissing == \A k \in Msgs : asked[k] >= 1 => k \in transit \cup stored \cup unserved

NoneLate == main = "reindexed" => transit \subseteq Late

\* Nothing has been asked for when the workers start.
LEMMA InitStored == PoolInit => NoneMissing /\ NoneLate
BY DEF PoolInit, NoneMissing, NoneLate

\* A message sent after wg.Wait returned might be later than the pause.
LEMMA NextStored ==
  ASSUME IInv, NoneMissing, NoneLate, [PoolNext]_poolVars
  PROVE  NoneMissing' /\ NoneLate'
<1>1. ASSUME NEW w \in Worker, Send(w) PROVE NoneMissing' /\ NoneLate'
  <2>1. w \in Busy
    BY <1>1 DEF Busy, Send
  <2>2. item[w] \in Msgs
    BY <2>1, InvAssumption DEF IInv, WeakType, Apart, Msgs
  <2>3. /\ transit \cup stored \cup unserved \subseteq (transit \cup stored \cup unserved)'
        /\ item[w] \in (transit \cup stored \cup unserved)'
    BY <1>1 DEF Send
  <2>4. NoneMissing'
    BY <1>1, <2>2, <2>3 DEF IInv, WeakType, NoneMissing, Send
  <2>5. main = "wait"
    \* a busy worker keeps the counter above zero
    BY <2>1, CounterMeaning DEF IInv, WeakType, JoinedAtZero
  <2> QED BY <1>1, <2>4, <2>5 DEF NoneLate, Send
<1>2. ASSUME NEW k \in Msgs, StoreBlocks(k) PROVE NoneMissing' /\ NoneLate'
  BY <1>2 DEF NoneMissing, NoneLate, StoreBlocks
<1>3. CASE Join
  BY <1>3 DEF NoneMissing, NoneLate, Join
<1>4. CASE Wake
  BY <1>4 DEF NoneMissing, NoneLate, Wake
<1>5. CASE UNCHANGED <<asked, transit, stored, unserved, main>>
  BY <1>5 DEF NoneMissing, NoneLate
<1>6. ASSUME NEW w \in Worker, WorkerStep(w), ~Send(w)
      PROVE  UNCHANGED <<asked, transit, stored, unserved, main>>
  BY <1>6 DEF WorkerStep, Lock, Take, Count, Return, Done
<1> QED BY <1>1, <1>2, <1>3, <1>4, <1>5, <1>6 DEF PoolNext, poolVars, WorkerStep

\* Whatever peers there are and however long their blocks take: what is not
\* in the database when the UTXO set is rebuilt from it was asked of a peer
\* without blocks or is on its way still, after three seconds.
THEOREM NothingMissed == PoolSpec => []AllServedStored
<1>1. IInv /\ NoneMissing /\ NoneLate => AllServedStored
  <2> SUFFICES ASSUME IInv, NoneMissing, NoneLate, main = "reindexed", NEW k \in Msgs, k \notin stored
               PROVE  k \in unserved \cup Late
    BY DEF AllServedStored
  <2>1. asked[k] = 1
    BY JoinedMeansAsked DEF JoinedAfterAll
  <2> QED BY <2>1 DEF NoneMissing, NoneLate
<1>2. IInv /\ NoneMissing /\ NoneLate /\ [PoolNext]_poolVars => (IInv /\ NoneMissing /\ NoneLate)'
  BY NextIInv, NextStored
<1>3. PoolInit => IInv /\ NoneMissing /\ NoneLate
  BY InitIInv, InitStored
<1> QED BY <1>1, <1>2, <1>3, PTL DEF PoolSpec

-----------------------------------------------------------------------------
(* The call as seen from outside.                                          *)

\* Messages before k that are still to be sent.
Overtaken(k) == {j \in Msgs : j < k /\ asked[j] = 0}

\* Each of them is with another worker.
LEMMA OvertakenBound ==
  ASSUME IInv, NEW w \in Worker, Send(w)
  PROVE  Cardinality(Overtaken(item[w])) < Cardinality(Worker)
<1> DEFINE late == Overtaken(item[w])
           others == Worker \ {w}
           f == [j \in late |-> CHOOSE v \in others : item[v] = j]
<1>1. item[w] \in 1..messageIndex
  BY DEF IInv, Apart, Busy, Send
<1>2. \A j \in late : \E v \in others : item[v] = j
  BY <1>1 DEF IInv, WeakType, AskedWhenTaken, Sending, Overtaken, Msgs
<1>3. \A j \in late : f[j] \in others /\ item[f[j]] = j
  BY <1>2
<1>4. f \in Injection(late, others)
  <2>1. f \in [late -> others]
    BY <1>3
  <2>2. \A i, j \in late : f[i] = f[j] => i = j
    BY <1>3
  <2> HIDE DEF f, late, others
  <2> QED BY <2>1, <2>2 DEF Injection, IsInjective
<1>5. IsFiniteSet(Worker)
  <2>1. IsFiniteSet(1..NumPeers) /\ Worker \in SUBSET (1..NumPeers)
    BY FS_Interval, InvAssumption DEF Worker
  <2> QED BY <2>1, FS_Subset
<1>6. IsFiniteSet(others) /\ Cardinality(others) = Cardinality(Worker) - 1
  BY <1>5, FS_RemoveElement
<1> HIDE DEF f, late, others
<1>7. IsFiniteSet(late) /\ Cardinality(late) <= Cardinality(others)
  BY <1>4, <1>6, FS_Injection
<1>8. Cardinality(late) \in Nat /\ Cardinality(others) \in Nat /\ Cardinality(Worker) \in Nat
  BY <1>5, <1>6, <1>7, FS_CardinalityType
<1> QED BY <1>6, <1>7, <1>8 DEF late

\* What InvCall calls todo.
Unsent == {k \in Msgs : asked[k] = 0}

LEMMA SendAsks ==
  ASSUME IInv, NEW w \in Worker, Send(w), NEW k, k = item[w]
  PROVE  Outside!Ask(k) /\ k \in Msgs
<1>1. k \in Msgs /\ asked[k] = 0 /\ asked \in [Msgs -> Nat]
  BY InvAssumption DEF IInv, WeakType, Apart, Busy, AskedWhenTaken, Sending, Send, Msgs
<1>2. Cardinality({j \in Unsent : j < k}) < Cardinality(Worker)
  <2>1. {j \in Unsent : j < k} = Overtaken(k)
    BY DEF Unsent, Overtaken
  <2> QED BY <2>1, OvertakenBound
<1>3. Unsent' = Unsent \ {k}
  BY <1>1 DEF Unsent, Send
<1>4. transit' \in {transit, transit \cup {k}} /\ UNCHANGED <<stored, main>>
  BY DEF Send
<1>5. k \in Unsent /\ UNCHANGED <<stored, main = "reindexed">>
  BY <1>1, <1>4 DEF Unsent
<1>6. \A S : Outside!Cardinality(S) = Cardinality(S)
  BY DEF Outside!Cardinality, Cardinality
<1> QED BY <1>1, <1>2, <1>3, <1>4, <1>5, <1>6 DEF Outside!Ask, Unsent

\* The last step of the handler comes when everything has been sent.
LEMMA WakeFinishes ==
  ASSUME IInv, Wake
  PROVE  Outside!Finish
<1>1. main # "wait" /\ main # "reindexed" /\ main' = "reindexed"
  BY DEF Wake
<1>2. {k \in Msgs : asked[k] = 0} = {}
  BY <1>1, JoinedMeansAsked DEF JoinedAfterAll
<1>3. /\ transit \subseteq Late
      /\ UNCHANGED <<asked, transit, stored>>
  BY DEF Wake
<1> QED BY <1>1, <1>2, <1>3 DEF Outside!Finish

\* handleInvMsg, with its mutex, its index and its WaitGroup, keeps the promise
\* BlockSync relies on: each message is sent once, a worker overtakes at most
\* one message for each of the others, and the next getblocks is not sent
\* before every getdata message has been.
THEOREM CallAsPromised == PoolSpec => SentAsPromised
<1>1. PoolInit => Outside!Init
  BY DEF PoolInit, Outside!Init
<1>2. IInv /\ [PoolNext]_poolVars => [Outside!Next]_Outside!vars
  <2> SUFFICES ASSUME IInv, [PoolNext]_poolVars PROVE [Outside!Next]_Outside!vars
    OBVIOUS
  <2>1. ASSUME NEW w \in Worker, Send(w) PROVE Outside!Next
    <3>1. PICK k : k = item[w]
      OBVIOUS
    <3>2. Outside!Ask(k) /\ k \in Msgs
      BY <2>1, <3>1, SendAsks
    <3> QED BY <3>2 DEF Outside!Next
  <2>2. ASSUME NEW k \in Msgs, StoreBlocks(k) PROVE Outside!Next
    <3>1. Outside!Arrive(k)
      BY <2>2 DEF StoreBlocks, Outside!Arrive
    <3> QED BY <3>1 DEF Outside!Next
  <2>3. CASE Wake
    BY <2>3, WakeFinishes DEF Outside!Next
  <2>4. ASSUME NEW w \in Worker, WorkerStep(w), ~Send(w) PROVE UNCHANGED Outside!vars
    BY <2>4 DEF WorkerStep, Lock, Take, Count, Return, Done, Outside!vars
  <2>5. CASE Join
    BY <2>5 DEF Join, Outside!vars
  <2>6. CASE UNCHANGED poolVars
    BY <2>6 DEF poolVars, Outside!vars
  <2> QED BY <2>1, <2>2, <2>3, <2>4, <2>5, <2>6 DEF PoolNext, WorkerStep
<1> QED BY <1>1, <1>2, PoolInductive, PTL DEF PoolSpec, SentAsPromised, Outside!Spec

-----------------------------------------------------------------------------
(* Bags of messages.                                                       *)

LEMMA EmptyNet == IsABag(EmptyBag) /\ BagToSet(EmptyBag) = {}
BY DEF IsABag, EmptyBag, SetToBag, BagToSet

LEMMA SetToBagIs ==
  ASSUME NEW S
  PROVE  IsABag(SetToBag(S)) /\ BagToSet(SetToBag(S)) = S
BY DEF IsABag, SetToBag, BagToSet

LEMMA BagUnionIs ==
  ASSUME NEW A, NEW B, IsABag(A), IsABag(B)
  PROVE  IsABag(A (+) B) /\ BagToSet(A (+) B) = BagToSet(A) \cup BagToSet(B)
BY DEF IsABag, (+), BagToSet

LEMMA BagMinusIs ==
  ASSUME NEW A, NEW B, IsABag(A), IsABag(B)
  PROVE  IsABag(A (-) B) /\ BagToSet(A (-) B) \subseteq BagToSet(A)
BY DEF IsABag, (-), BagToSet

LEMMA BagPartIs ==
  ASSUME NEW B, IsABag(B), NEW S, S \subseteq BagToSet(B)
  PROVE  IsABag([x \in S |-> B[x]]) /\ BagToSet([x \in S |-> B[x]]) = S
BY DEF IsABag, BagToSet

\* Nothing is on its way afterwards but what was, and `msgs`.
Adds(msgs) == IsABag(net') /\ BagToSet(net') \subseteq BagToSet(net) \cup msgs

LEMMA SentAdds ==
  ASSUME NEW msgs, IsABag(net), net' = net (+) Sent(msgs)
  PROVE  Adds(msgs)
<1> DEFINE out == {msg \in msgs : msg.to \in up}
<1>1. IsABag(SetToBag(out)) /\ BagToSet(SetToBag(out)) = out
  BY SetToBagIs
<1>2. net' = net (+) SetToBag(out)
  BY DEF Sent
<1> HIDE DEF out
<1>3. IsABag(net') /\ BagToSet(net') = BagToSet(net) \cup out
  BY <1>1, <1>2, BagUnionIs
<1> QED BY <1>3 DEF Adds, out

LEMMA ReplyAdds ==
  ASSUME NEW msg, NEW msgs, IsABag(net), Reply(msg, msgs)
  PROVE  Adds(msgs)
<1> DEFINE out == {m \in msgs : m.to \in up}
           rest == net (-) SetToBag({msg})
<1>1. IsABag(SetToBag(out)) /\ BagToSet(SetToBag(out)) = out
  BY SetToBagIs
<1>2. IsABag(rest) /\ BagToSet(rest) \subseteq BagToSet(net)
  BY SetToBagIs, BagMinusIs
<1> HIDE DEF rest, out
<1>3. net' = rest (+) SetToBag(out)
  BY DEF Reply, Sent, rest, out
<1>4. IsABag(net') /\ BagToSet(net') = BagToSet(rest) \cup out
  BY <1>1, <1>2, <1>3, BagUnionIs
<1> QED BY <1>2, <1>4 DEF Adds, out

-----------------------------------------------------------------------------
(* Lists of hashes, and pieces of them.                                    *)

LEMMA MinOfTwo ==
  ASSUME NEW a \in Nat, NEW b \in Nat
  PROVE  Min({a, b}) \in {a, b} /\ Min({a, b}) <= a /\ Min({a, b}) <= b
<1>1. \E x \in {a, b} : \A y \in {a, b} : x =< y
  OBVIOUS
<1> QED BY <1>1 DEF Min

LEMMA Piece ==
  ASSUME NEW A, NEW s \in Seq(A), NEW a \in Nat \ {0}, NEW b \in Nat, b <= Len(s)
  PROVE  SubSeq(s, a, b) \in Seq(A) /\ (a <= b => SubSeq(s, a, b) # <<>>)
<1>1. \A i \in a..b : s[i] \in A
  OBVIOUS
<1>2. /\ SubSeq(s, a, b) \in Seq(A)
      /\ Len(SubSeq(s, a, b)) = IF a <= b THEN b - a + 1 ELSE 0
  BY <1>1, SubSeqProperties
<1>3. a <= b => Len(SubSeq(s, a, b)) # 0
  <2> DEFINE n == Len(SubSeq(s, a, b))
  <2>1. n = IF a <= b THEN b - a + 1 ELSE 0
    BY <1>2
  <2> HIDE DEF n
  <2> QED BY <2>1 DEF n
<1> QED BY <1>2, <1>3

\* The number of pieces of `size` hashes each that `len` hashes need.
LEMMA Rounded ==
  ASSUME NEW len \in Nat, NEW size \in Nat \ {0}, NEW k \in 1..(len + size - 1) \div size
  PROVE  (k - 1) * size \in Nat /\ (k - 1) * size + 1 <= len /\ k * size = (k - 1) * size + size
<1> DEFINE q == (len + size - 1) \div size
<1>1. q \in Int /\ q * size <= len + size - 1
  OBVIOUS
<1> QED OBVIOUS

\* The getdata messages of handleInvMsg name hashes of the list, and each at
\* least one.
LEMMA GetdataIs ==
  ASSUME NEW A, NEW hashes \in Seq(A)
  PROVE  LET msgs == GetdataMsgs(hashes)
         IN  /\ msgs \in Seq(Seq(A)) /\ Len(msgs) \in Nat /\ DOMAIN msgs = 1..Len(msgs)
             /\ \A k \in DOMAIN msgs : msgs[k] \in Seq(A) /\ msgs[k] # <<>>
<1> DEFINE size == MAX_BLOCKS_IN_TRANSIT_PER_PEER
           len == Len(hashes)
           q == (len + size - 1) \div size
           msgs == GetdataMsgs(hashes)
<1>1. len \in Nat /\ size \in Nat \ {0}
  BY BlockSyncAssumption
<1>2. msgs = [k \in 1..q |-> SubSeq(hashes, (k - 1) * size + 1, Min({k * size, len}))]
  BY DEF GetdataMsgs
<1>3. q \in Nat
  <2> HIDE DEF len, size
  <2> QED BY <1>1
<1>4. ASSUME NEW k \in 1..q PROVE msgs[k] \in Seq(A) /\ msgs[k] # <<>>
  <2> DEFINE a == (k - 1) * size + 1
             b == Min({k * size, len})
  <2>1. (k - 1) * size \in Nat /\ a <= len /\ k * size = (k - 1) * size + size
    <3> HIDE DEF len, size
    <3> QED BY <1>1, Rounded
  <2>2. a \in Nat \ {0} /\ k * size \in Nat /\ a <= k * size
    <3> DEFINE m == (k - 1) * size
    <3> HIDE DEF m, size
    <3> QED BY <1>1, <2>1 DEF m
  <2>3. b \in Nat /\ b <= len /\ a <= b
    <3> DEFINE n == k * size
    <3> HIDE DEF len, size, n
    <3>1. Min({n, len}) \in {n, len} /\ Min({n, len}) <= n /\ Min({n, len}) <= len
      BY <1>1, <2>2, MinOfTwo DEF n
    <3> HIDE DEF a
    <3> QED BY <1>1, <2>1, <2>2, <3>1 DEF n
  <2>4. msgs[k] = SubSeq(hashes, a, b)
    BY <1>2
  <2> HIDE DEF a, b, msgs
  <2> QED BY <2>2, <2>3, <2>4, Piece
<1> HIDE DEF msgs, q
<1>5. msgs \in Seq(Seq(A)) /\ Len(msgs) = q /\ DOMAIN msgs = 1..q
  <2> DEFINE S == Seq(A)
  <2>1. DOMAIN msgs = 1..q /\ msgs = [k \in 1..q |-> msgs[k]]
    BY <1>2
  <2>2. \A k \in 1..q : msgs[k] \in S
    BY <1>4
  <2> HIDE DEF S
  <2>3. msgs \in [1..q -> S]
    BY ONLY <2>1, <2>2
  <2>4. msgs \in Seq(S) /\ Len(msgs) = q
    BY ONLY <1>3, <2>1, <2>3
  <2> QED BY <2>1, <2>4 DEF S
<1> QED BY <1>3, <1>4, <1>5 DEF msgs

\* All hashes of a piece of a list are of the list: stated with sets.
LEMMA ElementsIn ==
  ASSUME NEW A, NEW s \in Seq(A)
  PROVE  ToSet(s) \subseteq A
BY DEF ToSet

-----------------------------------------------------------------------------
(* The blocks: parents first, the zero Block last.                         *)

LEMMA BlocksAre ==
  /\ Len(Mined) \in Nat /\ Zero = Len(Mined) + 1 /\ Len(Blocks) = Zero
  /\ DOMAIN Mined = 1..Len(Mined) /\ DOMAIN Blocks = 1..Zero
  /\ DOMAIN Mined \subseteq DOMAIN Blocks /\ Zero \in DOMAIN Blocks /\ Zero \notin DOMAIN Mined
  /\ 1 \in DOMAIN Mined
  /\ \A b \in DOMAIN Mined : Blocks[b] = Mined[b] /\ Mined[b].prev \in 0..(b - 1)
  /\ Blocks[Zero].prev = 0
<1> DEFINE B == [prev : Nat]
<1>1. Mined \in Seq(B) /\ Mined # <<>> /\ [prev |-> NoHash] \in B
  BY BlockSyncAssumption DEF NoHash
<1>2. ASSUME NEW b \in DOMAIN Mined PROVE Mined[b].prev \in Nat /\ Mined[b].prev < b
  <2>1. Mined[b] \in B
    <3> HIDE DEF B
    <3> QED BY <1>1
  <2> QED BY <2>1, BlockSyncAssumption
<1>3. [prev |-> NoHash].prev = 0
  BY DEF NoHash
<1> DEFINE z == [prev |-> NoHash]
<1> HIDE DEF B, z
<1>4. /\ Len(Mined) \in Nat /\ DOMAIN Mined = 1..Len(Mined) /\ 1 \in DOMAIN Mined
      /\ Len(Append(Mined, z)) = Len(Mined) + 1 /\ DOMAIN Append(Mined, z) = 1..Len(Mined) + 1
      /\ \A b \in DOMAIN Mined : Append(Mined, z)[b] = Mined[b]
      /\ Append(Mined, z)[Len(Mined) + 1] = z
  BY <1>1 DEF z
<1>5. Blocks = Append(Mined, z) /\ Zero = Len(Blocks)
  BY DEF Blocks, Zero, z
<1>6. \A b \in DOMAIN Mined : Mined[b].prev \in 0..(b - 1)
  BY <1>2, <1>4
<1> QED BY <1>3, <1>4, <1>5, <1>6 DEF z

\* The walk over any database stays in it.
LEMMA WalkIn ==
  ASSUME NEW d \in SUBSET DOMAIN Blocks, NEW h \in DOMAIN Blocks
  PROVE  /\ ParentsFirst(Blocks, d)
         /\ ChainFrom(Blocks, d, h) \in Seq(d) /\ ToSet(ChainFrom(Blocks, d, h)) \subseteq d
<1>1. ParentsFirst(Blocks, d)
  BY BlocksAre DEF ParentsFirst
<1>2. h \in 0..Len(Blocks)
  BY BlocksAre
<1> DEFINE r == ChainFrom(Blocks, d, h)
           A == d \cap 1..h
<1>3. r \in Seq(A) /\ A \subseteq d
  BY <1>1, <1>2, ChainBelow
<1> HIDE DEF r, A
<1>4. r \in Seq(d)
  BY ONLY <1>3
<1> QED BY <1>1, <1>4, ElementsIn DEF r

-----------------------------------------------------------------------------
(* Types.                                                                  *)

\* Getdata and blockdata messages name at least one block.
Chunk == {list \in Seq(DOMAIN Blocks) : list # <<>>}
Call  == [list : Seq(Chunk), todo : SUBSET Nat, workers : Nat]

Asking    == [kind : {"getblocks"}, to : Nodes, from : Nodes, top : DOMAIN Blocks]
Telling   == [kind : {"inv"}, to : Nodes, list : Seq(DOMAIN Blocks)]
Answering   == [kind : {"blockdata"}, to : Nodes, call : 1..Handlers, index : Nat, list : Chunk]
Spreading == [kind : {"fresh"}, to : Nodes, blk : DOMAIN Mined]
Carried   == Asking \cup Telling \cup Answering \cup Spreading

\* The messages handlers have still to send are among those they have.
CallOK(call) == call \in Call /\ call.todo \subseteq DOMAIN call.list

StateOK ==
  /\ db \in [Nodes -> SUBSET DOMAIN Blocks]
  /\ lastHash \in [Nodes -> DOMAIN Blocks]
  /\ count \in [Nodes -> Nat]
  /\ candidate \in [Miners -> {NoHash} \cup DOMAIN Blocks]
  /\ up \subseteq Nodes /\ restarted \subseteq Nodes /\ setup \in Setups

PeersOK == peers \in [Nodes -> Seq(Nodes)]

HandlersOK ==
  /\ handler \in [Nodes -> [1..Handlers -> Call]]
  /\ \A n \in Nodes : \A h \in 1..Handlers :
       CallOK(handler[n][h]) /\ handler[n][h].workers <= Len(peers[n])

NetOK == IsABag(net) /\ BagToSet(net) \subseteq Carried

\* The inductive invariant behind TypeOK.
Types == StateOK /\ PeersOK /\ HandlersOK /\ NetOK

LEMMA Typed == Types => TypeOK
<1> SUFFICES ASSUME Types PROVE TypeOK
  OBVIOUS
<1>1. Chunk \subseteq Seq(DOMAIN Blocks)
  BY DEF Chunk
<1>2. Carried \subseteq Message
  <2> DEFINE S == Seq(DOMAIN Blocks)
  <2>1. Chunk \subseteq S
    BY <1>1
  <2> HIDE DEF S
  <2>2. Answering \subseteq [kind : {"blockdata"}, to : Nodes, call : 1..Handlers, index : Nat, list : S]
    BY <2>1 DEF Answering
  <2> QED BY <2>2 DEF Carried, Message, Asking, Telling, Spreading, S
<1>3. handler \in [Nodes -> [1..Handlers ->
        [list : Seq(Seq(DOMAIN Blocks)), todo : SUBSET Nat, workers : Nat]]]
  <2> DEFINE S == Seq(DOMAIN Blocks)
             R == [list : Seq(S), todo : SUBSET Nat, workers : Nat]
  <2>1. Chunk \subseteq S
    BY <1>1
  <2> HIDE DEF S
  <2>2. Seq(Chunk) \subseteq Seq(S)
    BY <2>1
  <2>3. Call \subseteq R
    BY <2>2 DEF Call
  <2> HIDE DEF R
  <2>4. handler \in [Nodes -> [1..Handlers -> R]]
    BY <2>3 DEF Types, HandlersOK
  <2> QED BY <2>4 DEF R, S
<1>4. \A n \in Nodes : \A h \in 1..Handlers : handler[n][h].workers <= Len(peers[n])
  BY DEF Types, HandlersOK
<1> QED BY <1>2, <1>3, <1>4 DEF Types, StateOK, PeersOK, NetOK, TypeOK

LEMMA HandlersType == Handlers \in Nat
BY BlockSyncAssumption

LEMMA FreeOK == CallOK(Free) /\ Free.workers = 0
<1>1. <<>> \in Seq(Chunk) /\ DOMAIN <<>> = {}
  OBVIOUS
<1> QED BY <1>1 DEF CallOK, Call, Free

\* Calls end, and lists of peers may get shorter where all of them do.
LEMMA CallsFreed ==
  ASSUME Types, PeersOK', handler' \in [Nodes -> [1..Handlers -> Call]],
         \A n \in Nodes : \A h \in 1..Handlers :
           \/ handler'[n][h] = Free
           \/ handler'[n][h] = handler[n][h] /\ peers'[n] = peers[n]
  PROVE  HandlersOK'
<1>1. ASSUME NEW n \in Nodes, NEW h \in 1..Handlers
      PROVE  CallOK(handler'[n][h]) /\ handler'[n][h].workers <= Len(peers'[n])
  <2>1. CASE handler'[n][h] = Free
    <3>1. Len(peers'[n]) \in Nat
      BY DEF PeersOK
    <3> QED BY <2>1, <3>1, FreeOK
  <2>2. CASE handler'[n][h] = handler[n][h] /\ peers'[n] = peers[n]
    BY <2>2 DEF Types, HandlersOK
  <2> QED BY <2>1, <2>2
<1> QED BY <1>1 DEF HandlersOK, CallOK, Call, Chunk

LEMMA SetupIs == ASSUME StateOK PROVE setup \in Setup /\ start \in [Nodes -> DOMAIN Mined]
BY BlockSyncAssumption DEF StateOK, Setup, start

\* What is received is what was sent.
LEMMA ReceivedIs ==
  ASSUME NetOK, NEW n, NEW kind
  PROVE  \A msg \in Received(n, kind) :
           /\ msg \in BagToSet(net) /\ msg \in Carried /\ msg.to = n /\ msg.kind = kind
           /\ kind = "getblocks" => msg \in Asking
           /\ kind = "inv" => msg \in Telling
           /\ kind = "blockdata" => msg \in Answering
           /\ kind = "fresh" => msg \in Spreading
BY DEF NetOK, Received, Carried, Asking, Telling, Answering, Spreading

\* Sending what is well formed keeps the network so.
LEMMA NetStays ==
  ASSUME NetOK, NEW msgs, msgs \subseteq Carried, Adds(msgs)
  PROVE  NetOK'
<1>1. Chunk' = Chunk /\ Carried' = Carried
  BY DEF Chunk, Carried, Asking, Telling, Answering, Spreading
<1> QED BY <1>1 DEF NetOK, Adds

\* A loop over the list of peers sends each message at least once.
LEMMA SentToEachIs ==
  ASSUME PeersOK, NEW n \in Nodes, NEW msgs, \A msg \in msgs : msg.to \in ToSet(peers[n])
  PROVE  /\ IsABag(SentToEach(n, msgs))
         /\ BagToSet(SentToEach(n, msgs)) = {msg \in msgs : msg.to \in up}
<1> DEFINE list == peers[n]
           At(p) == {i \in DOMAIN list : list[i] = p}
<1>1. DOMAIN list = 1..Len(list) /\ Len(list) \in Nat
  BY DEF PeersOK
<1>2. IsFiniteSet(1..Len(list))
  BY <1>1, FS_Interval
<1>3. ASSUME NEW p \in ToSet(list) PROVE Cardinality(At(p)) \in Nat \ {0}
  <2>1. At(p) \subseteq 1..Len(list) /\ At(p) # {}
    BY <1>1 DEF ToSet
  <2> HIDE DEF At
  <2>2. IsFiniteSet(At(p))
    BY <1>2, <2>1, FS_Subset
  <2> QED BY <2>1, <2>2, FS_CardinalityType, FS_EmptySet
<1>4. \A msg \in msgs : Cardinality(At(msg.to)) \in Nat \ {0}
  BY <1>3
<1>5. SentToEach(n, msgs) = [msg \in {m \in msgs : m.to \in up} |-> Cardinality(At(msg.to))]
  BY DEF SentToEach
<1> HIDE DEF At
<1> QED BY <1>4, <1>5 DEF IsABag, BagToSet

LEMMA SentToEachAdds ==
  ASSUME Types, NEW n \in Nodes, NEW msgs, \A msg \in msgs : msg.to \in ToSet(peers[n]),
         net' = net (+) SentToEach(n, msgs)
  PROVE  Adds(msgs)
<1> DEFINE sent == SentToEach(n, msgs)
<1>1. IsABag(sent) /\ BagToSet(sent) \subseteq msgs
  BY SentToEachIs DEF Types
<1> HIDE DEF sent
<1>2. net' = net (+) sent
  BY DEF sent
<1> QED BY <1>1, <1>2, BagUnionIs DEF Types, NetOK, Adds

LEMMA PassedOnAdds ==
  ASSUME Types, NEW n \in Nodes, NEW msg, NEW msgs, \A m \in msgs : m.to \in ToSet(peers[n]),
         net' = (net (-) SetToBag({msg})) (+) SentToEach(n, msgs)
  PROVE  Adds(msgs)
<1> DEFINE sent == SentToEach(n, msgs)
           rest == net (-) SetToBag({msg})
<1>1. IsABag(sent) /\ BagToSet(sent) \subseteq msgs
  BY SentToEachIs DEF Types
<1>2. IsABag(rest) /\ BagToSet(rest) \subseteq BagToSet(net)
  BY SetToBagIs, BagMinusIs DEF Types, NetOK
<1> HIDE DEF sent, rest
<1>3. net' = rest (+) sent
  BY DEF sent, rest
<1>4. IsABag(net') /\ BagToSet(net') = BagToSet(rest) \cup BagToSet(sent)
  BY <1>1, <1>2, <1>3, BagUnionIs
<1> QED BY <1>1, <1>2, <1>4 DEF Adds

LEMMA InitTypes == Init => Types
<1> SUFFICES ASSUME Init PROVE Types
  OBVIOUS
<1>1. setup \in Setup /\ start \in [Nodes -> DOMAIN Mined]
  BY BlockSyncAssumption DEF Init, Setup, start
<1>2. DOMAIN Mined \subseteq DOMAIN Blocks
  BY BlocksAre
<1>3. db \in [Nodes -> SUBSET DOMAIN Blocks]
  <2>1. \A n \in Nodes : ToSet(ChainFrom(Blocks, DOMAIN Mined, lastHash[n])) \subseteq DOMAIN Mined
    BY <1>1, <1>2, WalkIn DEF Init
  <2> QED BY <1>2, <2>1 DEF Init
<1>4. StateOK
  BY <1>1, <1>2, <1>3 DEF Init, StateOK
<1>5. PeersOK
  BY DEF Init, PeersOK
<1>6. HandlersOK
  <2>1. \A n \in Nodes : Len(peers[n]) = 0
    BY DEF Init
  <2> QED BY <2>1, FreeOK DEF Init, HandlersOK, CallOK, Free
<1>7. NetOK
  BY EmptyNet DEF Init, NetOK
<1> QED BY <1>4, <1>5, <1>6, <1>7 DEF Types

\* The list of peers grows, and a node asks others for their blocks: what
\* one verack handler does, or two.
LEMMA Greeted ==
  ASSUME Types, NEW n \in Nodes, NEW added \in Seq(Nodes), NEW msgs, msgs \subseteq Carried,
         peers' = [peers EXCEPT ![n] = @ \o added], Adds(msgs),
         UNCHANGED <<db, lastHash, count, handler, candidate, process>>
  PROVE  Types'
<1>1. peers[n] \in Seq(Nodes) /\ peers[n] \o added \in Seq(Nodes)
      /\ Len(peers[n] \o added) = Len(peers[n]) + Len(added)
  BY DEF Types, PeersOK
<1>2. PeersOK'
  BY <1>1 DEF Types, PeersOK
<1>3. \A k \in Nodes : Len(peers[k]) \in Nat /\ Len(peers'[k]) \in Nat /\ Len(peers[k]) <= Len(peers'[k])
  <2> SUFFICES ASSUME NEW k \in Nodes
               PROVE  Len(peers[k]) \in Nat /\ Len(peers'[k]) \in Nat /\ Len(peers[k]) <= Len(peers'[k])
    OBVIOUS
  <2>1. CASE k = n
    BY <1>1, <2>1 DEF Types, PeersOK
  <2>2. CASE k # n
    BY <2>2 DEF Types, PeersOK
  <2> QED BY <2>1, <2>2
<1>4. HandlersOK'
  <2>1. ASSUME NEW k \in Nodes, NEW h \in 1..Handlers PROVE handler[k][h].workers <= Len(peers'[k])
    <3>1. handler[k][h].workers \in Nat /\ handler[k][h].workers <= Len(peers[k])
      BY DEF Types, HandlersOK, CallOK, Call
    <3> QED BY <1>3, <3>1
  <2> QED BY <2>1 DEF Types, HandlersOK, CallOK, Call, Chunk
<1>5. NetOK'
  BY NetStays DEF Types
<1> QED BY <1>2, <1>4, <1>5 DEF Types, StateOK, process

LEMMA HandleVerackTypes ==
  ASSUME Types, NEW n \in Nodes, NEW p \in Neighbours[n], HandleVerack(n, p) PROVE Types'
<1>1. p \in Nodes /\ <<p>> \in Seq(Nodes) /\ peers[n] \in Seq(Nodes)
  BY BlockSyncAssumption DEF Types, PeersOK
<1>2. peers' = [peers EXCEPT ![n] = @ \o <<p>>]
  <2>1. Append(peers[n], p) = peers[n] \o <<p>>
    <3> DEFINE list == peers[n]
    <3>1. list \in Seq(Nodes)
      BY <1>1
    <3> HIDE DEF list
    <3>2. Append(list, p) = list \o <<p>>
      BY <1>1, <3>1
    <3> QED BY <3>2 DEF list
  <2> QED BY <2>1 DEF HandleVerack
<1>3. Adds({GetblocksMsg(n, p)})
  BY SentAdds DEF HandleVerack, Types, NetOK
<1>4. {GetblocksMsg(n, p)} \subseteq Carried
  BY <1>1 DEF Types, StateOK, GetblocksMsg, Carried, Asking
<1> QED BY <1>1, <1>2, <1>3, <1>4, Greeted DEF HandleVerack

\* Two verack handlers at the same time send what each would send.
LEMMA RaceSends ==
  ASSUME IsABag(net), NEW n, NEW p, NEW q, RaceVeracks(n, p, q)
  PROVE  /\ IsABag(net')
         /\ BagToSet(net') =
              BagToSet(net) \cup {msg \in {GetblocksMsg(n, p), GetblocksMsg(n, q)} : msg.to \in up}
<1> DEFINE A == {msg \in {GetblocksMsg(n, p)} : msg.to \in up}
           B == {msg \in {GetblocksMsg(n, q)} : msg.to \in up}
<1>1. net' = net (+) SetToBag(A) (+) SetToBag(B)
  BY DEF RaceVeracks, Sent
<1>2. IsABag(SetToBag(A)) /\ BagToSet(SetToBag(A)) = A /\ IsABag(SetToBag(B)) /\ BagToSet(SetToBag(B)) = B
  BY SetToBagIs
<1>3. A \cup B = {msg \in {GetblocksMsg(n, p), GetblocksMsg(n, q)} : msg.to \in up}
  OBVIOUS
<1> HIDE DEF A, B
<1> DEFINE first == net (+) SetToBag(A)
<1>4. IsABag(first) /\ BagToSet(first) = BagToSet(net) \cup A
  BY <1>2, BagUnionIs
<1>5. net' = first (+) SetToBag(B)
  BY <1>1
<1> HIDE DEF first
<1>6. IsABag(net') /\ BagToSet(net') = BagToSet(first) \cup B
  BY <1>2, <1>4, <1>5, BagUnionIs
<1> QED BY <1>3, <1>4, <1>6

LEMMA RaceVeracksTypes ==
  ASSUME Types, NEW n \in Nodes, NEW p \in Neighbours[n], NEW q \in Neighbours[n], RaceVeracks(n, p, q)
  PROVE  Types'
<1>1. p \in Nodes /\ q \in Nodes /\ <<p, q>> \in Seq(Nodes) /\ <<q>> \in Seq(Nodes)
  BY BlockSyncAssumption
<1>2. PICK added \in {<<p, q>>, <<q>>} : peers' = [peers EXCEPT ![n] = @ \o added]
  BY DEF RaceVeracks
<1>3. Adds({GetblocksMsg(n, p), GetblocksMsg(n, q)})
  BY RaceSends DEF Types, NetOK, Adds
<1>4. {GetblocksMsg(n, p), GetblocksMsg(n, q)} \subseteq Carried
  BY <1>1 DEF Types, StateOK, GetblocksMsg, Carried, Asking
<1>5. added \in Seq(Nodes)
  BY <1>1, <1>2
<1> QED BY <1>2, <1>3, <1>4, <1>5, Greeted DEF RaceVeracks

\* The hashes of an inv message are stored by its sender.
LEMMA AnnouncedIs ==
  ASSUME StateOK, NEW n \in Nodes, NEW target
  PROVE  Announced(n, target) \in Seq(db[n])
<1> DEFINE chain == ChainOf(n)
           at == CHOOSE i \in DOMAIN chain : chain[i] = target
           new == UnmatchedBlocks(n, target)
<1>1. chain \in Seq(db[n])
  BY WalkIn DEF StateOK, ChainOf
<1>2. new \in Seq(db[n])
  <2>1. CASE target \in ToSet(chain)
    <3>1. at \in DOMAIN chain
      BY <2>1 DEF ToSet
    <3>2. new = SubSeq(chain, at + 1, Len(chain))
      BY <2>1 DEF UnmatchedBlocks
    <3> HIDE DEF chain, at, new
    <3>3. at + 1 \in Nat \ {0} /\ Len(chain) \in Nat /\ Len(chain) <= Len(chain)
      BY <1>1, <3>1
    <3> QED BY <1>1, <3>2, <3>3, Piece
  <2>2. CASE target \notin ToSet(chain)
    BY <1>1, <2>2 DEF UnmatchedBlocks
  <2> QED BY <2>1, <2>2
<1> HIDE DEF new
<1>3. Len(new) \in Nat /\ InvLimit \in Nat
  BY <1>2, BlockSyncAssumption
<1>4. Min({InvLimit, Len(new)}) \in Nat /\ Min({InvLimit, Len(new)}) <= Len(new)
  BY <1>3, MinOfTwo
<1>5. SubSeq(new, 1, Min({InvLimit, Len(new)})) \in Seq(db[n])
  <2> DEFINE d == db[n]
             m == Min({InvLimit, Len(new)})
  <2> HIDE DEF d, m
  <2>1. new \in Seq(d) /\ m \in Nat /\ m <= Len(new) /\ 1 \in Nat \ {0}
    BY <1>2, <1>4 DEF d, m
  <2>2. SubSeq(new, 1, m) \in Seq(d)
    BY ONLY <2>1, Piece
  <2> QED BY <2>2 DEF d, m
<1> QED BY <1>5 DEF Announced, new

LEMMA HandleGetblocksTypes ==
  ASSUME Types, NEW n \in Nodes, HandleGetblocks(n) PROVE Types'
<1>1. PICK msg \in Received(n, "getblocks") :
        Reply(msg, IF ~BlockExisted(n, msg.top) THEN {GetblocksMsg(n, msg.from)}
                   ELSE IF UnmatchedBlocks(n, msg.top) = <<>> THEN {}
                   ELSE {InvMsg(msg.from, Announced(n, msg.top))})
  BY DEF HandleGetblocks
<1>2. msg.from \in Nodes
  BY ReceivedIs DEF Types, Asking
<1>3. GetblocksMsg(n, msg.from) \in Carried
  BY <1>2 DEF Types, StateOK, GetblocksMsg, Carried, Asking
<1>4. InvMsg(msg.from, Announced(n, msg.top)) \in Carried
  <2>1. Announced(n, msg.top) \in Seq(DOMAIN Blocks)
    <3> DEFINE s == Announced(n, msg.top)
    <3>1. s \in Seq(db[n]) /\ db[n] \subseteq DOMAIN Blocks
      BY AnnouncedIs DEF Types, StateOK
    <3> HIDE DEF s
    <3> QED BY <3>1 DEF s
  <2> QED BY <1>2, <2>1 DEF InvMsg, Carried, Telling
<1>5. \E msgs : msgs \subseteq Carried /\ Reply(msg, msgs)
  BY <1>1, <1>3, <1>4
<1>6. NetOK'
  BY <1>5, ReplyAdds, NetStays DEF Types, NetOK
<1> QED BY <1>6 DEF Types, StateOK, PeersOK, HandlersOK, CallOK, Call, Chunk, HandleGetblocks, process

LEMMA HandleInvTypes == ASSUME Types, NEW n \in Nodes, HandleInv(n) PROVE Types'
<1> DEFINE free == {h \in 1..Handlers : handler[n][h] = Free}
           msgs(msg) == GetdataMsgs(msg.list)
           call(msg) == [list |-> msgs(msg), todo |-> DOMAIN msgs(msg),
              workers |-> Min({Len(peers[n]), Len(msgs(msg))})]
<1>1. PICK msg \in Received(n, "inv") :
        /\ free # {}
        /\ count' = [count EXCEPT ![n] = Len(msgs(msg))]
        /\ handler' = [handler EXCEPT ![n][Min(free)] = call(msg)]
        /\ Reply(msg, {})
        /\ UNCHANGED <<db, lastHash, peers, candidate, process>>
  BY DEF HandleInv
<1>2. msg.list \in Seq(DOMAIN Blocks)
  BY ReceivedIs DEF Types, Telling
<1>3. /\ msgs(msg) \in Seq(Seq(DOMAIN Blocks)) /\ Len(msgs(msg)) \in Nat
      /\ DOMAIN msgs(msg) = 1..Len(msgs(msg))
      /\ \A k \in DOMAIN msgs(msg) : msgs(msg)[k] \in Chunk
  BY <1>2, GetdataIs DEF Chunk
<1>4. CallOK(call(msg)) /\ call(msg).workers <= Len(peers[n])
  <2> DEFINE m == msgs(msg)
             r == Min({Len(peers[n]), Len(m)})
  <2>1. m \in Seq(Chunk) /\ DOMAIN m \subseteq Nat
    <3> DEFINE S == Seq(DOMAIN Blocks)
    <3>1. m \in Seq(S) /\ DOMAIN m = 1..Len(m) /\ Len(m) \in Nat /\ \A k \in DOMAIN m : m[k] \in Chunk
      BY <1>3
    <3> HIDE DEF m, S
    <3>2. m = [k \in 1..Len(m) |-> m[k]]
      BY ONLY <3>1
    <3> QED BY ONLY <3>1, <3>2
  <2>2. r \in Nat /\ r <= Len(peers[n])
    <3>1. Len(peers[n]) \in Nat /\ Len(m) \in Nat
      BY <1>3 DEF Types, PeersOK
    <3> HIDE DEF m
    <3> QED BY <3>1, MinOfTwo
  <2> HIDE DEF m, r
  <2>3. CallOK([list |-> m, todo |-> DOMAIN m, workers |-> r])
    BY <2>1, <2>2 DEF CallOK, Call
  <2> QED BY <2>2, <2>3 DEF m, r
<1> HIDE DEF msgs, call
<1>5. HandlersOK'
  BY <1>1, <1>4 DEF Types, HandlersOK, CallOK, Call, Chunk
<1>6. NetOK'
  BY <1>1, ReplyAdds, NetStays DEF Types, NetOK
<1>7. count' \in [Nodes -> Nat]
  BY <1>1, <1>3 DEF Types, StateOK
<1> QED BY <1>1, <1>5, <1>6, <1>7 DEF Types, StateOK, PeersOK, process

\* A worker's peer is in the list of peers.
LEMMA AskedPeer ==
  ASSUME Types, NEW n \in Nodes, NEW h \in 1..Handlers, Ask(n, h)
  PROVE  \E k \in handler[n][h].todo, p \in ToSet(peers[n]) :
           /\ handler[n][h].workers # 0
           /\ handler' = [handler EXCEPT ![n][h].todo = @ \ {k}]
           /\ net' = IF p \in up
                     THEN net (+) Sent({BlockdataMsg(n, h, k, BlocksFromHashes(p, handler[n][h].list[k]))})
                     ELSE net
           /\ UNCHANGED <<db, lastHash, peers, count, candidate, process>>
<1>1. PICK k \in handler[n][h].todo, w \in 1..handler[n][h].workers :
        LET p == peers[n][w]
        IN  /\ handler' = [handler EXCEPT ![n][h].todo = @ \ {k}]
            /\ net' = IF p \in up
                      THEN net (+) Sent({BlockdataMsg(n, h, k, BlocksFromHashes(p, handler[n][h].list[k]))})
                      ELSE net
            /\ UNCHANGED <<db, lastHash, peers, count, candidate, process>>
  BY DEF Ask
<1>2. /\ handler[n][h].workers \in Nat /\ handler[n][h].workers <= Len(peers[n])
      /\ DOMAIN peers[n] = 1..Len(peers[n]) /\ Len(peers[n]) \in Nat
  BY DEF Types, PeersOK, HandlersOK, CallOK, Call
<1>3. w \in DOMAIN peers[n] /\ handler[n][h].workers # 0
  BY <1>2
<1>4. peers[n][w] \in ToSet(peers[n])
  BY <1>3 DEF ToSet
<1> QED BY <1>1, <1>3, <1>4

LEMMA AskTypes ==
  ASSUME Types, NEW n \in Nodes, NEW h \in 1..Handlers, Ask(n, h) PROVE Types'
<1> DEFINE call == handler[n][h]
           data(k, p) == BlockdataMsg(n, h, k, BlocksFromHashes(p, call.list[k]))
<1>1. PICK k \in call.todo, p \in ToSet(peers[n]) :
        /\ handler' = [handler EXCEPT ![n][h].todo = @ \ {k}]
        /\ net' = IF p \in up THEN net (+) Sent({data(k, p)}) ELSE net
        /\ UNCHANGED <<db, lastHash, peers, count, candidate, process>>
  BY AskedPeer
<1>2. call \in Call /\ k \in DOMAIN call.list /\ k \in Nat /\ p \in Nodes
  BY ElementsIn DEF Types, PeersOK, HandlersOK, CallOK, Call
<1>3. call.list[k] \in Seq(DOMAIN Blocks) /\ call.list[k] # <<>>
  <2>1. call.list \in Seq(Chunk)
    BY <1>2 DEF Call
  <2>2. call.list[k] \in Chunk
    BY <1>2, <2>1
  <2> QED BY <2>2 DEF Chunk
<1>4. BlocksFromHashes(p, call.list[k]) \in Chunk
  <2> DEFINE s == call.list[k]
             r == BlocksFromHashes(p, s)
  <2>1. DOMAIN r = DOMAIN s /\ \A i \in DOMAIN s : r[i] \in DOMAIN Blocks
    BY <1>3, BlocksAre DEF BlocksFromHashes
  <2>2. DOMAIN s = 1..Len(s) /\ Len(s) \in Nat /\ Len(s) # 0
    BY <1>3
  <2>3. r = [i \in 1..Len(s) |-> r[i]]
    BY <2>2 DEF BlocksFromHashes
  <2> DEFINE B == DOMAIN Blocks
  <2> HIDE DEF r, s, B
  <2>4. r \in Seq(B) /\ Len(r) = Len(s)
    BY <2>1, <2>2, <2>3 DEF B
  <2>5. r # <<>>
    BY <2>2, <2>4
  <2> QED BY <2>4, <2>5 DEF Chunk, B, r, s
<1>5. data(k, p) \in Carried
  BY <1>2, <1>4 DEF BlockdataMsg, Carried, Answering
<1>6. NetOK'
  <2>1. CASE p \in up
    <3>1. Adds({data(k, p)})
      BY <1>1, <2>1, SentAdds DEF Types, NetOK
    <3> QED BY <1>5, <3>1, NetStays DEF Types
  <2>2. CASE p \notin up
    BY <1>1, <2>2 DEF Types, NetOK, Carried, Asking, Telling, Answering, Spreading, Chunk
  <2> QED BY <2>1, <2>2
<1>7. HandlersOK'
  <2> HIDE DEF call, data
  <2>1. call = [list |-> call.list, todo |-> call.todo, workers |-> call.workers]
    BY <1>2 DEF Call
  <2>2. ASSUME NEW m \in Nodes, NEW g \in 1..Handlers
        PROVE  CallOK(handler[m][g])' /\ handler'[m][g].workers = handler[m][g].workers
    BY <1>1, <1>2 DEF Types, HandlersOK, CallOK, Call, Chunk, call
  <2>3. handler' \in [Nodes -> [1..Handlers -> Call]]
    BY <1>1, <1>2 DEF Types, HandlersOK, CallOK, Call, call
  <2>4. ASSUME NEW m \in Nodes, NEW g \in 1..Handlers PROVE (handler[m][g].workers <= Len(peers[m]))'
    BY <1>1, <2>2 DEF Types, HandlersOK
  <2> QED BY <2>2, <2>3, <2>4 DEF HandlersOK, Call, Chunk
<1> QED BY <1>1, <1>6, <1>7 DEF Types, StateOK, PeersOK, process

LEMMA HandleBlockdataTypes ==
  ASSUME Types, NEW n \in Nodes, HandleBlockdata(n) PROVE Types'
<1>1. PICK msg \in Received(n, "blockdata") :
        /\ db' = [db EXCEPT ![n] = @ \cup ToSet(msg.list)]
        /\ lastHash' = [lastHash EXCEPT ![n] =
                          IF msg.index = count[n] THEN Last(msg.list) ELSE @]
        /\ Reply(msg, {})
        /\ UNCHANGED <<peers, count, handler, candidate, process>>
  BY DEF HandleBlockdata
<1>2. msg.list \in Chunk
  BY ReceivedIs DEF Types, Answering
<1>3. ToSet(msg.list) \subseteq DOMAIN Blocks /\ Last(msg.list) \in DOMAIN Blocks
  <2> DEFINE s == msg.list
             B == DOMAIN Blocks
  <2>1. s \in Seq(B) /\ s # <<>>
    BY <1>2 DEF Chunk
  <2> HIDE DEF s, B
  <2>2. ToSet(s) \subseteq B /\ s[Len(s)] \in B
    BY <2>1 DEF ToSet
  <2> QED BY <2>2 DEF Last, s, B
<1>4. StateOK'
  BY <1>1, <1>3 DEF Types, StateOK, process
<1>5. NetOK'
  BY <1>1, ReplyAdds, NetStays DEF Types, NetOK
<1> QED BY <1>1, <1>4, <1>5 DEF Types, PeersOK, HandlersOK, CallOK, Call, Chunk, process

LEMMA FinishInvTypes ==
  ASSUME Types, NEW n \in Nodes, NEW h \in 1..Handlers, FinishInv(n, h) PROVE Types'
<1> DEFINE msgs == {GetblocksMsg(n, p) : p \in ToSet(peers[n])}
<1>1. handler' = [handler EXCEPT ![n][h] = Free] /\ net' = net (+) SentToEach(n, msgs)
      /\ UNCHANGED <<db, lastHash, peers, count, candidate, process>>
  BY DEF FinishInv
<1>2. ToSet(peers[n]) \subseteq Nodes
  BY ElementsIn DEF Types, PeersOK
<1>3. msgs \subseteq Carried
  BY <1>2 DEF Types, StateOK, GetblocksMsg, Carried, Asking
<1>4. NetOK'
  <2>1. \A msg \in msgs : msg.to \in ToSet(peers[n])
    BY DEF GetblocksMsg
  <2> HIDE DEF msgs
  <2>2. Adds(msgs)
    BY <1>1, <2>1, SentToEachAdds
  <2> QED BY <1>3, <2>2, NetStays DEF Types
<1>5. HandlersOK'
  <2>1. PeersOK' /\ handler' \in [Nodes -> [1..Handlers -> Call]]
    BY <1>1, FreeOK DEF Types, PeersOK, HandlersOK, CallOK
  <2>2. ASSUME NEW m \in Nodes, NEW g \in 1..Handlers
        PROVE  \/ handler'[m][g] = Free
               \/ handler'[m][g] = handler[m][g] /\ peers'[m] = peers[m]
    BY <1>1 DEF Types, HandlersOK
  <2> QED BY <2>1, <2>2, CallsFreed
<1> QED BY <1>1, <1>4, <1>5 DEF Types, StateOK, PeersOK, process

LEMMA StartMiningTypes ==
  ASSUME Types, NEW n \in Miners, StartMining(n) PROVE Types'
<1>1. n \in Nodes
  BY BlockSyncAssumption
<1>2. candidate' \in [Miners -> {NoHash} \cup DOMAIN Blocks]
  BY <1>1 DEF Types, StateOK, StartMining
<1>3. StateOK'
  BY <1>2 DEF Types, StateOK, StartMining, process
<1> QED BY <1>3 DEF Types, PeersOK, HandlersOK, CallOK, Call, Chunk, NetOK, Carried, Asking, Telling,
           Answering, Spreading, StartMining, process

\* Blocks to be mined are blocks.
LEMMA UnminedIs == ASSUME StateOK PROVE Unmined \subseteq DOMAIN Mined
<1>1. setup.until \in {0} \cup DOMAIN Mined
  BY SetupIs DEF Setup
<1>2. DOMAIN Mined = 1..Len(Mined) /\ Len(Mined) \in Nat
  BY BlocksAre
<1> QED BY <1>1, <1>2 DEF Unmined

LEMMA SealTypes ==
  ASSUME Types, NEW n \in Miners, Seal(n) PROVE Types'
<1>1. PICK b \in Unmined :
        /\ db' = [db EXCEPT ![n] = @ \cup {b}]
        /\ lastHash' = [lastHash EXCEPT ![n] = b]
        /\ net' = net (+) SentToEach(n, {FreshMsg(p, b) : p \in ToSet(peers[n])})
        /\ candidate' = [candidate EXCEPT ![n] = NoHash]
        /\ UNCHANGED <<peers, count, handler, process>>
  BY DEF Seal
<1>2. n \in Nodes /\ b \in DOMAIN Mined /\ b \in DOMAIN Blocks
  BY BlockSyncAssumption, BlocksAre, UnminedIs DEF Types
<1>3. StateOK'
  BY <1>1, <1>2 DEF Types, StateOK, process
<1>4. ToSet(peers[n]) \subseteq Nodes
  BY <1>2, ElementsIn DEF Types, PeersOK
<1>5. {FreshMsg(p, b) : p \in ToSet(peers[n])} \subseteq Carried
  BY <1>2, <1>4 DEF FreshMsg, Carried, Spreading
<1>6. NetOK'
  <2> DEFINE msgs == {FreshMsg(p, b) : p \in ToSet(peers[n])}
  <2>1. \A msg \in msgs : msg.to \in ToSet(peers[n])
    BY DEF FreshMsg
  <2>2. msgs \subseteq Carried /\ net' = net (+) SentToEach(n, msgs)
    BY <1>1, <1>5
  <2> HIDE DEF msgs
  <2>3. Adds(msgs)
    BY <1>2, <2>1, <2>2, SentToEachAdds
  <2> QED BY <2>2, <2>3, NetStays DEF Types
<1> QED BY <1>1, <1>3, <1>6 DEF Types, PeersOK, HandlersOK, CallOK, Call, Chunk, process

LEMMA HandleFreshTypes ==
  ASSUME Types, NEW n \in Nodes, HandleFresh(n) PROVE Types'
<1>1. PICK msg \in Received(n, "fresh") :
        /\ db' = [db EXCEPT ![n] = @ \cup {msg.blk}]
        /\ lastHash' = [lastHash EXCEPT ![n] = msg.blk]
        /\ net' = (net (-) SetToBag({msg}))
                    (+) SentToEach(n, {FreshMsg(p, msg.blk) : p \in ToSet(peers[n]) \ Miners})
        /\ UNCHANGED <<peers, count, handler, candidate, process>>
  BY DEF HandleFresh
<1>2. msg.blk \in DOMAIN Mined /\ msg.blk \in DOMAIN Blocks
  BY BlocksAre, ReceivedIs DEF Types, Spreading
<1>3. StateOK'
  BY <1>1, <1>2 DEF Types, StateOK, process
<1>4. ToSet(peers[n]) \subseteq Nodes
  BY ElementsIn DEF Types, PeersOK
<1>5. {FreshMsg(p, msg.blk) : p \in ToSet(peers[n]) \ Miners} \subseteq Carried
  BY <1>2, <1>4 DEF FreshMsg, Carried, Spreading
<1>6. NetOK'
  <2> DEFINE msgs == {FreshMsg(p, msg.blk) : p \in ToSet(peers[n]) \ Miners}
  <2>1. \A m \in msgs : m.to \in ToSet(peers[n])
    BY DEF FreshMsg
  <2>2. msgs \subseteq Carried /\ net' = (net (-) SetToBag({msg})) (+) SentToEach(n, msgs)
    BY <1>1, <1>5
  <2> HIDE DEF msgs
  <2>3. Adds(msgs)
    BY <2>1, <2>2, PassedOnAdds
  <2> QED BY <2>2, <2>3, NetStays DEF Types
<1> QED BY <1>1, <1>3, <1>6 DEF Types, PeersOK, HandlersOK, CallOK, Call, Chunk, process

\* Messages to a node that goes down are lost.
LEMMA KillAdds == ASSUME NetOK, NEW n, Kill(n) PROVE Adds({})
<1> DEFINE S == {msg \in DOMAIN net : msg.to # n}
<1>1. S \subseteq BagToSet(net)
  BY DEF BagToSet
<1>2. net' = [msg \in S |-> net[msg]]
  BY DEF Kill
<1> HIDE DEF S
<1>3. IsABag(net') /\ BagToSet(net') = S
  BY <1>1, <1>2, BagPartIs DEF NetOK
<1> QED BY <1>1, <1>3 DEF Adds

LEMMA KillTypes == ASSUME Types, NEW n \in Nodes, Kill(n) PROVE Types'
<1>1. candidate' \in [Miners -> {NoHash} \cup DOMAIN Blocks]
  BY DEF Types, StateOK, Kill
<1>2. StateOK'
  BY <1>1 DEF Types, StateOK, Kill
<1>3. PeersOK'
  <2>1. <<>> \in Seq(Nodes)
    OBVIOUS
  <2> QED BY <2>1 DEF Types, PeersOK, Kill
<1>4. HandlersOK'
  <2>1. handler' \in [Nodes -> [1..Handlers -> Call]]
    BY FreeOK DEF Types, HandlersOK, CallOK, Kill
  <2>2. ASSUME NEW m \in Nodes, NEW g \in 1..Handlers
        PROVE  \/ handler'[m][g] = Free
               \/ handler'[m][g] = handler[m][g] /\ peers'[m] = peers[m]
    BY DEF Types, PeersOK, HandlersOK, Kill
  <2> QED BY <1>3, <2>1, <2>2, CallsFreed
<1>5. NetOK'
  BY KillAdds, NetStays DEF Types
<1> QED BY <1>2, <1>3, <1>4, <1>5 DEF Types

LEMMA RestartTypes == ASSUME Types, NEW n \in Nodes, Restart(n) PROVE Types'
<1>1. Genesis \in DOMAIN Blocks
  BY BlocksAre DEF Genesis
<1>2. StateOK'
  BY <1>1 DEF Types, StateOK, Restart
<1> QED BY <1>2 DEF Types, PeersOK, HandlersOK, CallOK, Call, Chunk, NetOK, Carried, Asking, Telling,
           Answering, Spreading, Restart

LEMMA NextTypes == ASSUME Types, [Next]_vars PROVE Types'
<1>1. CASE Next
  <2>1. ASSUME NEW n \in Nodes, NEW p \in Neighbours[n], HandleVerack(n, p) PROVE Types'
    BY <2>1, HandleVerackTypes
  <2>10. ASSUME NEW n \in Nodes, NEW p \in Neighbours[n], NEW q \in Neighbours[n], RaceVeracks(n, p, q)
         PROVE  Types'
    BY <2>10, RaceVeracksTypes
  <2>2. ASSUME NEW n \in Nodes, HandleGetblocks(n) PROVE Types'
    BY <2>2, HandleGetblocksTypes
  <2>3. ASSUME NEW n \in Nodes, HandleInv(n) PROVE Types'
    BY <2>3, HandleInvTypes
  <2>4. ASSUME NEW n \in Nodes, HandleBlockdata(n) PROVE Types'
    BY <2>4, HandleBlockdataTypes
  <2>5. ASSUME NEW n \in Nodes, HandleFresh(n) PROVE Types'
    BY <2>5, HandleFreshTypes
  <2>6. ASSUME NEW n \in Nodes, NEW h \in 1..Handlers, Ask(n, h) PROVE Types'
    BY <2>6, AskTypes
  <2>7. ASSUME NEW n \in Nodes, NEW h \in 1..Handlers, FinishInv(n, h) PROVE Types'
    BY <2>7, FinishInvTypes
  <2>8. ASSUME NEW n \in Nodes, Kill(n) \/ Restart(n) PROVE Types'
    BY <2>8, KillTypes, RestartTypes
  <2>9. ASSUME NEW n \in Miners, StartMining(n) \/ Seal(n) PROVE Types'
    BY <2>9, StartMiningTypes, SealTypes
  <2> QED BY <1>1, <2>1, <2>10, <2>2, <2>3, <2>4, <2>5, <2>6, <2>7, <2>8, <2>9 DEF Next
<1>2. CASE UNCHANGED vars
  BY <1>2 DEF vars, Types, StateOK, PeersOK, HandlersOK, CallOK, Call, Chunk, NetOK, Carried,
     Asking, Telling, Answering, Spreading
<1> QED BY <1>1, <1>2

LEMMA TypesAlways == Spec => []Types
BY InitTypes, NextTypes, PTL DEF Spec

\* Messages, handlers and databases have their types, and a handler never has
\* more workers than its node has peers, also when verack handlers race and
\* the node starts again.
THEOREM TypeCorrect == Spec => []TypeOK
BY TypesAlways, Typed, PTL

-----------------------------------------------------------------------------
(* Two nodes: what is announced is there when it is asked for.             *)

\* The blocks that all nodes but n have.
Offered(n) == {b \in DOMAIN Blocks : \A p \in Nodes \ {n} : b \in db[p]}

RealBlocks == \A n \in Nodes : db[n] \subseteq DOMAIN Mined

\* Nobody asks himself.
OthersAsked ==
  /\ \A n \in Nodes : n \notin ToSet(peers[n])
  /\ \A msg \in BagToSet(net) : msg.kind = "getblocks" => msg.from # msg.to

\* The blocks a handler asks for are offered, and those on their way are real.
HandlersServed ==
  \A n \in Nodes : \A h \in 1..Handlers : \A k \in DOMAIN handler[n][h].list :
    handler[n][h].list[k] \in Seq(Offered(n))

NetServed ==
  \A msg \in BagToSet(net) :
    /\ msg.kind = "inv" => msg.list \in Seq(Offered(msg.to))
    /\ msg.kind = "blockdata" => ToSet(msg.list) \subseteq DOMAIN Mined

Served == RealBlocks /\ OthersAsked /\ HandlersServed /\ NetServed

\* Databases only grow, so what was offered remains so.
LEMMA StaysOffered ==
  ASSUME \A n \in Nodes : db[n] \subseteq db'[n], NEW n
  PROVE  Offered(n) \subseteq Offered(n)' /\ Seq(Offered(n)) \subseteq Seq(Offered(n)')
<1>1. Offered(n) \subseteq Offered(n)'
  BY DEF Offered
<1> DEFINE A == Offered(n)
           B == Offered(n)'
<1> HIDE DEF A, B
<1>2. A \subseteq B => Seq(A) \subseteq Seq(B)
  OBVIOUS
<1> QED BY <1>1, <1>2 DEF A, B

LEMMA HandlersStayServed ==
  ASSUME HandlersServed, UNCHANGED handler, \A n \in Nodes : db[n] \subseteq db'[n]
  PROVE  HandlersServed'
BY StaysOffered DEF HandlersServed

\* New messages have to be looked at, the others stay as they are.
LEMMA NetStaysServed ==
  ASSUME NetOK, NetServed, \A n \in Nodes : db[n] \subseteq db'[n], NEW msgs, Adds(msgs),
         \A msg \in msgs : /\ msg.kind = "inv" => msg.list \in Seq(Offered(msg.to)')
                           /\ msg.kind = "blockdata" => ToSet(msg.list) \subseteq DOMAIN Mined
  PROVE  NetServed'
<1> SUFFICES ASSUME NEW msg \in BagToSet(net')
             PROVE  /\ msg.kind = "inv" => msg.list \in Seq(Offered(msg.to)')
                    /\ msg.kind = "blockdata" => ToSet(msg.list) \subseteq DOMAIN Mined
  BY DEF NetServed
<1>1. CASE msg \in msgs
  BY <1>1
<1>2. CASE msg \in BagToSet(net)
  <2>1. msg.kind = "inv" => msg.list \in Seq(Offered(msg.to)) /\ msg.to \in Nodes
    BY <1>2 DEF NetServed, NetOK, Carried, Asking, Telling, Answering, Spreading
  <2>2. Seq(Offered(msg.to)) \subseteq Seq(Offered(msg.to)')
    BY StaysOffered
  <2> QED BY <1>2, <2>1, <2>2 DEF NetServed
<1> QED BY <1>1, <1>2 DEF Adds

LEMMA InitServed == ASSUME Init, Types PROVE Served
<1>1. RealBlocks
  <2>1. start \in [Nodes -> DOMAIN Mined] /\ lastHash = start /\ DOMAIN Mined \subseteq DOMAIN Blocks
    BY SetupIs, BlocksAre DEF Types, Init
  <2>2. \A n \in Nodes : ToSet(ChainFrom(Blocks, DOMAIN Mined, lastHash[n])) \subseteq DOMAIN Mined
    BY <2>1, WalkIn
  <2> QED BY <2>2 DEF RealBlocks, Init
<1>2. OthersAsked
  BY EmptyNet DEF OthersAsked, Init, Free, ToSet
<1>3. HandlersServed
  BY DEF HandlersServed, Init, Free
<1>4. NetServed
  BY EmptyNet DEF NetServed, Init
<1> QED BY <1>1, <1>2, <1>3, <1>4 DEF Served

LEMMA OneOther ==
  ASSUME Pair, NEW n \in Nodes, NEW p \in Nodes, n # p
  PROVE  Nodes = {n, p} /\ n \notin Neighbours[n]
BY DEF Pair

\* A node handles a verack message, or two at the same time.
VerackHandled(n) ==
  \/ \E p \in Neighbours[n] : HandleVerack(n, p)
  \/ \E p, q \in Neighbours[n] : RaceVeracks(n, p, q)

\* With two nodes, both come from the other one: it gets into the list once
\* or twice, and is asked for its blocks.
Greets(n, p) ==
  /\ {n, p} \subseteq up /\ p \in Nodes /\ p # n /\ p \notin ToSet(peers[n])
  /\ peers'[n] # <<>> /\ ToSet(peers'[n]) = ToSet(peers[n]) \cup {p}
  /\ \A k \in Nodes \ {n} : peers'[k] = peers[k]
  /\ IsABag(net') /\ BagToSet(net') = BagToSet(net) \cup {GetblocksMsg(n, p)}
  /\ UNCHANGED <<db, lastHash, count, handler, candidate, process>>

LEMMA Lengthened ==
  ASSUME NEW list \in Seq(Nodes), NEW p \in Nodes, NEW added \in {<<p>>, <<p, p>>}
  PROVE  ToSet(list \o added) = ToSet(list) \cup {p} /\ list \o added # <<>>
<1> DEFINE all == list \o added
           n == Len(list)
           m == Len(added)
<1>1. /\ n \in Nat /\ m \in {1, 2} /\ Len(all) = n + m
      /\ DOMAIN all = 1..(n + m) /\ DOMAIN list = 1..n
  OBVIOUS
<1>2. \A i \in 1..n : all[i] = list[i]
  OBVIOUS
<1>3. \A i \in (n + 1)..(n + m) : all[i] = p
  <2>1. CASE added = <<p>>
    BY <2>1
  <2>2. CASE added = <<p, p>>
    BY <2>2
  <2> QED BY <2>1, <2>2
<1> HIDE DEF all, n, m
<1>4. ToSet(all) \subseteq ToSet(list) \cup {p}
  <2> SUFFICES ASSUME NEW i \in 1..(n + m) PROVE all[i] \in ToSet(list) \cup {p}
    BY <1>1 DEF ToSet
  <2>1. i \in 1..n \/ i \in (n + 1)..(n + m)
    BY <1>1
  <2> QED BY <1>1, <1>2, <1>3, <2>1 DEF ToSet
<1>5. ToSet(list) \subseteq ToSet(all)
  <2> SUFFICES ASSUME NEW i \in 1..n PROVE list[i] \in ToSet(all)
    BY <1>1 DEF ToSet
  <2>1. i \in DOMAIN all
    BY <1>1
  <2> QED BY <1>2, <2>1 DEF ToSet
<1>6. p \in ToSet(all)
  <2>1. n + 1 \in DOMAIN all /\ n + 1 \in (n + 1)..(n + m)
    BY <1>1
  <2> QED BY <1>3, <2>1 DEF ToSet
<1>7. ToSet(all) = ToSet(list) \cup {p} /\ all # <<>>
  BY <1>1, <1>4, <1>5, <1>6
<1> QED BY <1>7 DEF all

LEMMA GreetingIs ==
  ASSUME Pair, Types, NEW n \in Nodes, VerackHandled(n)
  PROVE  \E p \in Neighbours[n] : Greets(n, p)
<1>1. peers[n] \in Seq(Nodes) /\ IsABag(net)
  BY DEF Types, PeersOK, NetOK
<1>2. ASSUME NEW p \in Neighbours[n], HandleVerack(n, p) PROVE Greets(n, p)
  <2>1. p \in Nodes /\ p # n
    BY BlockSyncAssumption DEF Pair
  <2>2. ToSet(Append(peers[n], p)) = ToSet(peers[n]) \cup {p} /\ Append(peers[n], p) # <<>>
    <3> DEFINE list == peers[n]
    <3>1. list \in Seq(Nodes)
      BY <1>1
    <3> HIDE DEF list
    <3>2. Append(list, p) = list \o <<p>>
      BY <2>1, <3>1
    <3>3. <<p>> \in {<<p>>, <<p, p>>}
      OBVIOUS
    <3>4. ToSet(list \o <<p>>) = ToSet(list) \cup {p} /\ list \o <<p>> # <<>>
      BY ONLY <2>1, <3>1, <3>3, Lengthened
    <3> QED BY <3>2, <3>4 DEF list
  <2>3. /\ peers'[n] # <<>> /\ ToSet(peers'[n]) = ToSet(peers[n]) \cup {p}
        /\ \A k \in Nodes \ {n} : peers'[k] = peers[k]
    BY <1>2, <2>2 DEF HandleVerack, Types, PeersOK
  <2>4. IsABag(net') /\ BagToSet(net') = BagToSet(net) \cup {GetblocksMsg(n, p)}
    <3> DEFINE sent == {msg \in {GetblocksMsg(n, p)} : msg.to \in up}
    <3>1. sent = {GetblocksMsg(n, p)}
      BY <1>2 DEF HandleVerack, GetblocksMsg
    <3>2. IsABag(SetToBag(sent)) /\ BagToSet(SetToBag(sent)) = sent
      BY SetToBagIs
    <3>3. net' = net (+) SetToBag(sent)
      BY <1>2 DEF HandleVerack, Sent
    <3> HIDE DEF sent
    <3> QED BY <1>1, <3>1, <3>2, <3>3, BagUnionIs
  <2> QED BY <1>2, <2>1, <2>3, <2>4 DEF HandleVerack, Greets
<1>3. ASSUME NEW p \in Neighbours[n], NEW q \in Neighbours[n], RaceVeracks(n, p, q) PROVE Greets(n, p)
  <2>1. p \in Nodes /\ p # n /\ q = p
    BY BlockSyncAssumption DEF Pair
  <2>2. PICK added \in {<<p>>, <<p, p>>} : peers' = [peers EXCEPT ![n] = @ \o added]
    BY <1>3, <2>1 DEF RaceVeracks
  <2>3. ToSet(peers[n] \o added) = ToSet(peers[n]) \cup {p} /\ peers[n] \o added # <<>>
    <3> DEFINE list == peers[n]
    <3>1. list \in Seq(Nodes)
      BY <1>1
    <3> HIDE DEF list
    <3>2. ToSet(list \o added) = ToSet(list) \cup {p} /\ list \o added # <<>>
      BY ONLY <2>1, <3>1, Lengthened
    <3> QED BY <3>2 DEF list
  <2>4. /\ peers'[n] # <<>> /\ ToSet(peers'[n]) = ToSet(peers[n]) \cup {p}
        /\ \A k \in Nodes \ {n} : peers'[k] = peers[k]
    BY <2>2, <2>3 DEF Types, PeersOK
  <2>5. IsABag(net') /\ BagToSet(net') = BagToSet(net) \cup {GetblocksMsg(n, p)}
    <3>1. {msg \in {GetblocksMsg(n, p), GetblocksMsg(n, q)} : msg.to \in up} = {GetblocksMsg(n, p)}
      BY <1>3, <2>1 DEF RaceVeracks, GetblocksMsg
    <3>2. /\ IsABag(net')
          /\ BagToSet(net') =
               BagToSet(net) \cup {msg \in {GetblocksMsg(n, p), GetblocksMsg(n, q)} : msg.to \in up}
      BY <1>1, <1>3, RaceSends
    <3> QED BY <3>1, <3>2
  <2> QED BY <1>3, <2>1, <2>4, <2>5 DEF RaceVeracks, Greets
<1> QED BY <1>2, <1>3 DEF VerackHandled

LEMMA GreetsServed ==
  ASSUME Types, Served, NEW n \in Nodes, NEW p, Greets(n, p)
  PROVE  Served'
<1>1. Adds({GetblocksMsg(n, p)})
  BY DEF Greets, Adds
<1>2. OthersAsked'
  <2>1. \A k \in Nodes : k \notin ToSet(peers'[k])
    BY DEF Greets, Served, OthersAsked
  <2>2. \A msg \in BagToSet(net') : msg.kind = "getblocks" => msg.from # msg.to
    BY DEF Greets, Served, OthersAsked, GetblocksMsg
  <2> QED BY <2>1, <2>2 DEF OthersAsked
<1>3. NetServed'
  BY <1>1, NetStaysServed DEF Types, Served, Greets, GetblocksMsg
<1> QED BY <1>2, <1>3, HandlersStayServed DEF Served, RealBlocks, Greets

LEMMA HandleGetblocksServed ==
  ASSUME Pair, Types, Served, NEW n \in Nodes, HandleGetblocks(n) PROVE Served'
<1>1. PICK msg \in Received(n, "getblocks") :
        Reply(msg, IF ~BlockExisted(n, msg.top) THEN {GetblocksMsg(n, msg.from)}
                   ELSE IF UnmatchedBlocks(n, msg.top) = <<>> THEN {}
                   ELSE {InvMsg(msg.from, Announced(n, msg.top))})
  BY DEF HandleGetblocks
<1> DEFINE f == msg.from
           inv == InvMsg(f, Announced(n, msg.top))
<1>2. f \in Nodes /\ f # n
  BY ReceivedIs DEF Types, Asking, Served, OthersAsked
<1>3. \E msgs \in {{}, {GetblocksMsg(n, f)}, {inv}} : Adds(msgs)
  BY <1>1, ReplyAdds DEF Types, NetOK
<1>4. Announced(n, msg.top) \in Seq(Offered(f))
  <2> DEFINE s == Announced(n, msg.top)
  <2>1. s \in Seq(db[n])
    BY AnnouncedIs DEF Types
  <2>2. db[n] \subseteq Offered(f)
    BY <1>2, OneOther DEF Offered, Types, StateOK
  <2> HIDE DEF s
  <2> QED BY <2>1, <2>2 DEF s
<1>5. NetServed'
  <2>1. inv.kind = "inv" /\ inv.to = f /\ inv.list \in Seq(Offered(f)') /\ GetblocksMsg(n, f).kind = "getblocks"
    BY <1>4 DEF InvMsg, GetblocksMsg, Offered, HandleGetblocks
  <2> QED BY <1>3, <2>1, NetStaysServed DEF Types, Served, HandleGetblocks
<1>6. OthersAsked'
  BY <1>2, <1>3 DEF HandleGetblocks, Served, OthersAsked, Adds, GetblocksMsg, InvMsg
<1> QED BY <1>5, <1>6, HandlersStayServed DEF Served, RealBlocks, HandleGetblocks

LEMMA HandleInvServed ==
  ASSUME Pair, Types, Served, NEW n \in Nodes, HandleInv(n) PROVE Served'
<1> DEFINE free == {h \in 1..Handlers : handler[n][h] = Free}
           msgs(msg) == GetdataMsgs(msg.list)
           call(msg) == [list |-> msgs(msg), todo |-> DOMAIN msgs(msg),
              workers |-> Min({Len(peers[n]), Len(msgs(msg))})]
<1>1. PICK msg \in Received(n, "inv") :
        /\ handler' = [handler EXCEPT ![n][Min(free)] = call(msg)]
        /\ Reply(msg, {})
        /\ UNCHANGED <<db, peers>>
  BY DEF HandleInv
<1>2. msg.list \in Seq(Offered(n)) /\ msg.list \in Seq(DOMAIN Blocks)
  BY ReceivedIs DEF Types, Telling, Served, NetServed
<1>3. \A k \in DOMAIN msgs(msg) : msgs(msg)[k] \in Seq(Offered(n))
  BY <1>2, GetdataIs
<1>5. call(msg).list = msgs(msg)
  OBVIOUS
<1> HIDE DEF call, msgs
<1>6. handler \in [Nodes -> [1..Handlers -> Call]]
  BY DEF Types, HandlersOK
<1>7. HandlersServed'
  <2>1. \A m \in Nodes : Offered(m)' = Offered(m)
    BY <1>1 DEF Offered
  <2> QED BY <1>1, <1>3, <1>5, <1>6, <2>1 DEF Served, HandlersServed
<1>8. Adds({})
  BY <1>1, ReplyAdds DEF Types, NetOK
<1>9. OthersAsked'
  BY <1>1, <1>8 DEF Served, OthersAsked, Adds
<1>10. NetServed'
  BY <1>1, <1>8, NetStaysServed DEF Types, Served
<1> QED BY <1>1, <1>7, <1>9, <1>10 DEF Served, RealBlocks

LEMMA AskServed ==
  ASSUME Pair, Types, Served, NEW n \in Nodes, NEW h \in 1..Handlers, Ask(n, h) PROVE Served'
<1> DEFINE call == handler[n][h]
           data(k, p) == BlockdataMsg(n, h, k, BlocksFromHashes(p, call.list[k]))
<1>1. PICK k \in call.todo, p \in ToSet(peers[n]) :
        /\ handler' = [handler EXCEPT ![n][h].todo = @ \ {k}]
        /\ net' = IF p \in up THEN net (+) Sent({data(k, p)}) ELSE net
        /\ UNCHANGED <<db, peers>>
  BY AskedPeer
<1>2. call \in Call /\ k \in DOMAIN call.list /\ p \in Nodes /\ p # n
  BY ElementsIn DEF Types, PeersOK, HandlersOK, CallOK, Call, Served, OthersAsked
<1>3. ToSet(BlocksFromHashes(p, call.list[k])) \subseteq DOMAIN Mined
  <2> DEFINE s == call.list[k]
             r == BlocksFromHashes(p, s)
  <2>1. s \in Seq(Offered(n))
    BY <1>2 DEF Served, HandlersServed
  <2>2. \A i \in DOMAIN s : s[i] \in db[p]
    <3> HIDE DEF s
    <3> QED BY <1>2, <2>1 DEF Offered
  <2>3. r = [i \in DOMAIN s |-> s[i]]
    BY <2>2 DEF BlocksFromHashes
  <2> QED BY <1>2, <2>2, <2>3 DEF ToSet, Served, RealBlocks
<1> HIDE DEF call
<1>4. \E msgs \in {{}, {data(k, p)}} : Adds(msgs)
  <2>1. CASE p \in up
    BY <1>1, <2>1, SentAdds DEF Types, NetOK
  <2>2. CASE p \notin up
    BY <1>1, <2>2 DEF Types, NetOK, Adds
  <2> QED BY <2>1, <2>2
<1>5. data(k, p).kind = "blockdata" /\ ToSet(data(k, p).list) \subseteq DOMAIN Mined
  BY <1>3 DEF BlockdataMsg
<1> HIDE DEF data
<1>6. NetServed'
  BY <1>1, <1>4, <1>5, NetStaysServed DEF Types, Served
<1>7. handler \in [Nodes -> [1..Handlers -> Call]]
  BY DEF Types, HandlersOK
<1>8. \A m \in Nodes : \A g \in 1..Handlers :
        handler'[m][g].list = handler[m][g].list
  BY <1>1, <1>2, <1>7 DEF Call, call
<1>9. HandlersServed'
  <2>1. \A m \in Nodes : Offered(m)' = Offered(m)
    BY <1>1 DEF Offered
  <2> QED BY <1>8, <2>1 DEF Served, HandlersServed
<1>10. OthersAsked'
  BY <1>1, <1>4, <1>5 DEF Served, OthersAsked, Adds
<1> QED BY <1>1, <1>6, <1>9, <1>10 DEF Served, RealBlocks

LEMMA HandleBlockdataServed ==
  ASSUME Types, Served, NEW n \in Nodes, HandleBlockdata(n) PROVE Served'
<1>1. PICK msg \in Received(n, "blockdata") :
        /\ db' = [db EXCEPT ![n] = @ \cup ToSet(msg.list)]
        /\ Reply(msg, {})
        /\ UNCHANGED <<peers, handler>>
  BY DEF HandleBlockdata
<1>2. ToSet(msg.list) \subseteq DOMAIN Mined
  BY ReceivedIs DEF Types, Served, NetServed
<1>3. Adds({}) /\ \A k \in Nodes : db[k] \subseteq db'[k]
  BY <1>1, ReplyAdds DEF Types, NetOK, StateOK
<1>4. RealBlocks'
  BY <1>1, <1>2 DEF Types, StateOK, Served, RealBlocks
<1>5. OthersAsked'
  BY <1>1, <1>3 DEF Served, OthersAsked, Adds
<1> QED BY <1>1, <1>3, <1>4, <1>5, HandlersStayServed, NetStaysServed DEF Types, Served

\* A handler that is done or killed asks nobody.
LEMMA FreeServed ==
  ASSUME Types, Served, UNCHANGED <<db, lastHash>>,
         \A n \in Nodes : \A h \in 1..Handlers : handler'[n][h] \in {handler[n][h], Free}
  PROVE  HandlersServed'
<1>1. \A n \in Nodes : Offered(n)' = Offered(n)
  BY DEF Offered
<1>2. DOMAIN Free.list = {}
  BY DEF Free
<1> QED BY <1>1, <1>2 DEF Served, HandlersServed

LEMMA FinishInvServed ==
  ASSUME Types, Served, NEW n \in Nodes, NEW h \in 1..Handlers, FinishInv(n, h) PROVE Served'
<1> DEFINE msgs == {GetblocksMsg(n, p) : p \in ToSet(peers[n])}
<1>1. Adds(msgs)
  <2>1. (\A msg \in msgs : msg.to \in ToSet(peers[n])) /\ net' = net (+) SentToEach(n, msgs)
    BY DEF FinishInv, GetblocksMsg
  <2> HIDE DEF msgs
  <2> QED BY <2>1, SentToEachAdds
<1>2. HandlersServed'
  BY FreeServed DEF FinishInv, Types, HandlersOK
<1>3. \A msg \in msgs : msg.kind = "getblocks" /\ msg.from # msg.to
  BY DEF GetblocksMsg, Served, OthersAsked
<1>4. OthersAsked'
  BY <1>1, <1>3 DEF FinishInv, Served, OthersAsked, Adds
<1>5. NetServed'
  BY <1>1, <1>3, NetStaysServed DEF FinishInv, Types, Served
<1> QED BY <1>2, <1>4, <1>5 DEF FinishInv, Served, RealBlocks

LEMMA MiningServed ==
  ASSUME Types, Served, NEW n \in Miners, StartMining(n) \/ Seal(n) PROVE Served'
<1>1. CASE StartMining(n)
  BY <1>1 DEF StartMining, Served, RealBlocks, OthersAsked, HandlersServed, NetServed, Offered
<1>2. CASE Seal(n)
  <2>1. PICK b \in Unmined :
          /\ db' = [db EXCEPT ![n] = @ \cup {b}]
          /\ net' = net (+) SentToEach(n, {FreshMsg(p, b) : p \in ToSet(peers[n])})
          /\ UNCHANGED <<peers, handler>>
    BY <1>2 DEF Seal
  <2> DEFINE msgs == {FreshMsg(p, b) : p \in ToSet(peers[n])}
  <2>2. b \in DOMAIN Mined
    BY UnminedIs DEF Types
  <2>3. Adds(msgs) /\ (\A msg \in msgs : msg.kind = "fresh") /\ \A k \in Nodes : db[k] \subseteq db'[k]
    <3>1. /\ \A msg \in msgs : msg.kind = "fresh" /\ msg.to \in ToSet(peers[n])
          /\ n \in Nodes /\ net' = net (+) SentToEach(n, msgs)
      BY <2>1, BlockSyncAssumption DEF FreshMsg
    <3> HIDE DEF msgs
    <3> QED BY <2>1, <3>1, SentToEachAdds DEF Types, StateOK
  <2> HIDE DEF msgs
  <2>4. RealBlocks'
    BY <2>1, <2>2 DEF Types, StateOK, Served, RealBlocks
  <2>5. OthersAsked'
    BY <2>1, <2>3 DEF Served, OthersAsked, Adds
  <2> QED BY <2>1, <2>3, <2>4, <2>5, HandlersStayServed, NetStaysServed DEF Types, Served
<1> QED BY <1>1, <1>2

LEMMA HandleFreshServed ==
  ASSUME Types, Served, NEW n \in Nodes, HandleFresh(n) PROVE Served'
<1>1. PICK msg \in Received(n, "fresh") :
        /\ db' = [db EXCEPT ![n] = @ \cup {msg.blk}]
        /\ net' = (net (-) SetToBag({msg}))
                    (+) SentToEach(n, {FreshMsg(p, msg.blk) : p \in ToSet(peers[n]) \ Miners})
        /\ UNCHANGED <<peers, handler>>
  BY DEF HandleFresh
<1> DEFINE msgs == {FreshMsg(p, msg.blk) : p \in ToSet(peers[n]) \ Miners}
<1>2. msg.blk \in DOMAIN Mined
  BY ReceivedIs DEF Types, Spreading
<1>3. Adds(msgs) /\ (\A m \in msgs : m.kind = "fresh") /\ \A k \in Nodes : db[k] \subseteq db'[k]
  <2>1. /\ \A m \in msgs : m.kind = "fresh" /\ m.to \in ToSet(peers[n])
        /\ net' = (net (-) SetToBag({msg})) (+) SentToEach(n, msgs)
    BY <1>1 DEF FreshMsg
  <2> HIDE DEF msgs
  <2> QED BY <1>1, <2>1, PassedOnAdds DEF Types, StateOK
<1> HIDE DEF msgs
<1>4. RealBlocks'
  BY <1>1, <1>2 DEF Types, StateOK, Served, RealBlocks
<1>5. OthersAsked'
  BY <1>1, <1>3 DEF Served, OthersAsked, Adds
<1> QED BY <1>1, <1>3, <1>4, <1>5, HandlersStayServed, NetStaysServed DEF Types, Served

LEMMA KillServed == ASSUME Types, Served, NEW n \in Nodes, Kill(n) PROVE Served'
<1>1. Adds({})
  BY KillAdds DEF Types
<1>2. \A m \in Nodes : \A g \in 1..Handlers : handler'[m][g] \in {handler[m][g], Free}
  BY DEF Kill, Types, HandlersOK
<1>3. HandlersServed'
  BY <1>2, FreeServed DEF Kill
<1>4. \A m \in Nodes : m \notin ToSet(peers'[m])
  BY DEF Kill, Types, PeersOK, Served, OthersAsked, ToSet
<1>5. OthersAsked'
  BY <1>1, <1>4 DEF Served, OthersAsked, Adds
<1>6. NetServed'
  BY <1>1, NetStaysServed DEF Kill, Types, Served
<1> QED BY <1>3, <1>5, <1>6 DEF Kill, Served, RealBlocks

LEMMA RestartServed == ASSUME Types, Served, NEW n \in Nodes, Restart(n) PROVE Served'
<1>1. Genesis \in DOMAIN Mined
  BY BlocksAre DEF Genesis
<1>2. \A k \in Nodes : db[k] \subseteq db'[k]
  BY DEF Restart, Types, StateOK
<1>3. RealBlocks'
  BY <1>1 DEF Restart, Types, StateOK, Served, RealBlocks
<1>4. OthersAsked'
  BY DEF Restart, Served, OthersAsked
<1>5. Adds({})
  BY DEF Restart, Types, NetOK, Adds
<1>6. UNCHANGED handler
  BY DEF Restart
<1> QED BY <1>2, <1>3, <1>4, <1>5, <1>6, HandlersStayServed, NetStaysServed DEF Types, Served

LEMMA NextServed == ASSUME Pair, Types, Served, [Next]_vars PROVE Served'
<1>1. CASE Next
  <2>1. ASSUME NEW n \in Nodes, VerackHandled(n) PROVE Served'
    BY <2>1, GreetingIs, GreetsServed
  <2>2. ASSUME NEW n \in Nodes, HandleGetblocks(n) PROVE Served'
    BY <2>2, HandleGetblocksServed
  <2>3. ASSUME NEW n \in Nodes, HandleInv(n) PROVE Served'
    BY <2>3, HandleInvServed
  <2>4. ASSUME NEW n \in Nodes, HandleBlockdata(n) \/ HandleFresh(n) PROVE Served'
    BY <2>4, HandleBlockdataServed, HandleFreshServed
  <2>5. ASSUME NEW n \in Nodes, NEW h \in 1..Handlers, Ask(n, h) \/ FinishInv(n, h) PROVE Served'
    BY <2>5, AskServed, FinishInvServed
  <2>6. ASSUME NEW n \in Nodes, Kill(n) \/ Restart(n) PROVE Served'
    BY <2>6, KillServed, RestartServed
  <2>7. ASSUME NEW n \in Miners, StartMining(n) \/ Seal(n) PROVE Served'
    BY <2>7, MiningServed
  <2> QED BY <1>1, <2>1, <2>2, <2>3, <2>4, <2>5, <2>6, <2>7 DEF Next, VerackHandled
<1>2. CASE UNCHANGED vars
  BY <1>2 DEF vars, Served, RealBlocks, OthersAsked, HandlersServed, NetServed, Offered
<1> QED BY <1>1, <1>2

LEMMA ServedAlways == ASSUME Pair PROVE Spec => []Served
<1>1. Init /\ Types => Served
  BY InitServed
<1>2. Types /\ Served /\ [Next]_vars => Served'
  BY NextServed
<1> QED BY <1>1, <1>2, TypesAlways, PTL DEF Spec

\* Of two nodes, none stores the zero Block GetBlocksFromHashes returns for a
\* hash that is not there: blocks are announced by the node that is asked for
\* them, and a restart that moves its tip back leaves its database alone.
THEOREM NothingUnserved == ASSUME Pair PROVE Spec => []NoZeroBlock
<1>1. Served => NoZeroBlock
  BY BlocksAre DEF Served, RealBlocks, NoZeroBlock
<1> QED BY <1>1, ServedAlways, PTL

-----------------------------------------------------------------------------
(* Chains without holes.                                                   *)

\* With a block, its parent.
Closed(S) == \A x \in S : Blocks[x].prev \in S \cup {NoHash}

\* A tip that is stored with all its ancestors: the walk meets them all, in
\* order, and ends at a block without parent.
LEMMA WholeChain ==
  ASSUME NEW d \in SUBSET DOMAIN Mined, Closed(d), NEW h \in d
  PROVE  LET chain == ChainFrom(Blocks, d, h)
         IN  /\ chain \in Seq(d) /\ chain # <<>> /\ Blocks[Head(chain)].prev = NoHash
             /\ chain[Len(chain)] = h /\ h \in ToSet(chain)
             /\ \A i \in 1..(Len(chain) - 1) : chain[i] < h
             /\ \A i \in 2..Len(chain) : Blocks[chain[i]].prev = chain[i - 1]
             /\ Closed(ToSet(chain)) /\ chain = ChainFrom(Blocks, DOMAIN Mined, h)
<1> DEFINE chain == ChainFrom(Blocks, d, h)
<1>1. d \in SUBSET DOMAIN Blocks /\ DOMAIN Mined \in SUBSET DOMAIN Blocks /\ h \in DOMAIN Blocks
  BY BlocksAre
<1>2. ParentsFirst(Blocks, d) /\ ParentsFirst(Blocks, DOMAIN Mined) /\ chain \in Seq(d)
  BY <1>1, WalkIn
<1>3. d \subseteq 1..Len(Blocks) /\ h \in 0..Len(Blocks) /\ h \in 1..Len(Blocks)
  BY <1>1, BlocksAre
<1>4. \A k \in d : Blocks[k].prev \in d \cup {0}
  BY DEF Closed, NoHash
<1>5. /\ h \in ToSet(chain) /\ chain # <<>> /\ Blocks[Head(chain)].prev = 0
      /\ \A k \in ToSet(chain) : Blocks[k].prev \in ToSet(chain) \cup {0}
  BY <1>2, <1>3, <1>4, ChainToRoot
<1>6. chain[Len(chain)] = h /\ \A i \in 1..(Len(chain) - 1) : chain[i] < h
  BY <1>2, <1>3, ChainLast
<1>7. \A i \in 2..Len(chain) : Blocks[chain[i]].prev = chain[i - 1]
  BY <1>2, <1>3, ChainLinks
<1>8. chain = ChainFrom(Blocks, DOMAIN Mined, h)
  <2>1. d \subseteq (DOMAIN Mined) \cap 1..Len(Blocks) /\ h \in d \cup {0}
    BY <1>3
  <2> QED BY <1>2, <1>4, <2>1, ChainOfStored
<1> HIDE DEF chain
<1> QED BY <1>2, <1>5, <1>6, <1>7, <1>8 DEF Closed, NoHash, chain

LEMMA AncestorsAre ==
  ASSUME NEW t \in DOMAIN Mined
  PROVE  /\ Ancestors(t) \subseteq DOMAIN Mined /\ t \in Ancestors(t) /\ Closed(Ancestors(t))
         /\ \A x \in Ancestors(t) : x <= t
         /\ ToSet(ChainFrom(Blocks, Ancestors(t), t)) = Ancestors(t)
<1> DEFINE m == DOMAIN Mined
           chain == ChainFrom(Blocks, m, t)
<1>1. Closed(m)
  BY BlocksAre DEF Closed, NoHash
<1>2. /\ chain \in Seq(m) /\ chain[Len(chain)] = t /\ t \in ToSet(chain) /\ Closed(ToSet(chain))
      /\ \A i \in 1..(Len(chain) - 1) : chain[i] < t
  BY <1>1, WholeChain
<1>3. Ancestors(t) = ToSet(chain)
  BY DEF Ancestors
<1> HIDE DEF chain
<1>4. Ancestors(t) \subseteq m
  BY <1>2, <1>3, ElementsIn
<1>5. \A x \in ToSet(chain) : x <= t
  <2>1. Len(chain) \in Nat /\ DOMAIN chain = 1..Len(chain) /\ m \subseteq Nat /\ t \in Nat
    BY <1>2, BlocksAre
  <2>2. ASSUME NEW i \in 1..Len(chain) PROVE chain[i] <= t
    <3>1. CASE i = Len(chain)
      BY <1>2, <2>1, <3>1
    <3>2. CASE i # Len(chain)
      <4>1. i \in 1..(Len(chain) - 1)
        <5> DEFINE len == Len(chain)
        <5>1. len \in Nat /\ i \in 1..len /\ i # len
          BY <2>1, <3>2
        <5> HIDE DEF len
        <5>2. i \in 1..(len - 1)
          BY ONLY <5>1
        <5> QED BY <5>2 DEF len
      <4>2. chain[i] \in m
        BY <1>2, <2>1
      <4>3. chain[i] \in Nat /\ chain[i] < t
        BY <1>2, <2>1, <4>1, <4>2
      <4> QED BY <2>1, <4>3
    <3> QED BY <3>1, <3>2
  <2> QED BY <2>1, <2>2 DEF ToSet
<1>6. ChainFrom(Blocks, Ancestors(t), t) = chain
  BY <1>2, <1>3, <1>4, WholeChain DEF chain
<1> QED BY <1>2, <1>3, <1>4, <1>5, <1>6

\* A node that has the ancestors of its tip and nothing else.
LEMMA OwnChain ==
  ASSUME NEW n \in Nodes, NEW t \in DOMAIN Mined, db[n] = Ancestors(t), lastHash[n] = t
  PROVE  ToSet(ChainOf(n)) = Ancestors(t) /\ ~HasHole(n)
<1>1. Ancestors(t) \subseteq DOMAIN Mined /\ t \in Ancestors(t) /\ Closed(Ancestors(t))
  BY AncestorsAre
<1>2. ChainOf(n) # <<>> /\ Blocks[Head(ChainOf(n))].prev = NoHash
  BY <1>1, WholeChain DEF ChainOf
<1> QED BY <1>2, AncestorsAre DEF ChainOf, HasHole

-----------------------------------------------------------------------------
(* Two nodes on different branches.                                        *)

\* No blocks are mined and nobody was killed.
Still == setup.until = 0 /\ restarted = {}

\* Nothing but getblocks messages, each with the tip of its sender.
Forked ==
  /\ \A n \in Nodes : db[n] = Ancestors(start[n])
  /\ lastHash = start /\ up = Nodes
  /\ \A n \in Nodes : \A h \in 1..Handlers : handler[n][h] = Free
  /\ \A msg \in BagToSet(net) : msg.kind = "getblocks" /\ msg.top = start[msg.from]
  /\ (\E n \in Nodes : peers[n] # <<>>) => BagToSet(net) # {}

Delivered(msgs) == {msg \in msgs : msg.to \in up}

LEMMA SentMoves ==
  ASSUME NEW msgs, IsABag(net), net' = net (+) Sent(msgs)
  PROVE  BagToSet(net') = BagToSet(net) \cup Delivered(msgs)
BY SetToBagIs, BagUnionIs DEF Sent, Delivered

LEMMA SentToEachMoves ==
  ASSUME Types, NEW n \in Nodes, NEW msgs, \A msg \in msgs : msg.to \in ToSet(peers[n]),
         net' = net (+) SentToEach(n, msgs)
  PROVE  BagToSet(net') = BagToSet(net) \cup Delivered(msgs)
<1> DEFINE sent == SentToEach(n, msgs)
<1>1. IsABag(sent) /\ BagToSet(sent) = Delivered(msgs)
  BY SentToEachIs DEF Types, Delivered
<1> HIDE DEF sent
<1>2. net' = net (+) sent
  BY DEF sent
<1> QED BY <1>1, <1>2, BagUnionIs DEF Types, NetOK

LEMMA BagMinusKeeps ==
  ASSUME NEW A, NEW B, IsABag(A), IsABag(B)
  PROVE  BagToSet(A) \ BagToSet(B) \subseteq BagToSet(A (-) B)
BY DEF IsABag, (-), BagToSet

LEMMA ReplyMoves ==
  ASSUME NEW msg, NEW msgs, IsABag(net), Reply(msg, msgs)
  PROVE  /\ (BagToSet(net) \ {msg}) \cup Delivered(msgs) \subseteq BagToSet(net')
         /\ BagToSet(net') \subseteq BagToSet(net) \cup Delivered(msgs)
<1> DEFINE rest == net (-) SetToBag({msg})
           out == Delivered(msgs)
<1>1. IsABag(SetToBag(out)) /\ BagToSet(SetToBag(out)) = out
  BY SetToBagIs
<1>2. IsABag(rest) /\ BagToSet(rest) \subseteq BagToSet(net) /\ BagToSet(net) \ {msg} \subseteq BagToSet(rest)
  BY SetToBagIs, BagMinusIs, BagMinusKeeps
<1>3. net' = rest (+) SetToBag(out)
  BY DEF Reply, Sent, Delivered
<1> HIDE DEF rest, out
<1>4. BagToSet(net') = BagToSet(rest) \cup out
  BY <1>1, <1>2, <1>3, BagUnionIs
<1> QED BY <1>2, <1>4 DEF out

\* Neither of two nodes on different branches has the other's tip.
LEMMA TipsUnknown ==
  ASSUME Pair, Types, Still, ~OneChain, NEW n \in Nodes, NEW f \in Nodes, n # f
  PROVE  start[f] \notin Ancestors(start[n])
<1>1. \A k \in Nodes : start[k] \in Ancestors(start[k])
  BY SetupIs, AncestorsAre DEF Types
<1>2. Nodes = {n, f}
  BY OneOther
<1> QED BY <1>1, <1>2 DEF OneChain, Still

LEMMA InitForked == ASSUME Init PROVE Forked
BY EmptyNet DEF Init, Forked, Ancestors, Free

\* Nothing to mine.
LEMMA NoneUnmined == ASSUME Still PROVE Unmined = {}
BY DEF Still, Unmined

LEMMA NextForked ==
  ASSUME Pair, Types, Served, Still, ~OneChain, Forked, [Next]_vars, Still'
  PROVE  Forked'
<1>1. \A n \in Nodes : start[n] \in DOMAIN Mined
  BY SetupIs DEF Types
<1>2. ASSUME NEW n \in Nodes, VerackHandled(n) PROVE Forked'
  <2>1. PICK p \in Neighbours[n] : Greets(n, p)
    BY <1>2, GreetingIs
  <2> DEFINE ask == GetblocksMsg(n, p)
  <2>2. ask.kind = "getblocks" /\ ask.top = start[ask.from]
    BY DEF GetblocksMsg, Forked
  <2>4. BagToSet(net') = BagToSet(net) \cup {ask}
    BY <2>1 DEF Greets
  <2> HIDE DEF ask
  <2>5. UNCHANGED <<db, lastHash, handler, up, setup>>
    BY <2>1 DEF Greets, process
  <2> QED BY <2>2, <2>4, <2>5 DEF Forked, start
<1>3. ASSUME NEW n \in Nodes, HandleGetblocks(n) PROVE Forked'
  <2>1. PICK msg \in Received(n, "getblocks") :
          Reply(msg, IF ~BlockExisted(n, msg.top) THEN {GetblocksMsg(n, msg.from)}
                     ELSE IF UnmatchedBlocks(n, msg.top) = <<>> THEN {}
                     ELSE {InvMsg(msg.from, Announced(n, msg.top))})
    BY <1>3 DEF HandleGetblocks
  <2> DEFINE f == msg.from
  <2>2. f \in Nodes /\ f # n /\ msg.top = start[f]
    BY ReceivedIs DEF Types, Asking, Served, OthersAsked, Forked
  <2>3. ~BlockExisted(n, msg.top)
    BY <1>1, <2>2, TipsUnknown, OwnChain DEF BlockExisted, Forked
  <2>4. Reply(msg, {GetblocksMsg(n, f)})
    BY <2>1, <2>3
  <2>5. Delivered({GetblocksMsg(n, f)}) = {GetblocksMsg(n, f)}
    BY <2>2 DEF Delivered, Forked, GetblocksMsg
  <2>6. /\ BagToSet(net') \subseteq BagToSet(net) \cup {GetblocksMsg(n, f)}
        /\ GetblocksMsg(n, f) \in BagToSet(net')
    BY <2>4, <2>5, ReplyMoves DEF Types, NetOK
  <2>7. UNCHANGED <<db, lastHash, handler, up, setup>>
    BY <1>3 DEF HandleGetblocks, process
  <2> QED BY <2>6, <2>7 DEF Forked, GetblocksMsg, start
<1>4. ASSUME NEW n \in Nodes, HandleInv(n) \/ HandleBlockdata(n) \/ HandleFresh(n) PROVE FALSE
  BY <1>4 DEF HandleInv, HandleBlockdata, HandleFresh, Received, Forked
<1>5. ASSUME NEW n \in Nodes, NEW h \in 1..Handlers, Ask(n, h) \/ FinishInv(n, h) PROVE FALSE
  BY <1>5 DEF Ask, FinishInv, Forked, Free
<1>6. ASSUME NEW n \in Nodes, Kill(n) \/ Restart(n) PROVE FALSE
  BY <1>6 DEF Kill, Restart, Forked, Still
<1>7. ASSUME NEW n \in Miners, StartMining(n) \/ Seal(n) PROVE FALSE
  BY <1>7, NoneUnmined DEF StartMining, Seal
<1>8. CASE Next
  BY <1>2, <1>3, <1>4, <1>5, <1>6, <1>7, <1>8 DEF Next, VerackHandled
<1>9. CASE UNCHANGED vars
  BY <1>9 DEF vars, Forked, start, Ancestors
<1> QED BY <1>8, <1>9

\* The network started from does not change, and who was killed once was.
LEMMA StillBefore ==
  ASSUME [Next]_vars
  PROVE  /\ setup' = setup
         /\ restarted \subseteq restarted' /\ restarted' \subseteq restarted \cup setup.restarting
<1>1. CASE Next
  <2>1. ASSUME NEW n \in Nodes, HandleGetblocks(n) \/ HandleInv(n) \/ HandleBlockdata(n) \/ HandleFresh(n)
        PROVE  setup' = setup /\ restarted' = restarted
    BY <2>1 DEF HandleGetblocks, HandleInv, HandleBlockdata, HandleFresh, process
  <2>2. ASSUME NEW n \in Nodes, VerackHandled(n) PROVE setup' = setup /\ restarted' = restarted
    BY <2>2 DEF VerackHandled, HandleVerack, RaceVeracks, process
  <2>3. ASSUME NEW n \in Nodes, NEW h \in 1..Handlers, Ask(n, h) \/ FinishInv(n, h) PROVE setup' = setup /\ restarted' = restarted
    BY <2>3 DEF Ask, FinishInv, process
  <2>4. ASSUME NEW n \in Nodes, Kill(n) \/ Restart(n) 
        PROVE  /\ setup' = setup
               /\ restarted \subseteq restarted' /\ restarted' \subseteq restarted \cup setup.restarting
    BY <2>4 DEF Kill, Restart
  <2>5. ASSUME NEW n \in Miners, StartMining(n) \/ Seal(n) PROVE setup' = setup /\ restarted' = restarted
    BY <2>5 DEF StartMining, Seal, process
  <2> QED BY <1>1, <2>1, <2>2, <2>3, <2>4, <2>5 DEF Next, VerackHandled
<1> QED BY <1>1 DEF vars

\* Only nodes that may be killed are.
OnlyThose == restarted \subseteq setup.restarting

LEMMA OnlyThoseAlways == Spec => []OnlyThose
<1>1. Init => OnlyThose
  BY DEF Init, OnlyThose
<1>2. OnlyThose /\ [Next]_vars => OnlyThose'
  BY StillBefore DEF OnlyThose
<1> QED BY <1>1, <1>2, PTL DEF Spec

LEMMA ForkedAlways == ASSUME Pair PROVE Spec => [](Still /\ ~OneChain => Forked)
<1> DEFINE Inv == Still /\ ~OneChain => Forked
<1>1. Init => Inv
  BY InitForked
<1>2. Types /\ Served /\ Inv /\ [Next]_vars => Inv'
  <2> SUFFICES ASSUME Types, Served, Inv, [Next]_vars, Still', ~OneChain' PROVE Forked'
    OBVIOUS
  <2>1. setup' = setup /\ restarted \subseteq restarted'
    BY StillBefore
  <2>2. Still /\ ~OneChain
    BY <2>1 DEF Still, OneChain, start
  <2> QED BY <2>2, NextForked
<1> QED BY <1>1, <1>2, TypesAlways, ServedAlways, PTL DEF Spec

\* Nodes whose chains fork never exchange a block: to a tip it does not know a
\* node answers with its own, and the other one does the same.
THEOREM ForksNeverMerge == ASSUME Pair PROVE Spec => []ForkStays
<1>1. OnlyThose /\ (Still /\ ~OneChain => Forked) => ForkStays
  BY DEF ForkStays, Still, Forked, OnlyThose
<1> QED BY <1>1, OnlyThoseAlways, ForkedAlways, PTL

-----------------------------------------------------------------------------
(* Answers to getblocks messages, and the pieces of an inv message.        *)

\* A part of a list, element by element.
LEMMA PieceIs ==
  ASSUME NEW A, NEW s \in Seq(A), NEW a \in Nat \ {0}, NEW b \in Nat, b <= Len(s)
  PROVE  LET r == SubSeq(s, a, b)
         IN  /\ r \in Seq(A) /\ Len(r) = (IF a <= b THEN b - a + 1 ELSE 0)
             /\ \A i \in 1..Len(r) : r[i] = s[a + i - 1]
<1>1. \A i \in a..b : s[i] \in A
  OBVIOUS
<1> DEFINE r == SubSeq(s, a, b)
<1>2. /\ r \in Seq(A) /\ Len(r) = (IF a <= b THEN b - a + 1 ELSE 0)
      /\ \A i \in 1..(b - a + 1) : r[i] = s[a + i - 1]
  BY <1>1, SubSeqProperties
<1> HIDE DEF r
<1>3. \A i \in 1..Len(r) : i \in 1..(b - a + 1)
  BY <1>2
<1> QED BY <1>2, <1>3 DEF r

\* A node answers one that has a tip on its chain: it says nothing only when
\* that is its own tip, and else announces blocks of its chain that follow that
\* tip one upon the other.
LEMMA AnswerOnChain ==
  ASSUME StateOK, NEW b \in Nodes, lastHash[b] \in db[b], NEW top \in ToSet(ChainOf(b))
  PROVE  /\ UnmatchedBlocks(b, top) = <<>> => top = lastHash[b]
         /\ UnmatchedBlocks(b, top) # <<>> =>
              /\ Announced(b, top) # <<>> /\ ToSet(Announced(b, top)) \subseteq ToSet(ChainOf(b))
              /\ \A x \in ToSet(Announced(b, top)) :
                   Blocks[x].prev \in ToSet(Announced(b, top)) \cup {top}
<1> DEFINE t == lastHash[b]
           chain == ChainOf(b)
           d == ToSet(chain)
           len == Len(chain)
           at == CHOOSE i \in DOMAIN chain : chain[i] = top
           new == UnmatchedBlocks(b, top)
           m == Min({InvLimit, Len(new)})
           list == Announced(b, top)
<1>1. chain \in Seq(d) /\ chain[len] = t /\ \A i \in 2..len : Blocks[chain[i]].prev = chain[i - 1]
  <2>1. db[b] \in SUBSET DOMAIN Blocks /\ t \in db[b] /\ t \in DOMAIN Blocks
    BY DEF StateOK
  <2>2. ParentsFirst(Blocks, db[b]) /\ chain \in Seq(db[b])
    BY <2>1, WalkIn DEF ChainOf
  <2>3. t \in 0..Len(Blocks) /\ t \in 1..Len(Blocks)
    BY <2>1, BlocksAre
  <2>4. chain[len] = t
    BY <2>1, <2>2, <2>3, ChainLast DEF ChainOf
  <2>5. \A i \in 2..len : Blocks[chain[i]].prev = chain[i - 1]
    BY <2>2, <2>3, ChainLinks DEF ChainOf
  <2>6. chain \in Seq(d)
    <3> HIDE DEF chain
    <3> QED BY <2>2 DEF ToSet
  <2> QED BY <2>4, <2>5, <2>6
<1>2. at \in DOMAIN chain /\ chain[at] = top
  BY DEF ToSet
<1>3. new = SubSeq(chain, at + 1, len)
  BY DEF UnmatchedBlocks
<1>4. list = SubSeq(new, 1, m)
  BY DEF Announced
<1> HIDE DEF d, t, chain, at, new, m, list
<1>5. len \in Nat /\ at \in 1..len /\ at + 1 \in Nat \ {0}
  BY <1>1, <1>2
<1>6. /\ new \in Seq(d) /\ Len(new) = (IF at + 1 <= len THEN len - (at + 1) + 1 ELSE 0)
      /\ \A i \in 1..Len(new) : new[i] = chain[at + 1 + i - 1]
  BY <1>1, <1>3, <1>5, PieceIs
<1> HIDE DEF len
<1>7. Len(new) = len - at /\ \A i \in 1..Len(new) : new[i] = chain[at + i]
  BY <1>5, <1>6
<1>8. new = <<>> => top = t
  <2>1. new = <<>> => at = len
    BY <1>5, <1>7
  <2> QED BY <2>1, <1>1, <1>2
<1>9. ASSUME new # <<>>
       PROVE  /\ list # <<>> /\ ToSet(list) \subseteq d
              /\ \A x \in ToSet(list) : Blocks[x].prev \in ToSet(list) \cup {top}
  <2>1. Len(new) \in Nat \ {0} /\ InvLimit \in Nat \ {0}
    BY <1>6, <1>9, BlockSyncAssumption
  <2>2. m \in Nat \ {0} /\ m <= Len(new)
    BY <2>1, MinOfTwo DEF m
  <2>3. list \in Seq(d) /\ Len(list) = m /\ \A i \in 1..m : list[i] = new[i]
    <3>1. /\ list \in Seq(d) /\ Len(list) = (IF 1 <= m THEN m - 1 + 1 ELSE 0)
          /\ \A i \in 1..Len(list) : list[i] = new[1 + i - 1]
      BY <1>4, <1>6, <2>2, PieceIs
    <3> QED BY <2>2, <3>1
  <2>4. DOMAIN list = 1..m /\ list # <<>> /\ ToSet(list) \subseteq d
    BY <2>2, <2>3, ElementsIn
  <2>5. \A i \in 1..m : list[i] = chain[at + i] /\ at + i \in 2..len
    BY <1>5, <1>7, <2>1, <2>2, <2>3
  <2>6. ASSUME NEW i \in 1..m PROVE Blocks[list[i]].prev \in ToSet(list) \cup {top}
    <3>1. Blocks[list[i]].prev = chain[at + i - 1]
      <4>1. list[i] = chain[at + i] /\ at + i \in 2..len
        BY <2>5
      <4>2. \A j \in 2..len : Blocks[chain[j]].prev = chain[j - 1]
        BY <1>1
      <4>3. Blocks[chain[at + i]].prev = chain[(at + i) - 1]
        BY <4>1, <4>2
      <4> QED BY <1>5, <4>1, <4>3
    <3>2. CASE i = 1
      <4>1. at + i - 1 = at
        BY <1>5, <3>2
      <4> QED BY <1>2, <3>1, <4>1
    <3>3. CASE i # 1
      <4>1. i - 1 \in 1..m /\ at + (i - 1) = at + i - 1
        BY <1>5, <2>2, <3>3
      <4>2. list[i - 1] = chain[at + i - 1]
        BY <2>5, <4>1
      <4> QED BY <2>4, <3>1, <4>1, <4>2 DEF ToSet
    <3> QED BY <3>2, <3>3
  <2> QED BY <2>4, <2>6 DEF ToSet
<1> QED BY <1>8, <1>9 DEF d, new, list, t, chain

\* A node that has all ancestors of its tip and nothing else has every tip
\* among them on its chain.
LEMMA AnswerIs ==
  ASSUME StateOK, NEW b \in Nodes, NEW t \in DOMAIN Mined, db[b] = Ancestors(t), lastHash[b] = t,
         NEW top \in Ancestors(t)
  PROVE  /\ BlockExisted(b, top)
         /\ UnmatchedBlocks(b, top) = <<>> => top = t
         /\ UnmatchedBlocks(b, top) # <<>> =>
              /\ Announced(b, top) # <<>> /\ ToSet(Announced(b, top)) \subseteq Ancestors(t)
              /\ \A x \in ToSet(Announced(b, top)) :
                   Blocks[x].prev \in ToSet(Announced(b, top)) \cup {top}
<1>1. ToSet(ChainOf(b)) = Ancestors(t) /\ lastHash[b] \in db[b]
  BY OwnChain, AncestorsAre
<1>2. BlockExisted(b, top)
  BY <1>1 DEF BlockExisted
<1> QED BY <1>1, <1>2, AnswerOnChain

\* A node whose tip is an ancestor of t has t on its chain only when that is
\* its own tip.
LEMMA TipIsLast ==
  ASSUME StateOK, NEW a \in Nodes, NEW t \in DOMAIN Mined, lastHash[a] \in Ancestors(t),
         lastHash[a] \in db[a], BlockExisted(a, t)
  PROVE  lastHash[a] = t /\ UnmatchedBlocks(a, t) = <<>>
<1> DEFINE d == db[a]
           h == lastHash[a]
           chain == ChainOf(a)
           len == Len(chain)
           at == CHOOSE i \in DOMAIN chain : chain[i] = t
<1>1. t \in ToSet(chain)
  BY BlocksAre DEF BlockExisted
<1>2. d \in SUBSET DOMAIN Blocks /\ h \in DOMAIN Blocks
  BY DEF StateOK
<1>3. ParentsFirst(Blocks, d) /\ h \in 0..Len(Blocks) /\ h \in 1..Len(Blocks) /\ h \in Nat /\ t \in Nat
  <2>1. ParentsFirst(Blocks, d)
    BY <1>2, WalkIn
  <2>2. h \in 1..Len(Blocks) /\ Len(Blocks) \in Nat /\ t \in Nat
    <3> HIDE DEF h
    <3> QED BY <1>2, BlocksAre
  <2> QED BY <2>1, <2>2
<1>4. t <= h
  <2> DEFINE A == d \cap 1..h
  <2>1. chain \in Seq(A)
    BY <1>3, ChainBelow DEF ChainOf
  <2> HIDE DEF chain, A
  <2>2. t \in A
    BY <1>1, <2>1, ElementsIn
  <2> QED BY <1>3, <2>2 DEF A
<1>5. h <= t
  BY AncestorsAre
<1>6. h = t
  BY <1>3, <1>4, <1>5
<1>7. /\ len \in Nat \ {0} /\ chain[len] = h /\ \A i \in 1..(len - 1) : chain[i] < h
  BY <1>3, ChainLast DEF ChainOf
<1>8. chain \in Seq(d) /\ DOMAIN chain = 1..len
  BY <1>2, WalkIn DEF ChainOf
<1>9. at \in DOMAIN chain /\ chain[at] = t
  BY <1>1 DEF ToSet
<1>10. UnmatchedBlocks(a, t) = SubSeq(chain, at + 1, len)
  BY <1>1 DEF UnmatchedBlocks
<1> HIDE DEF chain, at, len, h, d
<1>11. at = len
  <2>1. at \in 1..len /\ (at \in 1..(len - 1) => chain[at] < h)
    BY <1>7, <1>8, <1>9
  <2>2. at \notin 1..(len - 1)
    BY <1>3, <1>6, <1>9, <2>1
  <2> QED BY <1>7, <2>1, <2>2
<1>12. SubSeq(chain, len + 1, len) = <<>>
  <2>1. len + 1 \in Nat \ {0} /\ len <= Len(chain) /\ ~(len + 1 <= len)
    BY <1>7 DEF len
  <2>2. SubSeq(chain, len + 1, len) \in Seq(d) /\ Len(SubSeq(chain, len + 1, len)) = 0
    BY <1>7, <1>8, <2>1, PieceIs
  <2> QED BY <2>2
<1> QED BY <1>6, <1>10, <1>11, <1>12 DEF h

\* The piece of `size` hashes that hash number i is in.
LEMMA PieceOf ==
  ASSUME NEW len \in Nat, NEW size \in Nat \ {0}, NEW i \in 1..len
  PROVE  \E k \in 1..(len + size - 1) \div size : (k - 1) * size + 1 <= i /\ i <= k * size
<1> DEFINE e == (i - 1) \div size
           q == (len + size - 1) \div size
<1>1. e \in Nat /\ e * size <= i - 1 /\ i - 1 < (e + 1) * size
  OBVIOUS
<1>2. q \in Nat /\ len + size - 1 < (q + 1) * size
  OBVIOUS
<1>3. e + 1 <= q
  <2>1. (e + 1) * size = e * size + size /\ e * size \in Nat
    BY <1>1
  <2>2. e * size + size <= len + size - 1
    BY <1>1, <2>1
  <2>3. (e + 1) * size < (q + 1) * size
    BY <1>2, <2>1, <2>2
  <2> HIDE DEF e, q
  <2>4. e + 1 < q + 1
    BY <1>1, <1>2, <2>3
  <2> QED BY <1>1, <1>2, <2>4
<1>4. ((e + 1) - 1) * size = e * size
  BY <1>1
<1> HIDE DEF e, q
<1>5. e + 1 \in 1..q /\ ((e + 1) - 1) * size + 1 <= i /\ i <= (e + 1) * size
  BY <1>1, <1>2, <1>3, <1>4
<1> QED BY <1>5 DEF q

\* The getdata messages of handleInvMsg leave no hash out.
LEMMA PiecesCover ==
  ASSUME NEW A, NEW hashes \in Seq(A), NEW x \in ToSet(hashes)
  PROVE  \E k \in DOMAIN GetdataMsgs(hashes) : x \in ToSet(GetdataMsgs(hashes)[k])
<1> DEFINE size == MAX_BLOCKS_IN_TRANSIT_PER_PEER
           len == Len(hashes)
<1>1. len \in Nat /\ size \in Nat \ {0} /\ DOMAIN hashes = 1..len
  BY BlockSyncAssumption
<1>2. PICK i \in 1..len : x = hashes[i]
  BY <1>1 DEF ToSet
<1>3. PICK k \in 1..(len + size - 1) \div size : (k - 1) * size + 1 <= i /\ i <= k * size
  <2> HIDE DEF len, size
  <2> QED BY <1>1, PieceOf
<1> DEFINE a == (k - 1) * size + 1
           b == Min({k * size, len})
           r == SubSeq(hashes, a, b)
<1>4. GetdataMsgs(hashes)[k] = r /\ k \in DOMAIN GetdataMsgs(hashes)
  BY DEF GetdataMsgs
<1>5. a \in Nat \ {0} /\ k * size \in Nat
  <2>1. (k - 1) * size \in Nat /\ k * size = (k - 1) * size + size
    <3> HIDE DEF len, size
    <3> QED BY <1>1, Rounded
  <2> DEFINE m == (k - 1) * size
  <2> HIDE DEF m, size
  <2> QED BY <1>1, <2>1 DEF m
<1> DEFINE n == k * size
<1>6. b \in {n, len} /\ b \in Nat /\ b <= len
  <2> HIDE DEF len, n
  <2>1. Min({n, len}) \in {n, len} /\ Min({n, len}) <= len
    BY <1>1, <1>5, MinOfTwo DEF n
  <2> QED BY <1>1, <1>5, <2>1 DEF n
<1>7. a <= i /\ i <= n /\ n \in Nat
  BY <1>3, <1>5
<1> HIDE DEF a, b, n, len
<1>8. a <= i /\ i <= b /\ i \in Nat
  BY <1>1, <1>2, <1>6, <1>7
<1> HIDE DEF r
<1>9. r \in Seq(A) /\ Len(r) = b - a + 1 /\ \A j \in 1..Len(r) : r[j] = hashes[a + j - 1]
  <2>1. b <= Len(hashes) /\ a <= b
    BY <1>5, <1>6, <1>8 DEF len
  <2> QED BY <1>5, <1>6, <2>1, PieceIs DEF r
<1>10. i - a + 1 \in 1..Len(r) /\ a + (i - a + 1) - 1 = i
  BY <1>5, <1>6, <1>8, <1>9
<1>11. r[i - a + 1] = x /\ i - a + 1 \in DOMAIN r
  BY <1>2, <1>9, <1>10
<1> QED BY <1>4, <1>11 DEF ToSet

-----------------------------------------------------------------------------
(***************************************************************************)
(* Two nodes on one chain, of which a is behind b or level with it: b keeps*)
(* what it has and is never asked to take anything; whatever a has not yet *)
(* got is on its way, being asked for, or will be asked for again.         *)
(***************************************************************************)

\* Both have a peer in the other; nobody asks himself.
Couple ==
  \E a, b \in Nodes : /\ a # b /\ Nodes = {a, b}
                      /\ Neighbours[a] = {b} /\ Neighbours[b] = {a}

\* A handler with a worker asks for all its blocks and finishes; one without,
\* started before its node had a peer, does not.
Active(n) == \E h \in 1..Handlers : handler[n][h].workers # 0

OnTheWay(n) ==
  {x \in DOMAIN Blocks : \E msg \in Received(n, "blockdata") : x \in ToSet(msg.list)}

Wanted(n) ==
  {x \in DOMAIN Blocks : \E h \in 1..Handlers :
     /\ handler[n][h].workers # 0
     /\ \E k \in handler[n][h].todo : x \in ToSet(handler[n][h].list[k])}

\* What n has or is going to have without further questions.
Coming(n) == db[n] \cup OnTheWay(n) \cup Wanted(n)

Ahead(b) ==
  /\ up = Nodes /\ db[b] = Ancestors(start[b]) /\ lastHash[b] = start[b]
  /\ \A h \in 1..Handlers : handler[b][h] = Free

\* No block comes without its parent.
NoGaps(a, b) ==
  lastHash[a] \in db[a] /\ Coming(a) \subseteq Ancestors(start[b]) /\ Closed(Coming(a))

\* What is announced to a follows upon what it has or will have; blocks it
\* gets belong to a handler that still waits for them.
Fits(a, b, msg) ==
  /\ msg.kind \in {"getblocks", "inv", "blockdata"}
  /\ msg.kind = "getblocks" => IF msg.to = a THEN msg.top = start[b] ELSE msg.top \in db[a]
  /\ msg.kind = "inv" =>
       /\ msg.to = a /\ msg.list # <<>> /\ ToSet(msg.list) \subseteq Ancestors(start[b])
       /\ Closed(Coming(a) \cup ToSet(msg.list))
  /\ msg.kind = "blockdata" => msg.to = a /\ handler[a][msg.call].workers # 0

\* With a peer and nothing to wait for, a has the tip of b, or b is going to
\* be asked for what follows the tip that a has now.
Pursued(a, b) ==
  peers[a] # <<>> /\ ~Active(a) /\ Received(a, "inv") = {} =>
    lastHash[a] = start[b] \/ \E msg \in Received(b, "getblocks") : msg.top = lastHash[a]

Follows(a, b) ==
  Ahead(b) /\ NoGaps(a, b) /\ Pursued(a, b) /\ \A msg \in BagToSet(net) : Fits(a, b, msg)

\* The situation of the following lemmas.
Chasing(a, b) ==
  a # b /\ Nodes = {a, b} /\ Types /\ Served /\ Still /\ Follows(a, b)

LEMMA ChasingIs ==
  ASSUME NEW a \in Nodes, NEW b \in Nodes, Chasing(a, b)
  PROVE  /\ start[b] \in DOMAIN Mined /\ start \in [Nodes -> DOMAIN Mined]
         /\ db[a] \subseteq Ancestors(start[b]) /\ IsABag(net)
BY SetupIs DEF Chasing, Types, NetOK, Follows, NoGaps, Coming

\* What is coming stays the same when no block moves.
LEMMA ComingStays ==
  ASSUME NEW n, UNCHANGED <<db, handler>>, NEW msgs,
         BagToSet(net') \subseteq BagToSet(net) \cup msgs, \A msg \in msgs : msg.kind # "blockdata",
         \A msg \in BagToSet(net) : msg.kind = "blockdata" => msg \in BagToSet(net')
  PROVE  Coming(n)' = Coming(n) /\ (Closed(Coming(n)) => Closed(Coming(n)'))
<1>1. Received(n, "blockdata")' = Received(n, "blockdata")
  BY DEF Received
<1>2. Coming(n)' = Coming(n)
  BY <1>1 DEF Coming, OnTheWay, Wanted
<1> QED BY <1>2

\* Closed sets together are closed.
LEMMA ClosedTogether ==
  ASSUME NEW S, NEW T, NEW L, S \subseteq T, Closed(T), Closed(S \cup L)
  PROVE  Closed(T \cup L)
BY DEF Closed

\* A message on its way stays what it should be when more is coming.
LEMMA StillFits ==
  ASSUME NEW a, NEW b, NEW msg, Fits(a, b, msg), UNCHANGED setup,
         db[a] \subseteq db'[a], Coming(a) \subseteq Coming(a)', Closed(Coming(a)'),
         msg.kind = "blockdata" => handler'[a][msg.call].workers # 0
  PROVE  Fits(a, b, msg)'
<1>1. start[b]' = start[b]
  BY DEF start
<1>2. Ancestors(start[b])' = Ancestors(start[b])
  BY <1>1 DEF Ancestors
<1>3. msg.kind = "inv" => Closed(Coming(a)' \cup ToSet(msg.list))
  BY ClosedTogether DEF Fits
<1> QED BY <1>1, <1>2, <1>3 DEF Fits

\* Steps that only ask and announce.
LEMMA MessagesFollow ==
  ASSUME NEW a \in Nodes, NEW b \in Nodes, Chasing(a, b),
         UNCHANGED <<db, lastHash, handler, up, setup>>, NEW msgs,
         BagToSet(net') \subseteq BagToSet(net) \cup msgs,
         \A msg \in msgs : msg.kind # "blockdata" /\ Fits(a, b, msg),
         \A msg \in BagToSet(net) : msg.kind = "blockdata" => msg \in BagToSet(net'),
         Pursued(a, b)'
  PROVE  Follows(a, b)'
<1>1. Coming(a)' = Coming(a) /\ Closed(Coming(a)')
  BY ComingStays DEF Chasing, Follows, NoGaps
<1>2. start[b]' = start[b] /\ Ancestors(start[b])' = Ancestors(start[b])
  BY DEF start, Ancestors
<1>3. Ahead(b)'
  BY <1>2 DEF Chasing, Follows, Ahead
<1>4. NoGaps(a, b)'
  BY <1>1, <1>2 DEF Chasing, Follows, NoGaps
<1>5. ASSUME NEW msg \in BagToSet(net') PROVE Fits(a, b, msg)'
  <2>1. Fits(a, b, msg)
    BY DEF Chasing, Follows
  <2>2. msg.kind = "blockdata" => handler'[a][msg.call].workers # 0
    BY <2>1 DEF Fits
  <2> QED BY <1>1, <2>1, <2>2, StillFits
<1> QED BY <1>3, <1>4, <1>5 DEF Follows

LEMMA InitFollows ==
  ASSUME Init, Types, NEW a \in Nodes, NEW b \in Nodes, start[a] \in Ancestors(start[b])
  PROVE  Follows(a, b)
<1>1. start \in [Nodes -> DOMAIN Mined] /\ lastHash = start
  BY SetupIs DEF Types, Init
<1>2. BagToSet(net) = {}
  BY EmptyNet DEF Init
<1>3. \A n \in Nodes : db[n] = Ancestors(start[n])
  BY <1>1 DEF Init, Ancestors
<1>4. Ahead(b)
  BY <1>1, <1>3 DEF Init, Ahead
<1>5. Coming(a) = db[a]
  BY <1>2 DEF Coming, OnTheWay, Wanted, Received, Init, Free
<1>6. Ancestors(start[a]) \subseteq Ancestors(start[b])
  <2> DEFINE s == start[a]
             d == Ancestors(start[b])
  <2>1. s \in DOMAIN Mined /\ d \subseteq DOMAIN Mined /\ Closed(d) /\ s \in d
    BY <1>1, AncestorsAre
  <2>2. ChainFrom(Blocks, d, s) \in Seq(d) /\ ChainFrom(Blocks, d, s) = ChainFrom(Blocks, DOMAIN Mined, s)
    <3> HIDE DEF d, s
    <3> QED BY <2>1, WholeChain
  <2>3. ToSet(ChainFrom(Blocks, DOMAIN Mined, s)) \subseteq d
    <3> DEFINE chain == ChainFrom(Blocks, DOMAIN Mined, s)
    <3>1. chain \in Seq(d)
      BY <2>2
    <3> HIDE DEF chain, d
    <3> QED BY <3>1, ElementsIn DEF chain
  <2> QED BY <2>3 DEF Ancestors
<1>7. NoGaps(a, b)
  BY <1>1, <1>3, <1>5, <1>6, AncestorsAre DEF NoGaps
<1>8. Pursued(a, b)
  BY DEF Init, Pursued
<1> QED BY <1>2, <1>4, <1>7, <1>8 DEF Follows

\* The question a node asks has the right tip.
LEMMA QuestionFits ==
  ASSUME NEW a \in Nodes, NEW b \in Nodes, Chasing(a, b), NEW n \in Nodes, NEW p \in Nodes, n # p
  PROVE  LET ask == GetblocksMsg(n, p)
         IN  /\ ask.kind = "getblocks" /\ Fits(a, b, ask) /\ Delivered({ask}) = {ask}
             /\ n = a => ask.to = b /\ ask.top = lastHash[a]
BY DEF Chasing, Follows, Ahead, NoGaps, Fits, GetblocksMsg, Delivered

LEMMA GreetsFollows ==
  ASSUME NEW a \in Nodes, NEW b \in Nodes, Chasing(a, b), NEW n \in Nodes, NEW p \in Nodes, Greets(n, p)
  PROVE  Follows(a, b)'
<1> DEFINE ask == GetblocksMsg(n, p)
<1>1. UNCHANGED <<db, lastHash, handler, up, setup>>
  BY DEF Greets, process
<1>0. n # p
  BY DEF Greets
<1>2. /\ ask.kind = "getblocks" /\ Fits(a, b, ask) /\ Delivered({ask}) = {ask}
      /\ n = a => ask.to = b /\ ask.top = lastHash[a]
  BY <1>0, QuestionFits
<1> HIDE DEF ask
<1>3. BagToSet(net') = BagToSet(net) \cup {ask}
  BY DEF Greets, ask
<1>4. Pursued(a, b)'
  <2>1. CASE n = a
    <3>1. ask \in Received(b, "getblocks")' /\ ask.top = lastHash'[a]
      BY <1>1, <1>2, <1>3, <2>1 DEF Received
    <3> QED BY <3>1 DEF Pursued
  <2>2. CASE n # a
    <3>1. peers'[a] = peers[a]
      BY <2>2 DEF Greets
    <3>2. Received(a, "inv")' = Received(a, "inv") /\ Received(b, "getblocks") \subseteq Received(b, "getblocks")'
      BY <1>2, <1>3 DEF Received
    <3> QED BY <1>1, <3>1, <3>2 DEF Chasing, Follows, Pursued, Active, start
  <2> QED BY <2>1, <2>2
<1> DEFINE msgs == {ask}
<1>5. /\ BagToSet(net') \subseteq BagToSet(net) \cup msgs
      /\ \A msg \in msgs : msg.kind # "blockdata" /\ Fits(a, b, msg)
      /\ \A msg \in BagToSet(net) : msg.kind = "blockdata" => msg \in BagToSet(net')
  BY <1>2, <1>3
<1> HIDE DEF msgs
<1> QED BY <1>1, <1>4, <1>5, MessagesFollow

LEMMA HandleGetblocksFollows ==
  ASSUME NEW a \in Nodes, NEW b \in Nodes, Chasing(a, b), NEW n \in Nodes, HandleGetblocks(n)
  PROVE  Follows(a, b)'
<1>1. PICK msg \in Received(n, "getblocks") :
        Reply(msg, IF ~BlockExisted(n, msg.top) THEN {GetblocksMsg(n, msg.from)}
                   ELSE IF UnmatchedBlocks(n, msg.top) = <<>> THEN {}
                   ELSE {InvMsg(msg.from, Announced(n, msg.top))})
  BY DEF HandleGetblocks
<1> DEFINE f == msg.from
           top == msg.top
           t == start[b]
           ask == GetblocksMsg(n, f)
           inv == InvMsg(f, Announced(n, top))
<1>2. UNCHANGED <<db, lastHash, peers, handler, up, setup>> /\ start[b]' = t
  BY <1>1 DEF HandleGetblocks, process, start
<1>3. /\ msg \in BagToSet(net) /\ msg.to = n /\ msg.kind = "getblocks" /\ f \in Nodes /\ f # n
      /\ Fits(a, b, msg)
  BY ReceivedIs DEF Chasing, Types, Asking, Served, OthersAsked, Follows
<1>4. t \in DOMAIN Mined /\ db[a] \subseteq Ancestors(t) /\ IsABag(net) /\ StateOK
  BY ChasingIs DEF Chasing, Types
<1>5. /\ ask.kind = "getblocks" /\ Fits(a, b, ask) /\ Delivered({ask}) = {ask}
      /\ n = a => ask.to = b /\ ask.top = lastHash[a]
  BY <1>3, QuestionFits
<1>6. ASSUME NEW out, Reply(msg, out), \A m \in out : m.kind # "blockdata" /\ Fits(a, b, m), Pursued(a, b)'
      PROVE  Follows(a, b)'
  <2>1. BagToSet(net') \subseteq BagToSet(net) \cup out /\ BagToSet(net) \ {msg} \subseteq BagToSet(net')
    BY <1>4, <1>6, ReplyMoves DEF Delivered
  <2> QED BY <1>2, <1>3, <1>6, <2>1, MessagesFollow
<1>7. CASE n = b
  <2>1. f = a /\ top \in db[a] /\ top \in Ancestors(t) /\ msg.to # a
    BY <1>3, <1>4, <1>7 DEF Chasing, Fits
  <2>2. db[b] = Ancestors(t) /\ lastHash[b] = t /\ a \in up /\ b \in up
    BY DEF Chasing, Follows, Ahead
  <2>3. /\ BlockExisted(b, top)
        /\ UnmatchedBlocks(b, top) = <<>> => top = t
        /\ UnmatchedBlocks(b, top) # <<>> =>
              /\ Announced(b, top) # <<>> /\ ToSet(Announced(b, top)) \subseteq Ancestors(t)
              /\ \A x \in ToSet(Announced(b, top)) :
                   Blocks[x].prev \in ToSet(Announced(b, top)) \cup {top}
    BY <1>4, <2>1, <2>2, AnswerIs
  <2>4. CASE UnmatchedBlocks(b, top) = <<>>
    <3>1. Reply(msg, {}) /\ top = t
      BY <1>1, <1>7, <2>3, <2>4
    <3>2. BagToSet(net) \ {msg} \subseteq BagToSet(net') /\ BagToSet(net') \subseteq BagToSet(net)
      BY <1>4, <3>1, ReplyMoves DEF Delivered
    <3>3. Received(a, "inv") = {} <=> Received(a, "inv")' = {}
      BY <1>3, <3>2 DEF Received
    <3>4. \A m \in Received(b, "getblocks") : m = msg \/ m \in Received(b, "getblocks")'
      BY <3>2 DEF Received
    <3>5. Pursued(a, b)'
      BY <1>2, <3>1, <3>3, <3>4 DEF Chasing, Follows, Pursued, Active
    <3> QED BY <1>6, <3>1, <3>5
  <2>5. CASE UnmatchedBlocks(b, top) # <<>>
    <3>1. Reply(msg, {inv})
      BY <1>1, <1>7, <2>3, <2>5
    <3>2. inv.kind = "inv" /\ inv.to = a /\ inv.list = Announced(b, top)
      BY <1>7, <2>1 DEF InvMsg
    <3>3. inv \in Received(a, "inv")'
      <4>1. inv \in Delivered({inv})
        BY <2>2, <3>2 DEF Delivered
      <4>2. inv \in BagToSet(net')
        BY <1>4, <3>1, <4>1, ReplyMoves
      <4> QED BY <3>2, <4>2 DEF Received
    <3>4. Pursued(a, b)'
      BY <3>3 DEF Pursued
    <3>5. Fits(a, b, inv)
      <4>1. top \in Coming(a) /\ Closed(Coming(a))
        BY <2>1 DEF Coming, Chasing, Follows, NoGaps
      <4>2. Closed(Coming(a) \cup ToSet(Announced(b, top)))
        BY <2>3, <2>5, <4>1 DEF Closed
      <4> QED BY <2>3, <2>5, <3>2, <4>2 DEF Fits
    <3> QED BY <1>6, <3>1, <3>2, <3>4, <3>5
  <2> QED BY <2>4, <2>5
<1>8. CASE n = a
  <2>1. top = t /\ msg.to # b
    BY <1>3, <1>8 DEF Chasing, Fits
  <2>2. lastHash[a] \in db[a] /\ lastHash[a] \in Ancestors(t)
    BY <1>4 DEF Chasing, Follows, NoGaps
  <2>3. BlockExisted(a, t) => UnmatchedBlocks(a, t) = <<>>
    BY <1>4, <2>2, TipIsLast
  <2>4. PICK out \in {{}, {ask}} : Reply(msg, out)
    BY <1>1, <1>8, <2>1, <2>3
  <2>5. BagToSet(net') \subseteq BagToSet(net) \cup out /\ BagToSet(net) \ {msg} \subseteq BagToSet(net')
    BY <1>4, <2>4, ReplyMoves DEF Delivered
  <2>6. Received(a, "inv") = {} <=> Received(a, "inv")' = {}
    BY <1>3, <1>5, <2>4, <2>5 DEF Received
  <2>7. Received(b, "getblocks") \subseteq Received(b, "getblocks")'
    BY <2>1, <2>5 DEF Received
  <2>8. Pursued(a, b)'
    BY <1>2, <2>6, <2>7 DEF Chasing, Follows, Pursued, Active
  <2> QED BY <1>5, <1>6, <2>4, <2>8
<1> QED BY <1>7, <1>8 DEF Chasing

\* Steps of a that move blocks towards its database.
LEMMA BlocksFollow ==
  ASSUME NEW a \in Nodes, NEW b \in Nodes, Chasing(a, b), UNCHANGED <<up, setup>>,
         db'[b] = db[b], lastHash'[b] = lastHash[b], handler'[b] = handler[b],
         db[a] \subseteq db'[a], lastHash'[a] \in db'[a], Coming(a) \subseteq Coming(a)',
         Coming(a)' \subseteq Ancestors(start[b]), Closed(Coming(a)'),
         \A msg \in BagToSet(net') : msg \in BagToSet(net) \/ Fits(a, b, msg)',
         \A msg \in BagToSet(net') : msg.kind = "blockdata" => handler'[a][msg.call].workers # 0,
         Pursued(a, b)'
  PROVE  Follows(a, b)'
<1>1. start[b]' = start[b] /\ Ancestors(start[b])' = Ancestors(start[b])
  BY DEF start, Ancestors
<1>2. Ahead(b)'
  BY <1>1 DEF Chasing, Follows, Ahead
<1>3. NoGaps(a, b)'
  BY <1>1 DEF NoGaps
<1>4. ASSUME NEW msg \in BagToSet(net') PROVE Fits(a, b, msg)'
  <2>1. CASE msg \in BagToSet(net)
    <3>1. Fits(a, b, msg)
      BY <2>1 DEF Chasing, Follows
    <3> QED BY <1>4, <3>1, StillFits
  <2> QED BY <1>4, <2>1
<1> QED BY <1>2, <1>3, <1>4 DEF Follows

\* Free handlers are chosen among those there are.
LEMMA MinIn == ASSUME NEW S \in SUBSET Nat, S # {} PROVE Min(S) \in S
<1>1. \E x \in S : \A y \in S : x =< y
  BY LeastNumber
<1> QED BY <1>1 DEF Min

LEMMA HandleInvFollows ==
  ASSUME NEW a \in Nodes, NEW b \in Nodes, Chasing(a, b), NEW n \in Nodes, HandleInv(n)
  PROVE  Follows(a, b)'
<1> DEFINE free == {h \in 1..Handlers : handler[n][h] = Free}
           h == Min(free)
           msgs(msg) == GetdataMsgs(msg.list)
           takers(msg) == Min({Len(peers[n]), Len(msgs(msg))})
           call(msg) == [list |-> msgs(msg), todo |-> DOMAIN msgs(msg), workers |-> takers(msg)]
<1>1. PICK msg \in Received(n, "inv") :
        /\ free # {}
        /\ handler' = [handler EXCEPT ![n][h] = call(msg)]
        /\ Reply(msg, {})
        /\ UNCHANGED <<db, lastHash, peers, process>>
  BY DEF HandleInv
<1> DEFINE pieces == msgs(msg)
           list == msg.list
           workers == takers(msg)
<1>2. /\ n = a /\ list # <<>> /\ ToSet(list) \subseteq Ancestors(start[b])
      /\ Closed(Coming(a) \cup ToSet(list)) /\ list \in Seq(DOMAIN Blocks)
  <2>1. msg \in BagToSet(net) /\ msg.to = n /\ msg.kind = "inv" /\ msg \in Telling
    BY ReceivedIs DEF Chasing, Types
  <2>2. Fits(a, b, msg)
    BY <2>1 DEF Chasing, Follows
  <2>3. list \in Seq(DOMAIN Blocks)
    BY <2>1 DEF Telling
  <2> QED BY <2>1, <2>2, <2>3 DEF Fits
<1>3. h \in 1..Handlers /\ handler[a][h] = Free
  <2>1. free \in SUBSET Nat
    BY HandlersType
  <2> HIDE DEF free
  <2>2. h \in free
    BY <1>1, <2>1, MinIn
  <2> QED BY <1>2, <2>2 DEF free
<1>4. \A x \in DOMAIN Blocks : x \in ToSet(list) <=> \E k \in DOMAIN pieces : x \in ToSet(pieces[k])
  <2> DEFINE A == ToSet(list)
  <2>1. list \in Seq(A)
    BY <1>2 DEF ToSet
  <2>2. \A k \in DOMAIN pieces : pieces[k] \in Seq(A)
    BY <2>1, GetdataIs
  <2>3. \A k \in DOMAIN pieces : ToSet(pieces[k]) \subseteq A
    <3> HIDE DEF pieces, A
    <3> QED BY <2>2, ElementsIn
  <2> QED BY <2>1, <2>3, PiecesCover
<1>5. Len(pieces) \in Nat \ {0}
  <2>1. Len(pieces) \in Nat /\ DOMAIN pieces = 1..Len(pieces)
    BY <1>2, GetdataIs
  <2>2. list[1] \in ToSet(list) /\ list[1] \in DOMAIN Blocks
    BY <1>2 DEF ToSet
  <2> HIDE DEF pieces
  <2> QED BY <1>4, <2>1, <2>2
<1>6. workers # 0 <=> peers[a] # <<>>
  <2>1. peers[a] \in Seq(Nodes) /\ Len(peers[a]) \in Nat
    BY DEF Chasing, Types, PeersOK
  <2> DEFINE l == Len(peers[a])
             q == Len(pieces)
  <2>2. workers = Min({l, q})
    BY <1>2
  <2> HIDE DEF l, q, pieces, workers
  <2>3. l \in Nat /\ q \in Nat \ {0} /\ workers \in {l, q} /\ workers <= l
    BY <1>5, <2>1, <2>2, MinOfTwo DEF l, q
  <2>4. peers[a] # <<>> <=> l # 0
    BY <2>1 DEF l
  <2> QED BY <2>3, <2>4
<1> HIDE DEF pieces, list, workers, h
<1>7. handler' = [handler EXCEPT ![a][h] = [list |-> pieces, todo |-> DOMAIN pieces, workers |-> workers]]
  BY <1>1, <1>2 DEF pieces, workers
<1>8. handler \in [Nodes -> [1..Handlers -> Call]]
  BY DEF Chasing, Types, HandlersOK
<1>9. /\ handler'[b] = handler[b] /\ handler'[a][h].workers = workers
      /\ handler'[a][h].todo = DOMAIN pieces /\ handler'[a][h].list = pieces
      /\ \A g \in 1..Handlers : g # h => handler'[a][g] = handler[a][g]
  BY <1>3, <1>7, <1>8 DEF Chasing
<1> HIDE DEF msgs, takers, call
<1>10. BagToSet(net) \ {msg} \subseteq BagToSet(net') /\ BagToSet(net') \subseteq BagToSet(net)
  BY <1>1, ChasingIs, ReplyMoves DEF Delivered
<1>11. Received(a, "blockdata")' = Received(a, "blockdata")
  BY <1>10 DEF Received
<1>12. Wanted(a)' = Wanted(a) \cup (IF workers # 0 THEN ToSet(list) \cap DOMAIN Blocks ELSE {})
  BY <1>3, <1>4, <1>9 DEF Wanted, Free
<1>13. ToSet(list) \subseteq DOMAIN Blocks
  BY <1>2, ElementsIn DEF list
<1>14. Coming(a)' = Coming(a) \cup (IF workers # 0 THEN ToSet(list) ELSE {})
  BY <1>1, <1>11, <1>12, <1>13 DEF Coming, OnTheWay
<1>15. Coming(a)' \subseteq Ancestors(start[b]) /\ Closed(Coming(a)')
  BY <1>2, <1>14 DEF Chasing, Follows, NoGaps, list
<1>16. \A m \in BagToSet(net') : m.kind = "blockdata" => handler'[a][m.call].workers # 0
  <2> SUFFICES ASSUME NEW m \in BagToSet(net'), m.kind = "blockdata"
               PROVE  handler'[a][m.call].workers # 0
    OBVIOUS
  <2>1. m \in BagToSet(net) /\ Fits(a, b, m) /\ m \in Carried
    BY <1>10 DEF Chasing, Types, NetOK, Follows
  <2>2. m.call \in 1..Handlers /\ handler[a][m.call].workers # 0
    BY <2>1 DEF Fits, Carried, Asking, Telling, Answering, Spreading
  <2> QED BY <1>3, <1>9, <2>2 DEF Free
<1>17. Pursued(a, b)'
  BY <1>1, <1>3, <1>6, <1>9 DEF Pursued, Active
<1>18. UNCHANGED <<db, lastHash, up, setup>> /\ lastHash[a] \in db[a]
  BY <1>1 DEF process, Chasing, Follows, NoGaps
<1>19. Coming(a) \subseteq Coming(a)'
  BY <1>14
<1>20. \A m \in BagToSet(net') : m \in BagToSet(net) \/ Fits(a, b, m)'
  BY <1>10
<1>21. db'[b] = db[b] /\ lastHash'[b] = lastHash[b] /\ db[a] \subseteq db'[a] /\ lastHash'[a] \in db'[a]
  BY <1>18
<1> QED BY <1>9, <1>15, <1>16, <1>17, <1>18, <1>19, <1>20, <1>21, BlocksFollow

LEMMA AskFollows ==
  ASSUME NEW a \in Nodes, NEW b \in Nodes, Chasing(a, b),
         NEW n \in Nodes, NEW h \in 1..Handlers, Ask(n, h)
  PROVE  Follows(a, b)'
<1> DEFINE call == handler[n][h]
           data(k, p) == BlockdataMsg(n, h, k, BlocksFromHashes(p, call.list[k]))
<1>1. PICK k \in call.todo, p \in ToSet(peers[n]) :
        /\ call.workers # 0
        /\ handler' = [handler EXCEPT ![n][h].todo = @ \ {k}]
        /\ net' = IF p \in up THEN net (+) Sent({data(k, p)}) ELSE net
        /\ UNCHANGED <<db, lastHash, peers, process>>
  BY AskedPeer DEF Chasing
<1>2. /\ n = a /\ handler[a][h] \in Call /\ k \in DOMAIN handler[a][h].list /\ p = b
      /\ k \in handler[a][h].todo /\ handler[a][h].workers # 0
  <2>1. handler[n][h] # Free
    BY <1>1 DEF Free
  <2>2. n = a
    BY <2>1 DEF Chasing, Follows, Ahead
  <2>3. CallOK(handler[a][h])
    BY DEF Chasing, Types, HandlersOK
  <2>4. p \in Nodes /\ p # a
    BY <1>1, <2>2, ElementsIn DEF Chasing, Types, PeersOK, Served, OthersAsked
  <2> QED BY <1>1, <2>2, <2>3, <2>4 DEF CallOK, Chasing
<1> DEFINE piece == handler[a][h].list[k]
           msg == BlockdataMsg(a, h, k, piece)
<1>3. piece \in Seq(DOMAIN Blocks) /\ piece # <<>>
  <2>1. handler[a][h].list \in Seq(Chunk)
    BY <1>2 DEF Call
  <2> HIDE DEF piece
  <2>2. piece \in Chunk
    BY <1>2, <2>1 DEF piece
  <2> QED BY <2>2 DEF Chunk
<1>4. ToSet(piece) \subseteq DOMAIN Blocks /\ ToSet(piece) \subseteq Wanted(a)
  <2>1. ToSet(piece) \subseteq DOMAIN Blocks
    BY <1>3, ElementsIn
  <2> QED BY <1>2, <2>1 DEF Wanted
<1>5. BlocksFromHashes(b, piece) = piece
  <2>1. ToSet(piece) \subseteq db[b]
    BY <1>4 DEF Chasing, Follows, NoGaps, Ahead, Coming
  <2>2. \A i \in DOMAIN piece : piece[i] \in db[b]
    BY <2>1 DEF ToSet
  <2>3. piece = [i \in DOMAIN piece |-> piece[i]]
    BY <1>3
  <2> HIDE DEF piece
  <2> QED BY <2>2, <2>3 DEF BlocksFromHashes
<1>6. BagToSet(net') = BagToSet(net) \cup {msg}
  <2>1. a \in up /\ b \in up /\ IsABag(net)
    BY ChasingIs DEF Chasing, Follows, Ahead
  <2>2. net' = net (+) Sent({msg})
    BY <1>1, <1>2, <1>5, <2>1
  <2>3. Delivered({msg}) = {msg}
    BY <2>1 DEF Delivered, BlockdataMsg
  <2> QED BY <2>1, <2>2, <2>3, SentMoves
<1>7. msg.kind = "blockdata" /\ msg.to = a /\ msg.call = h /\ msg.list = piece
  BY DEF BlockdataMsg
<1> HIDE DEF msg, piece, call, data
<1>8. handler \in [Nodes -> [1..Handlers -> Call]]
  BY DEF Chasing, Types, HandlersOK
<1>9. handler' = [handler EXCEPT ![a] = [handler[a] EXCEPT ![h] = [handler[a][h] EXCEPT !.todo = @ \ {k}]]]
  BY <1>1, <1>2
<1>10. /\ handler'[b] = handler[b]
       /\ \A g \in 1..Handlers : g # h => handler'[a][g] = handler[a][g]
       /\ handler'[a][h].workers = handler[a][h].workers /\ handler'[a][h].list = handler[a][h].list
       /\ handler'[a][h].todo = handler[a][h].todo \ {k}
  BY <1>2, <1>8, <1>9 DEF Chasing, Call
<1>11. \A g \in 1..Handlers : handler'[a][g].workers = handler[a][g].workers
                             /\ handler'[a][g].list = handler[a][g].list
                             /\ handler'[a][g].todo \subseteq handler[a][g].todo
  BY <1>10
<1>12. OnTheWay(a)' = OnTheWay(a) \cup ToSet(piece)
  <2>1. Received(a, "blockdata")' = Received(a, "blockdata") \cup {msg}
    BY <1>6, <1>7 DEF Received
  <2> QED BY <1>4, <1>7, <2>1 DEF OnTheWay
<1>13. Wanted(a)' \subseteq Wanted(a)
  BY <1>11 DEF Wanted
<1>14. Wanted(a) \subseteq Wanted(a)' \cup ToSet(piece)
  <2> SUFFICES ASSUME NEW x \in Wanted(a), x \notin ToSet(piece) PROVE x \in Wanted(a)'
    OBVIOUS
  <2>1. PICK g \in 1..Handlers :
          /\ handler[a][g].workers # 0
          /\ \E j \in handler[a][g].todo : x \in ToSet(handler[a][g].list[j])
    BY DEF Wanted
  <2>2. PICK j \in handler[a][g].todo : x \in ToSet(handler[a][g].list[j])
    BY <2>1
  <2>3. j \in handler'[a][g].todo
    BY <1>10, <2>2 DEF piece
  <2> QED BY <1>11, <2>1, <2>2, <2>3 DEF Wanted
<1>15. Coming(a)' = Coming(a)
  BY <1>1, <1>4, <1>12, <1>13, <1>14 DEF Coming
<1>16. UNCHANGED <<db, lastHash, peers, up, setup>> /\ lastHash[a] \in db[a]
       /\ Coming(a) \subseteq Ancestors(start[b]) /\ Closed(Coming(a)')
  BY <1>1, <1>15 DEF process, Chasing, Follows, NoGaps
<1>17. \A m \in BagToSet(net') : m.kind = "blockdata" => handler'[a][m.call].workers # 0
  <2> SUFFICES ASSUME NEW m \in BagToSet(net'), m.kind = "blockdata"
               PROVE  handler'[a][m.call].workers # 0
    OBVIOUS
  <2>1. CASE m = msg
    BY <1>2, <1>7, <1>10, <2>1
  <2>2. CASE m # msg
    <3>1. m \in BagToSet(net) /\ Fits(a, b, m) /\ m \in Carried
      BY <1>6, <2>2 DEF Chasing, Types, NetOK, Follows
    <3>2. m.call \in 1..Handlers /\ handler[a][m.call].workers # 0
      BY <3>1 DEF Fits, Carried, Asking, Telling, Answering, Spreading
    <3> QED BY <1>11, <3>2
  <2> QED BY <2>1, <2>2
<1>18. \A m \in BagToSet(net') : m \in BagToSet(net) \/ Fits(a, b, m)'
  <2> SUFFICES ASSUME NEW m \in BagToSet(net'), m \notin BagToSet(net) PROVE Fits(a, b, m)'
    OBVIOUS
  <2>1. m.kind = "blockdata" /\ m.to = a
    BY <1>6, <1>7
  <2> QED BY <1>17, <2>1 DEF Fits
<1>19. Pursued(a, b)'
  BY <1>2, <1>10 DEF Pursued, Active
<1> QED BY <1>10, <1>15, <1>16, <1>17, <1>18, <1>19, BlocksFollow

LEMMA HandleBlockdataFollows ==
  ASSUME NEW a \in Nodes, NEW b \in Nodes, Chasing(a, b), NEW n \in Nodes, HandleBlockdata(n)
  PROVE  Follows(a, b)'
<1>1. PICK msg \in Received(n, "blockdata") :
        /\ db' = [db EXCEPT ![n] = @ \cup ToSet(msg.list)]
        /\ lastHash' = [lastHash EXCEPT ![n] =
                          IF msg.index = count[n] THEN Last(msg.list) ELSE @]
        /\ Reply(msg, {})
        /\ UNCHANGED <<peers, count, handler, candidate, process>>
  BY DEF HandleBlockdata
<1> DEFINE list == msg.list
<1>2. /\ msg \in BagToSet(net) /\ n = a /\ msg.to = a /\ msg.kind = "blockdata"
      /\ msg.call \in 1..Handlers /\ handler[a][msg.call].workers # 0
      /\ list \in Seq(DOMAIN Blocks) /\ list # <<>>
  <2>1. msg \in BagToSet(net) /\ msg.to = n /\ msg.kind = "blockdata" /\ msg \in Answering
    BY ReceivedIs DEF Chasing, Types
  <2>2. Fits(a, b, msg)
    BY <2>1 DEF Chasing, Follows
  <2>3. msg.call \in 1..Handlers /\ list \in Chunk
    BY <2>1 DEF Answering
  <2> QED BY <2>1, <2>2, <2>3 DEF Fits, Chunk
<1>3. ToSet(list) \subseteq DOMAIN Blocks /\ Last(list) \in ToSet(list)
  <2>1. ToSet(list) \subseteq DOMAIN Blocks
    BY <1>2, ElementsIn
  <2>2. Len(list) \in DOMAIN list
    BY <1>2
  <2> QED BY <2>1, <2>2 DEF Last, ToSet
<1>4. BagToSet(net) \ {msg} \subseteq BagToSet(net') /\ BagToSet(net') \subseteq BagToSet(net)
  BY <1>1, ChasingIs, ReplyMoves DEF Delivered
<1>5. ToSet(list) \subseteq OnTheWay(a)
  BY <1>2, <1>3 DEF OnTheWay, Received
<1> HIDE DEF list
<1>6. /\ db'[a] = db[a] \cup ToSet(list) /\ db'[b] = db[b] /\ lastHash'[b] = lastHash[b]
      /\ lastHash'[a] \in {Last(list), lastHash[a]}
  BY <1>1, <1>2 DEF Chasing, Types, StateOK, list
<1>7. lastHash'[a] \in db'[a]
  BY <1>3, <1>6 DEF Chasing, Follows, NoGaps
<1>8. OnTheWay(a) \subseteq OnTheWay(a)' \cup ToSet(list) /\ OnTheWay(a)' \subseteq OnTheWay(a)
  BY <1>4 DEF OnTheWay, Received, list
<1>9. Wanted(a)' = Wanted(a)
  BY <1>1 DEF Wanted
<1>10. Coming(a)' = Coming(a)
  BY <1>5, <1>6, <1>8, <1>9 DEF Coming
<1>11. UNCHANGED <<handler, up, setup>>
  BY <1>1 DEF process
<1>12. Coming(a) \subseteq Ancestors(start[b]) /\ Closed(Coming(a)')
  BY <1>10 DEF Chasing, Follows, NoGaps
<1>13. \A m \in BagToSet(net') : m.kind = "blockdata" => handler'[a][m.call].workers # 0
  BY <1>4, <1>11 DEF Chasing, Follows, Fits
<1>14. Pursued(a, b)'
  BY <1>2, <1>11 DEF Pursued, Active
<1>15. \A m \in BagToSet(net') : m \in BagToSet(net) \/ Fits(a, b, m)'
  BY <1>4
<1>16. db[a] \subseteq db'[a] /\ handler'[b] = handler[b] /\ Coming(a) \subseteq Coming(a)'
  BY <1>6, <1>10, <1>11
<1>17. Coming(a)' \subseteq Ancestors(start[b])
  BY <1>10, <1>12
<1> QED BY <1>6, <1>7, <1>11, <1>12, <1>13, <1>14, <1>15, <1>16, <1>17, BlocksFollow

LEMMA FinishInvFollows ==
  ASSUME SleepIsEnough, NEW a \in Nodes, NEW b \in Nodes, Chasing(a, b),
         NEW n \in Nodes, NEW h \in 1..Handlers, FinishInv(n, h)
  PROVE  Follows(a, b)'
<1> DEFINE msgs == {GetblocksMsg(a, p) : p \in ToSet(peers[a])}
<1>1. n = a
  BY DEF FinishInv, Chasing, Follows, Ahead
<1>2. /\ handler[a][h].todo = {} /\ handler' = [handler EXCEPT ![a][h] = Free]
      /\ net' = net (+) SentToEach(a, msgs) /\ UNCHANGED <<db, lastHash, peers, up, setup>>
      /\ \A msg \in Received(a, "blockdata") : msg.call # h
  BY <1>1 DEF FinishInv, process
<1>3. ToSet(peers[a]) \subseteq {b}
  <2>1. ToSet(peers[a]) \subseteq Nodes
    BY ElementsIn DEF Chasing, Types, PeersOK
  <2> QED BY <2>1 DEF Chasing, Served, OthersAsked
<1> DEFINE ask == GetblocksMsg(a, b)
<1>4. /\ ask.kind = "getblocks" /\ Fits(a, b, ask) /\ Delivered({ask}) = {ask}
      /\ ask.to = b /\ ask.top = lastHash[a]
  BY QuestionFits DEF Chasing
<1>5. msgs \subseteq {ask}
  BY <1>3
<1>6. peers[a] # <<>> => ask \in msgs
  <2>1. peers[a] # <<>> => peers[a][1] \in ToSet(peers[a])
    BY DEF Chasing, Types, PeersOK, ToSet
  <2> QED BY <1>3, <2>1
<1>7. BagToSet(net') = BagToSet(net) \cup msgs
  <2>1. Delivered(msgs) = msgs
    BY <1>4, <1>5 DEF Delivered
  <2>2. \A msg \in msgs : msg.to \in ToSet(peers[a])
    BY DEF GetblocksMsg
  <2> HIDE DEF msgs
  <2> QED BY <1>2, <2>1, <2>2, SentToEachMoves DEF Chasing
<1> HIDE DEF msgs, ask
<1>8. /\ handler'[b] = handler[b] /\ handler'[a][h] = Free
      /\ \A g \in 1..Handlers : g # h => handler'[a][g] = handler[a][g]
  BY <1>2 DEF Chasing, Types, HandlersOK
<1>9. Received(a, "blockdata")' = Received(a, "blockdata")
  BY <1>4, <1>5, <1>7 DEF Received
<1>10. Wanted(a)' = Wanted(a)
  BY <1>2, <1>8 DEF Wanted, Free
<1>11. Coming(a)' = Coming(a)
  BY <1>2, <1>9, <1>10 DEF Coming, OnTheWay
<1>12. \A m \in BagToSet(net') : m.kind = "blockdata" => handler'[a][m.call].workers # 0
  <2> SUFFICES ASSUME NEW m \in BagToSet(net'), m.kind = "blockdata"
               PROVE  handler'[a][m.call].workers # 0
    OBVIOUS
  <2>1. m \in BagToSet(net) /\ Fits(a, b, m) /\ m \in Carried
    BY <1>4, <1>5, <1>7 DEF Chasing, Types, NetOK, Follows
  <2>2. m.call \in 1..Handlers /\ handler[a][m.call].workers # 0 /\ m \in Received(a, "blockdata")
    BY <2>1 DEF Fits, Carried, Asking, Telling, Answering, Spreading, Received
  <2> QED BY <1>2, <1>8, <2>2
<1>13. \A m \in BagToSet(net') : m \in BagToSet(net) \/ Fits(a, b, m)'
  <2> SUFFICES ASSUME NEW m \in BagToSet(net'), m \notin BagToSet(net) PROVE Fits(a, b, m)'
    OBVIOUS
  <2>1. m.kind = "getblocks" /\ m.to = b /\ m.top = lastHash[a] /\ b # a
    BY <1>4, <1>5, <1>7 DEF Chasing
  <2>2. lastHash[a] \in db'[a]
    BY <1>2 DEF Chasing, Follows, NoGaps
  <2> QED BY <2>1, <2>2 DEF Fits
<1>14. Pursued(a, b)'
  <2>1. peers'[a] # <<>> => ask \in Received(b, "getblocks")' /\ ask.top = lastHash'[a]
    BY <1>2, <1>4, <1>6, <1>7 DEF Received
  <2> QED BY <2>1 DEF Pursued
<1>15. lastHash[a] \in db[a] /\ Coming(a) \subseteq Ancestors(start[b]) /\ Closed(Coming(a)')
  BY <1>11 DEF Chasing, Follows, NoGaps
<1>16. UNCHANGED <<up, setup>> /\ db'[b] = db[b] /\ lastHash'[b] = lastHash[b]
       /\ db[a] \subseteq db'[a] /\ lastHash'[a] \in db'[a]
  BY <1>2, <1>15
<1>17. Coming(a) \subseteq Coming(a)' /\ Coming(a)' \subseteq Ancestors(start[b])
  BY <1>11, <1>15
<1> QED BY <1>8, <1>12, <1>13, <1>14, <1>15, <1>16, <1>17, BlocksFollow

\* Blocks are neither mined nor forgotten: the other steps do not happen.
LEMMA NextFollows ==
  ASSUME Pair, SleepIsEnough, NEW a \in Nodes, NEW b \in Nodes, Chasing(a, b), [Next]_vars, Still'
  PROVE  Follows(a, b)'
<1>1. CASE UNCHANGED vars
  BY <1>1 DEF vars, Chasing, Follows, Ahead, NoGaps, Fits, Pursued, Coming, OnTheWay, Wanted,
              Received, Active, start, Ancestors
<1>2. ASSUME NEW n \in Nodes, VerackHandled(n) PROVE Follows(a, b)'
  <2>1. PICK p \in Neighbours[n] : Greets(n, p)
    BY <1>2, GreetingIs DEF Chasing
  <2>2. p \in Nodes
    BY <2>1 DEF Greets
  <2> QED BY <2>1, <2>2, GreetsFollows
<1>3. ASSUME NEW n \in Nodes, HandleGetblocks(n) PROVE Follows(a, b)'
  BY <1>3, HandleGetblocksFollows
<1>4. ASSUME NEW n \in Nodes, HandleInv(n) PROVE Follows(a, b)'
  BY <1>4, HandleInvFollows
<1>5. ASSUME NEW n \in Nodes, HandleBlockdata(n) PROVE Follows(a, b)'
  BY <1>5, HandleBlockdataFollows
<1>6. ASSUME NEW n \in Nodes, NEW h \in 1..Handlers, Ask(n, h) PROVE Follows(a, b)'
  BY <1>6, AskFollows
<1>7. ASSUME NEW n \in Nodes, NEW h \in 1..Handlers, FinishInv(n, h) PROVE Follows(a, b)'
  BY <1>7, FinishInvFollows
<1>8. ASSUME NEW n \in Nodes PROVE ~HandleFresh(n)
  BY DEF HandleFresh, Received, Chasing, Follows, Fits
<1>9. ASSUME NEW n \in Nodes PROVE ~Kill(n) /\ ~Restart(n)
  BY DEF Kill, Restart, Chasing, Still, Follows, Ahead
<1>10. ASSUME NEW n \in Miners PROVE ~StartMining(n) /\ ~Seal(n)
  BY NoneUnmined DEF StartMining, Seal, Chasing
<1> QED BY <1>1, <1>2, <1>3, <1>4, <1>5, <1>6, <1>7, <1>8, <1>9, <1>10 DEF Next, VerackHandled

\* For every pair of nodes of which one has part of the other's chain.
AllFollow ==
  Still => \A a, b \in Nodes : a # b /\ start[a] \in Ancestors(start[b]) => Follows(a, b)

LEMMA AllFollowAlways == ASSUME Pair, SleepIsEnough PROVE Spec => []AllFollow
<1>1. ASSUME Init, Types PROVE AllFollow
  BY <1>1, InitFollows DEF AllFollow
<1>2. ASSUME Types, Served, AllFollow, [Next]_vars PROVE AllFollow'
  <2> SUFFICES ASSUME Still', NEW a \in Nodes, NEW b \in Nodes, a # b,
                      (start[a] \in Ancestors(start[b]))'
               PROVE  Follows(a, b)'
    BY DEF AllFollow
  <2>1. setup' = setup /\ restarted \subseteq restarted'
    BY <1>2, StillBefore
  <2>2. Still /\ start[a] \in Ancestors(start[b])
    BY <2>1 DEF Still, start, Ancestors
  <2>3. Chasing(a, b)
    BY <1>2, <2>2 DEF AllFollow, Chasing, Pair
  <2> QED BY <1>2, <2>3, NextFollows
<1> QED BY <1>1, <1>2, TypesAlways, ServedAlways, PTL DEF Spec

\* With nothing on its way a has the blocks and the tip of b.
LEMMA NothingMissing ==
  ASSUME Types, NEW a \in Nodes, NEW b \in Nodes, Follows(a, b), Quiet, peers[a] # <<>>
  PROVE  lastHash[a] = lastHash[b] /\ ~HasHole(a) /\ ~HasHole(b)
<1>1. BagToSet(net) = {} /\ \A h \in 1..Handlers : handler[a][h].workers = 0
  BY EmptyNet DEF Quiet
<1>2. lastHash[a] = start[b]
  BY <1>1 DEF Follows, Pursued, Active, Received
<1>3. Coming(a) = db[a]
  BY <1>1 DEF Coming, OnTheWay, Wanted, Received
<1>4. lastHash[a] \in db[a] /\ Closed(db[a]) /\ db[a] \subseteq Ancestors(start[b])
  BY <1>3 DEF Follows, NoGaps
<1>5. start[b] \in DOMAIN Mined
  BY SetupIs DEF Types
<1>6. db[a] \in SUBSET DOMAIN Mined
  BY <1>4, <1>5, AncestorsAre
<1>7. ~HasHole(a)
  BY <1>4, <1>6, WholeChain DEF HasHole, ChainOf
<1>8. lastHash[b] = start[b] /\ ~HasHole(b)
  BY <1>5, OwnChain DEF Follows, Ahead
<1> QED BY <1>2, <1>7, <1>8

\* What a walk meets is stored, and in every set that has the tip and, with a
\* block, its parent.
LEMMA ChainWithin ==
  ASSUME StateOK, NEW n \in Nodes, NEW S \in SUBSET DOMAIN Mined, Closed(S), lastHash[n] \in S
  PROVE  ToSet(ChainOf(n)) \subseteq S \cap db[n]
<1> DEFINE chain == ChainOf(n)
           len == Len(chain)
           Out == {j \in Nat : j < len /\ chain[len - j] \notin S}
<1>1. db[n] \in SUBSET DOMAIN Blocks /\ lastHash[n] \in DOMAIN Blocks
  BY DEF StateOK
<1>2. ParentsFirst(Blocks, db[n]) /\ chain \in Seq(db[n]) /\ ToSet(chain) \subseteq db[n]
  BY <1>1, WalkIn DEF ChainOf
<1>3. lastHash[n] \in 0..Len(Blocks) /\ lastHash[n] \in 1..Len(Blocks)
  BY <1>1, BlocksAre
<1>4. \A i \in 2..len : Blocks[chain[i]].prev = chain[i - 1]
  BY <1>2, <1>3, ChainLinks DEF ChainOf
<1>5. lastHash[n] \in db[n] => len \in Nat \ {0} /\ chain[len] = lastHash[n]
  BY <1>2, <1>3, ChainLast DEF ChainOf
<1>6. lastHash[n] \notin db[n] => chain = <<>>
  BY <1>2, <1>3, ChainStep DEF ChainOf
<1>7. len \in Nat /\ DOMAIN chain = 1..len /\ \A i \in 1..len : chain[i] \in DOMAIN Blocks /\ chain[i] # 0
  <2>1. len \in Nat /\ DOMAIN chain = 1..len /\ \A i \in 1..len : chain[i] \in db[n]
    BY <1>2
  <2> HIDE DEF chain
  <2> QED BY <1>1, <2>1, BlocksAre
<1> HIDE DEF chain
<1>8. Out = {}
  <2> SUFFICES ASSUME Out # {} PROVE FALSE
    OBVIOUS
  <2>1. PICK j \in Out : \A i \in Out : j <= i
    BY LeastNumber
  <2>2. j \in Nat /\ j < len /\ chain[len - j] \notin S
    BY <2>1
  <2>3. CASE j = 0
    <3>1. len # 0 /\ chain[len] \notin S
      BY <1>7, <2>2, <2>3
    <3> QED BY <1>5, <1>6, <1>7, <3>1
  <2>4. CASE j # 0
    <3>1. j - 1 \in Nat /\ j - 1 < len /\ ~(j <= j - 1) /\ len - (j - 1) \in 2..len
          /\ (len - (j - 1)) - 1 = len - j /\ len - j \in 1..len
      BY <1>7, <2>2, <2>4
    <3>2. chain[len - (j - 1)] \in S
      BY <2>1, <3>1
    <3>3. Blocks[chain[len - (j - 1)]].prev = chain[len - j]
      BY <1>4, <3>1
    <3>4. chain[len - j] # NoHash
      BY <1>7, <3>1 DEF NoHash
    <3> QED BY <2>2, <3>2, <3>3, <3>4 DEF Closed
  <2> QED BY <2>3, <2>4
<1>9. ASSUME NEW i \in 1..len PROVE chain[i] \in S
  <2>1. len - i \in Nat /\ len - i < len /\ len - (len - i) = i
    BY <1>7
  <2> QED BY <1>8, <2>1
<1> QED BY <1>2, <1>7, <1>9 DEF ToSet, chain

LEMMA AncestorsWithin ==
  ASSUME NEW S \in SUBSET DOMAIN Mined, Closed(S), NEW x \in S
  PROVE  Ancestors(x) \subseteq S
<1> DEFINE chain == ChainFrom(Blocks, S, x)
<1>1. chain \in Seq(S) /\ chain = ChainFrom(Blocks, DOMAIN Mined, x)
  BY WholeChain
<1> HIDE DEF chain
<1>2. ToSet(chain) \subseteq S
  BY <1>1, ElementsIn
<1> QED BY <1>1, <1>2 DEF Ancestors

\* Every chain begins with the genesis block, which has no parent.
LEMMA GenesisFirst ==
  ASSUME NEW t \in DOMAIN Mined
  PROVE  /\ Genesis \in Ancestors(t) /\ Ancestors(Genesis) = {Genesis}
         /\ ChainFrom(Blocks, DOMAIN Mined, t)[1] = Genesis
         /\ \A i \in 2..Len(ChainFrom(Blocks, DOMAIN Mined, t)) :
              ChainFrom(Blocks, DOMAIN Mined, t)[i] # Genesis
<1> DEFINE m == DOMAIN Mined
           chain == ChainFrom(Blocks, m, t)
<1>1. Closed(m) /\ Genesis \in m /\ Genesis = 1
  BY BlocksAre DEF Closed, NoHash, Genesis
<1>2. /\ chain \in Seq(m) /\ chain # <<>> /\ Blocks[Head(chain)].prev = NoHash
      /\ \A i \in 2..Len(chain) : Blocks[chain[i]].prev = chain[i - 1]
  BY <1>1, WholeChain
<1>3. Ancestors(t) = ToSet(chain)
  BY DEF Ancestors
<1> HIDE DEF chain
<1>4. Len(chain) \in Nat /\ DOMAIN chain = 1..Len(chain) /\ 1 \in DOMAIN chain
      /\ Head(chain) = chain[1] /\ \A i \in 1..Len(chain) : chain[i] \in m
  BY <1>2
<1>5. chain[1] = Genesis
  <2>1. Mined[chain[1]].prev = NoHash
    BY <1>2, <1>4, BlocksAre
  <2> QED BY <1>4, <2>1, BlockSyncAssumption
<1>6. ASSUME NEW i \in 2..Len(chain), chain[i] = Genesis PROVE FALSE
  <2>1. Blocks[Genesis].prev = 0
    BY <1>1, BlocksAre
  <2>2. i - 1 \in 1..Len(chain)
    BY <1>4
  <2>3. chain[i - 1] \in m /\ chain[i - 1] = 0
    BY <1>2, <1>4, <1>6, <2>1, <2>2
  <2> QED BY <2>3, BlocksAre
<1>7. Ancestors(Genesis) = {Genesis}
  <2>1. \A x \in Ancestors(Genesis) : x \in m /\ x <= Genesis
    BY <1>1, AncestorsAre
  <2>2. \A x \in m : x <= 1 => x = 1
    BY BlocksAre
  <2>3. Genesis \in Ancestors(Genesis)
    BY <1>1, AncestorsAre
  <2> QED BY <1>1, <2>1, <2>2, <2>3
<1> QED BY <1>3, <1>4, <1>5, <1>6, <1>7 DEF ToSet, chain

\* A node whose whole chain fits into an inv message announces all of it to
\* one that has the genesis block only.
LEMMA WholeAnswer ==
  ASSUME StateOK, NEW l \in Nodes, db[l] = Ancestors(start[l]), lastHash[l] = start[l],
         Len(ChainFrom(Blocks, DOMAIN Mined, start[l])) <= InvLimit + 1
  PROVE  Ancestors(start[l]) \subseteq {Genesis} \cup ToSet(Announced(l, Genesis))
<1> DEFINE t == start[l]
           d == Ancestors(t)
           chain == ChainOf(l)
           len == Len(chain)
           at == CHOOSE i \in DOMAIN chain : chain[i] = Genesis
           new == UnmatchedBlocks(l, Genesis)
           m == Min({InvLimit, Len(new)})
           list == Announced(l, Genesis)
<1>1. t \in DOMAIN Mined
  BY SetupIs
<1>2. d \in SUBSET DOMAIN Mined /\ Closed(d) /\ t \in d /\ Genesis \in d
  BY <1>1, AncestorsAre, GenesisFirst
<1>3. chain \in Seq(d) /\ chain = ChainFrom(Blocks, DOMAIN Mined, t)
  <2> HIDE DEF d, t
  <2>1. ChainFrom(Blocks, d, t) \in Seq(d) /\ ChainFrom(Blocks, d, t) = ChainFrom(Blocks, DOMAIN Mined, t)
    BY <1>2, WholeChain
  <2> QED BY <2>1 DEF ChainOf, d, t
<1>4. ToSet(chain) = d
  BY <1>3 DEF Ancestors
<1>5. \A i \in 2..len : chain[i] # Genesis
  BY <1>1, <1>3, GenesisFirst
<1>6. len \in Nat /\ DOMAIN chain = 1..len /\ len <= InvLimit + 1 /\ InvLimit \in Nat
  BY <1>3, BlockSyncAssumption
<1>7. at \in DOMAIN chain /\ chain[at] = Genesis /\ new = SubSeq(chain, at + 1, len)
  BY <1>2, <1>4 DEF ToSet, UnmatchedBlocks
<1>8. list = SubSeq(new, 1, m)
  BY DEF Announced
<1> HIDE DEF d, t, chain, len, at, new, list, m
<1>9. at = 1 /\ at + 1 = 2 /\ 1 <= len
  BY <1>5, <1>6, <1>7
<1>10. new \in Seq(d) /\ Len(new) = len - 1 /\ \A i \in 1..(len - 1) : new[i] = chain[i + 1]
  <2>1. /\ new \in Seq(d) /\ Len(new) = (IF 2 <= len THEN len - 2 + 1 ELSE 0)
        /\ \A i \in 1..Len(new) : new[i] = chain[2 + i - 1]
    <3>1. new = SubSeq(chain, 2, len) /\ len <= Len(chain)
      BY <1>6, <1>7, <1>9 DEF len
    <3> QED BY <1>3, <1>6, <3>1, PieceIs
  <2> QED BY <1>6, <1>9, <2>1
<1>11. m = len - 1
  <2> DEFINE k == Len(new)
  <2> HIDE DEF k
  <2>1. k \in Nat /\ k <= InvLimit
    BY <1>6, <1>9, <1>10 DEF k
  <2>2. m = Min({InvLimit, k})
    BY DEF m, k
  <2>3. m \in {InvLimit, k} /\ m <= k
    BY <1>6, <2>1, <2>2, MinOfTwo
  <2>4. m = k
    BY <1>6, <2>1, <2>3
  <2> QED BY <1>10, <2>4 DEF k
<1>12. Len(list) = len - 1 /\ list \in Seq(d) /\ \A i \in 1..(len - 1) : list[i] = chain[i + 1]
  <2>1. /\ list \in Seq(d) /\ Len(list) = (IF 1 <= len - 1 THEN (len - 1) - 1 + 1 ELSE 0)
        /\ \A i \in 1..Len(list) : list[i] = new[1 + i - 1]
    <3>1. list = SubSeq(new, 1, len - 1) /\ len - 1 \in Nat /\ len - 1 <= Len(new) /\ 1 \in Nat \ {0}
      BY <1>6, <1>8, <1>9, <1>10, <1>11
    <3> DEFINE q == len - 1
    <3> HIDE DEF q
    <3>2. list = SubSeq(new, 1, q) /\ q \in Nat /\ q <= Len(new)
      BY <3>1 DEF q
    <3>3. /\ list \in Seq(d) /\ Len(list) = (IF 1 <= q THEN q - 1 + 1 ELSE 0)
          /\ \A i \in 1..Len(list) : list[i] = new[1 + i - 1]
      BY <1>10, <3>1, <3>2, PieceIs
    <3> QED BY <3>3 DEF q
  <2> QED BY <1>6, <1>9, <1>10, <2>1
<1>13. ASSUME NEW x \in d, x # Genesis PROVE x \in ToSet(list)
  <2>1. PICK i \in 1..len : chain[i] = x
    BY <1>4, <1>6 DEF ToSet
  <2>2. i # 1
    BY <1>7, <1>9, <1>13, <2>1
  <2>3. i - 1 \in 1..(len - 1) /\ (i - 1) + 1 = i
    BY <1>6, <2>1, <2>2
  <2>4. list[i - 1] = x /\ i - 1 \in DOMAIN list
    BY <1>12, <2>1, <2>3
  <2> QED BY <2>4 DEF ToSet
<1> QED BY <1>13 DEF d, list, t

-----------------------------------------------------------------------------
(* What the handlers move.                                                 *)

\* What n has asked for or is going to ask for.
Awaited(n) == OnTheWay(n) \cup Wanted(n)

\* What a node answers to a getblocks message, and what that changes.
Answer(n, msg) ==
  IF ~BlockExisted(n, msg.top) THEN {GetblocksMsg(n, msg.from)}
  ELSE IF UnmatchedBlocks(n, msg.top) = <<>> THEN {}
  ELSE {InvMsg(msg.from, Announced(n, msg.top))}

LEMMA GetblocksMoves ==
  ASSUME Types, Served, NEW n \in Nodes, HandleGetblocks(n)
  PROVE  \E msg \in Received(n, "getblocks") :
           /\ msg.from \in Nodes \ {n} /\ msg.to = n /\ msg.top \in DOMAIN Blocks
           /\ (BagToSet(net) \ {msg}) \cup Delivered(Answer(n, msg)) \subseteq BagToSet(net')
           /\ BagToSet(net') \subseteq BagToSet(net) \cup Delivered(Answer(n, msg))
           /\ UNCHANGED <<db, lastHash, peers, handler, up, restarted, setup>>
<1>1. PICK msg \in Received(n, "getblocks") :
        Reply(msg, Answer(n, msg)) /\ UNCHANGED <<db, lastHash, peers, count, handler, candidate, process>>
  BY DEF HandleGetblocks, Answer
<1>2. msg.from \in Nodes \ {n} /\ msg.to = n /\ msg.top \in DOMAIN Blocks
  BY ReceivedIs DEF Types, Asking, Served, OthersAsked
<1>3. /\ (BagToSet(net) \ {msg}) \cup Delivered(Answer(n, msg)) \subseteq BagToSet(net')
      /\ BagToSet(net') \subseteq BagToSet(net) \cup Delivered(Answer(n, msg))
  BY <1>1, ReplyMoves DEF Types, NetOK
<1>4. UNCHANGED <<db, lastHash, peers, handler, up, restarted, setup>>
  BY <1>1 DEF process
<1> QED BY <1>2, <1>3, <1>4


LEMMA InvMoves ==
  ASSUME Types, NEW n \in Nodes, HandleInv(n), \A msg \in Received(n, "inv") : msg.list # <<>>
  PROVE  \E msg \in Received(n, "inv"), h \in 1..Handlers :
           /\ handler[n][h] = Free
           /\ \A g \in 1..Handlers : g # h => handler'[n][g] = handler[n][g]
           /\ \A k \in Nodes \ {n} : handler'[k] = handler[k]
           /\ handler'[n][h].workers # 0 <=> peers[n] # <<>>
           /\ Awaited(n)' = Awaited(n) \cup (IF peers[n] # <<>> THEN ToSet(msg.list) ELSE {})
           /\ BagToSet(net) \ {msg} \subseteq BagToSet(net') /\ BagToSet(net') \subseteq BagToSet(net)
           /\ UNCHANGED <<db, lastHash, peers, up, restarted, setup>>
<1> DEFINE free == {h \in 1..Handlers : handler[n][h] = Free}
           h == Min(free)
           msgs(msg) == GetdataMsgs(msg.list)
           takers(msg) == Min({Len(peers[n]), Len(msgs(msg))})
           call(msg) == [list |-> msgs(msg), todo |-> DOMAIN msgs(msg), workers |-> takers(msg)]
<1>1. PICK msg \in Received(n, "inv") :
        /\ free # {}
        /\ handler' = [handler EXCEPT ![n][h] = call(msg)]
        /\ Reply(msg, {})
        /\ UNCHANGED <<db, lastHash, peers, process>>
  BY DEF HandleInv
<1> DEFINE pieces == msgs(msg)
           list == msg.list
           workers == takers(msg)
<1>2. list # <<>> /\ list \in Seq(DOMAIN Blocks)
  BY ReceivedIs DEF Types, Telling
<1>3. h \in 1..Handlers /\ handler[n][h] = Free
  <2>1. free \in SUBSET Nat
    BY HandlersType
  <2> HIDE DEF free
  <2>2. h \in free
    BY <1>1, <2>1, MinIn
  <2> QED BY <2>2 DEF free
<1>4. \A x \in DOMAIN Blocks : x \in ToSet(list) <=> \E k \in DOMAIN pieces : x \in ToSet(pieces[k])
  <2> DEFINE A == ToSet(list)
  <2>1. list \in Seq(A)
    BY <1>2 DEF ToSet
  <2>2. \A k \in DOMAIN pieces : pieces[k] \in Seq(A)
    BY <2>1, GetdataIs
  <2>3. \A k \in DOMAIN pieces : ToSet(pieces[k]) \subseteq A
    <3> HIDE DEF pieces, A
    <3> QED BY <2>2, ElementsIn
  <2> QED BY <2>1, <2>3, PiecesCover
<1>5. Len(pieces) \in Nat \ {0}
  <2>1. Len(pieces) \in Nat /\ DOMAIN pieces = 1..Len(pieces)
    BY <1>2, GetdataIs
  <2>2. list[1] \in ToSet(list) /\ list[1] \in DOMAIN Blocks
    BY <1>2 DEF ToSet
  <2> HIDE DEF pieces
  <2> QED BY <1>4, <2>1, <2>2
<1>6. workers # 0 <=> peers[n] # <<>>
  <2>1. peers[n] \in Seq(Nodes) /\ Len(peers[n]) \in Nat
    BY DEF Types, PeersOK
  <2> DEFINE l == Len(peers[n])
             q == Len(pieces)
  <2>2. workers = Min({l, q})
    OBVIOUS
  <2> HIDE DEF l, q, pieces, workers
  <2>3. l \in Nat /\ q \in Nat \ {0} /\ workers \in {l, q} /\ workers <= l
    BY <1>5, <2>1, <2>2, MinOfTwo DEF l, q
  <2>4. peers[n] # <<>> <=> l # 0
    BY <2>1 DEF l
  <2> QED BY <2>3, <2>4
<1> HIDE DEF pieces, list, workers, h
<1>7. handler' = [handler EXCEPT ![n][h] = [list |-> pieces, todo |-> DOMAIN pieces, workers |-> workers]]
  BY <1>1 DEF pieces, workers
<1>8. handler \in [Nodes -> [1..Handlers -> Call]]
  BY DEF Types, HandlersOK
<1>9. /\ \A k \in Nodes \ {n} : handler'[k] = handler[k]
      /\ handler'[n][h].workers = workers
      /\ handler'[n][h].todo = DOMAIN pieces /\ handler'[n][h].list = pieces
      /\ \A g \in 1..Handlers : g # h => handler'[n][g] = handler[n][g]
  BY <1>3, <1>7, <1>8
<1> HIDE DEF msgs, takers, call
<1>10. BagToSet(net) \ {msg} \subseteq BagToSet(net') /\ BagToSet(net') \subseteq BagToSet(net)
  BY <1>1, ReplyMoves DEF Delivered, Types, NetOK
<1>11. Received(n, "blockdata")' = Received(n, "blockdata")
  BY <1>10 DEF Received
<1>12. Wanted(n)' = Wanted(n) \cup (IF workers # 0 THEN ToSet(list) \cap DOMAIN Blocks ELSE {})
  BY <1>3, <1>4, <1>9 DEF Wanted, Free
<1>13. ToSet(list) \subseteq DOMAIN Blocks
  BY <1>2, ElementsIn DEF list
<1>14. Awaited(n)' = Awaited(n) \cup (IF peers[n] # <<>> THEN ToSet(msg.list) ELSE {})
  BY <1>6, <1>11, <1>12, <1>13 DEF Awaited, OnTheWay, list
<1>15. UNCHANGED <<db, lastHash, peers, up, restarted, setup>>
  BY <1>1 DEF process
<1> QED BY <1>3, <1>6, <1>9, <1>10, <1>14, <1>15

LEMMA AskMoves ==
  ASSUME Types, Served, NEW n \in Nodes, NEW h \in 1..Handlers, Ask(n, h)
  PROVE  \E p \in Nodes \ {n} :
           /\ handler[n][h].workers # 0
           /\ \A g \in 1..Handlers : handler'[n][g].workers = handler[n][g].workers
           /\ \A k \in Nodes \ {n} : handler'[k] = handler[k]
           /\ BagToSet(net) \subseteq BagToSet(net')
           /\ \A msg \in BagToSet(net') \ BagToSet(net) :
                msg.kind = "blockdata" /\ msg.to = n /\ msg.call = h /\ n \in up
           /\ Awaited(n)' \subseteq Awaited(n)
           /\ n \in up /\ p \in up => Awaited(n)' = Awaited(n)
           /\ UNCHANGED <<db, lastHash, peers, up, restarted, setup>>
<1> DEFINE call == handler[n][h]
           data(k, p) == BlockdataMsg(n, h, k, BlocksFromHashes(p, call.list[k]))
<1>1. PICK k \in call.todo, p \in ToSet(peers[n]) :
        /\ call.workers # 0
        /\ handler' = [handler EXCEPT ![n][h].todo = @ \ {k}]
        /\ net' = IF p \in up THEN net (+) Sent({data(k, p)}) ELSE net
        /\ UNCHANGED <<db, lastHash, peers, process>>
  BY AskedPeer
<1>2. /\ handler[n][h] \in Call /\ k \in DOMAIN handler[n][h].list /\ p \in Nodes \ {n}
      /\ k \in handler[n][h].todo /\ handler[n][h].workers # 0
  <2>1. CallOK(handler[n][h]) /\ p \in Nodes \ {n}
    BY ElementsIn DEF Types, PeersOK, HandlersOK, Served, OthersAsked
  <2> QED BY <1>1, <2>1 DEF CallOK, Call
<1> DEFINE piece == handler[n][h].list[k]
           msg == BlockdataMsg(n, h, k, piece)
           msgs == IF n \in up /\ p \in up THEN {msg} ELSE {}
<1>3. ToSet(piece) \subseteq DOMAIN Blocks /\ ToSet(piece) \subseteq Wanted(n)
      /\ BlocksFromHashes(p, piece) = piece
  <2>1. piece \in Seq(Offered(n))
    BY <1>2 DEF Served, HandlersServed
  <2> DEFINE A == Offered(n)
  <2>2. A \subseteq DOMAIN Blocks /\ A \subseteq db[p]
    BY <1>2 DEF Offered
  <2> HIDE DEF A
  <2>3. piece \in Seq(A)
    BY <2>1 DEF A
  <2> DEFINE s == piece
  <2>4. s \in Seq(A)
    BY <2>3
  <2> HIDE DEF s
  <2>5. ToSet(s) \subseteq A /\ s = [i \in DOMAIN s |-> s[i]] /\ \A i \in DOMAIN s : s[i] \in A
    BY <2>4, ElementsIn
  <2>6. ToSet(s) \subseteq DOMAIN Blocks
    BY <2>2, <2>5
  <2>7. BlocksFromHashes(p, s) = s
    BY <2>2, <2>5 DEF BlocksFromHashes
  <2>8. ToSet(s) \subseteq Wanted(n)
    BY <1>2, <2>6 DEF Wanted, s
  <2> QED BY <2>6, <2>7, <2>8 DEF s
<1>4. BagToSet(net') = BagToSet(net) \cup msgs
  <2>1. IsABag(net) /\ msg.to = n
    BY DEF Types, NetOK, BlockdataMsg
  <2>2. CASE p \in up
    <3>1. net' = net (+) Sent({msg})
      BY <1>1, <1>3, <2>2
    <3>2. Delivered({msg}) = msgs
      BY <2>1, <2>2 DEF Delivered
    <3> HIDE DEF msg, msgs
    <3> QED BY <2>1, <3>1, <3>2, SentMoves
  <2>3. CASE p \notin up
    BY <1>1, <2>3
  <2> QED BY <2>2, <2>3
<1>5. msg.kind = "blockdata" /\ msg.to = n /\ msg.call = h /\ msg.list = piece
  BY DEF BlockdataMsg
<1> HIDE DEF msg, piece, call, data
<1>6. \A m \in msgs : m = msg /\ n \in up
  OBVIOUS
<1>7. n \in up /\ p \in up => msgs = {msg}
  OBVIOUS
<1> HIDE DEF msgs
<1>8. handler \in [Nodes -> [1..Handlers -> Call]]
  BY DEF Types, HandlersOK
<1>9. handler' = [handler EXCEPT ![n] = [handler[n] EXCEPT ![h] = [handler[n][h] EXCEPT !.todo = @ \ {k}]]]
  BY <1>1, <1>2
<1>10. /\ \A m \in Nodes \ {n} : handler'[m] = handler[m]
       /\ \A g \in 1..Handlers : g # h => handler'[n][g] = handler[n][g]
       /\ handler'[n][h].workers = handler[n][h].workers /\ handler'[n][h].list = handler[n][h].list
       /\ handler'[n][h].todo = handler[n][h].todo \ {k}
  BY <1>2, <1>8, <1>9 DEF Call
<1>11. \A g \in 1..Handlers : handler'[n][g].workers = handler[n][g].workers
                             /\ handler'[n][g].list = handler[n][g].list
                             /\ handler'[n][g].todo \subseteq handler[n][g].todo
  BY <1>10
<1>12. /\ OnTheWay(n)' \subseteq OnTheWay(n) \cup ToSet(piece) /\ OnTheWay(n) \subseteq OnTheWay(n)'
       /\ n \in up /\ p \in up => ToSet(piece) \subseteq OnTheWay(n)'
  <2>1. Received(n, "blockdata")' = Received(n, "blockdata") \cup msgs
    BY <1>4, <1>5, <1>6 DEF Received
  <2> QED BY <1>3, <1>5, <1>6, <1>7, <2>1 DEF OnTheWay
<1>13. Wanted(n)' \subseteq Wanted(n)
  BY <1>11 DEF Wanted
<1>14. Wanted(n) \subseteq Wanted(n)' \cup ToSet(piece)
  <2> SUFFICES ASSUME NEW x \in Wanted(n), x \notin ToSet(piece) PROVE x \in Wanted(n)'
    OBVIOUS
  <2>1. PICK g \in 1..Handlers :
          /\ handler[n][g].workers # 0
          /\ \E j \in handler[n][g].todo : x \in ToSet(handler[n][g].list[j])
    BY DEF Wanted
  <2>2. PICK j \in handler[n][g].todo : x \in ToSet(handler[n][g].list[j])
    BY <2>1
  <2>3. j \in handler'[n][g].todo
    BY <1>10, <2>2 DEF piece
  <2> QED BY <1>11, <2>1, <2>2, <2>3 DEF Wanted
<1>15. Awaited(n)' \subseteq Awaited(n) /\ (n \in up /\ p \in up => Awaited(n)' = Awaited(n))
  BY <1>3, <1>12, <1>13, <1>14 DEF Awaited
<1>16. UNCHANGED <<db, lastHash, peers, up, restarted, setup>>
  BY <1>1 DEF process
<1>17. /\ BagToSet(net) \subseteq BagToSet(net')
       /\ \A m \in BagToSet(net') \ BagToSet(net) :
            m.kind = "blockdata" /\ m.to = n /\ m.call = h /\ n \in up
  BY <1>4, <1>5, <1>6
<1>18. p \in Nodes \ {n} /\ handler[n][h].workers # 0
  BY <1>2
<1>19. /\ \A g \in 1..Handlers : handler'[n][g].workers = handler[n][g].workers
       /\ \A j \in Nodes \ {n} : handler'[j] = handler[j]
  BY <1>10, <1>11
<1> QED BY <1>15, <1>16, <1>17, <1>18, <1>19

LEMMA BlockdataMoves ==
  ASSUME Types, NEW n \in Nodes, HandleBlockdata(n)
  PROVE  \E msg \in Received(n, "blockdata") :
           /\ msg.call \in 1..Handlers /\ ToSet(msg.list) \subseteq Awaited(n)
           /\ db'[n] = db[n] \cup ToSet(msg.list)
           /\ lastHash'[n] \in ToSet(msg.list) \cup {lastHash[n]}
           /\ \A k \in Nodes \ {n} : db'[k] = db[k] /\ lastHash'[k] = lastHash[k]
           /\ Awaited(n)' \subseteq Awaited(n) /\ Awaited(n) \subseteq Awaited(n)' \cup ToSet(msg.list)
           /\ BagToSet(net) \ {msg} \subseteq BagToSet(net') /\ BagToSet(net') \subseteq BagToSet(net)
           /\ UNCHANGED <<peers, handler, up, restarted, setup>>
<1>1. PICK msg \in Received(n, "blockdata") :
        /\ db' = [db EXCEPT ![n] = @ \cup ToSet(msg.list)]
        /\ lastHash' = [lastHash EXCEPT ![n] =
                          IF msg.index = count[n] THEN Last(msg.list) ELSE @]
        /\ Reply(msg, {})
        /\ UNCHANGED <<peers, count, handler, candidate, process>>
  BY DEF HandleBlockdata
<1> DEFINE list == msg.list
<1>2. /\ msg \in BagToSet(net) /\ msg.to = n /\ msg.kind = "blockdata"
      /\ msg.call \in 1..Handlers /\ list \in Seq(DOMAIN Blocks) /\ list # <<>>
  BY ReceivedIs DEF Types, Answering, Chunk
<1>3. ToSet(list) \subseteq DOMAIN Blocks /\ Last(list) \in ToSet(list)
  <2>1. ToSet(list) \subseteq DOMAIN Blocks
    BY <1>2, ElementsIn
  <2>2. Len(list) \in DOMAIN list
    BY <1>2
  <2> QED BY <2>1, <2>2 DEF Last, ToSet
<1>4. BagToSet(net) \ {msg} \subseteq BagToSet(net') /\ BagToSet(net') \subseteq BagToSet(net)
  BY <1>1, ReplyMoves DEF Delivered, Types, NetOK
<1>5. ToSet(list) \subseteq OnTheWay(n)
  BY <1>2, <1>3 DEF OnTheWay, Received
<1> HIDE DEF list
<1>6. /\ db'[n] = db[n] \cup ToSet(list) /\ lastHash'[n] \in ToSet(list) \cup {lastHash[n]}
      /\ \A k \in Nodes \ {n} : db'[k] = db[k] /\ lastHash'[k] = lastHash[k]
  BY <1>1, <1>3 DEF Types, StateOK, list
<1>7. OnTheWay(n) \subseteq OnTheWay(n)' \cup ToSet(list) /\ OnTheWay(n)' \subseteq OnTheWay(n)
  BY <1>4 DEF OnTheWay, Received, list
<1>8. Wanted(n)' = Wanted(n)
  BY <1>1 DEF Wanted
<1>9. UNCHANGED <<peers, handler, up, restarted, setup>>
  BY <1>1 DEF process
<1> QED BY <1>2, <1>4, <1>5, <1>6, <1>7, <1>8, <1>9 DEF Awaited, list

LEMMA FinishMoves ==
  ASSUME Types, NEW n \in Nodes, NEW h \in 1..Handlers, FinishInv(n, h)
  PROVE  LET msgs == {GetblocksMsg(n, p) : p \in ToSet(peers[n])}
         IN  /\ handler[n][h] # Free /\ handler'[n][h] = Free
             /\ \A g \in 1..Handlers : g # h => handler'[n][g] = handler[n][g]
             /\ \A k \in Nodes \ {n} : handler'[k] = handler[k]
             /\ SleepIsEnough => \A msg \in Received(n, "blockdata") : msg.call # h
             /\ BagToSet(net') = BagToSet(net) \cup Delivered(msgs)
             /\ Awaited(n)' = Awaited(n)
             /\ UNCHANGED <<db, lastHash, peers, up, restarted, setup>>
<1> DEFINE msgs == {GetblocksMsg(n, p) : p \in ToSet(peers[n])}
<1>1. /\ handler[n][h].todo = {} /\ handler' = [handler EXCEPT ![n][h] = Free] /\ handler[n][h] # Free
      /\ net' = net (+) SentToEach(n, msgs) /\ UNCHANGED <<db, lastHash, peers, up, restarted, setup>>
      /\ SleepIsEnough => \A msg \in Received(n, "blockdata") : msg.call # h
  BY DEF FinishInv, process
<1>2. \A msg \in msgs : msg.kind = "getblocks" /\ msg.to \in ToSet(peers[n])
  BY DEF GetblocksMsg
<1> HIDE DEF msgs
<1>3. BagToSet(net') = BagToSet(net) \cup Delivered(msgs)
  BY <1>1, <1>2, SentToEachMoves
<1>4. /\ handler'[n][h] = Free
      /\ \A g \in 1..Handlers : g # h => handler'[n][g] = handler[n][g]
      /\ \A k \in Nodes \ {n} : handler'[k] = handler[k]
  BY <1>1 DEF Types, HandlersOK
<1>5. Received(n, "blockdata")' = Received(n, "blockdata")
  BY <1>2, <1>3 DEF Received, Delivered
<1>6. Wanted(n)' = Wanted(n)
  BY <1>1, <1>4 DEF Wanted, Free
<1>7. Awaited(n)' = Awaited(n)
  BY <1>5, <1>6 DEF Awaited, OnTheWay
<1> QED BY <1>1, <1>3, <1>4, <1>7 DEF msgs

LEMMA GreetsMoves ==
  ASSUME NEW n \in Nodes, NEW p, Greets(n, p)
  PROVE  /\ p \in Nodes \ {n} /\ n \in up /\ p \in up
         /\ peers'[n] # <<>> /\ \A k \in Nodes \ {n} : peers'[k] = peers[k]
         /\ BagToSet(net') = BagToSet(net) \cup {GetblocksMsg(n, p)}
         /\ UNCHANGED <<db, lastHash, handler, up, restarted, setup>>
BY DEF Greets, process

LEMMA KillMoves ==
  ASSUME Types, NEW n \in Nodes, Kill(n)
  PROVE  /\ n \notin restarted /\ n \notin up' /\ restarted' = restarted \cup {n} /\ up' = up \ {n}
         /\ BagToSet(net') = {msg \in BagToSet(net) : msg.to # n}
         /\ peers'[n] = <<>> /\ \A h \in 1..Handlers : handler'[n][h] = Free
         /\ \A k \in Nodes \ {n} : peers'[k] = peers[k] /\ handler'[k] = handler[k]
         /\ Awaited(n)' = {}
         /\ UNCHANGED <<db, lastHash, setup>>
<1> DEFINE S == {msg \in DOMAIN net : msg.to # n}
<1>1. S \subseteq BagToSet(net) /\ S = {msg \in BagToSet(net) : msg.to # n}
  BY DEF BagToSet
<1>2. net' = [msg \in S |-> net[msg]]
  BY DEF Kill
<1> HIDE DEF S
<1>3. BagToSet(net') = S
  BY <1>1, <1>2, BagPartIs DEF Types, NetOK
<1>4. peers'[n] = <<>> /\ (\A h \in 1..Handlers : handler'[n][h] = Free)
      /\ \A k \in Nodes \ {n} : peers'[k] = peers[k] /\ handler'[k] = handler[k]
  BY DEF Kill, Types, PeersOK, HandlersOK
<1>5. Awaited(n)' = {}
  BY <1>1, <1>3, <1>4 DEF Awaited, OnTheWay, Wanted, Received, Free
<1> QED BY <1>1, <1>3, <1>4, <1>5 DEF Kill

LEMMA RestartMoves ==
  ASSUME Types, NEW n \in Nodes, Restart(n)
  PROVE  /\ n \notin up /\ up' = up \cup {n}
         /\ db'[n] = db[n] \cup {Genesis} /\ lastHash'[n] = Genesis
         /\ \A k \in Nodes \ {n} : db'[k] = db[k] /\ lastHash'[k] = lastHash[k]
         /\ UNCHANGED <<peers, handler, net, restarted, setup>>
BY DEF Restart, Types, StateOK

\* What a node has from the start it keeps, and its tip is stored.
KeepsBlocks(n) == Genesis \in db[n] /\ Ancestors(start[n]) \subseteq db[n] /\ lastHash[n] \in db[n]

\* A killed node has nothing in memory, and one started again that has no peer
\* has the genesis block as its tip; workers are peers.
KeepsMemory(n) ==
  /\ n \notin up => n \in restarted /\ peers[n] = <<>> /\ \A h \in 1..Handlers : handler[n][h] = Free
  /\ \A h \in 1..Handlers : handler[n][h].workers # 0 => peers[n] # <<>>
  /\ n \in restarted /\ n \in up /\ peers[n] = <<>> => lastHash[n] = Genesis

\* Nobody announces nothing, and blocks go to a handler that waits for them.
Proper(msg) ==
  /\ msg.kind # "fresh" /\ msg.to \in up
  /\ msg.kind = "getblocks" => msg.top \in DOMAIN Mined
  /\ msg.kind = "inv" => msg.list # <<>>
  /\ msg.kind = "blockdata" => handler[msg.to][msg.call].workers # 0

\* What the exchange keeps up when nobody mines, kills and restarts included.
Orderly ==
  /\ \A n \in Nodes : KeepsBlocks(n) /\ KeepsMemory(n)
  /\ \A msg \in BagToSet(net) : Proper(msg)

\* The situation of the following lemmas.
Fetching == Pair /\ Types /\ Served /\ Orderly /\ setup.until = 0

LEMMA FetchingIs ==
  ASSUME Fetching
  PROVE  /\ start \in [Nodes -> DOMAIN Mined]
         /\ \A n \in Nodes : db[n] \subseteq DOMAIN Mined /\ lastHash[n] \in DOMAIN Mined
         /\ \A msg \in BagToSet(net) : msg.kind = "blockdata" => msg.to \in Nodes /\ msg.call \in 1..Handlers
<1>1. start \in [Nodes -> DOMAIN Mined]
  BY SetupIs DEF Fetching, Types
<1>2. \A n \in Nodes : db[n] \subseteq DOMAIN Mined /\ lastHash[n] \in DOMAIN Mined
  BY DEF Fetching, Served, RealBlocks, Orderly, KeepsBlocks
<1>3. \A msg \in BagToSet(net) : msg.kind = "blockdata" => msg.to \in Nodes /\ msg.call \in 1..Handlers
  BY DEF Fetching, Types, NetOK, Carried, Asking, Telling, Answering, Spreading
<1> QED BY <1>1, <1>2, <1>3

\* Nothing is mined: the steps there are.
LEMMA FetchingSteps ==
  ASSUME Fetching, [Next]_vars
  PROVE  \/ UNCHANGED vars
         \/ \E n \in Nodes :
              \/ \E p \in Neighbours[n] : Greets(n, p)
              \/ HandleGetblocks(n) \/ HandleInv(n) \/ HandleBlockdata(n)
              \/ \E h \in 1..Handlers : Ask(n, h) \/ FinishInv(n, h)
              \/ Kill(n) \/ Restart(n)
<1>1. \A n \in Nodes : ~HandleFresh(n)
  BY DEF Fetching, HandleFresh, Received, Orderly, Proper
<1>2. \A n \in Miners : ~StartMining(n) /\ ~Seal(n)
  BY DEF Fetching, Unmined, StartMining, Seal
<1>3. ASSUME NEW n \in Nodes, VerackHandled(n) PROVE \E p \in Neighbours[n] : Greets(n, p)
  BY <1>3, GreetingIs DEF Fetching
<1> QED BY <1>1, <1>2, <1>3 DEF Next, VerackHandled

\* Steps that only ask and announce.
LEMMA MessagesOrderly ==
  ASSUME Fetching, UNCHANGED <<db, lastHash, handler, up, restarted, setup>>, NEW msgs,
         BagToSet(net') \subseteq BagToSet(net) \cup msgs,
         \A msg \in msgs : msg.kind # "blockdata" /\ Proper(msg),
         \A n \in Nodes : peers'[n] = peers[n] \/ (peers'[n] # <<>> /\ n \in up)
  PROVE  Orderly'
<1>1. ASSUME NEW n \in Nodes PROVE KeepsBlocks(n)' /\ KeepsMemory(n)'
  BY DEF Fetching, Orderly, KeepsBlocks, KeepsMemory, start, Ancestors
<1>2. ASSUME NEW msg \in BagToSet(net') PROVE Proper(msg)'
  BY DEF Fetching, Orderly, Proper
<1> QED BY <1>1, <1>2 DEF Orderly

\* The question a node asks, when it is delivered.
LEMMA QuestionProper ==
  ASSUME Fetching, NEW n \in Nodes, NEW p
  PROVE  LET ask == GetblocksMsg(n, p)
         IN  /\ ask.kind = "getblocks" /\ ask.to = p /\ ask.from = n /\ ask.top = lastHash[n]
             /\ p \in up => Proper(ask)
BY FetchingIs DEF GetblocksMsg, Proper

LEMMA GreetsOrderly ==
  ASSUME Fetching, NEW n \in Nodes, NEW p \in Neighbours[n], Greets(n, p)
  PROVE  Orderly'
<1>1. /\ p \in Nodes \ {n} /\ n \in up /\ p \in up
      /\ peers'[n] # <<>> /\ \A k \in Nodes \ {n} : peers'[k] = peers[k]
      /\ BagToSet(net') = BagToSet(net) \cup {GetblocksMsg(n, p)}
      /\ UNCHANGED <<db, lastHash, handler, up, restarted, setup>>
  BY GreetsMoves DEF Fetching
<1> DEFINE msgs == {GetblocksMsg(n, p)}
<1>2. \A msg \in msgs : msg.kind # "blockdata" /\ Proper(msg)
  <2> DEFINE ask == GetblocksMsg(n, p)
  <2>1. ask.kind = "getblocks" /\ Proper(ask)
    BY <1>1, QuestionProper
  <2> QED BY <2>1
<1>3. \A k \in Nodes : peers'[k] = peers[k] \/ (peers'[k] # <<>> /\ k \in up)
  BY <1>1
<1>4. BagToSet(net') \subseteq BagToSet(net) \cup msgs
  BY <1>1
<1> HIDE DEF msgs
<1> QED BY <1>1, <1>2, <1>3, <1>4, MessagesOrderly

\* What is announced to a node is some of the other's chain.
LEMMA AnnouncementIs ==
  ASSUME Fetching, NEW n \in Nodes, NEW top \in DOMAIN Mined, BlockExisted(n, top)
  PROVE  /\ UnmatchedBlocks(n, top) = <<>> => top = lastHash[n]
         /\ UnmatchedBlocks(n, top) # <<>> =>
              /\ Announced(n, top) # <<>> /\ ToSet(Announced(n, top)) \subseteq ToSet(ChainOf(n))
              /\ \A x \in ToSet(Announced(n, top)) :
                   Blocks[x].prev \in ToSet(Announced(n, top)) \cup {top}
<1>1. top \in ToSet(ChainOf(n))
  BY BlocksAre DEF BlockExisted
<1> QED BY <1>1, AnswerOnChain DEF Fetching, Types, Orderly, KeepsBlocks

LEMMA HandleGetblocksOrderly ==
  ASSUME Fetching, NEW n \in Nodes, HandleGetblocks(n)
  PROVE  Orderly'
<1>1. PICK msg \in Received(n, "getblocks") :
        /\ msg.from \in Nodes \ {n} /\ msg.to = n
        /\ BagToSet(net') \subseteq BagToSet(net) \cup Delivered(Answer(n, msg))
        /\ UNCHANGED <<db, lastHash, peers, handler, up, restarted, setup>>
  BY GetblocksMoves DEF Fetching
<1>2. msg.top \in DOMAIN Mined
  BY DEF Fetching, Orderly, Proper, Received
<1> DEFINE msgs == Delivered(Answer(n, msg))
<1>3. ASSUME NEW m \in msgs PROVE m.kind # "blockdata" /\ Proper(m)
  <2>1. m.to \in up
    BY DEF Delivered
  <2>2. CASE m = GetblocksMsg(n, msg.from)
    BY <2>1, <2>2, QuestionProper
  <2>3. CASE /\ BlockExisted(n, msg.top) /\ UnmatchedBlocks(n, msg.top) # <<>>
             /\ m = InvMsg(msg.from, Announced(n, msg.top))
    <3>1. Announced(n, msg.top) # <<>>
      BY <1>2, <2>3, AnnouncementIs
    <3> QED BY <2>1, <2>3, <3>1 DEF InvMsg, Proper
  <2> QED BY <1>3, <2>2, <2>3 DEF Delivered, Answer
<1>4. BagToSet(net') \subseteq BagToSet(net) \cup msgs
  BY <1>1
<1>5. \A k \in Nodes : peers'[k] = peers[k] \/ (peers'[k] # <<>> /\ k \in up)
  BY <1>1
<1> HIDE DEF msgs
<1> QED BY <1>1, <1>3, <1>4, <1>5, MessagesOrderly

LEMMA HandleInvOrderly ==
  ASSUME Fetching, NEW n \in Nodes, HandleInv(n)
  PROVE  Orderly'
<1>0. \A msg \in Received(n, "inv") : msg.list # <<>>
  BY DEF Fetching, Orderly, Proper, Received
<1>1. PICK msg \in Received(n, "inv"), h \in 1..Handlers :
        /\ handler[n][h] = Free
        /\ \A g \in 1..Handlers : g # h => handler'[n][g] = handler[n][g]
        /\ \A k \in Nodes \ {n} : handler'[k] = handler[k]
        /\ handler'[n][h].workers # 0 <=> peers[n] # <<>>
        /\ BagToSet(net') \subseteq BagToSet(net)
        /\ UNCHANGED <<db, lastHash, peers, up, restarted, setup>>
  BY <1>0, InvMoves DEF Fetching
<1>2. n \in up
  BY DEF Fetching, Orderly, Proper, Received
<1>3. ASSUME NEW k \in Nodes PROVE KeepsBlocks(k)'
  BY <1>1 DEF Fetching, Orderly, KeepsBlocks, start, Ancestors
<1>4. ASSUME NEW k \in Nodes PROVE KeepsMemory(k)'
  <2>1. KeepsMemory(k)
    BY DEF Fetching, Orderly
  <2>2. CASE k = n
    <3>1. \A g \in 1..Handlers : handler'[n][g].workers # 0 => peers[n] # <<>>
      BY <1>1, <2>1, <2>2 DEF KeepsMemory
    <3> QED BY <1>1, <1>2, <2>1, <2>2, <3>1 DEF KeepsMemory
  <2>3. CASE k # n
    BY <1>1, <2>1, <2>3 DEF KeepsMemory
  <2> QED BY <2>2, <2>3
<1>5. ASSUME NEW m \in BagToSet(net') PROVE Proper(m)'
  <2>1. m \in BagToSet(net) /\ Proper(m)
    BY <1>1 DEF Fetching, Orderly
  <2>2. ASSUME m.kind = "blockdata" PROVE handler'[m.to][m.call].workers # 0
    <3>1. m.to \in Nodes /\ m.call \in 1..Handlers /\ handler[m.to][m.call].workers # 0
      BY <2>1, <2>2, FetchingIs DEF Proper
    <3> QED BY <1>1, <3>1 DEF Free
  <2> QED BY <1>1, <2>1, <2>2 DEF Proper
<1> QED BY <1>3, <1>4, <1>5 DEF Orderly

LEMMA AskOrderly ==
  ASSUME Fetching, NEW n \in Nodes, NEW h \in 1..Handlers, Ask(n, h)
  PROVE  Orderly'
<1>1. PICK p \in Nodes \ {n} :
        /\ handler[n][h].workers # 0
        /\ \A g \in 1..Handlers : handler'[n][g].workers = handler[n][g].workers
        /\ \A k \in Nodes \ {n} : handler'[k] = handler[k]
        /\ \A msg \in BagToSet(net') \ BagToSet(net) :
             msg.kind = "blockdata" /\ msg.to = n /\ msg.call = h /\ n \in up
        /\ UNCHANGED <<db, lastHash, peers, up, restarted, setup>>
  BY AskMoves DEF Fetching
<1>2. ASSUME NEW k \in Nodes PROVE KeepsBlocks(k)'
  BY <1>1 DEF Fetching, Orderly, KeepsBlocks, start, Ancestors
<1>3. \A k \in Nodes : \A g \in 1..Handlers : handler'[k][g].workers = handler[k][g].workers
  BY <1>1
<1>4. ASSUME NEW k \in Nodes PROVE KeepsMemory(k)'
  <2>1. KeepsMemory(k)
    BY DEF Fetching, Orderly
  <2>2. k = n => k \in up
    BY <1>1, <2>1 DEF KeepsMemory, Free
  <2> QED BY <1>1, <1>3, <2>1, <2>2 DEF KeepsMemory
<1>5. ASSUME NEW m \in BagToSet(net') PROVE Proper(m)'
  <2>1. CASE m \notin BagToSet(net)
    BY <1>1, <1>3, <2>1 DEF Proper
  <2>2. CASE m \in BagToSet(net)
    <3>1. Proper(m) /\ (m.kind = "blockdata" => m.to \in Nodes /\ m.call \in 1..Handlers)
      BY <2>2, FetchingIs DEF Fetching, Orderly
    <3> QED BY <1>1, <1>3, <3>1 DEF Proper
  <2> QED BY <1>1, <2>1, <2>2
<1> QED BY <1>2, <1>4, <1>5 DEF Orderly

LEMMA HandleBlockdataOrderly ==
  ASSUME Fetching, NEW n \in Nodes, HandleBlockdata(n)
  PROVE  Orderly'
<1>1. PICK msg \in Received(n, "blockdata") :
        /\ msg.call \in 1..Handlers
        /\ db'[n] = db[n] \cup ToSet(msg.list)
        /\ lastHash'[n] \in ToSet(msg.list) \cup {lastHash[n]}
        /\ \A k \in Nodes \ {n} : db'[k] = db[k] /\ lastHash'[k] = lastHash[k]
        /\ BagToSet(net') \subseteq BagToSet(net)
        /\ UNCHANGED <<peers, handler, up, restarted, setup>>
  BY BlockdataMoves DEF Fetching
<1>2. peers[n] # <<>>
  <2>1. handler[n][msg.call].workers # 0
    BY DEF Fetching, Orderly, Proper, Received
  <2> QED BY <1>1, <2>1 DEF Fetching, Orderly, KeepsMemory
<1>3. ASSUME NEW k \in Nodes PROVE KeepsBlocks(k)'
  BY <1>1 DEF Fetching, Orderly, KeepsBlocks, start, Ancestors
<1>4. ASSUME NEW k \in Nodes PROVE KeepsMemory(k)'
  <2>1. KeepsMemory(k)
    BY DEF Fetching, Orderly
  <2> QED BY <1>1, <1>2, <2>1 DEF KeepsMemory
<1>5. ASSUME NEW m \in BagToSet(net') PROVE Proper(m)'
  BY <1>1 DEF Fetching, Orderly, Proper
<1> QED BY <1>3, <1>4, <1>5 DEF Orderly

LEMMA FinishInvOrderly ==
  ASSUME Fetching, SleepIsEnough, NEW n \in Nodes, NEW h \in 1..Handlers, FinishInv(n, h)
  PROVE  Orderly'
<1> DEFINE msgs == {GetblocksMsg(n, p) : p \in ToSet(peers[n])}
<1>1. /\ handler[n][h] # Free /\ handler'[n][h] = Free
      /\ \A g \in 1..Handlers : g # h => handler'[n][g] = handler[n][g]
      /\ \A k \in Nodes \ {n} : handler'[k] = handler[k]
      /\ \A msg \in Received(n, "blockdata") : msg.call # h
      /\ BagToSet(net') = BagToSet(net) \cup Delivered(msgs)
      /\ UNCHANGED <<db, lastHash, peers, up, restarted, setup>>
  BY FinishMoves DEF Fetching
<1>2. ASSUME NEW m \in Delivered(msgs) PROVE m.kind = "getblocks" /\ Proper(m)
  BY QuestionProper DEF Delivered
<1> HIDE DEF msgs
<1>3. ASSUME NEW k \in Nodes PROVE KeepsBlocks(k)'
  BY <1>1 DEF Fetching, Orderly, KeepsBlocks, start, Ancestors
<1>4. ASSUME NEW k \in Nodes PROVE KeepsMemory(k)'
  <2>1. KeepsMemory(k)
    BY DEF Fetching, Orderly
  <2>2. k = n => k \in up
    BY <1>1, <2>1 DEF KeepsMemory
  <2>3. \A g \in 1..Handlers : handler'[k][g].workers # 0 => handler[k][g].workers # 0
    BY <1>1 DEF Free
  <2>4. k # n => handler'[k] = handler[k]
    BY <1>1
  <2> QED BY <1>1, <2>1, <2>2, <2>3, <2>4 DEF KeepsMemory
<1>5. ASSUME NEW m \in BagToSet(net') PROVE Proper(m)'
  <2>1. CASE m \in Delivered(msgs)
    BY <1>1, <1>2, <2>1 DEF Proper
  <2>2. CASE m \in BagToSet(net)
    <3>1. Proper(m) /\ (m.kind = "blockdata" => m.to \in Nodes /\ m.call \in 1..Handlers)
      BY <2>2, FetchingIs DEF Fetching, Orderly
    <3>2. m.kind = "blockdata" /\ m.to = n => m.call # h
      BY <1>1, <2>2 DEF Received
    <3>3. m.kind = "blockdata" => handler'[m.to][m.call] = handler[m.to][m.call]
      BY <1>1, <3>1, <3>2
    <3> QED BY <1>1, <3>1, <3>3 DEF Proper
  <2> QED BY <1>1, <2>1, <2>2
<1> QED BY <1>3, <1>4, <1>5 DEF Orderly

LEMMA KillOrderly ==
  ASSUME Fetching, NEW n \in Nodes, Kill(n)
  PROVE  Orderly'
<1>1. /\ n \notin restarted /\ n \notin up' /\ restarted' = restarted \cup {n} /\ up' = up \ {n}
      /\ BagToSet(net') = {msg \in BagToSet(net) : msg.to # n}
      /\ peers'[n] = <<>> /\ \A h \in 1..Handlers : handler'[n][h] = Free
      /\ \A k \in Nodes \ {n} : peers'[k] = peers[k] /\ handler'[k] = handler[k]
      /\ UNCHANGED <<db, lastHash, setup>>
  BY KillMoves DEF Fetching
<1>2. ASSUME NEW k \in Nodes PROVE KeepsBlocks(k)'
  BY <1>1 DEF Fetching, Orderly, KeepsBlocks, start, Ancestors
<1>3. ASSUME NEW k \in Nodes PROVE KeepsMemory(k)'
  <2>1. KeepsMemory(k)
    BY DEF Fetching, Orderly
  <2>2. CASE k = n
    BY <1>1, <2>2 DEF KeepsMemory, Free
  <2>3. CASE k # n
    BY <1>1, <2>1, <2>3 DEF KeepsMemory
  <2> QED BY <2>2, <2>3
<1>4. ASSUME NEW m \in BagToSet(net') PROVE Proper(m)'
  <2>1. m \in BagToSet(net) /\ m.to # n /\ Proper(m) /\ (m.kind = "blockdata" => m.to \in Nodes)
    BY <1>1, FetchingIs DEF Fetching, Orderly
  <2> QED BY <1>1, <2>1 DEF Proper
<1> QED BY <1>2, <1>3, <1>4 DEF Orderly

LEMMA RestartOrderly ==
  ASSUME Fetching, NEW n \in Nodes, Restart(n)
  PROVE  Orderly'
<1>1. /\ n \notin up /\ up' = up \cup {n}
      /\ db'[n] = db[n] \cup {Genesis} /\ lastHash'[n] = Genesis
      /\ \A k \in Nodes \ {n} : db'[k] = db[k] /\ lastHash'[k] = lastHash[k]
      /\ UNCHANGED <<peers, handler, net, restarted, setup>>
  BY RestartMoves DEF Fetching
<1>2. ASSUME NEW k \in Nodes PROVE KeepsBlocks(k)'
  BY <1>1 DEF Fetching, Orderly, KeepsBlocks, start, Ancestors
<1>3. ASSUME NEW k \in Nodes PROVE KeepsMemory(k)'
  <2>1. KeepsMemory(k)
    BY DEF Fetching, Orderly
  <2> QED BY <1>1, <2>1 DEF KeepsMemory
<1>4. ASSUME NEW m \in BagToSet(net') PROVE Proper(m)'
  BY <1>1 DEF Fetching, Orderly, Proper
<1> QED BY <1>2, <1>3, <1>4 DEF Orderly

LEMMA NextOrderly ==
  ASSUME Fetching, SleepIsEnough, [Next]_vars
  PROVE  Orderly'
<1>1. CASE UNCHANGED vars
  BY <1>1 DEF vars, Fetching, Orderly, KeepsBlocks, KeepsMemory, Proper, start, Ancestors
<1> QED BY <1>1, FetchingSteps, GreetsOrderly, HandleGetblocksOrderly, HandleInvOrderly, AskOrderly,
           HandleBlockdataOrderly, FinishInvOrderly, KillOrderly, RestartOrderly

LEMMA InitOrderly == ASSUME Init, Types PROVE Orderly
<1>1. start \in [Nodes -> DOMAIN Mined] /\ lastHash = start
  BY SetupIs DEF Types, Init
<1>2. BagToSet(net) = {}
  BY EmptyNet DEF Init
<1>3. \A n \in Nodes : db[n] = Ancestors(start[n])
  BY <1>1 DEF Init, Ancestors
<1>4. ASSUME NEW n \in Nodes PROVE KeepsBlocks(n)
  BY <1>1, <1>3, AncestorsAre, GenesisFirst DEF KeepsBlocks
<1>5. ASSUME NEW n \in Nodes PROVE KeepsMemory(n)
  BY DEF Init, KeepsMemory, Free
<1> QED BY <1>2, <1>4, <1>5 DEF Orderly

-----------------------------------------------------------------------------
(* Why nobody falls silent before the tips agree.                          *)

\* A connected node that waits for nothing.
Idle(n) == n \in up /\ peers[n] # <<>> /\ ~Active(n) /\ Received(n, "inv") = {}

\* When both are idle they have the same tip, or one of them is being asked
\* for what follows the tip that the other one has now.
Agreed ==
  (\A n \in Nodes : Idle(n)) =>
    \/ \A n, k \in Nodes : lastHash[n] = lastHash[k]
    \/ \E msg \in BagToSet(net) : msg.kind = "getblocks" /\ msg.top = lastHash[msg.from]

\* A question sent with the tip of its sender keeps them agreed.
LEMMA AskedAgreed ==
  ASSUME NEW n \in Nodes, NEW p, GetblocksMsg(n, p) \in BagToSet(net'), UNCHANGED lastHash
  PROVE  Agreed'
BY DEF Agreed, GetblocksMsg

LEMMA BusyAgreed == ASSUME NEW n \in Nodes, ~Idle(n)' PROVE Agreed'
BY DEF Agreed

LEMMA HandleGetblocksAgreed ==
  ASSUME Fetching, Agreed, NEW n \in Nodes, HandleGetblocks(n)
  PROVE  Agreed'
<1>1. PICK msg \in Received(n, "getblocks") :
        /\ msg.from \in Nodes \ {n} /\ msg.to = n
        /\ (BagToSet(net) \ {msg}) \cup Delivered(Answer(n, msg)) \subseteq BagToSet(net')
        /\ BagToSet(net') \subseteq BagToSet(net) \cup Delivered(Answer(n, msg))
        /\ UNCHANGED <<db, lastHash, peers, handler, up, restarted, setup>>
  BY GetblocksMoves DEF Fetching
<1> DEFINE f == msg.from
           top == msg.top
<1>2. top \in DOMAIN Mined /\ msg.kind = "getblocks"
  BY DEF Fetching, Orderly, Proper, Received
<1>3. CASE f \notin up
  BY <1>1, <1>3, BusyAgreed DEF Idle
<1>4. CASE f \in up /\ ~BlockExisted(n, top)
  <2>1. GetblocksMsg(n, f) \in Delivered(Answer(n, msg))
    BY <1>4 DEF Delivered, Answer, GetblocksMsg
  <2> QED BY <1>1, <2>1, AskedAgreed
<1>5. CASE f \in up /\ BlockExisted(n, top) /\ UnmatchedBlocks(n, top) # <<>>
  <2> DEFINE inv == InvMsg(f, Announced(n, top))
  <2>1. inv \in Delivered(Answer(n, msg)) /\ inv.kind = "inv" /\ inv.to = f
    BY <1>5 DEF Delivered, Answer, InvMsg
  <2> HIDE DEF inv
  <2>2. inv \in Received(f, "inv")'
    BY <1>1, <2>1 DEF Received
  <2> QED BY <1>1, <2>2, BusyAgreed DEF Idle
<1>6. CASE BlockExisted(n, top) /\ UnmatchedBlocks(n, top) = <<>>
  <2>1. top = lastHash[n] /\ Answer(n, msg) = {}
    BY <1>2, <1>6, AnnouncementIs DEF Answer
  <2>2. BagToSet(net) \ {msg} \subseteq BagToSet(net') /\ BagToSet(net') \subseteq BagToSet(net)
    BY <1>1, <2>1 DEF Delivered
  <2>3. \A k \in Nodes : Received(k, "inv")' = Received(k, "inv")
    BY <1>2, <2>2 DEF Received
  <2>4. SUFFICES ASSUME \A k \in Nodes : Idle(k)'
                 PROVE  \/ \A k, q \in Nodes : lastHash'[k] = lastHash'[q]
                        \/ \E m \in BagToSet(net') : m.kind = "getblocks" /\ m.top = lastHash'[m.from]
    BY DEF Agreed
  <2>5. \A k \in Nodes : Idle(k)
    BY <1>1, <2>3, <2>4 DEF Idle, Active
  <2>6. CASE \A k, q \in Nodes : lastHash[k] = lastHash[q]
    BY <1>1, <2>6
  <2>7. CASE \E m \in BagToSet(net) : m.kind = "getblocks" /\ m.top = lastHash[m.from]
    <3>1. PICK m \in BagToSet(net) : m.kind = "getblocks" /\ m.top = lastHash[m.from]
      BY <2>7
    <3>2. CASE m = msg
      <4>1. lastHash[f] = lastHash[n] /\ Nodes = {n, f}
        BY <1>1, <2>1, <3>1, <3>2, OneOther DEF Fetching
      <4> QED BY <1>1, <4>1
    <3>3. CASE m # msg
      BY <1>1, <2>2, <3>1, <3>3
    <3> QED BY <3>2, <3>3
  <2> QED BY <2>5, <2>6, <2>7 DEF Agreed
<1> QED BY <1>3, <1>4, <1>5, <1>6

LEMMA NextAgreed ==
  ASSUME Fetching, SleepIsEnough, Agreed, [Next]_vars
  PROVE  Agreed'
<1>1. CASE UNCHANGED vars
  BY <1>1 DEF vars, Agreed, Idle, Active, Received
<1>2. ASSUME NEW n \in Nodes, NEW p \in Neighbours[n], Greets(n, p) PROVE Agreed'
  <2>1. GetblocksMsg(n, p) \in BagToSet(net') /\ UNCHANGED lastHash
    BY <1>2, GreetsMoves DEF Fetching
  <2> QED BY <2>1, AskedAgreed
<1>3. ASSUME NEW n \in Nodes, HandleInv(n) PROVE Agreed'
  <2>1. \A msg \in Received(n, "inv") : msg.list # <<>>
    BY DEF Fetching, Orderly, Proper, Received
  <2>2. PICK h \in 1..Handlers : (handler'[n][h].workers # 0 <=> peers[n] # <<>>) /\ peers' = peers
    BY <1>3, <2>1, InvMoves DEF Fetching
  <2>3. ~Idle(n)'
    BY <2>2 DEF Idle, Active
  <2> QED BY <2>3, BusyAgreed
<1>4. ASSUME NEW n \in Nodes, HandleBlockdata(n) PROVE Agreed'
  <2>1. PICK msg \in Received(n, "blockdata") : msg.call \in 1..Handlers /\ handler' = handler
    BY <1>4, BlockdataMoves DEF Fetching
  <2>2. handler[n][msg.call].workers # 0
    BY DEF Fetching, Orderly, Proper, Received
  <2>3. ~Idle(n)'
    BY <2>1, <2>2 DEF Idle, Active
  <2> QED BY <2>3, BusyAgreed
<1>5. ASSUME NEW n \in Nodes, NEW h \in 1..Handlers, Ask(n, h) PROVE Agreed'
  <2>1. handler'[n][h].workers # 0
    BY <1>5, AskMoves DEF Fetching
  <2>2. ~Idle(n)'
    BY <2>1 DEF Idle, Active
  <2> QED BY <2>2, BusyAgreed
<1>6. ASSUME NEW n \in Nodes, NEW h \in 1..Handlers, FinishInv(n, h) PROVE Agreed'
  <2> DEFINE msgs == {GetblocksMsg(n, p) : p \in ToSet(peers[n])}
  <2>1. BagToSet(net') = BagToSet(net) \cup Delivered(msgs) /\ UNCHANGED <<lastHash, peers, up>>
    BY <1>6, FinishMoves DEF Fetching
  <2>2. CASE peers[n] = <<>>
    BY <2>1, <2>2, BusyAgreed DEF Idle
  <2>3. CASE peers[n] # <<>>
    <3> DEFINE p == peers[n][1]
    <3>1. p \in ToSet(peers[n]) /\ p \in Nodes
      BY <2>3 DEF Fetching, Types, PeersOK, ToSet
    <3> HIDE DEF p
    <3>2. CASE p \notin up
      BY <2>1, <3>1, <3>2, BusyAgreed DEF Idle
    <3>3. CASE p \in up
      <4>1. GetblocksMsg(n, p) \in Delivered(msgs)
        BY <3>1, <3>3 DEF Delivered, GetblocksMsg
      <4> QED BY <2>1, <4>1, AskedAgreed
    <3> QED BY <3>2, <3>3
  <2> QED BY <2>2, <2>3
<1>7. ASSUME NEW n \in Nodes, Kill(n) PROVE Agreed'
  <2>1. ~Idle(n)'
    BY <1>7, KillMoves DEF Idle, Fetching
  <2> QED BY <2>1, BusyAgreed
<1>8. ASSUME NEW n \in Nodes, Restart(n) PROVE Agreed'
  <2>1. n \notin up /\ peers' = peers
    BY <1>8, RestartMoves DEF Fetching
  <2>2. ~Idle(n)'
    BY <2>1 DEF Idle, Fetching, Orderly, KeepsMemory
  <2> QED BY <2>2, BusyAgreed
<1> QED BY <1>1, <1>2, <1>3, <1>4, <1>5, <1>6, <1>7, <1>8, FetchingSteps, HandleGetblocksAgreed

-----------------------------------------------------------------------------
(* Which blocks a node takes.                                              *)

\* All blocks that n has heard of and does not forget are in S, its tip too.
Takes(n, S) ==
  /\ n \in up => lastHash[n] \in S
  /\ Awaited(n) \subseteq S
  /\ \A msg \in Received(n, "inv") : ToSet(msg.list) \subseteq S

\* What n is told is in S when what the others announce is; a restart makes
\* the genesis block its tip.
LEMMA NextTakes ==
  ASSUME Fetching, NEW n \in Nodes, NEW S, Takes(n, S), Genesis \in S,
         \A p \in Nodes \ {n}, msg \in BagToSet(net) :
           /\ msg.kind = "getblocks" /\ msg.to = p /\ msg.from = n
           /\ BlockExisted(p, msg.top) /\ UnmatchedBlocks(p, msg.top) # <<>>
           => ToSet(Announced(p, msg.top)) \subseteq S,
         [Next]_vars
  PROVE  Takes(n, S)'
<1>1. CASE UNCHANGED vars
  BY <1>1 DEF vars, Takes, Awaited, OnTheWay, Wanted, Received
<1>2. ASSUME NEW k \in Nodes, NEW p \in Neighbours[k], Greets(k, p) PROVE Takes(n, S)'
  <2> DEFINE msgs == {GetblocksMsg(k, p)}
  <2>1. BagToSet(net') = BagToSet(net) \cup msgs /\ UNCHANGED <<lastHash, handler, up>>
    BY <1>2, GreetsMoves DEF Fetching
  <2>2. \A msg \in msgs : msg.kind = "getblocks"
    BY DEF GetblocksMsg
  <2> HIDE DEF msgs
  <2>3. Received(n, "inv")' = Received(n, "inv") /\ Received(n, "blockdata")' = Received(n, "blockdata")
    BY <2>1, <2>2 DEF Received
  <2> QED BY <2>1, <2>3 DEF Takes, Awaited, OnTheWay, Wanted
<1>3. ASSUME NEW k \in Nodes, HandleGetblocks(k) PROVE Takes(n, S)'
  <2>1. PICK msg \in Received(k, "getblocks") :
          /\ msg.from \in Nodes \ {k} /\ msg.to = k
          /\ (BagToSet(net) \ {msg}) \cup Delivered(Answer(k, msg)) \subseteq BagToSet(net')
          /\ BagToSet(net') \subseteq BagToSet(net) \cup Delivered(Answer(k, msg))
          /\ UNCHANGED <<db, lastHash, peers, handler, up, restarted, setup>>
    BY <1>3, GetblocksMoves DEF Fetching
  <2> DEFINE msgs == Delivered(Answer(k, msg))
  <2>2. ASSUME NEW m \in msgs PROVE m.kind # "blockdata" /\ (m.kind = "inv" /\ m.to = n => ToSet(m.list) \subseteq S)
    <3>1. m \in Answer(k, msg)
      BY DEF Delivered
    <3>2. CASE m = GetblocksMsg(k, msg.from)
      BY <3>2 DEF GetblocksMsg
    <3>3. CASE /\ BlockExisted(k, msg.top) /\ UnmatchedBlocks(k, msg.top) # <<>>
               /\ m = InvMsg(msg.from, Announced(k, msg.top))
      <4>1. m.kind = "inv" /\ m.to = msg.from /\ m.list = Announced(k, msg.top)
        BY <3>3 DEF InvMsg
      <4>2. msg \in BagToSet(net) /\ msg.kind = "getblocks"
        BY DEF Received
      <4>3. m.to = n => k \in Nodes \ {n} /\ msg.from = n
        BY <2>1, <4>1
      <4> QED BY <2>1, <3>3, <4>1, <4>2, <4>3
    <3> QED BY <3>1, <3>2, <3>3 DEF Answer
  <2>3. BagToSet(net) \ {msg} \subseteq BagToSet(net') /\ BagToSet(net') \subseteq BagToSet(net) \cup msgs
    BY <2>1
  <2> HIDE DEF msgs
  <2>4. Received(n, "blockdata")' = Received(n, "blockdata")
    BY <2>2, <2>3 DEF Received
  <2>5. \A m \in Received(n, "inv")' : ToSet(m.list) \subseteq S
    BY <2>2, <2>3 DEF Received, Takes
  <2> QED BY <2>1, <2>4, <2>5 DEF Takes, Awaited, OnTheWay, Wanted
<1>4. ASSUME NEW k \in Nodes, HandleInv(k) PROVE Takes(n, S)'
  <2>0. \A msg \in Received(k, "inv") : msg.list # <<>>
    BY DEF Fetching, Orderly, Proper, Received
  <2>1. PICK msg \in Received(k, "inv") :
          /\ \A q \in Nodes \ {k} : handler'[q] = handler[q]
          /\ Awaited(k)' = Awaited(k) \cup (IF peers[k] # <<>> THEN ToSet(msg.list) ELSE {})
          /\ BagToSet(net) \ {msg} \subseteq BagToSet(net') /\ BagToSet(net') \subseteq BagToSet(net)
          /\ UNCHANGED <<lastHash, up>>
    BY <1>4, <2>0, InvMoves DEF Fetching
  <2>2. Received(n, "blockdata")' = Received(n, "blockdata") /\ Received(n, "inv")' \subseteq Received(n, "inv")
    BY <2>1 DEF Received
  <2>3. CASE k = n
    BY <2>1, <2>2, <2>3 DEF Takes
  <2>4. CASE k # n
    <3>1. handler'[n] = handler[n]
      BY <2>1, <2>4
    <3> QED BY <2>1, <2>2, <3>1 DEF Takes, Awaited, OnTheWay, Wanted
  <2> QED BY <2>3, <2>4
<1>5. ASSUME NEW k \in Nodes, HandleBlockdata(k) PROVE Takes(n, S)'
  <2>1. PICK msg \in Received(k, "blockdata") :
          /\ ToSet(msg.list) \subseteq Awaited(k)
          /\ lastHash'[k] \in ToSet(msg.list) \cup {lastHash[k]}
          /\ \A q \in Nodes \ {k} : lastHash'[q] = lastHash[q]
          /\ Awaited(k)' \subseteq Awaited(k)
          /\ BagToSet(net) \ {msg} \subseteq BagToSet(net') /\ BagToSet(net') \subseteq BagToSet(net)
          /\ UNCHANGED <<handler, up>>
    BY <1>5, BlockdataMoves DEF Fetching
  <2>2. Received(n, "inv")' \subseteq Received(n, "inv") /\ Received(n, "blockdata")' \subseteq Received(n, "blockdata")
    BY <2>1 DEF Received
  <2>3. CASE k = n
    BY <2>1, <2>2, <2>3 DEF Takes
  <2>4. CASE k # n
    <3>1. Awaited(n)' \subseteq Awaited(n)
      BY <2>1, <2>2 DEF Awaited, OnTheWay, Wanted
    <3> QED BY <2>1, <2>2, <2>4, <3>1 DEF Takes
  <2> QED BY <2>3, <2>4
<1>6. ASSUME NEW k \in Nodes, NEW h \in 1..Handlers, Ask(k, h) PROVE Takes(n, S)'
  <2>1. /\ \A q \in Nodes \ {k} : handler'[q] = handler[q]
        /\ BagToSet(net) \subseteq BagToSet(net')
        /\ \A msg \in BagToSet(net') \ BagToSet(net) : msg.kind = "blockdata" /\ msg.to = k
        /\ Awaited(k)' \subseteq Awaited(k)
        /\ UNCHANGED <<lastHash, up>>
    BY <1>6, AskMoves DEF Fetching
  <2>2. Received(n, "inv")' = Received(n, "inv")
    BY <2>1 DEF Received
  <2>3. CASE k = n
    BY <2>1, <2>2, <2>3 DEF Takes
  <2>4. CASE k # n
    <3>1. handler'[n] = handler[n] /\ Received(n, "blockdata")' = Received(n, "blockdata")
      BY <2>1, <2>4 DEF Received
    <3> QED BY <2>1, <2>2, <3>1 DEF Takes, Awaited, OnTheWay, Wanted
  <2> QED BY <2>3, <2>4
<1>7. ASSUME NEW k \in Nodes, NEW h \in 1..Handlers, FinishInv(k, h) PROVE Takes(n, S)'
  <2> DEFINE msgs == Delivered({GetblocksMsg(k, p) : p \in ToSet(peers[k])})
  <2>1. /\ \A q \in Nodes \ {k} : handler'[q] = handler[q]
        /\ BagToSet(net') = BagToSet(net) \cup msgs
        /\ Awaited(k)' = Awaited(k)
        /\ UNCHANGED <<lastHash, up>>
    BY <1>7, FinishMoves DEF Fetching
  <2>2. \A msg \in msgs : msg.kind = "getblocks"
    BY DEF GetblocksMsg, Delivered
  <2> HIDE DEF msgs
  <2>3. Received(n, "inv")' = Received(n, "inv") /\ Received(n, "blockdata")' = Received(n, "blockdata")
    BY <2>1, <2>2 DEF Received
  <2>4. CASE k = n
    BY <2>1, <2>3, <2>4 DEF Takes
  <2>5. CASE k # n
    <3>1. handler'[n] = handler[n]
      BY <2>1, <2>5
    <3> QED BY <2>1, <2>3, <3>1 DEF Takes, Awaited, OnTheWay, Wanted
  <2> QED BY <2>4, <2>5
<1>8. ASSUME NEW k \in Nodes, Kill(k) PROVE Takes(n, S)'
  <2>1. /\ k \notin up' /\ up' = up \ {k} /\ Awaited(k)' = {}
        /\ BagToSet(net') = {msg \in BagToSet(net) : msg.to # k}
        /\ \A q \in Nodes \ {k} : handler'[q] = handler[q]
        /\ UNCHANGED lastHash
    BY <1>8, KillMoves DEF Fetching
  <2>2. /\ Received(n, "inv")' \subseteq Received(n, "inv")
        /\ Received(n, "blockdata")' \subseteq Received(n, "blockdata")
        /\ Received(k, "inv")' = {}
    BY <2>1 DEF Received
  <2>3. CASE k = n
    BY <2>1, <2>2, <2>3 DEF Takes
  <2>4. CASE k # n
    <3>1. Awaited(n)' \subseteq Awaited(n)
      BY <2>1, <2>2, <2>4 DEF Awaited, OnTheWay, Wanted
    <3> QED BY <2>1, <2>2, <3>1 DEF Takes
  <2> QED BY <2>3, <2>4
<1>9. ASSUME NEW k \in Nodes, Restart(k) PROVE Takes(n, S)'
  <2>1. /\ up' = up \cup {k} /\ lastHash'[k] = Genesis
        /\ \A q \in Nodes \ {k} : lastHash'[q] = lastHash[q]
        /\ UNCHANGED <<handler, net>>
    BY <1>9, RestartMoves DEF Fetching
  <2>2. n \in up' => lastHash'[n] \in S
    BY <2>1 DEF Takes
  <2> QED BY <2>1, <2>2 DEF Takes, Awaited, OnTheWay, Wanted, Received
<1> QED BY <1>1, <1>2, <1>3, <1>4, <1>5, <1>6, <1>7, <1>8, <1>9, FetchingSteps

-----------------------------------------------------------------------------
(* What the steps have in common.                                          *)

LEMMA DatabasesGrow ==
  ASSUME Fetching, [Next]_vars, NEW n \in Nodes
  PROVE  db[n] \subseteq db'[n]
<1>1. CASE UNCHANGED vars
  BY <1>1 DEF vars
<1>2. ASSUME NEW k \in Nodes, HandleBlockdata(k) PROVE db[n] \subseteq db'[n]
  BY <1>2, BlockdataMoves DEF Fetching
<1>3. ASSUME NEW k \in Nodes, Restart(k) PROVE db[n] \subseteq db'[n]
  BY <1>3, RestartMoves DEF Fetching
<1>4. ASSUME NEW k \in Nodes, \/ \E p \in Neighbours[k] : Greets(k, p)
                              \/ HandleGetblocks(k) \/ HandleInv(k) \/ Kill(k)
                              \/ \E h \in 1..Handlers : Ask(k, h) \/ FinishInv(k, h)
      PROVE  db' = db
  BY <1>4 DEF Greets, HandleGetblocks, HandleInv, Kill, Ask, FinishInv
<1> QED BY <1>1, <1>2, <1>3, <1>4, FetchingSteps

\* Nodes are killed one at a time.
LEMMA KilledIs ==
  ASSUME Fetching, [Next]_vars, NEW n \in restarted', n \notin restarted
  PROVE  n \in Nodes /\ Kill(n)
<1>1. ~UNCHANGED vars
  BY DEF vars
<1>2. ASSUME NEW k \in Nodes, \/ \E p \in Neighbours[k] : Greets(k, p)
                              \/ HandleGetblocks(k) \/ HandleInv(k) \/ HandleBlockdata(k) \/ Restart(k)
                              \/ \E h \in 1..Handlers : Ask(k, h) \/ FinishInv(k, h)
      PROVE  restarted' = restarted
  BY <1>2 DEF Greets, HandleGetblocks, HandleInv, HandleBlockdata, Restart, Ask, FinishInv, process
<1>3. ASSUME NEW k \in Nodes, Kill(k) PROVE n = k
  BY <1>3 DEF Kill
<1> QED BY <1>1, <1>2, <1>3, FetchingSteps

\* Every question is asked with the tip of its sender.
LEMMA NewQuestions ==
  ASSUME Fetching, [Next]_vars, NEW msg \in BagToSet(net'), msg.kind = "getblocks", msg \notin BagToSet(net)
  PROVE  msg.from \in up /\ msg.top = lastHash[msg.from]
<1>1. ~UNCHANGED vars
  BY DEF vars
<1>2. ASSUME NEW n \in Nodes, NEW p \in Neighbours[n], Greets(n, p)
      PROVE  msg.from \in up /\ msg.top = lastHash[msg.from]
  <2>1. msg = GetblocksMsg(n, p) /\ n \in up
    BY <1>2, GreetsMoves DEF Fetching
  <2> QED BY <2>1 DEF GetblocksMsg
<1>3. ASSUME NEW n \in Nodes, HandleGetblocks(n)
      PROVE  msg.from \in up /\ msg.top = lastHash[msg.from]
  <2>1. PICK m \in Received(n, "getblocks") : msg \in Delivered(Answer(n, m))
    BY <1>3, GetblocksMoves DEF Fetching
  <2>2. msg = GetblocksMsg(n, m.from)
    BY <2>1 DEF Delivered, Answer, InvMsg
  <2>3. n \in up
    BY DEF Fetching, Orderly, Proper, Received
  <2> QED BY <2>2, <2>3 DEF GetblocksMsg
<1>4. ASSUME NEW n \in Nodes, HandleInv(n) PROVE FALSE
  <2>1. \A m \in Received(n, "inv") : m.list # <<>>
    BY DEF Fetching, Orderly, Proper, Received
  <2> QED BY <1>4, <2>1, InvMoves DEF Fetching
<1>5. ASSUME NEW n \in Nodes PROVE ~HandleBlockdata(n) /\ ~Kill(n) /\ ~Restart(n)
  BY BlockdataMoves, KillMoves, RestartMoves DEF Fetching
<1>6. ASSUME NEW n \in Nodes, NEW h \in 1..Handlers PROVE ~Ask(n, h)
  BY AskMoves DEF Fetching
<1>7. ASSUME NEW n \in Nodes, NEW h \in 1..Handlers, FinishInv(n, h)
      PROVE  msg.from \in up /\ msg.top = lastHash[msg.from]
  <2>1. handler[n][h] # Free /\ msg \in Delivered({GetblocksMsg(n, p) : p \in ToSet(peers[n])})
    BY <1>7, FinishMoves DEF Fetching
  <2>2. n \in up
    BY <2>1 DEF Fetching, Orderly, KeepsMemory
  <2> QED BY <2>1, <2>2 DEF Delivered, GetblocksMsg
<1> QED BY <1>1, <1>2, <1>3, <1>4, <1>5, <1>6, <1>7, FetchingSteps

\* Messages wait until they are handled or their receiver is killed.
LEMMA MessagesWait ==
  ASSUME Fetching, [Next]_vars, NEW msg \in BagToSet(net), msg \notin BagToSet(net'), NEW n \in Nodes, msg.to = n
  PROVE  Kill(n) \/ HandleGetblocks(n) \/ HandleInv(n) \/ HandleBlockdata(n)
<1>1. ~UNCHANGED vars
  BY DEF vars
<1>2. ASSUME NEW k \in Nodes PROVE /\ \A p \in Neighbours[k] : ~Greets(k, p)
                                   /\ ~Restart(k)
                                   /\ \A h \in 1..Handlers : ~Ask(k, h) /\ ~FinishInv(k, h)
  BY GreetsMoves, RestartMoves, AskMoves, FinishMoves DEF Fetching
<1>3. ASSUME NEW k \in Nodes, HandleGetblocks(k) PROVE k = n
  BY <1>3, GetblocksMoves DEF Fetching, Received
<1>4. ASSUME NEW k \in Nodes, HandleInv(k) PROVE k = n
  <2>1. \A m \in Received(k, "inv") : m.list # <<>>
    BY DEF Fetching, Orderly, Proper, Received
  <2>2. PICK m \in Received(k, "inv") : BagToSet(net) \ {m} \subseteq BagToSet(net')
    BY <1>4, <2>1, InvMoves DEF Fetching
  <2> QED BY <2>2 DEF Received
<1>5. ASSUME NEW k \in Nodes, HandleBlockdata(k) PROVE k = n
  <2>1. PICK m \in Received(k, "blockdata") : BagToSet(net) \ {m} \subseteq BagToSet(net')
    BY <1>5, BlockdataMoves DEF Fetching
  <2> QED BY <2>1 DEF Received
<1>6. ASSUME NEW k \in Nodes, Kill(k) PROVE k = n
  BY <1>6, KillMoves DEF Fetching
<1> QED BY <1>1, <1>2, <1>3, <1>4, <1>5, <1>6, FetchingSteps

\* A running node whose peer is running does not lose what is coming.
LEMMA ComingKept ==
  ASSUME Fetching, [Next]_vars, NEW f \in Nodes, up = Nodes, ~Kill(f)
  PROVE  Coming(f) \subseteq Coming(f)'
<1>0. \A n \in Nodes : Coming(n) = db[n] \cup Awaited(n) /\ Coming(n)' = db'[n] \cup Awaited(n)'
  BY DEF Coming, Awaited
<1>1. CASE UNCHANGED vars
  BY <1>1 DEF vars, Coming, OnTheWay, Wanted, Received
<1>2. db[f] \subseteq db'[f]
  BY DatabasesGrow
<1>3. ASSUME handler'[f] = handler[f],
             \A msg \in BagToSet(net) : msg.kind = "blockdata" /\ msg.to = f => msg \in BagToSet(net')
      PROVE  Awaited(f) \subseteq Awaited(f)'
  <2>1. Received(f, "blockdata") \subseteq Received(f, "blockdata")'
    BY <1>3 DEF Received
  <2> QED BY <1>3, <2>1 DEF Awaited, OnTheWay, Wanted
<1>4. ASSUME NEW n \in Nodes, NEW p \in Neighbours[n], Greets(n, p) PROVE Coming(f) \subseteq Coming(f)'
  <2>1. BagToSet(net) \subseteq BagToSet(net') /\ handler' = handler
    BY <1>4, GreetsMoves DEF Fetching
  <2> QED BY <1>0, <1>2, <1>3, <2>1
<1>5. ASSUME NEW n \in Nodes, HandleGetblocks(n) PROVE Coming(f) \subseteq Coming(f)'
  <2>1. PICK m \in Received(n, "getblocks") : BagToSet(net) \ {m} \subseteq BagToSet(net') /\ handler' = handler
    BY <1>5, GetblocksMoves DEF Fetching
  <2>2. \A msg \in BagToSet(net) : msg.kind = "blockdata" => msg \in BagToSet(net')
    BY <2>1 DEF Received
  <2> QED BY <1>0, <1>2, <1>3, <2>1, <2>2
<1>6. ASSUME NEW n \in Nodes, HandleInv(n) PROVE Coming(f) \subseteq Coming(f)'
  <2>1. \A m \in Received(n, "inv") : m.list # <<>>
    BY DEF Fetching, Orderly, Proper, Received
  <2>2. PICK m \in Received(n, "inv") :
          /\ \A k \in Nodes \ {n} : handler'[k] = handler[k]
          /\ Awaited(n)' = Awaited(n) \cup (IF peers[n] # <<>> THEN ToSet(m.list) ELSE {})
          /\ BagToSet(net) \ {m} \subseteq BagToSet(net')
    BY <1>6, <2>1, InvMoves DEF Fetching
  <2>3. CASE n = f
    BY <1>0, <1>2, <2>2, <2>3
  <2>4. CASE n # f
    <3>1. \A msg \in BagToSet(net) : msg.kind = "blockdata" => msg \in BagToSet(net')
      BY <2>2 DEF Received
    <3> QED BY <1>0, <1>2, <1>3, <2>2, <2>4, <3>1
  <2> QED BY <2>3, <2>4
<1>7. ASSUME NEW n \in Nodes, HandleBlockdata(n) PROVE Coming(f) \subseteq Coming(f)'
  <2>1. PICK m \in Received(n, "blockdata") :
          /\ db'[n] = db[n] \cup ToSet(m.list) /\ handler' = handler
          /\ Awaited(n) \subseteq Awaited(n)' \cup ToSet(m.list)
          /\ BagToSet(net) \ {m} \subseteq BagToSet(net')
    BY <1>7, BlockdataMoves DEF Fetching
  <2>2. CASE n = f
    BY <1>0, <2>1, <2>2
  <2>3. CASE n # f
    <3>1. \A msg \in BagToSet(net) : msg.kind = "blockdata" /\ msg.to = f => msg \in BagToSet(net')
      BY <2>1, <2>3 DEF Received
    <3> QED BY <1>0, <1>2, <1>3, <2>1, <3>1
  <2> QED BY <2>2, <2>3
<1>8. ASSUME NEW n \in Nodes, NEW h \in 1..Handlers, Ask(n, h) PROVE Coming(f) \subseteq Coming(f)'
  <2>1. /\ \A k \in Nodes \ {n} : handler'[k] = handler[k]
        /\ BagToSet(net) \subseteq BagToSet(net') /\ Awaited(n)' = Awaited(n)
    BY <1>8, AskMoves DEF Fetching
  <2>2. CASE n = f
    BY <1>0, <1>2, <2>1, <2>2
  <2>3. CASE n # f
    BY <1>0, <1>2, <1>3, <2>1, <2>3
  <2> QED BY <2>2, <2>3
<1>9. ASSUME NEW n \in Nodes, NEW h \in 1..Handlers, FinishInv(n, h) PROVE Coming(f) \subseteq Coming(f)'
  <2>1. /\ \A k \in Nodes \ {n} : handler'[k] = handler[k]
        /\ BagToSet(net) \subseteq BagToSet(net') /\ Awaited(n)' = Awaited(n)
    BY <1>9, FinishMoves DEF Fetching
  <2>2. CASE n = f
    BY <1>0, <1>2, <2>1, <2>2
  <2>3. CASE n # f
    BY <1>0, <1>2, <1>3, <2>1, <2>3
  <2> QED BY <2>2, <2>3
<1>10. ASSUME NEW n \in Nodes, Kill(n) PROVE Coming(f) \subseteq Coming(f)'
  <2>1. n # f
    BY <1>10
  <2>2. /\ BagToSet(net') = {msg \in BagToSet(net) : msg.to # n}
        /\ \A k \in Nodes \ {n} : handler'[k] = handler[k]
    BY <1>10, KillMoves DEF Fetching
  <2> QED BY <1>0, <1>2, <1>3, <2>1, <2>2
<1>11. ASSUME NEW n \in Nodes PROVE ~Restart(n)
  BY DEF Restart
<1> QED BY <1>1, <1>4, <1>5, <1>6, <1>7, <1>8, <1>9, <1>10, <1>11, FetchingSteps

-----------------------------------------------------------------------------
(***************************************************************************)
(* After a restart.  Once a node was killed there are a follower f, which  *)
(* takes nothing but blocks of l's chain at the start, and l, which kept   *)
(* that chain.  As long as l was not killed it leads: f was, and everything*)
(* it may lack is on its way or will be asked for from the genesis block   *)
(* on.  When l was killed it only takes blocks below which f has           *)
(* everything, so that the tip they agree on is complete in both.          *)
(***************************************************************************)

\* l was not killed, has its chain, and is never asked to take anything.
Leads(l) ==
  /\ l \in up /\ db[l] = Ancestors(start[l]) /\ lastHash[l] = start[l]
  /\ \A h \in 1..Handlers : handler[l][h] = Free
  /\ \A msg \in BagToSet(net) :
       /\ msg.to = l => msg.kind = "getblocks"
       /\ msg.kind = "getblocks" /\ msg.from = l => msg.top = start[l]

\* All blocks of l are there or on their way to f, or f is going to ask for
\* them once more.
Rescue(f, l) ==
  \/ peers[f] = <<>>
  \/ \E msg \in Received(l, "getblocks") : msg.top = Genesis
  \/ \E msg \in Received(f, "inv") : Ancestors(start[l]) \subseteq {Genesis} \cup ToSet(msg.list)
  \/ Ancestors(start[l]) \subseteq Coming(f)

\* f was killed and l was not: what f has is of l's chain, and comes back.
Regains(f, l) == Leads(l) /\ Takes(f, Ancestors(start[l])) /\ (RestartFits => Rescue(f, l))

\* The blocks of l's chain that f has with everything below.
Safe(f, l) == {x \in Ancestors(start[l]) : Ancestors(x) \subseteq db[f]}

\* l was killed: it takes up again, as its tip or as a block to fetch, only
\* what f has together with everything below.
Trails(f, l) ==
  /\ Takes(f, Ancestors(start[l])) /\ Takes(l, Safe(f, l))
  /\ \A msg \in BagToSet(net) :
       msg.kind = "getblocks" /\ msg.from = l => msg.top \in {start[l]} \cup Safe(f, l)

\* The two ways in which f follows l once somebody was killed.
After(f, l) ==
  f # l /\ IF l \in restarted THEN Trails(f, l) ELSE f \in restarted /\ Regains(f, l)

\* The two nodes of the following lemmas.
Two(f, l) == f \in Nodes /\ l \in Nodes /\ f # l /\ Nodes = {f, l} /\ Fetching

LEMMA TwoAre ==
  ASSUME NEW f, NEW l, Two(f, l)
  PROVE  LET d == Ancestors(start[l])
         IN  /\ start[l] \in DOMAIN Mined /\ start[l] \in d
             /\ d \in SUBSET DOMAIN Mined /\ Closed(d) /\ Genesis \in d
             /\ StateOK /\ lastHash[f] \in db[f] /\ lastHash[l] \in db[l]
BY FetchingIs, AncestorsAre, GenesisFirst DEF Two, Fetching, Types, Orderly, KeepsBlocks

\* The network started from stays.
LEMMA SameStart ==
  ASSUME [Next]_vars, NEW l
  PROVE  /\ setup' = setup /\ start' = start /\ Ancestors(start[l])' = Ancestors(start[l])
         /\ RestartFits' = RestartFits
BY StillBefore DEF start, Ancestors, RestartFits

\* A node with a tip on l's chain announces nothing else.
LEMMA AnnouncedWithin ==
  ASSUME NEW f, NEW l, Two(f, l), NEW p \in Nodes, lastHash[p] \in Ancestors(start[l]),
         NEW top \in DOMAIN Mined, BlockExisted(p, top), UnmatchedBlocks(p, top) # <<>>
  PROVE  /\ ToSet(Announced(p, top)) \subseteq Ancestors(start[l]) \cap db[p]
         /\ \A x \in ToSet(Announced(p, top)) : Blocks[x].prev \in ToSet(Announced(p, top)) \cup {top}
<1> DEFINE d == Ancestors(start[l])
<1>1. d \in SUBSET DOMAIN Mined /\ Closed(d) /\ StateOK
  BY TwoAre
<1> HIDE DEF d
<1>2. ToSet(ChainOf(p)) \subseteq d \cap db[p]
  BY <1>1, ChainWithin DEF d
<1>3. /\ ToSet(Announced(p, top)) \subseteq ToSet(ChainOf(p))
      /\ \A x \in ToSet(Announced(p, top)) : Blocks[x].prev \in ToSet(Announced(p, top)) \cup {top}
  BY AnnouncementIs DEF Two
<1> QED BY <1>2, <1>3 DEF d

\* A node with a tip on l's chain announces nothing above the end of it.
LEMMA NothingAbove ==
  ASSUME NEW f, NEW l, Two(f, l), lastHash[f] \in Ancestors(start[l]), BlockExisted(f, start[l])
  PROVE  UnmatchedBlocks(f, start[l]) = <<>>
BY TwoAre, TipIsLast DEF Two

\* What f takes stays within l's chain, as the tip of l does.
LEMMA NextTakesFollower ==
  ASSUME NEW f, NEW l, Two(f, l), Takes(f, Ancestors(start[l])),
         l \in up => lastHash[l] \in Ancestors(start[l]), [Next]_vars
  PROVE  Takes(f, Ancestors(start[l]))'
<1>1. PICK d : d = Ancestors(start[l])
  OBVIOUS
<1>2. ASSUME NEW p \in Nodes \ {f}, NEW msg \in BagToSet(net),
             msg.kind = "getblocks" /\ msg.to = p /\ msg.from = f,
             BlockExisted(p, msg.top), UnmatchedBlocks(p, msg.top) # <<>>
      PROVE  ToSet(Announced(p, msg.top)) \subseteq d
  <2>1. p = l /\ p \in up /\ msg.top \in DOMAIN Mined
    BY <1>2 DEF Two, Fetching, Orderly, Proper
  <2> QED BY <1>1, <1>2, <2>1, AnnouncedWithin
<1>3. Takes(f, d)'
  <2>1. Fetching /\ f \in Nodes /\ Takes(f, d) /\ Genesis \in d
    BY <1>1, TwoAre DEF Two
  <2> QED BY <1>2, <2>1, NextTakes
<1>4. Ancestors(start[l])' = d
  BY <1>1, SameStart
<1> QED BY <1>3, <1>4

\* With every announced block its ancestors are there.
LEMMA AnnouncedSafe ==
  ASSUME NEW f, NEW l, Two(f, l), lastHash[f] \in Ancestors(start[l]),
         NEW top \in Safe(f, l), BlockExisted(f, top), UnmatchedBlocks(f, top) # <<>>
  PROVE  ToSet(Announced(f, top)) \subseteq Safe(f, l)
<1> DEFINE d == Ancestors(start[l])
           list == ToSet(Announced(f, top))
           S == Ancestors(top) \cup list
<1>1. d \in SUBSET DOMAIN Mined
  BY TwoAre
<1>2. top \in DOMAIN Mined /\ Ancestors(top) \subseteq db[f]
  BY <1>1 DEF Safe
<1>3. list \subseteq d \cap db[f] /\ \A x \in list : Blocks[x].prev \in list \cup {top}
  BY <1>2, AnnouncedWithin DEF Two
<1>4. Ancestors(top) \subseteq DOMAIN Mined /\ Closed(Ancestors(top)) /\ top \in Ancestors(top)
  BY <1>2, AncestorsAre
<1> HIDE DEF list
<1>5. S \in SUBSET DOMAIN Mined /\ Closed(S) /\ S \subseteq db[f]
  BY <1>1, <1>2, <1>3, <1>4 DEF Closed
<1>6. ASSUME NEW x \in list PROVE Ancestors(x) \subseteq db[f]
  <2> HIDE DEF S
  <2>1. x \in S
    BY DEF S
  <2> QED BY <1>5, <2>1, AncestorsWithin
<1> QED BY <1>3, <1>6 DEF Safe, list

LEMMA NextTrails ==
  ASSUME NEW f, NEW l, Two(f, l), Trails(f, l), [Next]_vars
  PROVE  Trails(f, l)'
<1>1. PICK S : S = Safe(f, l)
  OBVIOUS
<1>2. Takes(f, Ancestors(start[l]))'
  BY NextTakesFollower DEF Trails, Takes, Safe
<1>3. S \subseteq Safe(f, l)'
  <2>1. db[f] \subseteq db'[f] /\ Ancestors(start[l])' = Ancestors(start[l])
    BY DatabasesGrow, SameStart DEF Two
  <2>2. \A x : Ancestors(x)' = Ancestors(x)
    BY DEF Ancestors
  <2> QED BY <1>1, <2>1, <2>2 DEF Safe
<1>4. Takes(l, S)'
  <2>1. Fetching /\ l \in Nodes /\ Takes(l, S)
    BY <1>1 DEF Two, Trails
  <2>2. Genesis \in S
    <3>1. Genesis \in db[f] /\ Genesis \in Ancestors(start[l]) /\ Ancestors(Genesis) = {Genesis}
      BY FetchingIs, GenesisFirst DEF Two, Fetching, Orderly, KeepsBlocks
    <3> QED BY <1>1, <3>1 DEF Safe
  <2>3. ASSUME NEW p \in Nodes \ {l}, NEW msg \in BagToSet(net),
               msg.kind = "getblocks" /\ msg.to = p /\ msg.from = l,
               BlockExisted(p, msg.top), UnmatchedBlocks(p, msg.top) # <<>>
        PROVE  ToSet(Announced(p, msg.top)) \subseteq S
    <3>1. p = f /\ lastHash[f] \in Ancestors(start[l])
      BY <2>3 DEF Two, Fetching, Orderly, Proper, Trails, Takes
    <3>2. msg.top # start[l]
      BY <2>3, <3>1, NothingAbove
    <3>3. msg.top \in Safe(f, l)
      BY <2>3, <3>2 DEF Trails
    <3> QED BY <1>1, <2>3, <3>1, <3>3, AnnouncedSafe
  <2> QED BY <2>1, <2>2, <2>3, NextTakes
<1>5. Takes(l, Safe(f, l))'
  BY <1>3, <1>4 DEF Takes
<1>6. ASSUME NEW msg \in BagToSet(net'), msg.kind = "getblocks", msg.from = l
      PROVE  msg.top \in {start[l]} \cup S
  <2>1. CASE msg \in BagToSet(net)
    BY <1>1, <1>6, <2>1 DEF Trails
  <2>2. CASE msg \notin BagToSet(net)
    BY <1>1, <1>6, <2>2, NewQuestions DEF Two, Trails, Takes
  <2> QED BY <2>1, <2>2
<1>7. start'[l] = start[l]
  BY SameStart
<1> QED BY <1>2, <1>3, <1>5, <1>6, <1>7 DEF Trails

\* Of the steps of a node that leads, most do not happen.
LEMMA LeaderSteps ==
  ASSUME NEW f, NEW l, Two(f, l), Leads(l), Takes(f, Ancestors(start[l])), [Next]_vars, ~Kill(l)
  PROVE  Leads(l)'
<1>0. start'[l] = start[l] /\ Ancestors(start[l])' = Ancestors(start[l])
  BY SameStart
<1>1. CASE UNCHANGED vars
  BY <1>1 DEF vars, Leads, start, Ancestors
<1>2. /\ ~HandleInv(l) /\ ~HandleBlockdata(l) /\ ~Restart(l)
      /\ \A h \in 1..Handlers : ~Ask(l, h) /\ ~FinishInv(l, h)
  <2>1. Received(l, "inv") = {} /\ Received(l, "blockdata") = {}
    BY DEF Leads, Received
  <2>2. ~HandleInv(l) /\ ~HandleBlockdata(l)
    BY <2>1 DEF HandleInv, HandleBlockdata
  <2>3. \A h \in 1..Handlers : ~Ask(l, h) /\ ~FinishInv(l, h)
    BY DEF Leads, Ask, FinishInv, Free
  <2> QED BY <2>2, <2>3 DEF Leads, Restart
<1>3. ASSUME db'[l] = db[l], lastHash'[l] = lastHash[l], handler'[l] = handler[l], l \in up',
             \A msg \in BagToSet(net') : msg \in BagToSet(net) \/ msg.to # l \/ msg.kind = "getblocks"
      PROVE  Leads(l)'
  <2>1. ASSUME NEW msg \in BagToSet(net'), msg.kind = "getblocks", msg.from = l PROVE msg.top = start[l]
    BY <2>1, NewQuestions DEF Two, Leads
  <2> QED BY <1>0, <1>3, <2>1 DEF Leads
<1>4. ASSUME NEW n \in Nodes, NEW p \in Neighbours[n], Greets(n, p) PROVE Leads(l)'
  <2>1. /\ BagToSet(net') = BagToSet(net) \cup {GetblocksMsg(n, p)}
        /\ UNCHANGED <<db, lastHash, handler, up>>
    BY <1>4, GreetsMoves DEF Two, Fetching
  <2>2. \A msg \in BagToSet(net') : msg \in BagToSet(net) \/ msg.to # l \/ msg.kind = "getblocks"
    BY <2>1 DEF GetblocksMsg
  <2> QED BY <1>3, <2>1, <2>2 DEF Leads
<1>5. ASSUME NEW n \in Nodes, HandleGetblocks(n) PROVE Leads(l)'
  <2>1. PICK m \in Received(n, "getblocks") :
          /\ m.from \in Nodes \ {n} /\ m.to = n
          /\ BagToSet(net') \subseteq BagToSet(net) \cup Delivered(Answer(n, m))
          /\ UNCHANGED <<db, lastHash, handler, up>>
    BY <1>5, GetblocksMoves DEF Two, Fetching
  <2>2. ASSUME NEW msg \in Delivered(Answer(n, m)), msg.to = l PROVE msg.kind = "getblocks"
    <3>1. msg \in Answer(n, m)
      BY DEF Delivered
    <3>2. CASE msg = GetblocksMsg(n, m.from)
      BY <3>2 DEF GetblocksMsg
    <3>3. CASE /\ BlockExisted(n, m.top) /\ UnmatchedBlocks(n, m.top) # <<>>
               /\ msg = InvMsg(m.from, Announced(n, m.top))
      <4>1. m.from = l /\ n = f
        BY <2>1, <2>2, <3>3 DEF InvMsg, Two
      <4>2. m.top = start[l] /\ lastHash[f] \in Ancestors(start[l])
        BY <2>1, <4>1 DEF Leads, Received, Two, Fetching, Orderly, Proper, Takes
      <4> QED BY <3>3, <4>1, <4>2, NothingAbove
    <3> QED BY <3>1, <3>2, <3>3 DEF Answer
  <2>3. \A msg \in BagToSet(net') : msg \in BagToSet(net) \/ msg.to # l \/ msg.kind = "getblocks"
    BY <2>1, <2>2
  <2> QED BY <1>3, <2>1, <2>3 DEF Leads
<1>6. ASSUME HandleInv(f) PROVE Leads(l)'
  <2>1. \A m \in Received(f, "inv") : m.list # <<>>
    BY DEF Two, Fetching, Orderly, Proper, Received
  <2>2. /\ \A k \in Nodes \ {f} : handler'[k] = handler[k]
        /\ BagToSet(net') \subseteq BagToSet(net)
        /\ UNCHANGED <<db, lastHash, up>>
    BY <1>6, <2>1, InvMoves DEF Two, Fetching
  <2> QED BY <1>3, <2>2 DEF Leads, Two
<1>7. ASSUME HandleBlockdata(f) PROVE Leads(l)'
  <2>1. /\ \A k \in Nodes \ {f} : db'[k] = db[k] /\ lastHash'[k] = lastHash[k]
        /\ BagToSet(net') \subseteq BagToSet(net)
        /\ UNCHANGED <<handler, up>>
    BY <1>7, BlockdataMoves DEF Two, Fetching
  <2> QED BY <1>3, <2>1 DEF Leads, Two
<1>8. ASSUME NEW h \in 1..Handlers, Ask(f, h) PROVE Leads(l)'
  <2>1. /\ \A k \in Nodes \ {f} : handler'[k] = handler[k]
        /\ \A msg \in BagToSet(net') \ BagToSet(net) : msg.to = f
        /\ UNCHANGED <<db, lastHash, up>>
    BY <1>8, AskMoves DEF Two, Fetching
  <2> QED BY <1>3, <2>1 DEF Leads, Two
<1>9. ASSUME NEW h \in 1..Handlers, FinishInv(f, h) PROVE Leads(l)'
  <2>1. /\ \A k \in Nodes \ {f} : handler'[k] = handler[k]
        /\ BagToSet(net') = BagToSet(net) \cup Delivered({GetblocksMsg(f, p) : p \in ToSet(peers[f])})
        /\ UNCHANGED <<db, lastHash, up>>
    BY <1>9, FinishMoves DEF Two, Fetching
  <2>2. \A msg \in BagToSet(net') : msg \in BagToSet(net) \/ msg.kind = "getblocks"
    BY <2>1 DEF GetblocksMsg, Delivered
  <2> QED BY <1>3, <2>1, <2>2 DEF Leads, Two
<1>10. ASSUME Kill(f) PROVE Leads(l)'
  <2>1. /\ \A k \in Nodes \ {f} : handler'[k] = handler[k]
        /\ BagToSet(net') \subseteq BagToSet(net) /\ up' = up \ {f}
        /\ UNCHANGED <<db, lastHash>>
    BY <1>10, KillMoves DEF Two, Fetching
  <2> QED BY <1>3, <2>1 DEF Leads, Two
<1>11. ASSUME Restart(f) PROVE Leads(l)'
  <2>1. /\ \A k \in Nodes \ {f} : db'[k] = db[k] /\ lastHash'[k] = lastHash[k]
        /\ up' = up \cup {f} /\ UNCHANGED <<handler, net>>
    BY <1>11, RestartMoves DEF Two, Fetching
  <2> QED BY <1>3, <2>1 DEF Leads, Two
<1> QED BY <1>1, <1>2, <1>4, <1>5, <1>6, <1>7, <1>8, <1>9, <1>10, <1>11, FetchingSteps DEF Two

LEMMA NextRescue ==
  ASSUME NEW f, NEW l, Two(f, l), OnlyThose, f \in restarted, Leads(l), RestartFits, Rescue(f, l),
         [Next]_vars, ~Kill(l)
  PROVE  Rescue(f, l)'
<1> DEFINE d == Ancestors(start[l])
<1>0. ~Kill(f) /\ d' = d /\ f \in Nodes /\ l \in Nodes /\ Fetching
  BY SameStart DEF Kill, Two
<1>1. CASE peers[f] = <<>>
  <2>1. ASSUME NEW p \in Neighbours[f], Greets(f, p) PROVE Rescue(f, l)'
    <3>1. p \in Nodes \ {f} /\ f \in up /\ BagToSet(net') = BagToSet(net) \cup {GetblocksMsg(f, p)}
      BY <1>0, <2>1, GreetsMoves DEF Fetching
    <3>2. p = l /\ lastHash[f] = Genesis
      BY <1>0, <1>1, <3>1 DEF Two, Fetching, Orderly, KeepsMemory
    <3> DEFINE ask == GetblocksMsg(f, l)
    <3>3. ask.kind = "getblocks" /\ ask.to = l /\ ask.top = Genesis
      BY <3>2 DEF GetblocksMsg
    <3> HIDE DEF ask
    <3>4. ask \in Received(l, "getblocks")'
      BY <3>1, <3>2, <3>3 DEF Received, ask
    <3> QED BY <3>3, <3>4 DEF Rescue
  <2>2. ASSUME \A p \in Neighbours[f] : ~Greets(f, p) PROVE peers'[f] = <<>>
    <3>1. CASE UNCHANGED vars
      BY <1>1, <3>1 DEF vars
    <3>2. ASSUME NEW n \in Nodes, NEW p \in Neighbours[n], Greets(n, p) PROVE peers'[f] = <<>>
      <4>1. n # f
        BY <2>2, <3>2
      <4> QED BY <1>0, <1>1, <3>2, <4>1, GreetsMoves DEF Fetching
    <3>3. ASSUME NEW n \in Nodes, Kill(n) PROVE peers'[f] = <<>>
      BY <1>0, <1>1, <3>3, KillMoves DEF Fetching
    <3>4. ASSUME NEW n \in Nodes, \/ HandleGetblocks(n) \/ HandleInv(n) \/ HandleBlockdata(n) \/ Restart(n)
                                  \/ \E h \in 1..Handlers : Ask(n, h) \/ FinishInv(n, h)
          PROVE  peers' = peers
      BY <3>4 DEF HandleGetblocks, HandleInv, HandleBlockdata, Restart, Ask, FinishInv
    <3> QED BY <1>0, <1>1, <3>1, <3>2, <3>3, <3>4, FetchingSteps
  <2> QED BY <2>1, <2>2 DEF Rescue
<1>2. CASE \E msg \in Received(l, "getblocks") : msg.top = Genesis
  <2>1. PICK msg \in Received(l, "getblocks") : msg.top = Genesis
    BY <1>2
  <2>2. CASE msg \in BagToSet(net')
    <3>1. msg \in Received(l, "getblocks")'
      BY <2>2 DEF Received
    <3> QED BY <2>1, <3>1 DEF Rescue
  <2>3. CASE msg \notin BagToSet(net')
    <3>1. ~HandleInv(l) /\ ~HandleBlockdata(l)
      BY DEF Leads, HandleInv, HandleBlockdata, Received
    <3>2. HandleGetblocks(l)
      BY <1>0, <2>3, <3>1, MessagesWait DEF Received
    <3>3. PICK m \in Received(l, "getblocks") :
            /\ m.from \in Nodes \ {l}
            /\ (BagToSet(net) \ {m}) \cup Delivered(Answer(l, m)) \subseteq BagToSet(net')
            /\ UNCHANGED <<db, lastHash, peers, handler, up, restarted, setup>>
      BY <1>0, <3>2, GetblocksMoves DEF Fetching
    <3>4. m.top = Genesis /\ m.from = f
      BY <2>1, <2>3, <3>3 DEF Received, Two
    <3>5. Genesis \in DOMAIN Mined /\ Genesis \in d /\ StateOK /\ start[l] \in DOMAIN Mined
      BY TwoAre
    <3>6. BlockExisted(l, Genesis)
      BY <1>0, <3>5, OwnChain DEF Leads, BlockExisted
    <3>7. CASE f \notin up
      BY <1>0, <3>3, <3>7 DEF Fetching, Orderly, KeepsMemory, Rescue
    <3>8. CASE f \in up /\ UnmatchedBlocks(l, Genesis) = <<>>
      <4>1. start[l] = Genesis
        BY <1>0, <3>5, <3>6, <3>8, AnnouncementIs DEF Leads
      <4>2. d = {Genesis}
        BY <3>5, <4>1, GenesisFirst
      <4>3. Genesis \in db[f]
        BY <1>0 DEF Fetching, Orderly, KeepsBlocks
      <4>4. d' \subseteq Coming(f)'
        BY <1>0, <3>3, <4>2, <4>3 DEF Coming
      <4> QED BY <4>4 DEF Rescue
    <3>9. CASE f \in up /\ UnmatchedBlocks(l, Genesis) # <<>>
      <4> DEFINE inv == InvMsg(f, Announced(l, Genesis))
      <4>1. inv.kind = "inv" /\ inv.to = f /\ inv.list = Announced(l, Genesis)
        BY DEF InvMsg
      <4>2. inv \in Delivered(Answer(l, m))
        BY <3>4, <3>6, <3>9, <4>1 DEF Delivered, Answer
      <4> HIDE DEF inv
      <4>3. inv \in Received(f, "inv")'
        BY <3>3, <4>1, <4>2 DEF Received
      <4>4. setup.restarting # {}
        BY DEF OnlyThose
      <4>5. d \subseteq {Genesis} \cup ToSet(Announced(l, Genesis))
        BY <1>0, <3>5, <4>4, WholeAnswer DEF Leads, RestartFits
      <4> QED BY <1>0, <4>1, <4>3, <4>5 DEF Rescue
    <3> QED BY <3>7, <3>8, <3>9
  <2> QED BY <2>2, <2>3
<1>3. CASE \E msg \in Received(f, "inv") : d \subseteq {Genesis} \cup ToSet(msg.list)
  <2>1. PICK msg \in Received(f, "inv") : d \subseteq {Genesis} \cup ToSet(msg.list)
    BY <1>3
  <2>2. CASE msg \in BagToSet(net')
    <3>1. msg \in Received(f, "inv")'
      BY <2>2 DEF Received
    <3> QED BY <1>0, <2>1, <3>1 DEF Rescue
  <2>3. CASE msg \notin BagToSet(net')
    <3>1. ~HandleGetblocks(f)
      <4> SUFFICES ASSUME HandleGetblocks(f) PROVE FALSE
        OBVIOUS
      <4>1. PICK m \in Received(f, "getblocks") : BagToSet(net) \ {m} \subseteq BagToSet(net')
        BY <1>0, GetblocksMoves DEF Fetching
      <4> QED BY <2>3, <4>1 DEF Received
    <3>2. ~HandleBlockdata(f)
      <4> SUFFICES ASSUME HandleBlockdata(f) PROVE FALSE
        OBVIOUS
      <4>1. PICK m \in Received(f, "blockdata") : BagToSet(net) \ {m} \subseteq BagToSet(net')
        BY <1>0, BlockdataMoves DEF Fetching
      <4> QED BY <2>3, <4>1 DEF Received
    <3>3. HandleInv(f)
      BY <1>0, <2>3, <3>1, <3>2, MessagesWait DEF Received
    <3>4. \A m \in Received(f, "inv") : m.list # <<>>
      BY <1>0 DEF Fetching, Orderly, Proper, Received
    <3>5. PICK m \in Received(f, "inv") :
            /\ Awaited(f)' = Awaited(f) \cup (IF peers[f] # <<>> THEN ToSet(m.list) ELSE {})
            /\ BagToSet(net) \ {m} \subseteq BagToSet(net')
            /\ UNCHANGED <<db, peers>>
      BY <1>0, <3>3, <3>4, InvMoves DEF Fetching
    <3>6. m = msg
      BY <2>3, <3>5 DEF Received
    <3>7. peers[f] # <<>> => ToSet(msg.list) \subseteq Awaited(f)'
      BY <3>5, <3>6
    <3>8. Genesis \in db'[f]
      BY <1>0, <3>5 DEF Fetching, Orderly, KeepsBlocks
    <3>9. peers[f] # <<>> => d' \subseteq Coming(f)'
      BY <1>0, <2>1, <3>7, <3>8 DEF Coming, Awaited
    <3> QED BY <3>5, <3>9 DEF Rescue
  <2> QED BY <2>2, <2>3
<1>4. CASE d \subseteq Coming(f) /\ peers[f] # <<>>
  <2>1. up = Nodes
    BY <1>0, <1>4 DEF Leads, Two, Fetching, Orderly, KeepsMemory, Types, StateOK
  <2>2. Coming(f) \subseteq Coming(f)'
    BY <1>0, <2>1, ComingKept
  <2>3. d' \subseteq Coming(f)'
    BY <1>0, <1>4, <2>2
  <2> QED BY <2>3 DEF Rescue
<1> QED BY <1>1, <1>2, <1>3, <1>4 DEF Rescue

LEMMA NextRegains ==
  ASSUME NEW f, NEW l, Two(f, l), OnlyThose, f \in restarted, Regains(f, l), [Next]_vars, ~Kill(l)
  PROVE  Regains(f, l)'
<1>1. Leads(l)'
  BY LeaderSteps DEF Regains
<1>2. Takes(f, Ancestors(start[l]))'
  <2>1. lastHash[l] \in Ancestors(start[l])
    BY TwoAre DEF Regains, Leads
  <2> QED BY <2>1, NextTakesFollower DEF Regains
<1>3. RestartFits' => Rescue(f, l)'
  BY SameStart, NextRescue DEF Regains
<1> QED BY <1>1, <1>2, <1>3 DEF Regains

-----------------------------------------------------------------------------
(* The moment a node is killed.                                            *)

\* Killed, a node has nothing left and is to be told everything again.
LEMMA FollowerKilled ==
  ASSUME NEW f, NEW l, Two(f, l), Leads(l), Kill(f)
  PROVE  Regains(f, l)'
<1>1. /\ f \notin up' /\ up' = up \ {f} /\ BagToSet(net') = {msg \in BagToSet(net) : msg.to # f}
      /\ peers'[f] = <<>> /\ \A k \in Nodes \ {f} : handler'[k] = handler[k]
      /\ Awaited(f)' = {} /\ UNCHANGED <<db, lastHash, setup>>
  BY KillMoves DEF Two, Fetching
<1>2. start' = start /\ Ancestors(start[l])' = Ancestors(start[l])
  BY <1>1 DEF start, Ancestors
<1>3. Leads(l)'
  BY <1>1, <1>2 DEF Leads, Two
<1>4. Takes(f, Ancestors(start[l]))'
  BY <1>1 DEF Takes, Received
<1>5. Rescue(f, l)'
  BY <1>1 DEF Rescue
<1> QED BY <1>3, <1>4, <1>5 DEF Regains

\* Its blocks are all f may have taken, and it takes nothing for the moment.
LEMMA LeaderKilled ==
  ASSUME NEW f, NEW l, Two(f, l), Leads(l), Takes(f, Ancestors(start[l])), Kill(l)
  PROVE  Trails(f, l)'
<1>1. /\ l \notin up' /\ BagToSet(net') = {msg \in BagToSet(net) : msg.to # l}
      /\ Awaited(l)' = {} /\ UNCHANGED <<db, lastHash, setup>>
  BY KillMoves DEF Two, Fetching
<1>2. start' = start
  BY <1>1 DEF start
<1>3. Takes(f, Ancestors(start[l]))'
  <2>1. [Next]_vars /\ lastHash[l] \in Ancestors(start[l])
    BY TwoAre DEF Next, Two, Leads
  <2> QED BY <2>1, NextTakesFollower
<1>4. Takes(l, Safe(f, l))'
  BY <1>1 DEF Takes, Received
<1>5. \A msg \in BagToSet(net') : msg.kind = "getblocks" /\ msg.from = l => msg.top = start[l]
  BY <1>1 DEF Leads
<1> QED BY <1>2, <1>3, <1>4, <1>5 DEF Trails

LEMMA ForkedLeads == ASSUME Forked, NEW l \in Nodes PROVE Leads(l)
BY DEF Forked, Leads

LEMMA FollowedLeads ==
  ASSUME NEW a, NEW b, Two(a, b), Follows(a, b)
  PROVE  Leads(b) /\ Takes(a, Ancestors(start[b]))
<1>1. \A msg \in BagToSet(net) : Fits(a, b, msg) /\ (msg.kind = "getblocks" => msg.from # msg.to /\ msg.to \in Nodes)
  BY DEF Follows, Two, Fetching, Served, OthersAsked, Types, NetOK, Carried, Asking, Telling, Answering, Spreading
<1>2. Leads(b)
  BY <1>1 DEF Follows, Ahead, Leads, Fits, Two
<1>3. Takes(a, Ancestors(start[b]))
  BY <1>1 DEF Follows, NoGaps, Coming, Awaited, Takes, Received, Fits
<1> QED BY <1>2, <1>3

AllAfter == setup.until = 0 /\ restarted # {} => \E f, l \in Nodes : After(f, l)

LEMMA NextAllAfter ==
  ASSUME Couple, SleepIsEnough, Fetching, OnlyThose, AllFollow, Still /\ ~OneChain => Forked, AllAfter, [Next]_vars
  PROVE  AllAfter'
<1>1. PICK a, b \in Nodes : a # b /\ Nodes = {a, b}
  BY DEF Couple
<1>2. \A f, l \in Nodes : f # l => Two(f, l)
  BY <1>1 DEF Two
<1>3. setup' = setup /\ restarted \subseteq restarted'
  BY StillBefore
<1>4. \A n \in restarted' : n \notin restarted => n \in Nodes /\ Kill(n)
  BY KilledIs
<1> SUFFICES ASSUME restarted' # {} PROVE \E f, l \in Nodes : After(f, l)'
  BY DEF AllAfter
<1>5. CASE restarted = {}
  <2>1. PICK n \in Nodes : n \in restarted' /\ Kill(n)
    BY <1>4, <1>5
  <2>2. PICK k \in Nodes : k # n
    BY <1>1
  <2>3. Two(n, k) /\ Two(k, n) /\ restarted' = {n}
    BY <1>2, <1>5, <2>1, <2>2 DEF Kill
  <2>4. Still
    BY <1>5 DEF Still, Fetching
  <2>5. CASE Leads(k)
    <3>1. Regains(n, k)'
      BY <2>1, <2>3, <2>5, FollowerKilled
    <3>2. After(n, k)'
      BY <2>2, <2>3, <3>1 DEF After
    <3> QED BY <3>2
  <2>6. CASE Leads(n) /\ Takes(k, Ancestors(start[n]))
    <3>1. Trails(k, n)'
      BY <2>1, <2>3, <2>6, LeaderKilled
    <3>2. After(k, n)'
      BY <2>2, <2>3, <3>1 DEF After
    <3> QED BY <3>2
  <2>7. CASE ~OneChain
    BY <2>4, <2>5, <2>7, ForkedLeads
  <2>8. CASE OneChain
    <3>1. start[n] \in Ancestors(start[k]) \/ start[k] \in Ancestors(start[n])
      BY <2>8 DEF OneChain
    <3>2. Follows(n, k) \/ Follows(k, n)
      BY <2>2, <2>4, <3>1 DEF AllFollow
    <3> QED BY <2>3, <2>5, <2>6, <3>2, FollowedLeads
  <2> QED BY <2>7, <2>8
<1>6. CASE restarted # {}
  <2>1. PICK f, l \in Nodes : After(f, l)
    BY <1>6 DEF AllAfter, Fetching
  <2>2. Two(f, l)
    BY <1>2, <2>1 DEF After
  <2>3. CASE l \in restarted
    <3>1. Trails(f, l)' /\ l \in restarted'
      BY <1>3, <2>1, <2>2, <2>3, NextTrails DEF After
    <3> QED BY <2>1, <3>1 DEF After
  <2>4. CASE l \notin restarted /\ Kill(l)
    <3>1. l \in restarted'
      BY <2>4 DEF Kill
    <3>2. Trails(f, l)'
      BY <2>1, <2>2, <2>4, LeaderKilled DEF After, Regains
    <3> QED BY <2>1, <3>1, <3>2 DEF After
  <2>5. CASE l \notin restarted /\ ~Kill(l)
    <3>1. f \in restarted' /\ l \notin restarted'
      BY <1>3, <1>4, <2>1, <2>5 DEF After
    <3>2. Regains(f, l)'
      BY <2>1, <2>2, <2>5, NextRegains DEF After
    <3> QED BY <2>1, <3>1, <3>2 DEF After
  <2> QED BY <2>3, <2>4, <2>5
<1> QED BY <1>5, <1>6

-----------------------------------------------------------------------------
(* When it is quiet after a restart, and always.                           *)

\* A stored tip with all its ancestors: the walk finds no hole.
LEMMA NoHole ==
  ASSUME NEW n \in Nodes, NEW t \in DOMAIN Mined, db[n] \subseteq DOMAIN Mined,
         Ancestors(t) \subseteq db[n], lastHash[n] = t
  PROVE  ~HasHole(n)
<1> DEFINE d == Ancestors(t)
           e == db[n]
<1>1. d \in SUBSET DOMAIN Mined /\ Closed(d) /\ t \in d
  BY AncestorsAre
<1>2. ParentsFirst(Blocks, d) /\ ParentsFirst(Blocks, e)
  <2>1. d \in SUBSET DOMAIN Blocks /\ e \in SUBSET DOMAIN Blocks /\ t \in DOMAIN Blocks
    BY <1>1, BlocksAre
  <2> HIDE DEF d, e
  <2> QED BY <2>1, WalkIn
<1>3. ChainFrom(Blocks, d, t) # <<>> /\ Blocks[Head(ChainFrom(Blocks, d, t))].prev = NoHash
  <2> HIDE DEF d
  <2> QED BY <1>1, WholeChain
<1>4. ChainFrom(Blocks, d, t) = ChainFrom(Blocks, e, t)
  <2>1. d \subseteq e \cap 1..Len(Blocks) /\ (\A k \in d : Blocks[k].prev \in d \cup {0}) /\ t \in d \cup {0}
    BY <1>1, BlocksAre DEF Closed, NoHash
  <2> HIDE DEF d, e
  <2> QED BY <1>2, <2>1, ChainOfStored
<1> QED BY <1>3, <1>4 DEF HasHole, ChainOf

LEMMA FetchingAlways ==
  ASSUME Pair, SleepIsEnough
  PROVE  Spec => [](setup.until = 0 => Orderly /\ Agreed)
<1> DEFINE Inv == setup.until = 0 => Orderly /\ Agreed
<1>1. ASSUME Init, Types PROVE Inv
  <2>1. Agreed
    <3>1. \A n \in Nodes : ~Idle(n)
      BY <1>1 DEF Init, Idle
    <3>2. (\A n \in Nodes : Idle(n)) => Nodes = {}
      BY <3>1
    <3> QED BY <3>2 DEF Agreed
  <2> QED BY <1>1, <2>1, InitOrderly
<1>2. ASSUME Types, Served, Inv, [Next]_vars PROVE Inv'
  <2> SUFFICES ASSUME setup'.until = 0 PROVE Orderly' /\ Agreed'
    OBVIOUS
  <2>1. setup.until = 0
    BY <1>2, StillBefore
  <2>2. Fetching
    BY <1>2, <2>1 DEF Fetching
  <2> QED BY <1>2, <2>1, <2>2, NextOrderly, NextAgreed
<1> QED BY <1>1, <1>2, TypesAlways, ServedAlways, PTL DEF Spec

LEMMA AllAfterAlways ==
  ASSUME Couple, SleepIsEnough
  PROVE  Spec => []AllAfter
<1>0. Pair
  BY DEF Couple, Pair
<1>1. Init => AllAfter
  BY DEF Init, AllAfter
<1>2. ASSUME Types, Served, setup.until = 0 => Orderly /\ Agreed, OnlyThose, AllFollow,
             Still /\ ~OneChain => Forked, AllAfter, [Next]_vars
      PROVE  AllAfter'
  <2>1. CASE setup.until = 0
    <3>1. Fetching
      BY <1>0, <1>2, <2>1 DEF Fetching
    <3> QED BY <1>2, <3>1, NextAllAfter
  <2>2. CASE setup.until # 0
    BY <1>2, <2>2, StillBefore DEF AllAfter
  <2> QED BY <2>1, <2>2
<1> QED BY <1>0, <1>1, <1>2, TypesAlways, ServedAlways, FetchingAlways, OnlyThoseAlways, AllFollowAlways,
           ForkedAlways, PTL DEF Spec

\* When it is quiet after a restart, the tips agree and are complete.
LEMMA AfterIsSynced ==
  ASSUME Fetching, Agreed, Quiet, RestartFits, \A n \in Nodes : peers[n] # <<>>,
         NEW f, NEW l, Two(f, l), After(f, l)
  PROVE  \A n, k \in Nodes : lastHash[n] = lastHash[k] /\ ~HasHole(n)
<1>1. BagToSet(net) = {} /\ up = Nodes
  BY EmptyNet DEF Quiet
<1>2. \A n, k \in Nodes : lastHash[n] = lastHash[k]
  BY <1>1 DEF Agreed, Idle, Active, Quiet, Received
<1>3. Coming(f) = db[f]
  BY <1>1 DEF Coming, OnTheWay, Wanted, Received, Quiet, Two
<1> DEFINE t == lastHash[l]
           d == Ancestors(start[l])
<1>4. d \in SUBSET DOMAIN Mined /\ Closed(d) /\ start[l] \in d /\ d \subseteq db[l]
  BY TwoAre DEF Two, Fetching, Orderly, KeepsBlocks
<1>5. t \in d /\ Ancestors(t) \subseteq db[f]
  <2>1. CASE l \in restarted
    BY <1>1, <2>1 DEF After, Trails, Takes, Safe, Two
  <2>2. CASE l \notin restarted
    BY <1>1, <1>3, <1>4, <2>2 DEF After, Regains, Leads, Rescue, Received, Two
  <2> QED BY <2>1, <2>2
<1>6. Ancestors(t) \subseteq db[l]
  <2> HIDE DEF d, t
  <2>1. Ancestors(t) \subseteq d
    BY <1>4, <1>5, AncestorsWithin
  <2> QED BY <1>4, <2>1
<1>7. t \in DOMAIN Mined /\ \A n \in Nodes : Ancestors(t) \subseteq db[n] /\ lastHash[n] = t /\ db[n] \subseteq DOMAIN Mined
  BY <1>2, <1>4, <1>5, <1>6, FetchingIs DEF Two
<1> HIDE DEF t
<1>8. \A n \in Nodes : ~HasHole(n)
  BY <1>7, NoHole
<1> QED BY <1>2, <1>8

\* When two nodes are connected and the exchange is over, they have the same
\* tip and every block below it, although chunks overtake one another, handlers
\* overwrite each other's getdataMessageCount, and each of them may be killed
\* at any moment and start again with the genesis block as its tip.  Without a
\* kill, whoever is behind never gets a block before its parent is at least
\* under way, and asks again from its tip as long as that is not the other
\* one's.  After a kill, blocks may lack their parents for ever so long, but
\* the tips only agree where both chains are complete, as long as an inv
\* message has room for the whole chain.
THEOREM QuietIsSynced ==
  ASSUME Couple, SleepIsEnough
  PROVE  Spec => []QuietMeansSynced
<1>1. Pair
  BY DEF Couple, Pair
<1>2. ASSUME Types, Served, setup.until = 0 => Orderly /\ Agreed, AllFollow,
             Still /\ ~OneChain => Forked, AllAfter
      PROVE  QuietMeansSynced
  <2> SUFFICES ASSUME Quiet, setup.until = 0, RestartFits
               PROVE  \A n, k \in Nodes : lastHash[n] = lastHash[k] /\ ~HasHole(n)
    BY DEF QuietMeansSynced
  <2>1. PICK a, b \in Nodes : /\ a # b /\ Nodes = {a, b}
                             /\ Neighbours[a] = {b} /\ Neighbours[b] = {a}
    BY DEF Couple
  <2>2. ASSUME NEW n \in Nodes PROVE peers[n] # <<>>
    <3>1. ToSet(peers[n]) # {}
      BY <2>1 DEF Quiet
    <3> QED BY <3>1 DEF ToSet
  <2>3. CASE restarted # {}
    <3>1. Fetching
      BY <1>1, <1>2 DEF Fetching
    <3>2. PICK f, l \in Nodes : After(f, l)
      BY <1>2, <2>3 DEF AllAfter
    <3>3. Two(f, l)
      BY <2>1, <3>1, <3>2 DEF Two, After
    <3> QED BY <1>2, <2>2, <3>1, <3>2, <3>3, AfterIsSynced
  <2>4. CASE restarted = {}
    <3>1. Still
      BY <2>4 DEF Still
    <3>2. OneChain
      <4>1. BagToSet(net) = {}
        BY EmptyNet DEF Quiet
      <4> QED BY <1>2, <2>1, <2>2, <3>1, <4>1 DEF Forked
    <3>3. CASE start[a] \in Ancestors(start[b])
      BY <1>2, <2>1, <2>2, <3>1, <3>3, NothingMissing DEF AllFollow
    <3>4. CASE start[b] \in Ancestors(start[a])
      BY <1>2, <2>1, <2>2, <3>1, <3>4, NothingMissing DEF AllFollow
    <3> QED BY <2>1, <3>2, <3>3, <3>4 DEF OneChain
  <2> QED BY <2>3, <2>4
<1> QED BY <1>1, <1>2, TypesAlways, ServedAlways, FetchingAlways, AllFollowAlways, ForkedAlways,
           AllAfterAlways, PTL
=============================================================================
