----------------------------- MODULE InvWorkers -----------------------------
(***************************************************************************)
(* One call of handleInvMsg: the goroutine pool that asks peers for the    *)
(* announced blocks, ten to a message, the WaitGroup it is joined with,    *)
(* and the mutex around the index of the next message.                     *)
(*                                                                         *)
(* A worker that finds no message left returns with the mutex locked.      *)
(***************************************************************************)
EXTENDS Integers, FiniteSets

CONSTANTS
  MessageCount,   \* getdata messages: announced blocks / 10, rounded up
  NumPeers,       \* len(connectedPeers)
  Serving,        \* peers that answer a getdata message; an SPV node does not
  Late            \* messages whose blocks may take longer than 3 seconds

ASSUME InvAssumption ==
  /\ MessageCount \in Nat
  /\ NumPeers \in Nat
  /\ Serving \subseteq 1..NumPeers
  /\ Late \subseteq 1..MessageCount

Msgs   == 1..MessageCount
Worker == {p \in 1..NumPeers : p <= MessageCount}   \* one per peer asked
Nobody == 0

VARIABLES
  messageIndex,  \* messages taken so far
  holder,        \* the worker that has the mutex locked, or Nobody
  wg,            \* the counter of the WaitGroup
  pc,            \* pc[w]: "lock", "take", "count", "send", "done", "returned"
  item,          \* item[w]: getdataMsg of worker w
  asked,         \* asked[k]: times message k was sent
  transit,       \* messages answered whose blocks are not stored yet
  stored,        \* messages whose blocks are stored
  unserved,      \* messages sent to a peer that does not answer
  main           \* the handler: "wait", "sleep" or "reindexed"

poolVars == <<messageIndex, holder, wg, pc, item, asked, transit, stored, unserved, main>>

PoolInit ==
  /\ messageIndex = 0
  /\ holder = Nobody
  /\ wg = MessageCount
  /\ pc = [w \in Worker |-> "lock"]
  /\ item = [w \in Worker |-> 0]
  /\ asked = [k \in Msgs |-> 0]
  /\ transit = {}
  /\ stored = {}
  /\ unserved = {}
  /\ main = "wait"

GoTo(w, label) == pc' = [pc EXCEPT ![w] = label]

Lock(w) ==
  /\ pc[w] = "lock" /\ holder = Nobody
  /\ holder' = w
  /\ GoTo(w, "take")
  /\ UNCHANGED <<messageIndex, wg, item, asked, transit, stored, unserved, main>>

\* getdataMsg := getdataMsgList[messageIndex]
Take(w) ==
  /\ pc[w] = "take" /\ messageIndex < MessageCount
  /\ item' = [item EXCEPT ![w] = messageIndex + 1]
  /\ GoTo(w, "count")
  /\ UNCHANGED <<messageIndex, holder, wg, asked, transit, stored, unserved, main>>

\* messageIndex++, and the mutex is unlocked.
Count(w) ==
  /\ pc[w] = "count"
  /\ messageIndex' = messageIndex + 1
  /\ holder' = Nobody
  /\ GoTo(w, "send")
  /\ UNCHANGED <<wg, item, asked, transit, stored, unserved, main>>

\* The early return leaves the mutex locked.
Return(w) ==
  /\ pc[w] = "take" /\ messageIndex >= MessageCount
  /\ GoTo(w, "returned")
  /\ UNCHANGED <<messageIndex, holder, wg, item, asked, transit, stored, unserved, main>>

\* sendGetdataMessage blocks until the peer has handled the message and
\* closed the connection; a peer that serves it has sent the blocks by then.
Send(w) ==
  /\ pc[w] = "send"
  /\ asked' = [asked EXCEPT ![item[w]] = @ + 1]
  /\ IF w \in Serving
     THEN transit' = transit \cup {item[w]} /\ UNCHANGED unserved
     ELSE unserved' = unserved \cup {item[w]} /\ UNCHANGED transit
  /\ GoTo(w, "done")
  /\ UNCHANGED <<messageIndex, holder, wg, item, stored, main>>

\* Faulty variant: Done is called once more when no message is left to take.
DoneTwice(w) ==
  /\ pc[w] = "done"
  /\ wg' = wg - (IF messageIndex = MessageCount THEN 2 ELSE 1)
  /\ GoTo(w, "lock")
  /\ UNCHANGED <<messageIndex, holder, item, asked, transit, stored, unserved, main>>

Done(w) ==
  /\ pc[w] = "done"
  /\ wg' = wg - 1
  /\ GoTo(w, "lock")
  /\ UNCHANGED <<messageIndex, holder, item, asked, transit, stored, unserved, main>>

\* handleBlockdataMsg stores the blocks that answer message k.
StoreBlocks(k) ==
  /\ k \in transit
  /\ transit' = transit \ {k}
  /\ stored' = stored \cup {k}
  /\ UNCHANGED <<messageIndex, holder, wg, pc, item, asked, unserved, main>>

\* Faulty variant: the handler does not wait for the workers.
JoinEarly ==
  /\ main = "wait" /\ messageIndex = MessageCount
  /\ main' = "sleep"
  /\ UNCHANGED <<messageIndex, holder, wg, pc, item, asked, transit, stored, unserved>>

\* wg.Wait returns.
Join ==
  /\ main = "wait" /\ wg = 0
  /\ main' = "sleep"
  /\ UNCHANGED <<messageIndex, holder, wg, pc, item, asked, transit, stored, unserved>>

\* After three seconds: ReIndex, and getblocks to all peers.
Wake ==
  /\ main = "sleep"
  /\ transit \subseteq Late
  /\ main' = "reindexed"
  /\ UNCHANGED <<messageIndex, holder, wg, pc, item, asked, transit, stored, unserved>>

WorkerStep(w) ==
  Lock(w) \/ Take(w) \/ Count(w) \/ Return(w) \/ Send(w) \/ Done(w)

PoolNext ==
  \/ \E w \in Worker : WorkerStep(w)
  \/ \E k \in Msgs : StoreBlocks(k)
  \/ Join \/ Wake

PoolSpec == PoolInit /\ [][PoolNext]_poolVars

\* The Go scheduler runs every goroutine that can run, and peers close the
\* connections they have read to the end.
PoolFairSpec ==
  /\ PoolSpec
  /\ \A w \in Worker : WF_poolVars(WorkerStep(w))
  /\ \A k \in Msgs : WF_poolVars(StoreBlocks(k))
  /\ WF_poolVars(Join) /\ WF_poolVars(Wake)

-----------------------------------------------------------------------------
\* Workers between counting a message taken and counting it done.
Busy == {w \in Worker : pc[w] \in {"send", "done"}}

\* Types.  A WaitGroup whose counter becomes negative panics.
PoolTypeOK ==
  /\ messageIndex \in 0..MessageCount
  /\ holder \in Worker \cup {Nobody}
  /\ wg \in Nat
  /\ pc \in [Worker -> {"lock", "take", "count", "send", "done", "returned"}]
  /\ item \in [Worker -> 0..MessageCount]
  /\ asked \in [Msgs -> Nat]
  /\ transit \subseteq Msgs
  /\ stored \subseteq Msgs /\ unserved \subseteq Msgs
  /\ main \in {"wait", "sleep", "reindexed"}

\* No two workers ask for the same blocks.
AskedOnce == \A k \in Msgs : asked[k] <= 1

\* wg.Wait does not return before every message has been sent.
JoinedAfterAll == main # "wait" => \A k \in Msgs : asked[k] = 1

\* The call as InvCall describes it and BlockSync uses it: the workers send
\* each message once, at most as many of them out of order as there are other
\* workers, and nothing else is asked before all have been sent.
Outside == INSTANCE InvCall WITH
  Messages <- Msgs,
  Askers   <- Worker,
  Late     <- Late,
  todo     <- {k \in Msgs : asked[k] = 0},
  over     <- main = "reindexed"

SentAsPromised == Outside!Spec

\* The counter of the WaitGroup is what is left to take and to finish.
WgCounts == wg = MessageCount - messageIndex + Cardinality(Busy)

\* The mutex is held by the one worker inside, and for good by the first one
\* that finds nothing left: all the others stay blocked on it for ever.
HeldByOne ==
  \A w \in Worker : pc[w] \in {"take", "count", "returned"} <=> holder = w

\* Of the blocks announced, the UTXO set is rebuilt without those only that
\* were asked of a peer that has none, such as an SPV node, and those that
\* take longer than the pause: wg.Wait has waited for all the workers.
AllServedStored == main = "reindexed" => Msgs \ stored \subseteq unserved \cup Late

\* The handler gets through, whatever the workers left behind, unless there
\* is a message and no peer to ask: then wg.Wait blocks for ever.
Completes == NumPeers > 0 \/ MessageCount = 0 => <>(main = "reindexed")
=============================================================================
