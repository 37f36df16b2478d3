------------------------------- MODULE Wallet -------------------------------
(***************************************************************************)
(* Wallets: one address's payments.  A call of Transfer or GetBalance asks *)
(* all SPV nodes it is connected with for the unspent outputs, each in a   *)
(* goroutine of its own, takes the first answer, and for Transfer makes a  *)
(* transaction of it.  Transactions get mined and reach the SPV nodes      *)
(* later, again and again, or never (modules Ledger and Spv).              *)
(***************************************************************************)
EXTENDS Naturals, SequencesExt, FiniteSetsExt

CONSTANTS
  SpvNodes,  \* connectedNodes of type SPV
  Reached,   \* those a full node has a filter of and sends merkleblocks to
  Coins,     \* the outputs that pay the address at the start, of one transaction each
  Value,     \* Value[c]: what they are worth
  Amounts,   \* what is transferred to others
  Polls,     \* unsuccessful polls of the answers before a call gives up: 11
  MaxCalls   \* bound: calls

ASSUME WalletAssumption ==
  /\ IsFiniteSet(SpvNodes) /\ Reached \subseteq SpvNodes
  /\ Value \in [Coins -> Nat \ {0}]
  /\ Amounts \subseteq Nat \ {0}
  /\ Polls \in Nat \ {0} /\ MaxCalls \in Nat

VARIABLES
  pc,       \* where the calling goroutine is
  call,     \* the number of calls begun; the last one may be under way
  amount,   \* the argument of Transfer, or 0 for a call of GetBalance
  polls,    \* loopCounter
  asking,   \* asking[c][n]: where the goroutine of call c for node n is
  answer,   \* answer[c][n]: the outputs it was answered
  flags,    \* flags[c]: elements in the call's successFlag
  results,  \* results[c]: the answers in its resultChan
  made,     \* the transactions made so far
  mined,    \* those of them that are on the chain
  listed,   \* listed[n]: the address's outputs in node n's UTXO set
  views     \* views[n]: what listed[n] was since the last call began, until n answered

vars == <<pc, call, amount, polls, asking, answer, flags, results, made, mined, listed, views>>
goroutines == <<asking, answer, flags, results>>
network == <<made, mined, listed>>

-----------------------------------------------------------------------------
\* The change of the k-th transaction made is output k.
Worth(o) == IF o \in Coins THEN Value[o] ELSE made[o].change
Sum(outputs) == FoldSet(LAMBDA o, s : s + Worth(o), 0, outputs)

Calls == 1..MaxCalls
Capacity == Cardinality(SpvNodes)

Init ==
  /\ pc = "idle" /\ call = 0 /\ amount = 0 /\ polls = 0
  /\ asking = [c \in Calls |-> [n \in SpvNodes |-> "none"]]
  /\ answer = [c \in Calls |-> [n \in SpvNodes |-> {}]]
  /\ flags = [c \in Calls |-> 0] /\ results = [c \in Calls |-> <<>>]
  /\ made = <<>> /\ mined = {}
  /\ listed = [n \in SpvNodes |-> Coins]
  /\ views = [n \in SpvNodes |-> {}]

\* Faulty variant: the channels are kept from one call to the next.
BeginSharing(a) ==
  /\ pc = "idle" /\ call < MaxCalls
  /\ pc' = "polling" /\ call' = call + 1 /\ amount' = a /\ polls' = 0
  /\ asking' = [asking EXCEPT ![call'] = [n \in SpvNodes |-> "dial"]]
  /\ views' = [n \in SpvNodes |-> {listed[n]}]
  /\ IF call = 0 THEN UNCHANGED <<flags, results>>
     ELSE /\ flags' = [flags EXCEPT ![call'] = flags[call]]
          /\ results' = [results EXCEPT ![call'] = results[call]]
  /\ UNCHANGED <<answer, network>>

\* Faulty variant: the loop's counter is not set back.
BeginLate(a) ==
  /\ pc = "idle" /\ call < MaxCalls
  /\ pc' = "polling" /\ call' = call + 1 /\ amount' = a
  /\ asking' = [asking EXCEPT ![call'] = [n \in SpvNodes |-> "dial"]]
  /\ views' = [n \in SpvNodes |-> {listed[n]}]
  /\ UNCHANGED <<polls, answer, flags, results, network>>

\* Transfer, or GetBalance, up to the loop in getUTXOs: new channels and
\* a goroutine for every SPV node.
Begin(a) ==
  /\ pc = "idle" /\ call < MaxCalls
  /\ pc' = "polling" /\ call' = call + 1 /\ amount' = a /\ polls' = 0
  /\ asking' = [asking EXCEPT ![call'] = [n \in SpvNodes |-> "dial"]]
  /\ views' = [n \in SpvNodes |-> {listed[n]}]
  /\ UNCHANGED <<answer, flags, results, network>>

\* The node answers; or ends the connection without an answer, which reads
\* as an empty map; or is not there, or the connection breaks.
Ask(c, n) ==
  /\ asking[c][n] = "dial"
  /\ \/ /\ asking' = [asking EXCEPT ![c][n] = "flag"]
        /\ answer' = [answer EXCEPT ![c][n] = listed[n]]
     \/ /\ \E next \in {"flag", "end"} : asking' = [asking EXCEPT ![c][n] = next]
        /\ UNCHANGED answer
  /\ UNCHANGED <<pc, call, amount, polls, flags, results, network, views>>

\* Faulty variant: the channel has no buffer.
PutFlagUnbuffered(c, n) ==
  /\ asking[c][n] = "flag"
  /\ c = call /\ pc = "polling" /\ flags[c] = 0
  /\ flags' = [flags EXCEPT ![c] = @ + 1]
  /\ asking' = [asking EXCEPT ![c][n] = "result"]
  /\ UNCHANGED <<pc, call, amount, polls, answer, results, network, views>>

PutFlag(c, n) ==
  /\ asking[c][n] = "flag"
  /\ flags[c] < Capacity
  /\ flags' = [flags EXCEPT ![c] = @ + 1]
  /\ asking' = [asking EXCEPT ![c][n] = "result"]
  /\ UNCHANGED <<pc, call, amount, polls, answer, results, network, views>>

PutResult(c, n) ==
  /\ asking[c][n] = "result"
  /\ Len(results[c]) < Capacity
  /\ results' = [results EXCEPT ![c] = Append(@, [from |-> n, outputs |-> answer[c][n]])]
  /\ asking' = [asking EXCEPT ![c][n] = "end"]
  /\ answer' = [answer EXCEPT ![c][n] = {}]
  /\ UNCHANGED <<pc, call, amount, polls, flags, network, views>>

\* Every 200 milliseconds: a flag is there, or not and once too often.
Poll ==
  /\ pc = "polling"
  /\ IF flags[call] > 0
     THEN pc' = "taking" /\ flags' = [flags EXCEPT ![call] = @ - 1] /\ UNCHANGED polls
     ELSE /\ polls' = polls + 1
          /\ pc' = IF polls' < Polls THEN pc ELSE "idle"
          /\ UNCHANGED flags
  /\ UNCHANGED <<call, amount, asking, answer, results, network, views>>

\* Outputs taken in the order of a map until they are worth the amount.
Taken(outputs) ==
  {ins \in SUBSET outputs : Sum(ins) >= amount /\ \E o \in ins : Sum(ins \ {o}) < amount}

\* The answer is there: GetBalance returns, and so does Transfer when the
\* balance is too low or else the transaction is sent.
Take ==
  /\ pc = "taking" /\ results[call] # <<>>
  /\ pc' = "idle" /\ views' = [p \in SpvNodes |-> {}]
  /\ results' = [results EXCEPT ![call] = Tail(@)]
  /\ LET outputs == Head(results[call]).outputs
     IN  IF amount = 0 \/ Sum(outputs) < amount THEN UNCHANGED made
         ELSE \E ins \in Taken(outputs) :
                made' = Append(made, [ins |-> ins, change |-> Sum(ins) - amount,
                                      from |-> Head(results[call]).from])
  /\ UNCHANGED <<call, amount, polls, asking, answer, flags, mined, listed>>

-----------------------------------------------------------------------------
(* The network: a transaction is mined when the ones whose outputs it      *)
(* spends are, also after another one that spends the same (Ledger).       *)

Mine(k) ==
  /\ k \notin mined /\ made[k].ins \subseteq Coins \cup mined
  /\ mined' = mined \cup {k}
  /\ UNCHANGED <<pc, call, amount, polls, goroutines, made, listed, views>>

\* What the transaction that output o comes from spends.
InputsOf(o) == IF o \in Coins THEN {} ELSE made[o].ins

\* handleMerkleblockMsg of an SPV node: a transaction of some block takes its
\* inputs out of the list and puts its output there.  It may come before
\* older ones, or never, and it comes again when SPV nodes send merkleblocks
\* to and fro or a later block has it once more: its output is then back,
\* spent or not.
Learn(n, o) ==
  /\ listed' = [listed EXCEPT ![n] =
       (@ \ InputsOf(o)) \cup {c \in {o} : Worth(c) > 0}]
  /\ views' = [views EXCEPT ![n] =
       IF pc # "idle" /\ asking[call][n] = "dial" THEN @ \cup {listed'[n]} ELSE @]
  /\ UNCHANGED <<pc, call, amount, polls, goroutines, made, mined>>

Next ==
  \/ \E a \in Amounts \cup {0} : Begin(a)
  \/ Poll \/ Take
  \/ \E c \in Calls, n \in SpvNodes : Ask(c, n) \/ PutFlag(c, n) \/ PutResult(c, n)
  \/ \E k \in DOMAIN made : Mine(k)
  \/ \E n \in Reached : \E o \in Coins \cup mined : Learn(n, o)

Spec == Init /\ [][Next]_vars

\* The goroutines run; nodes may take for ever to answer.
Fairness ==
  /\ WF_vars(Poll) /\ WF_vars(Take)
  /\ \A c \in Calls, n \in SpvNodes : WF_vars(PutFlag(c, n)) /\ WF_vars(PutResult(c, n))

FairSpec == Spec /\ Fairness

-----------------------------------------------------------------------------
TypeOK ==
  /\ pc \in {"idle", "polling", "taking"} /\ amount \in Amounts \cup {0} /\ polls \in 0..Polls
  /\ call \in 0..MaxCalls
  /\ asking \in [Calls -> [SpvNodes -> {"none", "dial", "flag", "result", "end"}]]
  /\ answer \in [Calls -> [SpvNodes -> SUBSET (Coins \cup DOMAIN made)]]
  /\ flags \in [Calls -> 0..Capacity]
  /\ results \in [Calls -> Seq([from : SpvNodes, outputs : SUBSET (Coins \cup DOMAIN made)])]
  /\ listed \in [SpvNodes -> SUBSET (Coins \cup mined)]
  /\ views \in [SpvNodes -> SUBSET SUBSET (Coins \cup mined)]
  /\ made \in Seq(ToSet(made)) /\ \A k \in DOMAIN made : made[k].ins \subseteq Coins \cup 1..k - 1
  /\ mined \subseteq DOMAIN made

\* A call returns, whichever goroutine's flag and whichever one's result it
\* takes, and a goroutine that has an answer gets rid of it, also when the
\* call has returned before.
CallsEnd ==
  /\ pc # "idle" ~> pc = "idle"
  /\ \A c \in Calls, n \in SpvNodes : asking[c][n] = "flag" ~> asking[c][n] = "end"

\* A transfer spends only outputs that the SPV node it heard from listed,
\* all at one moment, after the call began: an answer that came too late for
\* its call never counts for the next, in which what it lists may be spent.
\* An output is spent twice only when the node lists it (still or again).
PaysFromFreshAnswer ==
  [][made' # made =>
       LET tx == Last(made')
       IN  \E view \in views[tx.from] : tx.ins \subseteq view]_vars
=============================================================================
