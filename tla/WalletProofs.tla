---------------------------- MODULE WalletProofs ----------------------------
(* Wallets that ask any number of SPV nodes, in any number of calls.       *)
EXTENDS Wallet, FiniteSetTheorems, SequenceTheorems, TLAPS

LEMMA CapacityType == Capacity \in Nat
BY WalletAssumption, FS_CardinalityType DEF Capacity

\* A transaction more: it is the last, and the others stay what they are.
LEMMA OneMore ==
  ASSUME NEW s, s \in Seq(ToSet(s)), NEW x
  PROVE  /\ Append(s, x) \in Seq(ToSet(Append(s, x)))
         /\ DOMAIN Append(s, x) = DOMAIN s \cup {Len(s) + 1}
         /\ DOMAIN s = 1..Len(s) /\ Len(s) \in Nat /\ Append(s, x)[Len(s) + 1] = x
         /\ \A k \in DOMAIN s : Append(s, x)[k] = s[k] /\ k # Len(s) + 1
<1> DEFINE r == Append(s, x)
<1>1. s \in Seq(ToSet(s) \cup {x})
  BY SeqMonotonic
<1>2. r \in Seq(ToSet(s) \cup {x}) /\ Len(r) = Len(s) + 1
  BY <1>1
<1>3. r[Len(s) + 1] = x /\ \A k \in 1..Len(s) : r[k] = s[k]
  BY <1>1
<1>4. DOMAIN s = 1..Len(s) /\ Len(s) \in Nat /\ DOMAIN r = 1..Len(r)
  BY <1>1, <1>2
<1> HIDE DEF r
<1>5. r \in Seq(ToSet(r))
  <2>1. r \in [1..Len(r) -> ToSet(s) \cup {x}] /\ Len(r) \in Nat
    BY <1>2, LenProperties
  <2>2. \A k \in 1..Len(r) : r[k] \in ToSet(r)
    BY <1>4 DEF ToSet
  <2>3. r \in [1..Len(r) -> ToSet(r)]
    BY <2>1, <2>2
  <2> QED BY <2>1, <2>3, SeqDef
<1>6. DOMAIN r = DOMAIN s \cup {Len(s) + 1} /\ \A k \in DOMAIN s : k # Len(s) + 1
  BY <1>2, <1>4
<1> QED BY <1>3, <1>4, <1>5, <1>6 DEF r

\* A call under way is one of the calls, and polls below its bound.
Polling ==
  /\ pc # "idle" => call \in Calls
  /\ pc = "polling" => polls < Polls

\* Calls not begun have asked nobody, and have no answers.
Untouched ==
  \A c \in Calls, n \in SpvNodes :
    c > call => asking[c][n] = "none" /\ answer[c][n] = {} /\ results[c] = <<>>

\* What node n listed at some moment since the call under way began.
Viewed(n, outputs) == \E view \in views[n] : outputs \subseteq view

\* What a node may still answer the call under way, has answered it, and what
\* is in its channel, was listed since the call began.
AnswersFresh ==
  pc # "idle" =>
    /\ \A n \in SpvNodes :
         /\ asking[call][n] = "dial" => listed[n] \in views[n]
         /\ Viewed(n, answer[call][n])
    /\ \A i \in DOMAIN results[call] :
         Viewed(results[call][i].from, results[call][i].outputs)

\* Stronger than TypeOK, and kept by every step.
IInv == TypeOK /\ Polling /\ Untouched /\ AnswersFresh

\* The outputs there are, and the answers in a channel.
Outputs == Coins \cup DOMAIN made
Result == [from : SpvNodes, outputs : SUBSET Outputs]

-----------------------------------------------------------------------------
LEMMA InitInv == Init => IInv
<1> SUFFICES ASSUME Init PROVE IInv
  OBVIOUS
<1>1. made = <<>> /\ mined = {} /\ DOMAIN made = {}
  BY DEF Init
<1>2. TypeOK
  BY <1>1, CapacityType, WalletAssumption DEF Init, TypeOK
<1>3. Polling /\ Untouched /\ AnswersFresh
  BY DEF Init, Polling, Untouched, AnswersFresh
<1> QED BY <1>2, <1>3 DEF IInv

LEMMA BeginInv == ASSUME IInv, NEW a \in Amounts \cup {0}, Begin(a) PROVE IInv'
<1> USE DEF IInv
<1>1. call' = call + 1 /\ call' \in Calls /\ call \in Nat /\ MaxCalls \in Nat
  BY WalletAssumption DEF Begin, TypeOK, Calls
<1>2. /\ asking' = [asking EXCEPT ![call'] = [n \in SpvNodes |-> "dial"]]
      /\ views' = [n \in SpvNodes |-> {listed[n]}]
      /\ UNCHANGED <<answer, flags, results, made, mined, listed>>
  BY DEF Begin, network
<1>3. TypeOK'
  <2>1. asking' \in [Calls -> [SpvNodes -> {"none", "dial", "flag", "result", "end"}]]
    BY <1>1, <1>2 DEF TypeOK
  <2>2. views' \in [SpvNodes -> SUBSET SUBSET (Coins \cup mined)]
    BY <1>2 DEF TypeOK
  <2>3. call' \in 0..MaxCalls /\ polls' \in 0..Polls
    BY <1>1, WalletAssumption DEF Begin, Calls
  <2> QED BY <1>2, <2>1, <2>2, <2>3 DEF TypeOK, Begin
<1>4. Polling'
  BY <1>1, WalletAssumption DEF Begin, Polling
<1>5. Untouched'
  BY <1>1, <1>2 DEF Untouched, TypeOK, Calls
<1>6. AnswersFresh'
  <2>1. \A n \in SpvNodes : asking'[call'][n] = "dial" /\ views'[n] = {listed'[n]}
    BY <1>1, <1>2 DEF TypeOK
  <2>2. \A n \in SpvNodes : results'[call'] = <<>> /\ answer'[call'][n] = {}
    <3>1. call' > call
      BY <1>1
    <3> QED BY <1>1, <1>2, <3>1 DEF Untouched
  <2>3. DOMAIN results'[call'] = {}
    <3>1. CASE SpvNodes = {}
      <4>1. Result = {}
        BY <3>1 DEF Result
      <4>2. results'[call'] \in Seq({})
        BY <1>1, <1>2, <3>1, <4>1 DEF TypeOK, Result, Outputs
      <4> QED BY <4>2
    <3> QED BY <2>2, <3>1
  <2> QED BY <2>1, <2>2, <2>3 DEF AnswersFresh, Viewed
<1> QED BY <1>3, <1>4, <1>5, <1>6

LEMMA AskInv ==
  ASSUME IInv, NEW c \in Calls, NEW n \in SpvNodes, Ask(c, n)
  PROVE  IInv'
<1> USE DEF IInv
<1>1. /\ asking[c][n] = "dial"
      /\ UNCHANGED <<pc, call, amount, polls, flags, results, made, mined, listed, views>>
  BY DEF Ask, network
<1>2. PICK next \in {"flag", "end"} : asking' = [asking EXCEPT ![c][n] = next]
  BY DEF Ask
<1>3. answer' = answer \/ answer' = [answer EXCEPT ![c][n] = listed[n]]
  BY DEF Ask
<1>4. listed[n] \subseteq Coins \cup DOMAIN made
  BY DEF TypeOK
<1>5. TypeOK'
  <2>1. asking' \in [Calls -> [SpvNodes -> {"none", "dial", "flag", "result", "end"}]]
    BY <1>2 DEF TypeOK
  <2>2. answer' \in [Calls -> [SpvNodes -> SUBSET (Coins \cup DOMAIN made)]]
    <3>1. CASE answer' = answer
      BY <3>1 DEF TypeOK
    <3>2. CASE answer' = [answer EXCEPT ![c][n] = listed[n]]
      BY <1>4, <3>2 DEF TypeOK
    <3> QED BY <1>3, <3>1, <3>2
  <2> QED BY <1>1, <2>1, <2>2 DEF TypeOK
<1>6. \A d \in Calls, p \in SpvNodes :
        /\ <<d, p>> # <<c, n>> => asking'[d][p] = asking[d][p] /\ answer'[d][p] = answer[d][p]
        /\ answer'[d][p] = answer[d][p] \/ (d = c /\ p = n /\ answer'[d][p] = listed[n])
  BY <1>2, <1>3 DEF TypeOK
<1>7. ~(c > call)
  BY <1>1 DEF Untouched
<1>8. Polling' /\ Untouched'
  <2>1. Untouched'
    BY <1>1, <1>6, <1>7 DEF Untouched
  <2> QED BY <1>1, <2>1 DEF Polling
<1>9. AnswersFresh'
  <2> SUFFICES ASSUME pc # "idle", NEW p \in SpvNodes
               PROVE  /\ asking'[call][p] = "dial" => listed[p] \in views[p]
                      /\ Viewed(p, answer'[call][p])
    BY <1>1 DEF AnswersFresh, Viewed
  <2>1. call \in Calls /\ Viewed(p, answer[call][p])
    BY DEF Polling, AnswersFresh
  <2>2. CASE <<call, p>> # <<c, n>>
    BY <1>6, <2>1, <2>2 DEF AnswersFresh
  <2>3. CASE call = c /\ p = n
    <3>1. listed[p] \in views[p] /\ asking'[call][p] # "dial"
      BY <1>1, <1>2, <2>3 DEF AnswersFresh, TypeOK
    <3>2. answer'[call][p] = listed[p] \/ answer'[call][p] = answer[call][p]
      BY <1>6, <2>1, <2>3
    <3> QED BY <2>1, <3>1, <3>2 DEF Viewed
  <2> QED BY <2>2, <2>3
<1> QED BY <1>5, <1>8, <1>9

LEMMA PutFlagInv ==
  ASSUME IInv, NEW c \in Calls, NEW n \in SpvNodes, PutFlag(c, n)
  PROVE  IInv'
<1> USE DEF IInv
<1>1. /\ asking[c][n] = "flag" /\ asking' = [asking EXCEPT ![c][n] = "result"]
      /\ flags[c] < Capacity /\ flags' = [flags EXCEPT ![c] = @ + 1]
      /\ UNCHANGED <<pc, call, amount, polls, answer, results, made, mined, listed, views>>
  BY DEF PutFlag, network
<1>2. TypeOK'
  <2>1. asking' \in [Calls -> [SpvNodes -> {"none", "dial", "flag", "result", "end"}]]
    BY <1>1 DEF TypeOK
  <2>2. flags' \in [Calls -> 0..Capacity]
    BY <1>1, CapacityType DEF TypeOK
  <2> QED BY <1>1, <2>1, <2>2 DEF TypeOK
<1>3. \A d \in Calls, p \in SpvNodes :
        /\ asking'[d][p] = "dial" <=> asking[d][p] = "dial"
        /\ <<d, p>> # <<c, n>> => asking'[d][p] = asking[d][p]
  BY <1>1 DEF TypeOK
<1>4. Polling' /\ Untouched' /\ AnswersFresh'
  <2>1. ~(c > call)
    BY <1>1 DEF Untouched
  <2>2. Untouched'
    BY <1>1, <1>3, <2>1 DEF Untouched
  <2>3. Polling' /\ AnswersFresh'
    BY <1>1, <1>3 DEF Polling, AnswersFresh, Viewed
  <2> QED BY <2>2, <2>3
<1> QED BY <1>2, <1>4

LEMMA PutResultInv ==
  ASSUME IInv, NEW c \in Calls, NEW n \in SpvNodes, PutResult(c, n)
  PROVE  IInv'
<1> USE DEF IInv
<1> DEFINE r == [from |-> n, outputs |-> answer[c][n]]
<1>1. /\ asking[c][n] = "result" /\ asking' = [asking EXCEPT ![c][n] = "end"]
      /\ answer' = [answer EXCEPT ![c][n] = {}]
      /\ results' = [results EXCEPT ![c] = Append(@, r)]
      /\ UNCHANGED <<pc, call, amount, polls, flags, made, mined, listed, views>>
  BY DEF PutResult, network
<1>2. /\ r \in Result /\ r.from = n /\ r.outputs = answer[c][n]
      /\ results \in [Calls -> Seq(Result)] /\ results[c] \in Seq(Result)
  <2>1. answer[c][n] \in SUBSET Outputs
    BY DEF TypeOK, Outputs
  <2>2. results \in [Calls -> Seq(Result)]
    BY DEF TypeOK, Result, Outputs
  <2> QED BY <2>1, <2>2 DEF Result
<1> HIDE DEF r
<1>3. results' \in [Calls -> Seq(Result)]
  <2>1. Append(results[c], r) \in Seq(Result)
    BY <1>2
  <2> QED BY <1>1, <1>2, <2>1
<1>4. TypeOK'
  <2>1. asking' \in [Calls -> [SpvNodes -> {"none", "dial", "flag", "result", "end"}]]
    BY <1>1 DEF TypeOK
  <2>2. answer' \in [Calls -> [SpvNodes -> SUBSET (Coins \cup DOMAIN made)]]
    BY <1>1 DEF TypeOK
  <2> QED BY <1>1, <1>3, <2>1, <2>2 DEF TypeOK, Result, Outputs
<1>5. \A d \in Calls, p \in SpvNodes :
        <<d, p>> # <<c, n>> => asking'[d][p] = asking[d][p] /\ answer'[d][p] = answer[d][p]
  BY <1>1 DEF TypeOK
<1>6. c <= call
  BY <1>1 DEF Untouched, TypeOK, Calls
<1>7. Untouched'
  BY <1>1, <1>5, <1>6 DEF Untouched, TypeOK, Calls
<1>8. Polling'
  BY <1>1 DEF Polling
<1>9. AnswersFresh'
  <2> SUFFICES ASSUME pc # "idle" PROVE AnswersFresh'
    BY <1>1 DEF AnswersFresh
  <2>1. call \in Calls
    BY DEF Polling
  <2>2. ASSUME NEW p \in SpvNodes
        PROVE  /\ asking'[call][p] = "dial" => listed[p] \in views[p]
               /\ Viewed(p, answer'[call][p])
    <3>1. CASE <<call, p>> # <<c, n>>
      BY <1>5, <2>1, <3>1 DEF AnswersFresh
    <3>2. CASE call = c /\ p = n
      <4>1. asking'[call][p] = "end" /\ answer'[call][p] = {}
        BY <1>1, <3>2 DEF TypeOK
      <4> QED BY <4>1 DEF AnswersFresh, Viewed
    <3> QED BY <3>1, <3>2
  <2>3. ASSUME NEW i \in DOMAIN results'[call]
        PROVE  Viewed(results'[call][i].from, results'[call][i].outputs)
    <3>1. CASE i \in DOMAIN results[call] /\ results'[call][i] = results[call][i]
      BY <3>1 DEF AnswersFresh
    <3>2. CASE call = c /\ results'[call][i] = r
      BY <1>1, <1>2, <3>2 DEF AnswersFresh
    <3>3. CASE call # c
      BY <1>1, <3>1, <3>3 DEF TypeOK
    <3>4. CASE call = c
      <4>1. results'[c] = Append(results[c], r)
        BY <1>1 DEF TypeOK
      <4>2. results'[c][i] = r \/ (i \in DOMAIN results[c] /\ results'[c][i] = results[c][i])
        BY <1>2, <3>4, <4>1
      <4> QED BY <3>1, <3>2, <3>4, <4>2
    <3> QED BY <3>3, <3>4
  <2> QED BY <1>1, <2>2, <2>3 DEF AnswersFresh, Viewed
<1> QED BY <1>4, <1>7, <1>8, <1>9

LEMMA PollInv == ASSUME IInv, Poll PROVE IInv'
<1> USE DEF IInv
<1>1. UNCHANGED <<call, amount, asking, answer, results, made, mined, listed, views>>
  BY DEF Poll, network
<1>2. TypeOK' /\ Polling'
  <2>1. CASE flags[call] > 0
    <3>1. pc' = "taking" /\ flags' = [flags EXCEPT ![call] = @ - 1] /\ polls' = polls
      BY <2>1 DEF Poll
    <3>2. flags' \in [Calls -> 0..Capacity]
      <4>1. call \in Calls => flags[call] - 1 \in 0..Capacity
        BY <2>1, CapacityType DEF TypeOK
      <4> QED BY <3>1, <4>1 DEF TypeOK
    <3>3. pc # "idle" /\ call \in Calls
      BY DEF Poll, Polling
    <3> QED BY <1>1, <3>1, <3>2, <3>3 DEF TypeOK, Polling
  <2>2. CASE ~(flags[call] > 0)
    <3>1. /\ polls' = polls + 1 /\ flags' = flags
          /\ pc' = IF polls' < Polls THEN pc ELSE "idle"
      BY <2>2 DEF Poll
    <3>2. polls < Polls /\ polls \in Nat /\ Polls \in Nat
      BY WalletAssumption DEF Poll, Polling, TypeOK
    <3>3. polls' \in 0..Polls /\ pc' \in {"idle", "polling", "taking"}
      BY <3>1, <3>2 DEF TypeOK
    <3> QED BY <1>1, <3>1, <3>3 DEF TypeOK, Polling
  <2> QED BY <2>1, <2>2
<1>3. pc # "idle"
  BY DEF Poll
<1>4. Untouched' /\ AnswersFresh'
  BY <1>1, <1>3 DEF Untouched, AnswersFresh, Viewed
<1> QED BY <1>2, <1>4

\* What Take may do to the transactions: nothing, or one more that spends
\* from the first answer in the channel.
LEMMA Paid ==
  ASSUME Take
  PROVE  \/ made' = made
         \/ \E tx : /\ made' = Append(made, tx)
                    /\ tx.ins \subseteq Head(results[call]).outputs
                    /\ tx.from = Head(results[call]).from
<1>1. CASE made' = made
  BY <1>1
<1>2. CASE made' # made
  <2>1. PICK ins \in SUBSET Head(results[call]).outputs :
          made' = Append(made, [ins |-> ins, change |-> Sum(ins) - amount,
                                from |-> Head(results[call]).from])
    BY <1>2 DEF Take, Taken
  <2> DEFINE tx == [ins |-> ins, change |-> Sum(ins) - amount, from |-> Head(results[call]).from]
  <2>2. tx.ins = ins /\ tx.from = Head(results[call]).from
    OBVIOUS
  <2> QED BY <2>1, <2>2
<1> QED BY <1>1, <1>2

\* The answer Take finds.
LEMMA FirstAnswer ==
  ASSUME IInv, Take
  PROVE  /\ call \in Calls /\ pc # "idle"
         /\ Head(results[call]) \in Result
         /\ Viewed(Head(results[call]).from, Head(results[call]).outputs)
<1>1. call \in Calls /\ pc # "idle" /\ results[call] # <<>>
  BY DEF Take, IInv, Polling
<1>2. results[call] \in Seq(Result)
  BY <1>1 DEF IInv, TypeOK, Result, Outputs
<1>3. 1 \in DOMAIN results[call] /\ Head(results[call]) = results[call][1]
  BY <1>1, <1>2
<1>4. Head(results[call]) \in Result
  BY <1>2, <1>3
<1> QED BY <1>1, <1>3, <1>4 DEF IInv, AnswersFresh

LEMMA TakeInv == ASSUME IInv, Take PROVE IInv'
<1> USE DEF IInv
<1> DEFINE first == Head(results[call])
<1>1. /\ pc' = "idle" /\ results[call] # <<>> /\ results' = [results EXCEPT ![call] = Tail(@)]
      /\ views' = [p \in SpvNodes |-> {}]
      /\ UNCHANGED <<call, amount, polls, asking, answer, flags, mined, listed>>
  BY DEF Take
<1>2. call \in Calls /\ first \in Result
  BY FirstAnswer
<1>3. first.outputs \subseteq Coins \cup DOMAIN made
  BY <1>2 DEF Result, Outputs
<1>4. \/ made' = made
      \/ \E tx : made' = Append(made, tx) /\ tx.ins \subseteq first.outputs
  BY Paid
<1> HIDE DEF first
<1>5. /\ made' \in Seq(ToSet(made'))
      /\ \A k \in DOMAIN made : k \in DOMAIN made' /\ made'[k] = made[k]
      /\ \A k \in DOMAIN made' : k \in DOMAIN made \/ made'[k].ins \subseteq Coins \cup 1..k - 1
  <2>1. CASE made' = made
    BY <2>1 DEF TypeOK
  <2>2. CASE made' # made
    <3>1. PICK tx : made' = Append(made, tx) /\ tx.ins \subseteq first.outputs
      BY <1>4, <2>2
    <3>2. made \in Seq(ToSet(made))
      BY DEF TypeOK
    <3>3. /\ made' \in Seq(ToSet(made')) /\ DOMAIN made' = DOMAIN made \cup {Len(made) + 1}
          /\ DOMAIN made = 1..Len(made) /\ Len(made) \in Nat /\ made'[Len(made) + 1] = tx
          /\ \A k \in DOMAIN made : made'[k] = made[k]
      BY <3>1, <3>2, OneMore
    <3>4. (Len(made) + 1) - 1 = Len(made)
      BY <3>3
    <3> QED BY <1>3, <3>1, <3>3, <3>4
  <2> QED BY <2>1, <2>2
<1>6. TypeOK'
  <2>1. results' \in [Calls -> Seq([from : SpvNodes, outputs : SUBSET (Coins \cup DOMAIN made')])]
    <3> DEFINE R == [from : SpvNodes, outputs : SUBSET (Coins \cup DOMAIN made')]
    <3>1. Result \subseteq R
      BY <1>5 DEF Result, Outputs
    <3>2. \A c \in Calls : results[c] \in Seq(Result)
      BY DEF TypeOK, Result, Outputs
    <3> HIDE DEF R
    <3>3. \A c \in Calls : results[c] \in Seq(R)
      BY <3>1, <3>2, SeqMonotonic
    <3>4. \A c \in Calls : results'[c] \in Seq(R)
      BY <1>1, <3>3, HeadTailProperties DEF TypeOK
    <3>5. results' \in [Calls -> Seq(R)]
      BY <1>1, <3>4 DEF TypeOK
    <3> QED BY <3>5 DEF R
  <2>2. answer' \in [Calls -> [SpvNodes -> SUBSET (Coins \cup DOMAIN made')]]
    BY <1>1, <1>5 DEF TypeOK
  <2>3. mined' \subseteq DOMAIN made'
    BY <1>1, <1>5 DEF TypeOK
  <2>4. \A k \in DOMAIN made' : made'[k].ins \subseteq Coins \cup 1..k - 1
    BY <1>5 DEF TypeOK
  <2> QED BY <1>1, <1>5, <2>1, <2>2, <2>3, <2>4 DEF TypeOK
<1>7. Polling' /\ Untouched' /\ AnswersFresh'
  BY <1>1, <1>2 DEF Polling, Untouched, AnswersFresh, TypeOK, Calls
<1> QED BY <1>6, <1>7

LEMMA MineInv == ASSUME IInv, NEW k \in DOMAIN made, Mine(k) PROVE IInv'
<1> USE DEF IInv
<1>1. /\ mined' = mined \cup {k}
      /\ UNCHANGED <<pc, call, amount, polls, asking, answer, flags, results, made, listed, views>>
  BY DEF Mine, goroutines
<1>2. TypeOK'
  BY <1>1 DEF TypeOK
<1>3. Polling' /\ Untouched' /\ AnswersFresh'
  BY <1>1 DEF Polling, Untouched, AnswersFresh, Viewed
<1> QED BY <1>2, <1>3

LEMMA LearnInv ==
  ASSUME IInv, NEW n \in SpvNodes, NEW o \in Coins \cup mined, Learn(n, o)
  PROVE  IInv'
<1> USE DEF IInv
<1>1. /\ listed' = [listed EXCEPT ![n] = (@ \ InputsOf(o)) \cup {c \in {o} : Worth(c) > 0}]
      /\ views' = [views EXCEPT ![n] =
           IF pc # "idle" /\ asking[call][n] = "dial" THEN @ \cup {listed'[n]} ELSE @]
      /\ UNCHANGED <<pc, call, amount, polls, asking, answer, flags, results, made, mined>>
  BY DEF Learn, goroutines
<1>2. listed' \in [SpvNodes -> SUBSET (Coins \cup mined)]
  BY <1>1 DEF TypeOK
<1>3. views' \in [SpvNodes -> SUBSET SUBSET (Coins \cup mined)]
  BY <1>1, <1>2 DEF TypeOK
<1>4. TypeOK'
  BY <1>1, <1>2, <1>3 DEF TypeOK
<1>5. Polling' /\ Untouched'
  BY <1>1 DEF Polling, Untouched
<1>6. \A p \in SpvNodes : views[p] \subseteq views'[p]
  BY <1>1 DEF TypeOK
<1>7. \A p \in SpvNodes : \A outputs : Viewed(p, outputs) => \E view \in views'[p] : outputs \subseteq view
  BY <1>6 DEF Viewed
<1>8. AnswersFresh'
  <2> SUFFICES ASSUME pc # "idle" PROVE AnswersFresh'
    BY <1>1 DEF AnswersFresh
  <2>1. ASSUME NEW p \in SpvNodes, asking[call][p] = "dial"
        PROVE  listed'[p] \in views'[p]
    <3>1. CASE p = n
      BY <1>1, <2>1, <3>1 DEF TypeOK
    <3>2. CASE p # n
      BY <1>1, <2>1, <3>2 DEF TypeOK, AnswersFresh
    <3> QED BY <3>1, <3>2
  <2>2. \A i \in DOMAIN results[call] : results[call][i].from \in SpvNodes
    <3>1. call \in Calls /\ results[call] \in Seq(Result)
      BY DEF Polling, TypeOK, Result, Outputs
    <3>2. \A i \in DOMAIN results[call] : results[call][i] \in Result
      BY <3>1
    <3> QED BY <3>2 DEF Result
  <2>3. \A p \in SpvNodes : \E view \in views'[p] : answer[call][p] \subseteq view
    BY <1>7 DEF AnswersFresh
  <2>4. \A i \in DOMAIN results[call] :
          \E view \in views'[results[call][i].from] : results[call][i].outputs \subseteq view
    BY <1>7, <2>2 DEF AnswersFresh
  <2> QED BY <1>1, <2>1, <2>3, <2>4 DEF AnswersFresh, Viewed
<1> QED BY <1>4, <1>5, <1>8

LEMMA NextInv == ASSUME IInv, [Next]_vars PROVE IInv'
<1>1. CASE UNCHANGED vars
  <2>1. UNCHANGED <<pc, call, amount, polls, asking, answer, flags, results, made, mined, listed, views>>
    BY <1>1 DEF vars
  <2>2. TypeOK'
    BY <2>1 DEF IInv, TypeOK
  <2>3. Polling' /\ Untouched' /\ AnswersFresh'
    BY <2>1 DEF IInv, Polling, Untouched, AnswersFresh, Viewed
  <2> QED BY <2>2, <2>3 DEF IInv
<1>2. CASE \E a \in Amounts \cup {0} : Begin(a)
  BY <1>2, BeginInv
<1>3. CASE Poll
  BY <1>3, PollInv
<1>4. CASE Take
  BY <1>4, TakeInv
<1>5. CASE \E c \in Calls, n \in SpvNodes : Ask(c, n) \/ PutFlag(c, n) \/ PutResult(c, n)
  BY <1>5, AskInv, PutFlagInv, PutResultInv
<1>6. CASE \E k \in DOMAIN made : Mine(k)
  BY <1>6, MineInv
<1>7. CASE \E n \in Reached : \E o \in Coins \cup mined : Learn(n, o)
  BY <1>7, LearnInv, WalletAssumption
<1> QED BY <1>1, <1>2, <1>3, <1>4, <1>5, <1>6, <1>7 DEF Next

\* Only Take makes transactions.
LEMMA TakeMakes == ASSUME [Next]_vars, made' # made PROVE Take
<1>1. made' = made \/ Take
  BY DEF Next, vars, network, goroutines, Begin, Ask, PutFlag, PutResult, Poll, Mine, Learn
<1> QED BY <1>1

\* Outputs in answers and transactions are coins or changes made before, nodes
\* list outputs of mined transactions, and the channels never hold more than
\* the goroutines that were started.
THEOREM TypeCorrect == Spec => []TypeOK
<1>1. Init => IInv
  BY InitInv
<1>2. IInv /\ [Next]_vars => IInv'
  BY NextInv
<1>3. IInv => TypeOK
  BY DEF IInv
<1> QED BY <1>1, <1>2, <1>3, PTL DEF Spec

\* Whoever answers first or late, however many calls there were, and whatever
\* is put into and taken out of the nodes' UTXO sets meanwhile, Transfer spends
\* only outputs that the node it heard from listed together after the call
\* began.
THEOREM FreshAnswersOnly == Spec => PaysFromFreshAnswer
<1> DEFINE Fresh == made' # made =>
             LET tx == Last(made')
             IN  \E view \in views[tx.from] : tx.ins \subseteq view
<1>1. Init => IInv
  BY InitInv
<1>2. IInv /\ [Next]_vars => IInv'
  BY NextInv
<1>3. IInv /\ [Next]_vars => [Fresh]_vars
  <2> SUFFICES ASSUME IInv, [Next]_vars, made' # made
               PROVE  \E view \in views[Last(made').from] : Last(made').ins \subseteq view
    OBVIOUS
  <2>1. Take
    BY TakeMakes
  <2>2. PICK tx : /\ made' = Append(made, tx)
                  /\ tx.ins \subseteq Head(results[call]).outputs
                  /\ tx.from = Head(results[call]).from
    BY <2>1, Paid
  <2>3. /\ made' \in Seq(ToSet(made')) /\ DOMAIN made' = DOMAIN made \cup {Len(made) + 1}
        /\ DOMAIN made = 1..Len(made) /\ Len(made) \in Nat /\ made'[Len(made) + 1] = tx
    BY <2>2, OneMore DEF IInv, TypeOK
  <2>4. Last(made') = tx
    <3>1. Len(made') = Len(made) + 1
      BY <2>2 DEF IInv, TypeOK
    <3> QED BY <2>3, <3>1 DEF Last
  <2>5. Viewed(tx.from, Head(results[call]).outputs)
    BY <2>1, <2>2, FirstAnswer
  <2> QED BY <2>2, <2>4, <2>5 DEF Viewed
<1> HIDE DEF Fresh
<1>4. Spec => [][Fresh]_vars
  BY <1>1, <1>2, <1>3, PTL DEF Spec
<1> QED BY <1>4 DEF Fresh, PaysFromFreshAnswer
=============================================================================
