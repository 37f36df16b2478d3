------------------------------ MODULE InvCall ------------------------------
(***************************************************************************)
(* What one call of handleInvMsg promises, as BlockSync takes it for       *)
(* granted: every getdata message is sent once, almost in order, and the   *)
(* call ends when all were sent and the blocks sent in answer have been    *)
(* stored, but for those that take longer than it waits.                   *)
(***************************************************************************)
EXTENDS Naturals, FiniteSets

CONSTANTS Messages,   \* getdata messages, numbered from 1
          Askers,     \* the workers
          Late        \* messages whose blocks may come after the pause

VARIABLES todo,       \* messages still to be sent
          transit,    \* messages answered whose blocks are not stored yet
          stored,     \* messages whose blocks are stored
          over        \* the call has asked its peers for what comes next

vars == <<todo, transit, stored, over>>

Init == todo = Messages /\ transit = {} /\ stored = {} /\ over = FALSE

\* All workers but one may be at earlier messages.  A peer may not answer.
Ask(k) ==
  /\ k \in todo
  /\ Cardinality({j \in todo : j < k}) < Cardinality(Askers)
  /\ todo' = todo \ {k}
  /\ transit' \in {transit, transit \cup {k}}
  /\ UNCHANGED <<stored, over>>

Arrive(k) ==
  /\ k \in transit
  /\ transit' = transit \ {k}
  /\ stored' = stored \cup {k}
  /\ UNCHANGED <<todo, over>>

Finish ==
  /\ todo = {} /\ ~over
  /\ transit \subseteq Late
  /\ over' = TRUE
  /\ UNCHANGED <<todo, transit, stored>>

Next == Finish \/ \E k \in Messages : Ask(k) \/ Arrive(k)

Spec == Init /\ [][Next]_vars
=============================================================================
