------------------------------ MODULE ChainLog ------------------------------
(***************************************************************************)
(* What relaying freshly mined blocks promises: one growing chain, which   *)
(* every follower copies block by block, in order and without a gap.       *)
(***************************************************************************)
EXTENDS Naturals, Sequences

CONSTANTS Followers,   \* nodes that copy the chain
          First,       \* the block everybody starts from
          Block        \* all blocks

VARIABLES log,         \* the chain of the node that mines
          seen         \* seen[n]: the part of it follower n has

vars == <<log, seen>>

Init ==
  /\ log = <<First>>
  /\ seen = [n \in Followers |-> <<First>>]

Extend ==
  /\ \E b \in Block : log' = Append(log, b)
  /\ UNCHANGED seen

Follow(n) ==
  /\ Len(seen[n]) < Len(log)
  /\ seen' = [seen EXCEPT ![n] = Append(@, log[Len(@) + 1])]
  /\ UNCHANGED log

Next == Extend \/ \E n \in Followers : Follow(n)

Spec == Init /\ [][Next]_vars

FairSpec == Spec /\ \A n \in Followers : WF_vars(Follow(n))
=============================================================================
