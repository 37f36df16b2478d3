------------------------------ MODULE MCWallet ------------------------------
(* Two SPV nodes, a coin of three.                                         *)
EXTENDS Wallet

CONSTANTS s1, s2, x

MCValue == [o \in Coins |-> 3]
=============================================================================
