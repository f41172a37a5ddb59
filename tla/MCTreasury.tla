------------------------------ MODULE MCTreasury ------------------------------
(* The treasury for TLC: two users with some of the only coin. *)
EXTENDS Treasury

EqualWallets == [m \in Coins |-> [u \in Users |-> 9]]
=============================================================================
