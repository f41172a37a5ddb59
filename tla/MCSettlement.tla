---------------------------- MODULE MCSettlement -----------------------------
(* Settlement for TLC: requests in flight are interchangeable (safety only).  *)
EXTENDS Settlement, TLC

RequestSymmetry == Permutations(Requests)
=============================================================================
