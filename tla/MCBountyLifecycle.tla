------------------------- MODULE MCBountyLifecycle --------------------------
(* The bounty board for TLC: requests in flight are interchangeable.         *)
EXTENDS BountyLifecycle, TLC

HandlerSymmetry == Permutations(Handlers)
=============================================================================
