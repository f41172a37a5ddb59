--------------------------- MODULE MCEmissionPool ----------------------------
(* The emission pool for TLC: two short days, of which the second emits less. *)
EXTENDS EmissionPool, TLC

MCEmission == [d \in Days |-> IF d = 0 THEN 10 ELSE 7]
MCGrowthCap == [d \in Days |-> IF d = 0 THEN 3 ELSE 2]
MCMultiplier == [t \in Types |-> IF t = "content" THEN 6 ELSE 13]

RelaySymmetry == Permutations(Relays)
BountySymmetry == Permutations(Bounties)
Symmetry == RelaySymmetry \cup BountySymmetry
=============================================================================
