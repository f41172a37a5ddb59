-------------------------------- MODULE Chain --------------------------------
(***************************************************************************)
(* What the Solana programs share: the accounts that sign, the clock they  *)
(* read (Clock::get), and the SPL token program they call.  A transaction  *)
(* is atomic, so an instruction is one action, and one that returns an     *)
(* error changes nothing.                                                  *)
(***************************************************************************)
EXTENDS Integers, Sequences, FiniteSets, FiniteSetsExt

CONSTANTS
  Users,     \* whoever signs: operators, posters, stakers, voters
  None,      \* an account that does not exist, a public key never set
  Vaults,    \* token accounts of the programs and their authorities
  LastTime,  \* bound of the model: the clock stops there
  Whole      \* BPS_DENOMINATOR, and what is a percentage in bps is a part of Whole

ASSUME ChainAssumption ==
  /\ LastTime \in Nat /\ Whole \in Nat \ {0}
  /\ None \notin Users \cup Vaults
  /\ IsFiniteSet(Users) /\ IsFiniteSet(Vaults) /\ Users \cap Vaults = {}

VARIABLE now   \* unix_timestamp, in a unit each program chooses

Times == 0 .. LastTime
Holders == Users \cup Vaults

Least(a, b) == IF a <= b THEN a ELSE b
Most(a, b) == IF a >= b THEN a ELSE b
Less(a, b) == IF a >= b THEN a - b ELSE 0     \* saturating_sub

\* amount * part / BPS_DENOMINATOR, rounded down
PartOf(amount, part) == (amount * part) \div Whole

\* The total of what amounts to amount[x] for each x of S, counted unit by unit.
Total(amount, S) == Cardinality(UNION {{x} \X (1 .. amount[x]) : x \in S})

passes == now < LastTime /\ now' = now + 1

-----------------------------------------------------------------------------
\* Token accounts: a function `held' from Holders to amounts.

\* token::transfer: fails unless the source holds the amount.
Moved(held, from, to, amount) ==
  [h \in Holders |-> held[h] - (IF h = from THEN amount ELSE 0)
                             + (IF h = to   THEN amount ELSE 0)]

TotalHeld(held) == Total(held, Holders)
=============================================================================
