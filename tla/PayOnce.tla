------------------------------ MODULE PayOnce -------------------------------
(***************************************************************************)
(* What settlement promises for an approved bounty, whatever fails on the  *)
(* way: the worker is paid at most once, only after the approval, and the  *)
(* books (the fee ledger) record a payment only after it happened and      *)
(* never forget it.  It does not promise that the payment happens, or that *)
(* the books hear of it.                                                   *)
(***************************************************************************)
CONSTANT Bounties

VARIABLES
  approved,  \* bounties a reviewer approved
  paid,      \* number of payments made for each bounty
  booked     \* bounties the ledger records as settled

vars == <<approved, paid, booked>>

Init ==
  /\ approved = {}
  /\ paid = [b \in Bounties |-> 0]
  /\ booked = {}

Approve(b) ==
  /\ b \notin approved
  /\ approved' = approved \cup {b}
  /\ UNCHANGED <<paid, booked>>

Pay(b) ==
  /\ b \in approved
  /\ paid[b] = 0
  /\ paid' = [paid EXCEPT ![b] = 1]
  /\ UNCHANGED <<approved, booked>>

Book(b) ==
  /\ paid[b] = 1
  /\ booked' = booked \cup {b}
  /\ UNCHANGED <<approved, paid>>

Next == \E b \in Bounties : Approve(b) \/ Pay(b) \/ Book(b)

Spec == Init /\ [][Next]_vars
=============================================================================
