------------------------------ MODULE BudgetGates ------------------------------
(***************************************************************************)
(* Budget gates of amos-governance (governance.rs): anybody proposes,      *)
(* registered stewards vote, and the authority executes what was approved  *)
(* by activating an allocation profile.                                    *)
(***************************************************************************)
EXTENDS Chain

CONSTANTS
  Gates,     \* budget gate proposal ids
  Stewards,  \* who may be registered
  Quorum     \* DEFAULT_STEWARD_QUORUM: the quorum of the parameters is not read

ASSUME BudgetAssumption ==
  /\ Quorum \in Nat \ {0}
  /\ None \notin BOOLEAN /\ None \notin {"active", "removed"}

VARIABLES
  steward,   \* StewardRecord: None, "active" or "removed"
  budget,    \* BudgetGateProposal of each id, None until it is submitted
  ballot,    \* StewardVoteRecord of each proposal, steward and type of vote
  profiles   \* history: proposals whose allocation profile was activated

budgetVars == <<steward, budget, ballot, profiles>>

VoteTypes == {"BudgetGate", "FeatureApproval"}

BudgetGateProposal ==
  [ yes    : Nat,   \* yes_votes
    no     : Nat,   \* no_votes
    status : {"Voting", "Approved", "Executed", "Rejected"} ]

ASSUME NoneIsNoProposal == None \notin BudgetGateProposal

BudgetTypeOK ==
  /\ steward \in [Stewards -> {None, "active", "removed"}]
  /\ budget \in [Gates -> BudgetGateProposal \cup {None}]
  /\ ballot \in [Gates -> [Stewards \X VoteTypes -> {None, TRUE, FALSE}]]
  /\ profiles \subseteq Gates

BudgetInit ==
  /\ steward = [s \in Stewards |-> None]
  /\ budget = [g \in Gates |-> None]
  /\ ballot = [g \in Gates |-> [v \in Stewards \X VoteTypes |-> None]]
  /\ profiles = {}

\* Once; a steward that was removed cannot be registered again.
register_steward(s) ==
  /\ steward[s] = None
  /\ steward' = [steward EXCEPT ![s] = "active"]
  /\ UNCHANGED <<budget, ballot, profiles>>

\* The votes of the steward still count.
remove_steward(s) ==
  /\ steward[s] # None
  /\ steward' = [steward EXCEPT ![s] = "removed"]
  /\ UNCHANGED <<budget, ballot, profiles>>

submit_budget_gate_proposal(g) ==
  /\ budget[g] = None
  /\ budget' = [budget EXCEPT ![g] = [yes |-> 0, no |-> 0, status |-> "Voting"]]
  /\ UNCHANGED <<steward, ballot, profiles>>

\* The counts after a vote, and the decision when one of them reaches the quorum.
Decided(row, approve) ==
  LET yes == row.yes + (IF approve THEN 1 ELSE 0)
      no  == row.no + (IF approve THEN 0 ELSE 1)
  IN [ yes |-> yes, no |-> no,
       status |-> IF yes >= Quorum THEN "Approved"
                  ELSE IF no >= Quorum THEN "Rejected" ELSE row.status ]

cast_steward_vote_replacing(g, s, type, approve) ==
  /\ steward[s] = "active"
  /\ budget[g] # None /\ budget[g].status = "Voting"
  /\ ballot' = [ballot EXCEPT ![g][<<s, type>>] = approve]
  /\ budget' = [budget EXCEPT ![g] = Decided(@, approve)]
  /\ UNCHANGED <<steward, profiles>>

\* One record of each steward and type of vote, so a steward may vote once with either type.
cast_steward_vote(g, s, type, approve) ==
  /\ steward[s] = "active"
  /\ budget[g] # None /\ budget[g].status = "Voting"
  /\ ballot[g][<<s, type>>] = None
  /\ ballot' = [ballot EXCEPT ![g][<<s, type>>] = approve]
  /\ budget' = [budget EXCEPT ![g] = Decided(@, approve)]
  /\ UNCHANGED <<steward, profiles>>

\* The shares of the profile are the authority's to choose; they add up to the whole.
execute_budget_profile_activation(g) ==
  /\ budget[g] # None /\ budget[g].status = "Approved"
  /\ budget' = [budget EXCEPT ![g].status = "Executed"]
  /\ profiles' = profiles \cup {g}
  /\ UNCHANGED <<steward, ballot>>

BudgetNext ==
  \/ \E s \in Stewards : register_steward(s) \/ remove_steward(s)
  \/ \E g \in Gates :
       \/ submit_budget_gate_proposal(g)
       \/ \E s \in Stewards, type \in VoteTypes, approve \in BOOLEAN :
            cast_steward_vote(g, s, type, approve)
       \/ execute_budget_profile_activation(g)

BudgetSpec == BudgetInit /\ [][BudgetNext]_budgetVars

-----------------------------------------------------------------------------
\* Properties.

Cast(g, approve) == {v \in Stewards \X VoteTypes : ballot[g][v] = approve}

\* A profile is activated only by a decision that a quorum of vote records carries, of
\* stewards registered at the time, and no decision has a quorum on both sides.  The two types
\* of vote let one steward count twice, so at least half the quorum are different stewards.
DecisionHasQuorum ==
  /\ \A g \in Gates : budget[g] # None =>
       /\ budget[g].yes = Cardinality(Cast(g, TRUE)) /\ budget[g].no = Cardinality(Cast(g, FALSE))
       /\ budget[g].status \in {"Approved", "Executed"} =>
            /\ budget[g].yes = Quorum /\ budget[g].no < Quorum
            /\ 2 * Cardinality({v[1] : v \in Cast(g, TRUE)}) >= Quorum
       /\ budget[g].status = "Rejected" => budget[g].no = Quorum /\ budget[g].yes < Quorum
       /\ \A v \in Cast(g, TRUE) \cup Cast(g, FALSE) : steward[v[1]] # None
  /\ \A g \in profiles : budget[g].status = "Executed"
=============================================================================
