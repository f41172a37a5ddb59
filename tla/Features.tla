------------------------------- MODULE Features -------------------------------
(***************************************************************************)
(* Feature proposals of amos-governance: submitted, voted on, moved by the *)
(* oracle through development and four quality gates, and paid in three    *)
(* stages (proposals.rs, gates.rs, rewards.rs).                            *)
(*                                                                         *)
(* An account has the size it was created with.  That of a proposal has    *)
(* room for text and requests of the greatest length but counts 16 bytes   *)
(* for a gate result, which takes 45: the longer the text, the fewer       *)
(* results can be written.  That of a vote is one byte short of a          *)
(* withdrawal time, so withdraw_vote always fails to write its record, and *)
(* is left out.                                                            *)
(***************************************************************************)
EXTENDS Governance

CONSTANTS
  Proposals,
  Bounty0,      \* estimated_bounty
  Rooms,        \* how many gate results the account of a proposal may take
  Scores,       \* what the oracle may report of a gate
  VoteAmounts,  \* tokens a voter may vote with
  Expiration    \* PROPOSAL_EXPIRATION_SECONDS

ASSUME FeaturesAssumption ==
  /\ Proposals \subseteq STRING /\ IsFiniteSet(Users)
  /\ Bounty0 \in Nat /\ Rooms \subseteq 1 .. 4 /\ Scores \subseteq Nat
  /\ VoteAmounts \subseteq Nat \ {0} /\ Expiration \in Nat
  /\ None \notin VoteAmounts

VARIABLES
  feature,   \* FeatureProposal of each id, None until it is submitted
  vote       \* VoteRecord of each proposal and voter: the amount, None if there is none

featureVars == <<governanceVars, feature, vote>>

ProposalStatus == {"Active", "InDevelopment", "AwaitingGates", "RewardsDistribution",
                   "Finalized", "Cancelled"}

GateResult == [passed : BOOLEAN, claimed : BOOLEAN]

FeatureProposal ==
  [ proposer  : Users,
    votes     : Nat,                               \* total_votes
    status    : ProposalStatus,
    created   : Times,
    completed : BOOLEAN,                           \* completed_at is set
    room      : Rooms,
    gate      : [GateTypes -> GateResult \cup {None}] ]

ASSUME NoneIsNoFeature == None \notin FeatureProposal /\ None \notin GateResult

FeaturesTypeOK ==
  /\ GovernanceTypeOK
  /\ feature \in [Proposals -> FeatureProposal \cup {None}]
  /\ vote \in [Proposals -> [Users -> VoteAmounts \cup {None}]]

FeaturesInit ==
  /\ GovernanceInit
  /\ feature = [p \in Proposals |-> None]
  /\ vote = [p \in Proposals |-> [u \in Users |-> None]]

HasStatus(p, statuses) == feature[p] # None /\ feature[p].status \in statuses

submit_feature_proposal(p, u, room) ==
  /\ params # None
  /\ feature[p] = None
  /\ feature' = [feature EXCEPT ![p] =
       [ proposer |-> u, votes |-> 0, status |-> "Active", created |-> now,
         completed |-> FALSE, room |-> room, gate |-> [g \in GateTypes |-> None] ]]
  /\ UNCHANGED <<governanceVars, vote>>

vote_for_feature_again(p, u, amount) ==
  /\ HasStatus(p, {"Active"})
  /\ u # feature[p].proposer
  /\ now - feature[p].created <= Expiration
  /\ vote' = [vote EXCEPT ![p][u] = amount]
  /\ feature' = [feature EXCEPT ![p].votes = @ + amount]
  /\ UNCHANGED governanceVars

\* One record of each voter.  The voter has the amount now; nothing keeps it there.
vote_for_feature(p, u, amount) ==
  /\ HasStatus(p, {"Active"})
  /\ vote[p][u] = None
  /\ u # feature[p].proposer
  /\ now - feature[p].created <= Expiration
  /\ vote' = [vote EXCEPT ![p][u] = amount]
  /\ feature' = [feature EXCEPT ![p].votes = @ + amount]
  /\ UNCHANGED governanceVars

NextStatus ==
  { <<"Active", "InDevelopment">>, <<"InDevelopment", "AwaitingGates">>,
    <<"AwaitingGates", "RewardsDistribution">>, <<"RewardsDistribution", "Finalized">> }
  \cup (ProposalStatus \X {"Cancelled"})

\* The oracle; votes are not looked at, and "Finalized" needs no gate.
update_proposal_status(p, status) ==
  /\ feature[p] # None
  /\ <<feature[p].status, status>> \in NextStatus
  /\ feature' = [feature EXCEPT ![p].status = status,
                                ![p].completed = @ \/ status = "AwaitingGates"]
  /\ UNCHANGED <<governanceVars, vote>>

Reported(p) == {g \in GateTypes : feature[p].gate[g] # None}
Passed(p, g) == feature[p].gate[g] # None /\ feature[p].gate[g].passed

\* What a score makes of a gate, against the threshold of this moment.
Outcome(g, score) == [passed |-> score >= params.threshold[g], claimed |-> FALSE]

\* A gate is reported once, as long as there is room.
Reports(p, g, score) ==
  /\ HasStatus(p, {"AwaitingGates"})
  /\ g \notin Reported(p)
  /\ Cardinality(Reported(p)) < feature[p].room
  /\ feature' = [feature EXCEPT ![p].gate[g] = Outcome(g, score)]
  /\ UNCHANGED <<governanceVars, vote>>

report_benchmark_result(p, score)  == score <= Whole /\ Reports(p, "Benchmark", score)
report_ab_test_result(p, score)    == score <= Whole /\ Reports(p, "ABTest", score)
report_feedback_result(p, score)   == score <= Whole /\ Reports(p, "Feedback", score)
report_steward_approval(p, score)  == Reports(p, "StewardApproval", score)

StagePart(g) == IF g = "Benchmark" THEN params.completion ELSE params.ab

claim_bounty_reward_any_status(p, g) ==
  /\ feature[p] # None
  /\ g = "Benchmark" => feature[p].completed
  /\ Passed(p, "Benchmark") /\ Passed(p, g)
  /\ ~feature[p].gate[g].claimed
  /\ Pays(p, g, PartOf(Bounty0, StagePart(g)))
  /\ feature' = [feature EXCEPT ![p].gate[g].claimed = TRUE,
       ![p].status = IF g = "Benchmark" THEN "RewardsDistribution" ELSE @]
  /\ UNCHANGED <<now, params, vote>>

claim_bounty_reward_unmarked(p, g) ==
  /\ HasStatus(p, {"AwaitingGates", "RewardsDistribution"})
  /\ g = "Benchmark" => feature[p].completed
  /\ Passed(p, "Benchmark") /\ Passed(p, g)
  /\ Len(payments) < 4
  /\ Pays(p, g, PartOf(Bounty0, StagePart(g)))
  /\ feature' = [feature EXCEPT
       ![p].status = IF g = "Benchmark" THEN "RewardsDistribution" ELSE @]
  /\ UNCHANGED <<now, params, vote>>

\* The proposer claims the first two stages.  With the first the gates close: what is not
\* reported yet never is.
claim_bounty_reward(p, g) ==
  /\ HasStatus(p, {"AwaitingGates", "RewardsDistribution"})
  /\ g = "Benchmark" => feature[p].completed
  /\ Passed(p, "Benchmark") /\ Passed(p, g)
  /\ ~feature[p].gate[g].claimed
  /\ Pays(p, g, PartOf(Bounty0, StagePart(g)))
  /\ feature' = [feature EXCEPT ![p].gate[g].claimed = TRUE,
       ![p].status = IF g = "Benchmark" THEN "RewardsDistribution" ELSE @]
  /\ UNCHANGED <<now, params, vote>>

\* The oracle pays the last stage; stages not claimed by now are lost.
finalize_rewards(p) ==
  /\ HasStatus(p, {"RewardsDistribution"})
  /\ \A g \in GateTypes : Passed(p, g)
  /\ Pays(p, "Merge", PartOf(Bounty0, params.merge))
  /\ feature' = [feature EXCEPT ![p].status = "Finalized"]
  /\ UNCHANGED <<now, params, vote>>

FeaturesNext ==
  \/ \E p \in Proposals :
       \/ \E u \in Users :
            \/ \E room \in Rooms : submit_feature_proposal(p, u, room)
            \/ \E amount \in VoteAmounts : vote_for_feature(p, u, amount)
       \/ \E status \in ProposalStatus : update_proposal_status(p, status)
       \/ \E score \in Scores :
            \/ report_benchmark_result(p, score) \/ report_ab_test_result(p, score)
            \/ report_feedback_result(p, score) \/ report_steward_approval(p, score)
       \/ \E g \in {"Benchmark", "ABTest"} : claim_bounty_reward(p, g)
       \/ finalize_rewards(p)
  \/ govern /\ UNCHANGED <<feature, vote>>

FeaturesSpec == FeaturesInit /\ [][FeaturesNext]_featureVars

-----------------------------------------------------------------------------
\* Properties.

\* Each stage of a bounty is paid once at most, and paid only for gates that passed: the
\* first two also need the benchmark, the last all four, however the status was moved, the
\* parameters changed and the payments interleaved in between.  The treasury is short of
\* exactly what was paid.
StagesArePaidOnce ==
  /\ \A p \in Proposals : feature[p] # None =>
       /\ \A stage \in GateTypes \cup {"Merge"} : Cardinality(PaidFor(p, stage)) <= 1
       /\ \A g \in GateTypes :
            PaidFor(p, g) # {} => Passed(p, "Benchmark") /\ Passed(p, g)
       /\ PaidFor(p, "Merge") # {} => \A g \in GateTypes : Passed(p, g)
  /\ fund + Total([i \in DOMAIN payments |-> payments[i].amount], DOMAIN payments) = Treasury0

\* A proposal that was cancelled or finalized is over: nothing more is voted, reported or
\* paid for it.
ClosedStaysClosed ==
  [][\A p \in Proposals :
       HasStatus(p, {"Cancelled", "Finalized"}) =>
         /\ feature'[p].status \in {feature[p].status, "Cancelled"}
         /\ feature'[p].gate = feature[p].gate /\ vote'[p] = vote[p]
         /\ \A i \in DOMAIN payments' \ DOMAIN payments : payments'[i].proposal # p]_featureVars

Voters(p) == {u \in Users : vote[p][u] # None}

\* The weight of a proposal is what its voters voted, each once.
VotesAreCounted ==
  \A p \in Proposals : feature[p] # None =>
    /\ feature[p].votes = Total(vote[p], Voters(p))
    /\ vote[p][feature[p].proposer] = None
=============================================================================
