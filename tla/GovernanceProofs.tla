--------------------------- MODULE GovernanceProofs ---------------------------
(***************************************************************************)
(* What holds of the decisions and the rewards of the amos-governance      *)
(* program, for any number of proposals, stewards and voters.              *)
(***************************************************************************)
EXTENDS BudgetGates, Research, Features, ChainProofs

-----------------------------------------------------------------------------
(* Budget gates. *)

\* The counts are those of the vote records, over finite sets.
VotesAreRecords ==
  \A g \in Gates :
    /\ IsFiniteSet(Cast(g, TRUE)) /\ IsFiniteSet(Cast(g, FALSE))
    /\ budget[g] = None => Cast(g, TRUE) = {} /\ Cast(g, FALSE) = {}
    /\ budget[g] # None => /\ budget[g].yes = Cardinality(Cast(g, TRUE))
                           /\ budget[g].no = Cardinality(Cast(g, FALSE))

\* A proposal is open as long as neither side has the quorum; the vote that reaches it
\* decides, and only one side can.
StatusFollowsVotes ==
  \A g \in Gates : budget[g] # None =>
    /\ budget[g].status = "Voting" => budget[g].yes < Quorum /\ budget[g].no < Quorum
    /\ budget[g].status \in {"Approved", "Executed"} => budget[g].yes = Quorum /\ budget[g].no < Quorum
    /\ budget[g].status = "Rejected" => budget[g].no = Quorum /\ budget[g].yes < Quorum

\* Votes are of stewards that were registered.
VotersWereStewards ==
  \A g \in Gates : \A v \in Cast(g, TRUE) \cup Cast(g, FALSE) : steward[v[1]] # None

\* A profile that was activated was executed.
ProfilesAreExecuted ==
  \A g \in profiles : budget[g] # None /\ budget[g].status = "Executed"

BudgetInv ==
  BudgetTypeOK /\ VotesAreRecords /\ StatusFollowsVotes /\ VotersWereStewards /\ ProfilesAreExecuted

\* Each steward has a record of each of the two types of vote, so a set of vote records has at
\* least half as many stewards.
LEMMA TwoVotesEach ==
  ASSUME NEW V \in SUBSET (Stewards \X VoteTypes), IsFiniteSet(V)
  PROVE  Cardinality(V) <= 2 * Cardinality({v[1] : v \in V})
  <1> DEFINE S == {v[1] : v \in V}
             f == [v \in V |-> v[1]]
  <1>1. f \in Surjection(V, S)
    BY DEF Surjection
  <1>2. IsFiniteSet(S)
    BY <1>1, FS_Surjection
  <1>3. IsFiniteSet(VoteTypes) /\ Cardinality(VoteTypes) = 2
    <2>1. IsFiniteSet({"BudgetGate"}) /\ Cardinality({"BudgetGate"}) = 1
      BY FS_Singleton
    <2>2. "FeatureApproval" \notin {"BudgetGate"}
      OBVIOUS
    <2>3. VoteTypes = {"BudgetGate"} \cup {"FeatureApproval"}
      BY DEF VoteTypes
    <2>4. QED
      BY <2>1, <2>2, <2>3, FS_AddElement, SMTT(60)
  <1>4. IsFiniteSet(S \X VoteTypes) /\ Cardinality(S \X VoteTypes) = Cardinality(S) * 2
    BY <1>2, <1>3, FS_Product, SMTT(60)
  <1>5. V \subseteq S \X VoteTypes
    OBVIOUS
  <1>6. Cardinality(V) <= Cardinality(S \X VoteTypes)
    BY <1>4, <1>5, FS_Subset
  <1>7. Cardinality(S) \in Nat
    BY <1>2, FS_CardinalityType
  <1> HIDE DEF S
  <1>8. Cardinality(V) <= 2 * Cardinality(S)
    BY <1>4, <1>6, <1>7
  <1>9. QED
    BY <1>8 DEF S

LEMMA BudgetInvInit == BudgetInit => BudgetInv
  <1> SUFFICES ASSUME BudgetInit PROVE BudgetInv
    OBVIOUS
  <1>1. \A g \in Gates : Cast(g, TRUE) = {} /\ Cast(g, FALSE) = {}
    BY BudgetAssumption DEF BudgetInit, Cast
  <1>2. VotesAreRecords
    BY <1>1, FS_EmptySet DEF BudgetInit, VotesAreRecords
  <1>3. VotersWereStewards
    BY <1>1 DEF VotersWereStewards
  <1>4. BudgetTypeOK
    BY DEF BudgetInit, BudgetTypeOK
  <1>5. QED
    BY <1>2, <1>3, <1>4 DEF BudgetInit, BudgetInv, StatusFollowsVotes, ProfilesAreExecuted

\* A step that leaves the ballots and the proposals alone, and forgets no steward.
LEMMA StewardStep ==
  ASSUME BudgetInv, UNCHANGED <<budget, ballot, profiles>>, BudgetTypeOK',
         \A s \in Stewards : steward[s] # None => steward'[s] # None
  PROVE  BudgetInv'
  <1>1. \A g \in Gates : Cast(g, TRUE)' = Cast(g, TRUE) /\ Cast(g, FALSE)' = Cast(g, FALSE)
    BY DEF Cast
  <1>2. VotesAreRecords'
    BY <1>1 DEF BudgetInv, VotesAreRecords
  <1>3. VotersWereStewards'
    BY <1>1 DEF BudgetInv, VotersWereStewards, Cast
  <1>4. QED
    BY <1>2, <1>3 DEF BudgetInv, StatusFollowsVotes, ProfilesAreExecuted

\* What a vote makes of a proposal that is open.
LEMMA DecidedRow ==
  ASSUME NEW row \in BudgetGateProposal, NEW approve \in BOOLEAN, row.status = "Voting",
         row.yes < Quorum, row.no < Quorum
  PROVE  LET new == Decided(row, approve) IN
         /\ new \in BudgetGateProposal
         /\ approve => new.yes = row.yes + 1 /\ new.no = row.no
         /\ ~approve => new.yes = row.yes /\ new.no = row.no + 1
         /\ new.status \in {"Voting", "Approved", "Rejected"}
         /\ new.status = "Voting" => new.yes < Quorum /\ new.no < Quorum
         /\ new.status = "Approved" => new.yes = Quorum /\ new.no < Quorum
         /\ new.status = "Rejected" => new.no = Quorum /\ new.yes < Quorum
  <1>1. row.yes \in Nat /\ row.no \in Nat /\ Quorum \in Nat
    BY BudgetAssumption DEF BudgetGateProposal
  <1>2. CASE approve
    <2>1. PICK status : status = IF row.yes + 1 >= Quorum THEN "Approved" ELSE "Voting"
      OBVIOUS
    <2>2. Decided(row, approve) = [yes |-> row.yes + 1, no |-> row.no, status |-> status]
      BY <1>1, <1>2, <2>1 DEF Decided
    <2>3. /\ row.yes + 1 \in Nat /\ status \in {"Approved", "Voting"}
          /\ status = "Voting" => row.yes + 1 < Quorum
          /\ status = "Approved" => row.yes + 1 = Quorum
      BY <1>1, <2>1
    <2>4. PICK new : new = Decided(row, approve)
      OBVIOUS
    <2>5. /\ new \in BudgetGateProposal
          /\ new.yes = row.yes + 1 /\ new.no = row.no /\ new.status = status
      BY <1>1, <2>2, <2>3, <2>4 DEF BudgetGateProposal
    <2>6. QED
      BY <1>2, <2>3, <2>4, <2>5
  <1>3. CASE ~approve
    <2>1. PICK status : status = IF row.no + 1 >= Quorum THEN "Rejected" ELSE "Voting"
      OBVIOUS
    <2>2. Decided(row, approve) = [yes |-> row.yes, no |-> row.no + 1, status |-> status]
      BY <1>1, <1>3, <2>1 DEF Decided
    <2>3. /\ row.no + 1 \in Nat /\ status \in {"Rejected", "Voting"}
          /\ status = "Voting" => row.no + 1 < Quorum
          /\ status = "Rejected" => row.no + 1 = Quorum
      BY <1>1, <2>1
    <2>4. QED
      BY <1>1, <1>3, <2>2, <2>3 DEF BudgetGateProposal
  <1>4. QED
    BY <1>2, <1>3

\* A vote: one more record on one side of one proposal.
LEMMA cast_steward_voteInv ==
  ASSUME BudgetInv, NEW g \in Gates, NEW s \in Stewards, NEW type \in VoteTypes,
         NEW approve \in BOOLEAN, cast_steward_vote(g, s, type, approve)
  PROVE  BudgetInv'
  <1>1. /\ budget \in [Gates -> BudgetGateProposal \cup {None}]
        /\ ballot \in [Gates -> [Stewards \X VoteTypes -> {None, TRUE, FALSE}]]
        /\ steward[s] = "active" /\ budget[g] # None /\ budget[g].status = "Voting"
        /\ ballot[g][<<s, type>>] = None /\ UNCHANGED <<steward, profiles>>
        /\ ballot' = [ballot EXCEPT ![g][<<s, type>>] = approve]
    BY DEF BudgetInv, BudgetTypeOK, cast_steward_vote
  <1>2. PICK row \in BudgetGateProposal : row = budget[g]
    BY <1>1
  <1>3. row.yes < Quorum /\ row.no < Quorum /\ row.status = "Voting"
    BY <1>1, <1>2 DEF BudgetInv, StatusFollowsVotes
  <1>4. PICK new : new = Decided(row, approve)
    OBVIOUS
  <1>5. /\ new \in BudgetGateProposal
        /\ approve => new.yes = row.yes + 1 /\ new.no = row.no
        /\ ~approve => new.yes = row.yes /\ new.no = row.no + 1
        /\ new.status \in {"Voting", "Approved", "Rejected"}
        /\ new.status = "Voting" => new.yes < Quorum /\ new.no < Quorum
        /\ new.status = "Approved" => new.yes = Quorum /\ new.no < Quorum
        /\ new.status = "Rejected" => new.no = Quorum /\ new.yes < Quorum
    BY <1>3, <1>4, DecidedRow
  <1>6. budget' = [budget EXCEPT ![g] = new] /\ new # None
    BY <1>1, <1>2, <1>4, <1>5, NoneIsNoProposal DEF cast_steward_vote
  <1> DEFINE v == <<s, type>>
  <1>7. v \in Stewards \X VoteTypes
    OBVIOUS
  <1>8. /\ ballot' \in [Gates -> [Stewards \X VoteTypes -> {None, TRUE, FALSE}]]
        /\ ballot'[g][v] = approve /\ ballot[g][v] = None
        /\ \A u \in Stewards \X VoteTypes : u # v => ballot'[g][u] = ballot[g][u]
        /\ \A h \in Gates \ {g} : ballot'[h] = ballot[h]
    <2>1. [ballot[g] EXCEPT ![v] = approve] \in [Stewards \X VoteTypes -> {None, TRUE, FALSE}]
      <3>1. ballot[g] \in [Stewards \X VoteTypes -> {None, TRUE, FALSE}]
        BY <1>1
      <3>2. approve \in {None, TRUE, FALSE}
        OBVIOUS
      <3> HIDE DEF v
      <3>3. QED
        BY <1>7, <3>1, <3>2, Zenon
    <2>2. ballot' = [ballot EXCEPT ![g] = [ballot[g] EXCEPT ![v] = approve]]
      BY <1>1
    <2>3. ballot' \in [Gates -> [Stewards \X VoteTypes -> {None, TRUE, FALSE}]]
      BY <1>1, <2>1, <2>2, Zenon
    <2>4. ballot'[g] = [ballot[g] EXCEPT ![v] = approve] /\ \A h \in Gates \ {g} : ballot'[h] = ballot[h]
      BY <1>1, <2>2, Zenon
    <2>5. /\ [ballot[g] EXCEPT ![v] = approve][v] = approve
          /\ \A u \in Stewards \X VoteTypes : u # v => [ballot[g] EXCEPT ![v] = approve][u] = ballot[g][u]
      BY <1>1, <1>7, Zenon
    <2>6. QED
      BY <1>1, <2>3, <2>4, <2>5, Zenon
  <1> HIDE DEF v
  <1>9. /\ v \notin Cast(g, TRUE) /\ v \notin Cast(g, FALSE)
        /\ approve => Cast(g, TRUE)' = Cast(g, TRUE) \cup {v} /\ Cast(g, FALSE)' = Cast(g, FALSE)
        /\ ~approve => Cast(g, FALSE)' = Cast(g, FALSE) \cup {v} /\ Cast(g, TRUE)' = Cast(g, TRUE)
    BY <1>7, <1>8, BudgetAssumption, ZenonT(60) DEF Cast
  <1>10. \A h \in Gates \ {g} : Cast(h, TRUE)' = Cast(h, TRUE) /\ Cast(h, FALSE)' = Cast(h, FALSE)
    BY <1>8, Zenon DEF Cast
  <1>11. BudgetTypeOK'
    BY <1>1, <1>5, <1>6, <1>8, Zenon DEF BudgetInv, BudgetTypeOK
  <1>12. /\ IsFiniteSet(Cast(g, TRUE)) /\ IsFiniteSet(Cast(g, FALSE))
         /\ row.yes = Cardinality(Cast(g, TRUE)) /\ row.no = Cardinality(Cast(g, FALSE))
    BY <1>1, <1>2 DEF BudgetInv, VotesAreRecords
  <1>13. /\ IsFiniteSet(Cast(g, TRUE)') /\ IsFiniteSet(Cast(g, FALSE)')
         /\ new.yes = Cardinality(Cast(g, TRUE)') /\ new.no = Cardinality(Cast(g, FALSE)')
    <2>1. CASE approve
      <3>1. /\ Cast(g, TRUE)' = Cast(g, TRUE) \cup {v} /\ Cast(g, FALSE)' = Cast(g, FALSE)
            /\ new.yes = row.yes + 1 /\ new.no = row.no
        BY <1>5, <1>9, <2>1
      <3>2. /\ IsFiniteSet(Cast(g, TRUE) \cup {v})
            /\ Cardinality(Cast(g, TRUE) \cup {v}) = Cardinality(Cast(g, TRUE)) + 1
        BY <1>9, <1>12, FS_AddElement
      <3>3. QED
        BY <1>12, <3>1, <3>2
    <2>2. CASE ~approve
      <3>1. /\ Cast(g, FALSE)' = Cast(g, FALSE) \cup {v} /\ Cast(g, TRUE)' = Cast(g, TRUE)
            /\ new.no = row.no + 1 /\ new.yes = row.yes
        BY <1>5, <1>9, <2>2
      <3>2. /\ IsFiniteSet(Cast(g, FALSE) \cup {v})
            /\ Cardinality(Cast(g, FALSE) \cup {v}) = Cardinality(Cast(g, FALSE)) + 1
        BY <1>9, <1>12, FS_AddElement
      <3>3. QED
        BY <1>12, <3>1, <3>2
    <2>3. QED
      BY <2>1, <2>2
  <1>14. budget'[g] = new /\ \A h \in Gates \ {g} : budget'[h] = budget[h]
    BY <1>1, <1>6
  <1>15. VotesAreRecords'
    BY <1>6, <1>10, <1>13, <1>14 DEF BudgetInv, VotesAreRecords
  <1>16. StatusFollowsVotes'
    BY <1>5, <1>14 DEF BudgetInv, StatusFollowsVotes
  <1>17. VotersWereStewards'
    <2>1. ASSUME NEW h \in Gates, NEW u \in (Cast(h, TRUE) \cup Cast(h, FALSE))' PROVE steward[u[1]] # None
      <3>1. CASE u \in Cast(h, TRUE) \cup Cast(h, FALSE)
        BY <3>1 DEF BudgetInv, VotersWereStewards
      <3>2. CASE u = v
        <4>1. u[1] = s
          BY <3>2 DEF v
        <4>2. QED
          BY <1>1, <4>1, BudgetAssumption
      <3>3. QED
        BY <1>9, <1>10, <2>1, <3>1, <3>2
    <2>2. QED
      BY <1>1, <2>1 DEF VotersWereStewards
  <1>18. ProfilesAreExecuted'
    <2>1. g \notin profiles
      BY <1>1 DEF BudgetInv, ProfilesAreExecuted
    <2>2. QED
      BY <1>1, <1>14, <2>1 DEF BudgetInv, ProfilesAreExecuted, BudgetTypeOK
  <1>19. QED
    BY <1>11, <1>15, <1>16, <1>17, <1>18 DEF BudgetInv

LEMMA BudgetInvStep == BudgetInv /\ [BudgetNext]_budgetVars => BudgetInv'
  <1> SUFFICES ASSUME BudgetInv, [BudgetNext]_budgetVars PROVE BudgetInv'
    OBVIOUS
  <1>1. ASSUME NEW s \in Stewards, register_steward(s) PROVE BudgetInv'
    <2>1. UNCHANGED <<budget, ballot, profiles>> /\ steward' = [steward EXCEPT ![s] = "active"]
      BY <1>1 DEF register_steward
    <2>2. BudgetTypeOK'
      BY <2>1 DEF BudgetInv, BudgetTypeOK
    <2>3. \A t \in Stewards : steward[t] # None => steward'[t] # None
      BY <2>1, BudgetAssumption DEF BudgetInv, BudgetTypeOK
    <2>4. QED
      BY <2>1, <2>2, <2>3, StewardStep
  <1>2. ASSUME NEW s \in Stewards, remove_steward(s) PROVE BudgetInv'
    <2>1. UNCHANGED <<budget, ballot, profiles>> /\ steward' = [steward EXCEPT ![s] = "removed"]
      BY <1>2 DEF remove_steward
    <2>2. BudgetTypeOK'
      BY <2>1 DEF BudgetInv, BudgetTypeOK
    <2>3. \A t \in Stewards : steward[t] # None => steward'[t] # None
      BY <2>1, BudgetAssumption DEF BudgetInv, BudgetTypeOK
    <2>4. QED
      BY <2>1, <2>2, <2>3, StewardStep
  <1>3. ASSUME NEW g \in Gates, submit_budget_gate_proposal(g) PROVE BudgetInv'
    <2>1. PICK new : new = [yes |-> 0, no |-> 0, status |-> "Voting"]
      OBVIOUS
    <2>2. new \in BudgetGateProposal /\ new.yes = 0 /\ new.no = 0 /\ new.status = "Voting"
      BY <2>1 DEF BudgetGateProposal
    <2>3. /\ budget' = [budget EXCEPT ![g] = new] /\ budget[g] = None
          /\ UNCHANGED <<steward, ballot, profiles>>
      BY <1>3, <2>1 DEF submit_budget_gate_proposal
    <2>4. budget \in [Gates -> BudgetGateProposal \cup {None}]
      BY DEF BudgetInv, BudgetTypeOK
    <2>5. BudgetTypeOK'
      BY <2>2, <2>3, <2>4 DEF BudgetInv, BudgetTypeOK
    <2>6. \A h \in Gates : Cast(h, TRUE)' = Cast(h, TRUE) /\ Cast(h, FALSE)' = Cast(h, FALSE)
      BY <2>3 DEF Cast
    <2>7. Cast(g, TRUE) = {} /\ Cast(g, FALSE) = {}
      BY <2>3 DEF BudgetInv, VotesAreRecords
    <2>8. VotesAreRecords'
      BY <2>2, <2>3, <2>4, <2>6, <2>7, FS_EmptySet, ZenonT(60) DEF BudgetInv, VotesAreRecords
    <2>9. StatusFollowsVotes'
      BY <2>2, <2>3, <2>4, BudgetAssumption DEF BudgetInv, StatusFollowsVotes
    <2>10. VotersWereStewards'
      BY <2>3, <2>6 DEF BudgetInv, VotersWereStewards
    <2>11. ProfilesAreExecuted'
      BY <2>3, <2>4 DEF BudgetInv, ProfilesAreExecuted, BudgetTypeOK
    <2>12. QED
      BY <2>5, <2>8, <2>9, <2>10, <2>11 DEF BudgetInv
  <1>4. ASSUME NEW g \in Gates, NEW s \in Stewards, NEW type \in VoteTypes, NEW approve \in BOOLEAN,
               cast_steward_vote(g, s, type, approve)
        PROVE  BudgetInv'
    BY <1>4, cast_steward_voteInv
  <1>5. ASSUME NEW g \in Gates, execute_budget_profile_activation(g) PROVE BudgetInv'
    <2>1. budget \in [Gates -> BudgetGateProposal \cup {None}]
      BY DEF BudgetInv, BudgetTypeOK
    <2>2. PICK row \in BudgetGateProposal : row = budget[g] /\ row.status = "Approved"
      BY <1>5, <2>1 DEF execute_budget_profile_activation
    <2>3. PICK new : new = [row EXCEPT !.status = "Executed"]
      OBVIOUS
    <2>4. /\ new \in BudgetGateProposal /\ new # None
          /\ new.yes = row.yes /\ new.no = row.no /\ new.status = "Executed"
      BY <2>3, NoneIsNoProposal DEF BudgetGateProposal
    <2>5. /\ budget' = [budget EXCEPT ![g] = new] /\ UNCHANGED <<steward, ballot>>
          /\ profiles' = profiles \cup {g} /\ budget[g] # None
      BY <1>5, <2>2, <2>3 DEF execute_budget_profile_activation
    <2>6. BudgetTypeOK'
      BY <2>1, <2>4, <2>5 DEF BudgetInv, BudgetTypeOK
    <2>7. \A h \in Gates : Cast(h, TRUE)' = Cast(h, TRUE) /\ Cast(h, FALSE)' = Cast(h, FALSE)
      BY <2>5 DEF Cast
    <2>8. VotesAreRecords'
      BY <2>1, <2>2, <2>4, <2>5, <2>7 DEF BudgetInv, VotesAreRecords
    <2>9. StatusFollowsVotes'
      BY <2>1, <2>2, <2>4, <2>5 DEF BudgetInv, StatusFollowsVotes
    <2>10. VotersWereStewards'
      BY <2>5, <2>7 DEF BudgetInv, VotersWereStewards
    <2>11. ProfilesAreExecuted'
      BY <2>1, <2>4, <2>5 DEF BudgetInv, ProfilesAreExecuted, BudgetTypeOK
    <2>12. QED
      BY <2>6, <2>8, <2>9, <2>10, <2>11 DEF BudgetInv
  <1>6. CASE UNCHANGED budgetVars
    <2>1. BudgetTypeOK' /\ UNCHANGED <<steward, budget, ballot, profiles>>
      BY <1>6 DEF budgetVars, BudgetInv, BudgetTypeOK
    <2>2. QED
      BY <2>1, StewardStep
  <1>7. QED
    BY <1>1, <1>2, <1>3, <1>4, <1>5, <1>6 DEF BudgetNext

LEMMA BudgetInvHasQuorum == BudgetInv => DecisionHasQuorum
  <1> SUFFICES ASSUME BudgetInv PROVE DecisionHasQuorum
    OBVIOUS
  <1>1. ASSUME NEW g \in Gates, budget[g] # None, budget[g].status \in {"Approved", "Executed"}
        PROVE  2 * Cardinality({v[1] : v \in Cast(g, TRUE)}) >= Quorum
    <2>1. PICK V : V = Cast(g, TRUE)
      OBVIOUS
    <2>2. V \in SUBSET (Stewards \X VoteTypes) /\ IsFiniteSet(V) /\ Cardinality(V) = Quorum
      BY <1>1, <2>1 DEF Cast, BudgetInv, VotesAreRecords, StatusFollowsVotes
    <2>3. Cardinality(V) <= 2 * Cardinality({v[1] : v \in V})
      BY <2>2, TwoVotesEach
    <2>4. Quorum <= 2 * Cardinality({v[1] : v \in V})
      BY <2>2, <2>3
    <2>5. QED
      BY <2>1, <2>4
  <1>2. QED
    BY <1>1 DEF BudgetInv, VotesAreRecords, StatusFollowsVotes, VotersWereStewards,
                ProfilesAreExecuted, DecisionHasQuorum

\* Only a quorum of vote records of registered stewards decides, on one side, and at least
\* half of it are different stewards.
THEOREM QuorumDecides == BudgetSpec => [](BudgetTypeOK /\ DecisionHasQuorum)
  <1>1. BudgetInv => BudgetTypeOK /\ DecisionHasQuorum
    BY BudgetInvHasQuorum DEF BudgetInv
  <1>2. QED
    BY <1>1, BudgetInvInit, BudgetInvStep, PTL DEF BudgetSpec

-----------------------------------------------------------------------------
(* What the treasury pays. *)

LEMMA PaidForIsFinite ==
  ASSUME GovernanceTypeOK, NEW q, NEW t
  PROVE  IsFiniteSet(PaidFor(q, t)) /\ Cardinality(PaidFor(q, t)) \in Nat
  <1>1. DOMAIN payments = 1 .. Len(payments) /\ Len(payments) \in Nat
    BY DEF GovernanceTypeOK
  <1>2. IsFiniteSet(DOMAIN payments)
    BY <1>1, FS_Interval
  <1>3. PaidFor(q, t) \subseteq DOMAIN payments
    BY DEF PaidFor
  <1>4. QED
    BY <1>2, <1>3, FS_Subset, FS_CardinalityType

\* A payment is one more of its proposal and its stage, and none of any other.
LEMMA PaysEffect ==
  ASSUME GovernanceTypeOK, NEW p \in STRING, NEW stage \in Stages, NEW amount \in Nat,
         Pays(p, stage, amount)
  PROVE  /\ fund' = fund - amount /\ fund' \in Nat /\ payments' \in Seq(Payment)
         /\ DOMAIN payments' = DOMAIN payments \cup {Len(payments) + 1}
         /\ Len(payments) + 1 \notin DOMAIN payments
         /\ \A i \in DOMAIN payments : payments'[i] = payments[i]
         /\ payments'[Len(payments) + 1].proposal = p
         /\ payments'[Len(payments) + 1].amount = amount
         /\ PaidFor(p, stage)' = PaidFor(p, stage) \cup {Len(payments) + 1}
         /\ Len(payments) + 1 \notin PaidFor(p, stage)
         /\ \A q, t : q # p \/ t # stage => PaidFor(q, t)' = PaidFor(q, t)
  <1> DEFINE n == Len(payments) + 1
  <1>1. fund \in Nat /\ payments \in Seq(Payment)
    BY DEF GovernanceTypeOK
  <1>2. fund' = fund - amount /\ fund' \in Nat
    BY <1>1 DEF Pays
  <1>3. PICK new : new = [proposal |-> p, stage |-> stage, amount |-> amount]
    OBVIOUS
  <1>4. new \in Payment /\ new.proposal = p /\ new.stage = stage /\ new.amount = amount
    BY <1>3 DEF Payment
  <1>5. payments' = Append(payments, new)
    BY <1>3 DEF Pays
  <1>6. /\ payments' \in Seq(Payment) /\ DOMAIN payments' = DOMAIN payments \cup {n}
        /\ n \notin DOMAIN payments /\ payments'[n] = new
        /\ \A i \in DOMAIN payments : payments'[i] = payments[i]
    BY <1>1, <1>4, <1>5
  <1> HIDE DEF n
  <1>7. PaidFor(p, stage)' = PaidFor(p, stage) \cup {n} /\ n \notin PaidFor(p, stage)
    BY <1>4, <1>6 DEF PaidFor
  <1>8. \A q, t : q # p \/ t # stage => PaidFor(q, t)' = PaidFor(q, t)
    BY <1>4, <1>6 DEF PaidFor
  <1>9. QED
    BY <1>2, <1>4, <1>6, <1>7, <1>8 DEF n

-----------------------------------------------------------------------------
(* Research. *)

\* Milestones are reported one after the other, and research is completed with the last of at
\* least one.
MilestonesInOrder ==
  \A s \in Studies : study[s] # None =>
    /\ \A i \in Milestones(s) : study[s].milestone[i] <=> i <= study[s].current
    /\ study[s].status \in {"Completed", "Graduated"} =>
         Milestones(s) # {} /\ \A i \in Milestones(s) : study[s].milestone[i]

\* Payments are those that the status tells of.
PaymentsFollowStatus ==
  \A s \in Studies :
    /\ study[s] = None \/ study[s].status = "Pending" => PaidFor(s, "Stipend") = {}
    /\ study[s] # None /\ study[s].status # "Pending" => Cardinality(PaidFor(s, "Stipend")) = 1
    /\ study[s] = None \/ study[s].status # "Graduated" => PaidFor(s, "Bonus") = {}
    /\ study[s] # None /\ study[s].status = "Graduated" => Cardinality(PaidFor(s, "Bonus")) = 1

\* There are no proposals before there are parameters.
ParametersComeFirst == \A s \in Studies : study[s] # None => params # None

ResearchInv ==
  ResearchTypeOK /\ MilestonesInOrder /\ PaymentsFollowStatus /\ ParametersComeFirst

LEMMA ResearchInvInit == ResearchInit => ResearchInv
  <1> SUFFICES ASSUME ResearchInit PROVE ResearchInv
    OBVIOUS
  <1>1. ResearchTypeOK
    BY ChainAssumption, GovernanceAssumption
    DEF ResearchInit, GovernanceInit, ResearchTypeOK, GovernanceTypeOK, Times
  <1>2. \A s \in Studies : study[s] = None
    BY DEF ResearchInit
  <1>3. \A q, t : PaidFor(q, t) = {}
    BY DEF ResearchInit, GovernanceInit, PaidFor
  <1>4. QED
    BY <1>1, <1>2, <1>3
    DEF ResearchInv, MilestonesInOrder, PaymentsFollowStatus, ParametersComeFirst

\* The row of one proposal changes and the payments do not.
LEMMA StudyStep ==
  ASSUME ResearchInv, GovernanceTypeOK', UNCHANGED payments, NEW s \in Studies,
         NEW row \in ResearchProposal, study' = [study EXCEPT ![s] = row],
         \A i \in DOMAIN row.milestone : row.milestone[i] <=> i <= row.current,
         row.status = "Completed" => /\ DOMAIN row.milestone # {}
                                     /\ \A i \in DOMAIN row.milestone : row.milestone[i],
         row.status # "Graduated",
         row.status = "Pending" <=> study[s] = None \/ study[s].status = "Pending",
         study[s] # None => study[s].status # "Graduated",
         UNCHANGED params, params # None
  PROVE  ResearchInv'
  <1>1. study \in [Studies -> ResearchProposal \cup {None}]
    BY DEF ResearchInv, ResearchTypeOK
  <1>2. /\ study' \in [Studies -> ResearchProposal \cup {None}] /\ study'[s] = row
        /\ \A t \in Studies : t # s => study'[t] = study[t]
    BY <1>1
  <1>3. row # None
    BY NoneIsNoStudy
  <1>4. ResearchTypeOK'
    BY <1>2 DEF ResearchTypeOK
  <1>5. \A q, t : PaidFor(q, t)' = PaidFor(q, t)
    BY DEF PaidFor
  <1>6. MilestonesInOrder'
    BY <1>2, <1>3 DEF ResearchInv, MilestonesInOrder, Milestones
  <1>7. PaymentsFollowStatus'
    BY <1>2, <1>3, <1>5 DEF ResearchInv, PaymentsFollowStatus
  <1>8. QED
    BY <1>4, <1>6, <1>7 DEF ResearchInv, ParametersComeFirst

LEMMA submit_research_proposalInv ==
  ASSUME ResearchInv, NEW s \in Studies, NEW n \in MilestoneCounts, NEW room \in Completable,
         submit_research_proposal(s, n, room)
  PROVE  ResearchInv'
  <1>1. PICK row : row = [ status |-> "Pending", milestone |-> [i \in 1 .. n |-> FALSE],
                           current |-> 0, room |-> room ]
    OBVIOUS
  <1>2. n \in Nat
    BY ResearchAssumption
  <1>3. row \in ResearchProposal
    BY <1>1 DEF ResearchProposal
  <1>4. /\ row.status = "Pending" /\ row.current = 0 /\ DOMAIN row.milestone = 1 .. n
        /\ \A i \in DOMAIN row.milestone : row.milestone[i] = FALSE
    BY <1>1
  <1>5. \A i \in DOMAIN row.milestone : row.milestone[i] <=> i <= row.current
    BY <1>2, <1>4
  <1>6. /\ study[s] = None /\ study' = [study EXCEPT ![s] = row] /\ params # None
        /\ UNCHANGED <<now, params, fund, payments>>
    BY <1>1 DEF submit_research_proposal, governanceVars
  <1>7. GovernanceTypeOK'
    BY <1>6 DEF ResearchInv, ResearchTypeOK, GovernanceTypeOK
  <1>8. QED
    BY <1>3, <1>4, <1>5, <1>6, <1>7, StudyStep

LEMMA report_research_milestoneInv ==
  ASSUME ResearchInv, NEW s \in Studies, NEW i, report_research_milestone(s, i)
  PROVE  ResearchInv'
  <1>1. /\ study[s] # None /\ study[s].status = "Active" /\ i \in Milestones(s)
        /\ i = study[s].current + 1 /\ params # None
        /\ UNCHANGED <<now, params, fund, payments>>
    BY DEF report_research_milestone, StudyIs, governanceVars, ResearchInv, ParametersComeFirst
  <1>2. study[s] \in ResearchProposal
    BY <1>1 DEF ResearchInv, ResearchTypeOK
  <1>3. PICK n \in MilestoneCounts : study[s].milestone \in [1 .. n -> BOOLEAN]
    BY <1>2 DEF ResearchProposal
  <1>4. /\ n \in Nat /\ i \in 1 .. n /\ study[s].current \in Nat /\ study[s].room \in Completable
        /\ DOMAIN study[s].milestone = 1 .. n
    BY <1>1, <1>2, <1>3, ResearchAssumption DEF ResearchProposal, Milestones
  <1>5. Cardinality(Milestones(s)) = n
    <2>1. Milestones(s) = 1 .. n
      BY <1>4 DEF Milestones
    <2>2. Cardinality(1 .. n) = IF 1 > n THEN 0 ELSE n - 1 + 1
      BY <1>4, FS_Interval
    <2>3. QED
      BY <1>4, <2>1, <2>2
  <1>6. PICK status : status = IF i >= n THEN "Completed" ELSE "Active"
    OBVIOUS
  <1>7. PICK milestone : milestone = [study[s].milestone EXCEPT ![i] = TRUE]
    OBVIOUS
  <1>8. /\ milestone \in [1 .. n -> BOOLEAN] /\ milestone[i] = TRUE
        /\ \A j \in 1 .. n : j # i => milestone[j] = study[s].milestone[j]
    BY <1>3, <1>4, <1>7
  <1>9. PICK row : row = [ status |-> status, milestone |-> milestone, current |-> i,
                           room |-> study[s].room ]
    OBVIOUS
  <1>10. study' = [study EXCEPT ![s] = row]
    BY <1>1, <1>5, <1>6, <1>7, <1>9 DEF report_research_milestone
  <1>11. row \in ResearchProposal
    <2>1. milestone \in UNION {[1 .. m -> BOOLEAN] : m \in MilestoneCounts}
      BY <1>8
    <2>2. status \in {"Pending", "Active", "Completed", "Graduated"} /\ i \in Nat
      BY <1>4, <1>6
    <2>3. QED
      BY <1>4, <1>9, <2>1, <2>2 DEF ResearchProposal
  <1>12. /\ row.milestone = milestone /\ row.current = i /\ row.status = status
         /\ DOMAIN row.milestone = 1 .. n
    BY <1>8, <1>9
  <1>13. ASSUME NEW j \in 1 .. n
         PROVE  milestone[j] <=> j <= i
    <2>1. study[s].milestone[j] <=> j <= study[s].current
      BY <1>1, <1>4 DEF ResearchInv, MilestonesInOrder, Milestones
    <2>2. CASE j = i
      BY <1>4, <1>8, <2>2
    <2>3. CASE j # i
      <3>1. j <= i <=> j <= study[s].current
        BY <1>1, <1>4, <2>3
      <3>2. QED
        BY <1>8, <2>1, <2>3, <3>1
    <2>4. QED
      BY <2>2, <2>3
  <1>14. status = "Completed" => \A j \in 1 .. n : j <= i
    BY <1>4, <1>6
  <1>15. GovernanceTypeOK'
    BY <1>1 DEF ResearchInv, ResearchTypeOK, GovernanceTypeOK
  <1>16. status \notin {"Graduated", "Pending"}
    BY <1>6
  <1>17. DOMAIN row.milestone # {}
    BY <1>4, <1>12
  <1>18. /\ \A j \in DOMAIN row.milestone : row.milestone[j] <=> j <= row.current
         /\ row.status = "Completed" => \A j \in DOMAIN row.milestone : row.milestone[j]
    BY <1>12, <1>13, <1>14
  <1>19. QED
    BY <1>1, <1>10, <1>11, <1>12, <1>15, <1>16, <1>17, <1>18, StudyStep

\* A payment moves a proposal to the next status.
LEMMA PaidStudyStep ==
  ASSUME ResearchInv, NEW s \in Studies, study[s] # None, NEW stage \in {"Stipend", "Bonus"},
         NEW status \in {"Active", "Graduated"}, NEW amount \in Nat, Pays(s, stage, amount),
         study' = [study EXCEPT ![s].status = status], UNCHANGED <<now, params>>,
         stage = "Stipend" => status = "Active" /\ study[s].status = "Pending",
         stage = "Bonus" => status = "Graduated" /\ study[s].status = "Completed"
  PROVE  ResearchInv'
  <1>1. study \in [Studies -> ResearchProposal \cup {None}] /\ GovernanceTypeOK
    BY DEF ResearchInv, ResearchTypeOK
  <1>2. PICK row : row = [study[s] EXCEPT !.status = status]
    OBVIOUS
  <1>3. /\ row \in ResearchProposal /\ row.status = status
        /\ row.milestone = study[s].milestone /\ row.current = study[s].current
    <2>1. study[s] \in ResearchProposal
      BY <1>1
    <2>2. QED
      BY <1>2, <2>1 DEF ResearchProposal
  <1>4. study' = [study EXCEPT ![s] = row]
    BY <1>2
  <1>5. /\ study' \in [Studies -> ResearchProposal \cup {None}] /\ study'[s] = row
        /\ \A t \in Studies : t # s => study'[t] = study[t]
    BY <1>1, <1>3, <1>4
  <1>6. row # None
    BY <1>3, NoneIsNoStudy
  <1>7. s \in STRING /\ stage \in Stages
    BY ResearchAssumption DEF Stages
  <1>8. /\ fund' \in Nat /\ payments' \in Seq(Payment)
        /\ PaidFor(s, stage)' = PaidFor(s, stage) \cup {Len(payments) + 1}
        /\ Len(payments) + 1 \notin PaidFor(s, stage)
        /\ \A q, t : q # s \/ t # stage => PaidFor(q, t)' = PaidFor(q, t)
    BY <1>1, <1>7, PaysEffect
  <1>9. ResearchTypeOK'
    BY <1>1, <1>5, <1>8 DEF ResearchTypeOK, GovernanceTypeOK
  <1>10. MilestonesInOrder'
    BY <1>3, <1>5, <1>6 DEF ResearchInv, MilestonesInOrder, Milestones
  <1>11. PaidFor(s, stage) = {}
    BY DEF ResearchInv, PaymentsFollowStatus
  <1>12. Cardinality(PaidFor(s, stage)') = 1
    <2>1. PaidFor(s, stage)' = {Len(payments) + 1}
      BY <1>8, <1>11
    <2>2. QED
      BY <2>1, FS_Singleton
  <1>13. PaymentsFollowStatus'
    <2>1. ASSUME NEW t \in Studies, t # s
          PROVE  /\ PaidFor(t, "Stipend")' = PaidFor(t, "Stipend")
                 /\ PaidFor(t, "Bonus")' = PaidFor(t, "Bonus")
                 /\ study'[t] = study[t]
      BY <1>5, <1>8, <2>1
    <2>2. CASE stage = "Stipend"
      <3>1. study'[s] # None /\ study'[s].status = "Active" /\ PaidFor(s, "Bonus")' = {}
        BY <1>3, <1>5, <1>6, <1>8, <2>2 DEF ResearchInv, PaymentsFollowStatus
      <3>2. QED
        BY <1>12, <2>1, <2>2, <3>1 DEF ResearchInv, PaymentsFollowStatus
    <2>3. CASE stage = "Bonus"
      <3>1. /\ study'[s] # None /\ study'[s].status = "Graduated"
            /\ Cardinality(PaidFor(s, "Stipend")') = 1
        BY <1>3, <1>5, <1>6, <1>8, <2>3 DEF ResearchInv, PaymentsFollowStatus
      <3>2. QED
        BY <1>12, <2>1, <2>3, <3>1 DEF ResearchInv, PaymentsFollowStatus
    <2>4. QED
      BY <2>2, <2>3
  <1>14. QED
    BY <1>5, <1>9, <1>10, <1>13 DEF ResearchInv, ParametersComeFirst

LEMMA ParamsType ==
  ASSUME GovernanceTypeOK, params # None
  PROVE  /\ \A g \in GateTypes : params.threshold[g] \in Nat
         /\ params.completion \in Nat /\ params.ab \in Nat /\ params.merge \in Nat
         /\ params.stipend \in Nat /\ params.success \in Nat
  BY GovernanceAssumption DEF GovernanceTypeOK

LEMMA governType ==
  ASSUME GovernanceTypeOK, govern
  PROVE  GovernanceTypeOK' /\ UNCHANGED <<fund, payments>> /\ (params # None => params' # None)
  <1>1. CASE \E p \in ParamSets : initialize_governance(p) \/ update_governance_params(p)
    BY <1>1, GovernanceAssumption
    DEF initialize_governance, update_governance_params, GovernanceTypeOK
  <1>2. CASE passes /\ UNCHANGED <<params, fund, payments>>
    BY <1>2, ChainAssumption DEF passes, GovernanceTypeOK, Times
  <1>3. QED
    BY <1>1, <1>2 DEF govern

LEMMA ResearchStep == ResearchInv /\ [ResearchNext]_researchVars => ResearchInv'
  <1> SUFFICES ASSUME ResearchInv, [ResearchNext]_researchVars PROVE ResearchInv'
    OBVIOUS
  <1>1. ASSUME NEW s \in Studies, NEW n \in MilestoneCounts, NEW room \in Completable,
               submit_research_proposal(s, n, room)
        PROVE  ResearchInv'
    BY <1>1, submit_research_proposalInv
  <1>2. ASSUME NEW s \in Studies, approve_research(s) PROVE ResearchInv'
    <2>1. /\ study[s] # None /\ study[s].status = "Pending"
          /\ Pays(s, "Stipend", PartOf(Stipend, params.stipend))
          /\ study' = [study EXCEPT ![s].status = "Active"] /\ UNCHANGED <<now, params>>
      BY <1>2 DEF approve_research, StudyIs
    <2>2. PICK amount : amount = PartOf(Stipend, params.stipend)
      OBVIOUS
    <2>3. amount \in Nat
      BY <2>1, <2>2, ParamsType, PartOfType, ResearchAssumption
      DEF ResearchInv, ResearchTypeOK, ParametersComeFirst
    <2>4. QED
      BY <2>1, <2>2, <2>3, PaidStudyStep
  <1>3. ASSUME NEW s \in Studies, NEW i, report_research_milestone(s, i) PROVE ResearchInv'
    BY <1>3, report_research_milestoneInv
  <1>4. ASSUME NEW s \in Studies, graduate_research(s) PROVE ResearchInv'
    <2>1. /\ study[s] # None /\ study[s].status = "Completed"
          /\ Pays(s, "Bonus", PartOf(Stipend, params.success))
          /\ study' = [study EXCEPT ![s].status = "Graduated"] /\ UNCHANGED <<now, params>>
      BY <1>4 DEF graduate_research, StudyIs
    <2>2. PICK amount : amount = PartOf(Stipend, params.success)
      OBVIOUS
    <2>3. amount \in Nat
      BY <2>1, <2>2, ParamsType, PartOfType, ResearchAssumption
      DEF ResearchInv, ResearchTypeOK, ParametersComeFirst
    <2>4. QED
      BY <2>1, <2>2, <2>3, PaidStudyStep
  <1>5. ASSUME GovernanceTypeOK', UNCHANGED <<payments, study>>, params # None => params' # None
        PROVE  ResearchInv'
    <2>1. \A q, t : PaidFor(q, t)' = PaidFor(q, t)
      BY <1>5 DEF PaidFor
    <2>2. QED
      BY <1>5, <2>1 DEF ResearchInv, ResearchTypeOK, MilestonesInOrder, Milestones,
                        PaymentsFollowStatus, ParametersComeFirst
  <1>6. CASE govern /\ UNCHANGED study
    BY <1>5, <1>6, governType DEF ResearchInv, ResearchTypeOK
  <1>7. CASE UNCHANGED researchVars
    BY <1>5, <1>7
    DEF researchVars, governanceVars, ResearchInv, ResearchTypeOK, GovernanceTypeOK
  <1>8. QED
    BY <1>1, <1>2, <1>3, <1>4, <1>6, <1>7 DEF ResearchNext

\* The bonus of a study is paid once, after its stipend, and only when every one of its
\* milestones, at least one, was reported in order (approve_research, report_research_milestone
\* and graduate_research, whatever the authority does to the parameters).
THEOREM BonusFollowsResearch == ResearchSpec => []BonusIsEarned
  <1>1. ResearchInv => BonusIsEarned
    <2> SUFFICES ASSUME ResearchInv, NEW s \in Studies, study[s] # None
                 PROVE  /\ \A i \in Milestones(s) : study[s].milestone[i] <=> i <= study[s].current
                        /\ Cardinality(PaidFor(s, "Stipend")) = IF study[s].status = "Pending" THEN 0 ELSE 1
                        /\ Cardinality(PaidFor(s, "Bonus")) = IF study[s].status = "Graduated" THEN 1 ELSE 0
                        /\ PaidFor(s, "Bonus") # {} =>
                             Milestones(s) # {} /\ \A i \in Milestones(s) : study[s].milestone[i]
      BY DEF BonusIsEarned
    <2>1. Cardinality({}) = 0
      BY FS_EmptySet
    <2>2. /\ study[s].status = "Pending" => Cardinality(PaidFor(s, "Stipend")) = 0
          /\ study[s].status # "Pending" => Cardinality(PaidFor(s, "Stipend")) = 1
          /\ study[s].status # "Graduated" => Cardinality(PaidFor(s, "Bonus")) = 0
          /\ study[s].status = "Graduated" => Cardinality(PaidFor(s, "Bonus")) = 1
          /\ PaidFor(s, "Bonus") # {} => study[s].status = "Graduated"
      BY <2>1 DEF ResearchInv, PaymentsFollowStatus
    <2>3. QED
      BY <2>2 DEF ResearchInv, MilestonesInOrder
  <1>2. QED
    BY <1>1, ResearchInvInit, ResearchStep, PTL DEF ResearchSpec

-----------------------------------------------------------------------------
(* Features: what the instructions make of a proposal. *)

Claimed(p, g) == feature[p].gate[g] # None /\ feature[p].gate[g].claimed

LEMMA FeatureRow ==
  ASSUME FeaturesTypeOK, NEW p \in Proposals, feature[p] # None
  PROVE  feature[p] \in FeatureProposal
  BY DEF FeaturesTypeOK

\* A row that takes the place of another.
LEMMA NewRow ==
  ASSUME FeaturesTypeOK, NEW p \in Proposals, NEW row \in FeatureProposal,
         feature' = [feature EXCEPT ![p] = row]
  PROVE  /\ feature' \in [Proposals -> FeatureProposal \cup {None}]
         /\ feature'[p] = row /\ row # None
         /\ \A q \in Proposals : q # p => feature'[q] = feature[q]
  BY NoneIsNoFeature DEF FeaturesTypeOK

LEMMA update_proposal_statusRow ==
  ASSUME FeaturesTypeOK, NEW p \in Proposals, NEW status \in ProposalStatus,
         update_proposal_status(p, status)
  PROVE  \E row \in FeatureProposal :
           /\ feature' = [feature EXCEPT ![p] = row]
           /\ row.status = status /\ row.gate = feature[p].gate
           /\ row.votes = feature[p].votes /\ row.proposer = feature[p].proposer
  <1>1. feature[p] # None /\ feature[p] \in FeatureProposal
    BY FeatureRow DEF update_proposal_status
  <1>2. PICK mid : mid = [feature[p] EXCEPT !.status = status]
    OBVIOUS
  <1>3. /\ mid \in FeatureProposal /\ mid.status = status /\ mid.gate = feature[p].gate
        /\ mid.votes = feature[p].votes /\ mid.proposer = feature[p].proposer
    BY <1>1, <1>2 DEF FeatureProposal
  <1>4. PICK completed \in BOOLEAN : completed = (mid.completed \/ status = "AwaitingGates")
    OBVIOUS
  <1>5. PICK row : row = [mid EXCEPT !.completed = completed]
    OBVIOUS
  <1>6. /\ row \in FeatureProposal /\ row.status = status /\ row.gate = feature[p].gate
        /\ row.votes = feature[p].votes /\ row.proposer = feature[p].proposer
    BY <1>3, <1>5 DEF FeatureProposal
  <1>7. feature' = [feature EXCEPT ![p] = row]
    <2>1. feature' = [feature EXCEPT ![p].status = status,
                                     ![p].completed = @ \/ status = "AwaitingGates"]
      BY DEF update_proposal_status
    <2>2. PICK first : first = [feature EXCEPT ![p].status = status]
      OBVIOUS
    <2>3. feature' = [first EXCEPT ![p].completed = @ \/ status = "AwaitingGates"]
      BY <2>1, <2>2
    <2>4. first[p] = mid /\ first = [feature EXCEPT ![p] = mid]
      BY <1>2, <2>2 DEF FeaturesTypeOK
    <2>5. feature' = [first EXCEPT ![p] = row]
      BY <1>4, <1>5, <2>3, <2>4, Zenon
    <2>6. feature \in [Proposals -> FeatureProposal \cup {None}]
      BY DEF FeaturesTypeOK
    <2>7. QED
      BY <2>4, <2>5, <2>6
  <1>8. QED
    BY <1>6, <1>7

LEMMA ReportsRow ==
  ASSUME FeaturesTypeOK, NEW p \in Proposals, NEW g \in GateTypes, NEW score, Reports(p, g, score)
  PROVE  \E row \in FeatureProposal :
           /\ feature' = [feature EXCEPT ![p] = row]
           /\ row.gate[g] # None /\ ~row.gate[g].claimed
           /\ \A h \in GateTypes : h # g => row.gate[h] = feature[p].gate[h]
           /\ row.status = feature[p].status
           /\ row.votes = feature[p].votes /\ row.proposer = feature[p].proposer
  <1>1. feature[p] # None
    BY DEF Reports, HasStatus
  <1>2. PICK result : result = Outcome(g, score)
    OBVIOUS
  <1>3. result \in GateResult /\ ~result.claimed
    <2>1. CASE score >= params.threshold[g]
      <3>1. (score >= params.threshold[g]) = TRUE
        BY <2>1
      <3>2. result = [passed |-> TRUE, claimed |-> FALSE]
        BY <1>2, <3>1, Zenon DEF Outcome
      <3>3. QED
        BY <3>2, Zenon DEF GateResult
    <2>2. CASE ~(score >= params.threshold[g])
      <3>1. (score >= params.threshold[g]) = FALSE
        BY <2>2
      <3>2. result = [passed |-> FALSE, claimed |-> FALSE]
        BY <1>2, <3>1, Zenon DEF Outcome
      <3>3. QED
        BY <3>2, Zenon DEF GateResult
    <2>3. QED
      BY <2>1, <2>2
  <1>4. result # None
    BY <1>3, NoneIsNoFeature, Zenon
  <1>5. feature' = [feature EXCEPT ![p].gate[g] = result]
    BY <1>2 DEF Reports
  <1>6. feature[p] \in FeatureProposal
    BY <1>1, FeatureRow
  <1>7. PICK gate : gate = [feature[p].gate EXCEPT ![g] = result]
    OBVIOUS
  <1>8. feature[p].gate \in [GateTypes -> GateResult \cup {None}]
    BY <1>6 DEF FeatureProposal
  <1>9. /\ gate \in [GateTypes -> GateResult \cup {None}] /\ gate[g] = result
        /\ \A h \in GateTypes : h # g => gate[h] = feature[p].gate[h]
    BY <1>3, <1>7, <1>8
  <1>10. PICK row : row = [feature[p] EXCEPT !.gate = gate]
    OBVIOUS
  <1>11. /\ row \in FeatureProposal /\ row.gate = gate /\ row.status = feature[p].status
         /\ row.votes = feature[p].votes /\ row.proposer = feature[p].proposer
    BY <1>6, <1>9, <1>10 DEF FeatureProposal
  <1>12. feature' = [feature EXCEPT ![p] = row]
    BY <1>5, <1>7, <1>10
  <1>13. row.gate[g] # None /\ ~row.gate[g].claimed
    BY <1>3, <1>4, <1>9, <1>11, Zenon
  <1>14. QED
    BY <1>9, <1>11, <1>12, <1>13

LEMMA claim_bounty_rewardRow ==
  ASSUME FeaturesTypeOK, NEW p \in Proposals, NEW g \in GateTypes, claim_bounty_reward(p, g)
  PROVE  \E row \in FeatureProposal :
           /\ feature' = [feature EXCEPT ![p] = row]
           /\ row.gate[g] # None /\ row.gate[g].claimed
           /\ row.gate[g].passed = feature[p].gate[g].passed
           /\ \A h \in GateTypes : h # g => row.gate[h] = feature[p].gate[h]
           /\ row.status \in {"AwaitingGates", "RewardsDistribution"}
           /\ row.votes = feature[p].votes /\ row.proposer = feature[p].proposer
  <1>1. /\ feature[p] # None /\ feature[p].status \in {"AwaitingGates", "RewardsDistribution"}
        /\ feature[p].gate[g] # None /\ feature[p] \in FeatureProposal
    BY FeatureRow DEF claim_bounty_reward, HasStatus, Passed
  <1>2. feature[p].gate[g] \in GateResult
    BY <1>1 DEF FeatureProposal
  <1>3. PICK result : result = [feature[p].gate[g] EXCEPT !.claimed = TRUE]
    OBVIOUS
  <1>4. /\ result \in GateResult /\ result.claimed /\ result # None
        /\ result.passed = feature[p].gate[g].passed
    BY <1>2, <1>3, NoneIsNoFeature DEF GateResult
  <1>5. PICK gate : gate = [feature[p].gate EXCEPT ![g] = result]
    OBVIOUS
  <1>6. feature[p].gate \in [GateTypes -> GateResult \cup {None}]
    BY <1>1 DEF FeatureProposal
  <1>7. /\ gate \in [GateTypes -> GateResult \cup {None}] /\ gate[g] = result
        /\ \A h \in GateTypes : h # g => gate[h] = feature[p].gate[h]
    BY <1>4, <1>5, <1>6
  <1>8. PICK mid : mid = [feature[p] EXCEPT !.gate = gate]
    OBVIOUS
  <1>9. /\ mid \in FeatureProposal /\ mid.gate = gate /\ mid.status = feature[p].status
        /\ mid.votes = feature[p].votes /\ mid.proposer = feature[p].proposer
    BY <1>1, <1>7, <1>8 DEF FeatureProposal
  <1>10. PICK status : status = IF g = "Benchmark" THEN "RewardsDistribution" ELSE mid.status
    OBVIOUS
  <1>11. status \in {"AwaitingGates", "RewardsDistribution"}
    BY <1>1, <1>9, <1>10
  <1>12. PICK row : row = [mid EXCEPT !.status = status]
    OBVIOUS
  <1>13. /\ row \in FeatureProposal /\ row.gate = gate /\ row.status = status
         /\ row.votes = feature[p].votes /\ row.proposer = feature[p].proposer
    BY <1>9, <1>11, <1>12 DEF FeatureProposal, ProposalStatus
  <1>14. feature' = [feature EXCEPT ![p] = row]
    <2>1. feature' = [feature EXCEPT ![p].gate[g].claimed = TRUE,
                        ![p].status = IF g = "Benchmark" THEN "RewardsDistribution" ELSE @]
      BY DEF claim_bounty_reward
    <2>2. PICK first : first = [feature EXCEPT ![p].gate[g].claimed = TRUE]
      OBVIOUS
    <2>3. feature' = [first EXCEPT ![p].status = IF g = "Benchmark" THEN "RewardsDistribution" ELSE @]
      BY <2>1, <2>2
    <2>4. first[p] = mid /\ first = [feature EXCEPT ![p] = mid]
      BY <1>3, <1>5, <1>8, <2>2 DEF FeaturesTypeOK
    <2>5. feature' = [first EXCEPT ![p] = row]
      BY <1>10, <1>12, <2>3, <2>4, Zenon
    <2>6. feature \in [Proposals -> FeatureProposal \cup {None}]
      BY DEF FeaturesTypeOK
    <2>7. QED
      BY <2>4, <2>5, <2>6
  <1>15. QED
    BY <1>4, <1>7, <1>11, <1>13, <1>14

LEMMA finalize_rewardsRow ==
  ASSUME FeaturesTypeOK, NEW p \in Proposals, finalize_rewards(p)
  PROVE  \E row \in FeatureProposal :
           /\ feature' = [feature EXCEPT ![p] = row]
           /\ row.gate = feature[p].gate /\ row.status = "Finalized"
           /\ row.votes = feature[p].votes /\ row.proposer = feature[p].proposer
  <1>1. feature[p] # None /\ feature[p] \in FeatureProposal
    BY FeatureRow DEF finalize_rewards, HasStatus
  <1>2. PICK row : row = [feature[p] EXCEPT !.status = "Finalized"]
    OBVIOUS
  <1>3. /\ row \in FeatureProposal /\ row.gate = feature[p].gate /\ row.status = "Finalized"
        /\ row.votes = feature[p].votes /\ row.proposer = feature[p].proposer
    BY <1>1, <1>2 DEF FeatureProposal, ProposalStatus
  <1>4. feature' = [feature EXCEPT ![p] = row]
    BY <1>2 DEF finalize_rewards
  <1>5. QED
    BY <1>3, <1>4

LEMMA vote_for_featureRow ==
  ASSUME FeaturesTypeOK, NEW p \in Proposals, NEW u \in Users, NEW amount \in VoteAmounts,
         vote_for_feature(p, u, amount)
  PROVE  \E row \in FeatureProposal :
           /\ feature' = [feature EXCEPT ![p] = row]
           /\ row.gate = feature[p].gate /\ row.status = feature[p].status
           /\ row.votes = feature[p].votes + amount /\ row.proposer = feature[p].proposer
  <1>1. feature[p] # None /\ feature[p] \in FeatureProposal
    BY FeatureRow DEF vote_for_feature, HasStatus
  <1>2. PICK votes : votes = feature[p].votes + amount
    OBVIOUS
  <1>3. votes \in Nat
    BY <1>1, <1>2, FeaturesAssumption DEF FeatureProposal
  <1>4. PICK row : row = [feature[p] EXCEPT !.votes = votes]
    OBVIOUS
  <1>5. /\ row \in FeatureProposal /\ row.gate = feature[p].gate
        /\ row.status = feature[p].status
        /\ row.votes = votes /\ row.proposer = feature[p].proposer
    BY <1>1, <1>3, <1>4 DEF FeatureProposal
  <1>6. feature' = [feature EXCEPT ![p] = row]
    BY <1>2, <1>4 DEF vote_for_feature
  <1>7. QED
    BY <1>2, <1>5, <1>6

-----------------------------------------------------------------------------
(* Features: votes, payments, and the tokens of the treasury. *)

\* The weight of a proposal is what its voters voted, and there are none before it is there.
VotesFollowRecords ==
  \A p \in Proposals :
    /\ feature[p] = None => \A u \in Users : vote[p][u] = None
    /\ feature[p] # None => /\ feature[p].votes = Total(vote[p], Voters(p))
                            /\ vote[p][feature[p].proposer] = None

\* A stage is paid with the mark on its gate, and the last one with the end of the proposal.
StagesFollowGates ==
  \A p \in Proposals :
    /\ feature[p] = None => \A stage \in Stages : PaidFor(p, stage) = {}
    /\ feature[p] # None =>
         /\ params # None
         /\ \A g \in GateTypes :
              /\ ~Claimed(p, g) => PaidFor(p, g) = {}
              /\ Claimed(p, g) => /\ Cardinality(PaidFor(p, g)) = 1
                                  /\ Passed(p, "Benchmark") /\ Passed(p, g)
         /\ Cardinality(PaidFor(p, "Merge")) <= 1
         /\ PaidFor(p, "Merge") # {} => /\ feature[p].status \in {"Finalized", "Cancelled"}
                                        /\ \A g \in GateTypes : Passed(p, g)

Amounts == [i \in DOMAIN payments |-> payments[i].amount]

FundIsShort == fund + Total(Amounts, DOMAIN payments) = Treasury0

FeaturesInv == FeaturesTypeOK /\ VotesFollowRecords /\ StagesFollowGates /\ FundIsShort

LEMMA FundStaysShort ==
  ASSUME GovernanceTypeOK, FundIsShort, NEW p \in STRING, NEW stage \in Stages,
         NEW amount \in Nat, Pays(p, stage, amount)
  PROVE  FundIsShort'
  <1>1. /\ fund' = fund - amount /\ fund \in Nat
        /\ payments \in Seq(Payment) /\ payments' \in Seq(Payment)
        /\ DOMAIN payments' = DOMAIN payments \cup {Len(payments) + 1}
        /\ Len(payments) + 1 \notin DOMAIN payments
        /\ \A i \in DOMAIN payments : payments'[i] = payments[i]
        /\ payments'[Len(payments) + 1].amount = amount
    BY PaysEffect DEF GovernanceTypeOK
  <1>2. PICK n : n = Len(payments) + 1
    OBVIOUS
  <1>3. PICK D : D = DOMAIN payments
    OBVIOUS
  <1>4. IsFiniteSet(D)
    <2>1. D = 1 .. Len(payments) /\ Len(payments) \in Nat
      BY <1>1, <1>3
    <2>2. QED
      BY <2>1, FS_Interval
  <1>5. PICK before : before = Amounts
    OBVIOUS
  <1>6. PICK after : after = Amounts'
    OBVIOUS
  <1>7. DOMAIN payments' = D \cup {n} /\ n \notin D
    BY <1>1, <1>2, <1>3
  <1>8. \A i \in D : after[i] = before[i] /\ before[i] \in Nat
    <2>1. ASSUME NEW i \in D
          PROVE  after[i] = before[i] /\ before[i] \in Nat
      <3>1. i \in DOMAIN payments' /\ i \in DOMAIN payments
        BY <1>3, <1>7
      <3>2. after[i] = payments'[i].amount /\ before[i] = payments[i].amount
        BY <1>5, <1>6, <3>1 DEF Amounts
      <3>3. payments[i] \in Payment
        BY <1>1, <3>1
      <3>4. QED
        BY <1>1, <3>1, <3>2, <3>3 DEF Payment
    <2>2. QED
      BY <2>1
  <1>9. after[n] = amount
    BY <1>1, <1>2, <1>6, <1>7 DEF Amounts
  <1>10. Total(after, D \cup {n}) = Total(after, D) + amount
    BY <1>4, <1>7, <1>8, <1>9, TotalOneMore
  <1>11. Total(after, D) = Total(before, D)
    BY <1>8, TotalSame
  <1>12. Total(before, D) \in Nat
    BY <1>4, <1>8, TotalType
  <1>13. fund + Total(before, D) = Treasury0
    BY <1>3, <1>5 DEF FundIsShort
  <1>14. fund' + Total(after, D \cup {n}) = Treasury0
    BY <1>1, <1>10, <1>11, <1>12, <1>13
  <1>15. QED
    BY <1>6, <1>7, <1>14 DEF FundIsShort

\* A row that keeps its weight and its proposer, or is new, when nobody votes.
LEMMA VotesStay ==
  ASSUME FeaturesTypeOK, VotesFollowRecords, NEW p \in Proposals, NEW row \in FeatureProposal,
         feature' = [feature EXCEPT ![p] = row], UNCHANGED vote,
         feature[p] # None => row.votes = feature[p].votes /\ row.proposer = feature[p].proposer,
         feature[p] = None => row.votes = 0
  PROVE  VotesFollowRecords'
  <1>1. /\ feature'[p] = row /\ row # None
        /\ \A q \in Proposals : q # p => feature'[q] = feature[q]
    BY NewRow
  <1>2. \A q : Voters(q)' = Voters(q) /\ vote'[q] = vote[q]
    BY DEF Voters
  <1>3. ASSUME NEW q \in Proposals, q # p
        PROVE  /\ feature'[q] = None => \A u \in Users : vote'[q][u] = None
               /\ feature'[q] # None => /\ feature'[q].votes = Total(vote'[q], Voters(q)')
                                        /\ vote'[q][feature'[q].proposer] = None
    BY <1>1, <1>2, <1>3 DEF VotesFollowRecords
  <1>4. CASE feature[p] # None
    <2>1. /\ feature'[p].votes = Total(vote'[p], Voters(p)')
          /\ vote'[p][feature'[p].proposer] = None
      BY <1>1, <1>2, <1>4 DEF VotesFollowRecords
    <2>2. QED
      BY <1>1, <1>3, <2>1 DEF VotesFollowRecords
  <1>5. CASE feature[p] = None
    <2>1. \A u \in Users : vote'[p][u] = None
      BY <1>2, <1>5 DEF VotesFollowRecords
    <2>2. Voters(p)' = {}
      BY <2>1 DEF Voters
    <2>3. PICK f : f = vote'[p]
      OBVIOUS
    <2>4. Total(f, {}) = 0
      BY TotalOfNone
    <2>5. row.proposer \in Users
      BY DEF FeatureProposal
    <2>6. /\ feature'[p].votes = Total(vote'[p], Voters(p)')
          /\ vote'[p][feature'[p].proposer] = None
      BY <1>1, <1>5, <2>1, <2>2, <2>3, <2>4, <2>5
    <2>7. QED
      BY <1>1, <1>3, <2>6 DEF VotesFollowRecords
  <1>6. QED
    BY <1>4, <1>5

LEMMA vote_for_featureVotes ==
  ASSUME FeaturesTypeOK, VotesFollowRecords, NEW p \in Proposals, NEW u \in Users,
         NEW amount \in VoteAmounts, vote_for_feature(p, u, amount)
  PROVE  VotesFollowRecords'
  <1>1. PICK row \in FeatureProposal :
          /\ feature' = [feature EXCEPT ![p] = row]
          /\ row.votes = feature[p].votes + amount /\ row.proposer = feature[p].proposer
    BY vote_for_featureRow
  <1>2. /\ feature'[p] = row /\ row # None
        /\ \A q \in Proposals : q # p => feature'[q] = feature[q]
    BY <1>1, NewRow
  <1>3. /\ feature[p] # None /\ vote[p][u] = None /\ u # feature[p].proposer
        /\ vote' = [vote EXCEPT ![p][u] = amount] /\ amount \in Nat /\ amount # None
    BY FeaturesAssumption DEF vote_for_feature, HasStatus
  <1>4. vote \in [Proposals -> [Users -> VoteAmounts \cup {None}]]
    BY DEF FeaturesTypeOK
  <1>5. PICK f : f = vote[p]
    OBVIOUS
  <1>6. PICK g : g = vote'[p]
    OBVIOUS
  <1>7. /\ g[u] = amount /\ \A v \in Users : v # u => g[v] = f[v]
        /\ \A q \in Proposals : q # p => vote'[q] = vote[q]
    BY <1>3, <1>4, <1>5, <1>6
  <1>8. PICK V : V = Voters(p)
    OBVIOUS
  <1>9. V = {v \in Users : f[v] # None} /\ u \notin V /\ IsFiniteSet(V)
    <2>1. V = {v \in Users : f[v] # None} /\ u \notin V
      BY <1>3, <1>5, <1>8 DEF Voters
    <2>2. V \subseteq Users /\ IsFiniteSet(Users)
      BY <2>1, FeaturesAssumption
    <2>3. QED
      BY <2>1, <2>2, FS_Subset
  <1>10. Voters(p)' = V \cup {u}
    <2>1. Voters(p)' = {v \in Users : g[v] # None}
      BY <1>6 DEF Voters
    <2>2. QED
      BY <1>3, <1>7, <1>9, <2>1
  <1>11. /\ \A v \in V : g[v] = f[v] /\ f[v] \in Nat
         /\ \A v \in V : g[v] \in Nat
    <2>1. f \in [Users -> VoteAmounts \cup {None}]
      BY <1>4, <1>5
    <2>2. ASSUME NEW v \in V PROVE g[v] = f[v] /\ f[v] \in Nat
      <3>1. v \in Users /\ f[v] # None /\ v # u
        BY <1>9
      <3>2. f[v] \in VoteAmounts
        BY <2>1, <3>1
      <3>3. QED
        BY <1>7, <3>1, <3>2, FeaturesAssumption
    <2>3. QED
      BY <2>2
  <1>12. Total(g, V \cup {u}) = Total(g, V) + amount
    BY <1>3, <1>7, <1>9, <1>11, TotalOneMore, SMTT(60)
  <1>13. Total(g, V) = Total(f, V)
    BY <1>11, TotalSame
  <1>14. feature[p].votes = Total(f, V) /\ f[feature[p].proposer] = None
    BY <1>3, <1>5, <1>8 DEF VotesFollowRecords
  <1>15. /\ feature'[p].votes = Total(vote'[p], Voters(p)')
         /\ vote'[p][feature'[p].proposer] = None
    <2>1. feature[p].proposer \in Users
      BY <1>3, FeatureRow DEF FeatureProposal
    <2>2. feature'[p].votes = Total(g, V \cup {u})
      BY <1>1, <1>2, <1>12, <1>13, <1>14
    <2>3. g[feature'[p].proposer] = None
      BY <1>1, <1>2, <1>3, <1>7, <1>14, <2>1
    <2>4. QED
      BY <1>6, <1>10, <2>2, <2>3
  <1>16. \A q \in Proposals : q # p => Voters(q)' = Voters(q)
    BY <1>7 DEF Voters
  <1>17. ASSUME NEW q \in Proposals, q # p
         PROVE  /\ feature'[q] = None => \A v \in Users : vote'[q][v] = None
                /\ feature'[q] # None => /\ feature'[q].votes = Total(vote'[q], Voters(q)')
                                         /\ vote'[q][feature'[q].proposer] = None
    BY <1>2, <1>7, <1>16, <1>17 DEF VotesFollowRecords
  <1>18. QED
    BY <1>2, <1>15, <1>17 DEF VotesFollowRecords

\* A row whose gates keep what they passed and what was claimed, when nothing is paid.
LEMMA StagesStay ==
  ASSUME FeaturesTypeOK, StagesFollowGates, NEW p \in Proposals, NEW row \in FeatureProposal,
         feature' = [feature EXCEPT ![p] = row], UNCHANGED <<params, payments>>, params # None,
         \A g \in GateTypes : row.gate[g] # None /\ row.gate[g].claimed <=>
                                feature[p] # None /\ Claimed(p, g),
         \A g \in GateTypes : feature[p] # None /\ Passed(p, g) =>
                                row.gate[g] # None /\ row.gate[g].passed,
         feature[p] # None /\ feature[p].status \in {"Finalized", "Cancelled"} =>
           row.status \in {"Finalized", "Cancelled"}
  PROVE  StagesFollowGates'
  <1>1. /\ feature'[p] = row /\ row # None
        /\ \A q \in Proposals : q # p => feature'[q] = feature[q]
    BY NewRow
  <1>2. \A q, t : PaidFor(q, t)' = PaidFor(q, t)
    BY DEF PaidFor
  <1>3. \A q \in Proposals : \A g : q # p => (Claimed(q, g)' <=> Claimed(q, g))
                                        /\ (Passed(q, g)' <=> Passed(q, g))
    BY <1>1 DEF Claimed, Passed
  <1>4. \A g \in GateTypes : /\ Claimed(p, g)' <=> feature[p] # None /\ Claimed(p, g)
                             /\ feature[p] # None /\ Passed(p, g) => Passed(p, g)'
    BY <1>1 DEF Claimed, Passed
  <1>5. "Benchmark" \in GateTypes /\ GateTypes \subseteq Stages /\ "Merge" \in Stages
    BY GovernanceAssumption DEF Stages
  <1>6. ASSUME NEW q \in Proposals, q # p, feature[q] # None
        PROVE  /\ \A g \in GateTypes :
                    /\ ~Claimed(q, g)' => PaidFor(q, g)' = {}
                    /\ Claimed(q, g)' => /\ Cardinality(PaidFor(q, g)') = 1
                                         /\ Passed(q, "Benchmark")' /\ Passed(q, g)'
               /\ Cardinality(PaidFor(q, "Merge")') <= 1
               /\ PaidFor(q, "Merge")' # {} =>
                    /\ feature'[q].status \in {"Finalized", "Cancelled"}
                    /\ \A g \in GateTypes : Passed(q, g)'
    BY <1>1, <1>2, <1>3, <1>6 DEF StagesFollowGates
  <1>7. CASE feature[p] # None
    <2>1. /\ \A g \in GateTypes :
               /\ ~Claimed(p, g)' => PaidFor(p, g)' = {}
               /\ Claimed(p, g)' => /\ Cardinality(PaidFor(p, g)') = 1
                                    /\ Passed(p, "Benchmark")' /\ Passed(p, g)'
          /\ Cardinality(PaidFor(p, "Merge")') <= 1
          /\ PaidFor(p, "Merge")' # {} =>
               /\ row.status \in {"Finalized", "Cancelled"}
               /\ \A g \in GateTypes : Passed(p, g)'
      BY <1>2, <1>4, <1>5, <1>7 DEF StagesFollowGates
    <2>2. QED
      BY <1>1, <1>2, <1>6, <2>1 DEF StagesFollowGates
  <1>8. CASE feature[p] = None
    <2>1. \A stage \in Stages : PaidFor(p, stage)' = {}
      BY <1>2, <1>8 DEF StagesFollowGates
    <2>2. Cardinality({}) = 0
      BY FS_EmptySet
    <2>3. /\ \A g \in GateTypes : PaidFor(p, g)' = {}
          /\ Cardinality(PaidFor(p, "Merge")') <= 1 /\ PaidFor(p, "Merge")' = {}
      <3>1. \A g \in GateTypes : PaidFor(p, g)' = {}
        BY <1>5, <2>1
      <3>2. PaidFor(p, "Merge")' = {}
        BY <1>5, <2>1
      <3>3. Cardinality(PaidFor(p, "Merge")') = Cardinality({})
        BY <3>2, Zenon
      <3>4. Cardinality(PaidFor(p, "Merge")') <= 1
        BY <2>2, <3>3
      <3>5. QED
        BY <3>1, <3>2, <3>4, Zenon
    <2>4. \A g \in GateTypes : ~Claimed(p, g)'
      BY <1>4, <1>8
    <2>5. QED
      BY <1>1, <1>2, <1>6, <2>3, <2>4 DEF StagesFollowGates
  <1>9. QED
    BY <1>7, <1>8

\* A stage is paid: the first two with their mark, the last with the end of the proposal.
LEMMA PaidStages ==
  ASSUME FeaturesTypeOK, StagesFollowGates, NEW p \in Proposals, feature[p] # None,
         NEW row \in FeatureProposal, feature' = [feature EXCEPT ![p] = row], UNCHANGED params,
         NEW stage \in GateTypes \cup {"Merge"}, NEW amount \in Nat, Pays(p, stage, amount),
         \A g \in GateTypes : Passed(p, g) => row.gate[g] # None /\ row.gate[g].passed,
         \A g \in GateTypes : (row.gate[g] # None /\ row.gate[g].claimed) <=>
                                Claimed(p, g) \/ g = stage,
         stage \in GateTypes => ~Claimed(p, stage) /\ Passed(p, "Benchmark") /\ Passed(p, stage),
         stage = "Merge" => \A g \in GateTypes : Passed(p, g),
         stage = "Merge" => row.status \in {"Finalized", "Cancelled"},
         feature[p].status \notin {"Finalized", "Cancelled"}
  PROVE  StagesFollowGates'
  <1>1. /\ feature'[p] = row /\ row # None
        /\ \A q \in Proposals : q # p => feature'[q] = feature[q]
    BY NewRow
  <1>2. /\ "Benchmark" \in GateTypes /\ GateTypes \subseteq Stages /\ "Merge" \in Stages
        /\ stage \in Stages /\ "Merge" \notin GateTypes /\ p \in STRING /\ GovernanceTypeOK
    BY GovernanceAssumption, FeaturesAssumption DEF Stages, FeaturesTypeOK
  <1>3. /\ PaidFor(p, stage)' = PaidFor(p, stage) \cup {Len(payments) + 1}
        /\ \A q, t : q # p \/ t # stage => PaidFor(q, t)' = PaidFor(q, t)
    BY <1>2, PaysEffect
  <1>4. \A q \in Proposals : \A g : q # p => (Claimed(q, g)' <=> Claimed(q, g))
                                        /\ (Passed(q, g)' <=> Passed(q, g))
    BY <1>1 DEF Claimed, Passed
  <1>5. \A g \in GateTypes : Claimed(p, g)' <=> (Claimed(p, g) \/ g = stage)
    BY <1>1 DEF Claimed
  <1>6. \A g \in GateTypes : Passed(p, g) => Passed(p, g)'
    BY <1>1 DEF Passed
  <1>7. PaidFor(p, stage) = {}
    BY <1>2 DEF StagesFollowGates
  <1>8. Cardinality(PaidFor(p, stage)') = 1
    <2>1. PaidFor(p, stage)' = {Len(payments) + 1}
      BY <1>3, <1>7
    <2>2. QED
      BY <2>1, FS_Singleton
  <1>9. ASSUME NEW q \in Proposals, q # p
        PROVE  /\ feature'[q] = None => \A t \in Stages : PaidFor(q, t)' = {}
               /\ feature'[q] # None =>
                    /\ params' # None
                    /\ \A g \in GateTypes :
                         /\ ~Claimed(q, g)' => PaidFor(q, g)' = {}
                         /\ Claimed(q, g)' => /\ Cardinality(PaidFor(q, g)') = 1
                                              /\ Passed(q, "Benchmark")' /\ Passed(q, g)'
                    /\ Cardinality(PaidFor(q, "Merge")') <= 1
                    /\ PaidFor(q, "Merge")' # {} =>
                         /\ feature'[q].status \in {"Finalized", "Cancelled"}
                         /\ \A g \in GateTypes : Passed(q, g)'
    BY <1>1, <1>3, <1>4, <1>9 DEF StagesFollowGates
  <1>10. ASSUME NEW g \in GateTypes
         PROVE  /\ ~Claimed(p, g)' => PaidFor(p, g)' = {}
                /\ Claimed(p, g)' => /\ Cardinality(PaidFor(p, g)') = 1
                                     /\ Passed(p, "Benchmark")' /\ Passed(p, g)'
    <2>1. CASE g = stage
      BY <1>2, <1>5, <1>6, <1>8, <2>1
    <2>2. CASE g # stage
      <3>1. PaidFor(p, g)' = PaidFor(p, g) /\ (Claimed(p, g)' <=> Claimed(p, g))
        BY <1>3, <1>5, <2>2
      <3>2. /\ ~Claimed(p, g) => PaidFor(p, g) = {}
            /\ Claimed(p, g) => /\ Cardinality(PaidFor(p, g)) = 1
                                /\ Passed(p, "Benchmark") /\ Passed(p, g)
        BY DEF StagesFollowGates
      <3>3. QED
        BY <1>2, <1>6, <3>1, <3>2
    <2>3. QED
      BY <2>1, <2>2
  <1>11. /\ Cardinality(PaidFor(p, "Merge")') <= 1
         /\ PaidFor(p, "Merge")' # {} => /\ row.status \in {"Finalized", "Cancelled"}
                                         /\ \A g \in GateTypes : Passed(p, g)'
    <2>1. CASE stage = "Merge"
      <3>1. Cardinality(PaidFor(p, "Merge")') <= 1
        BY <1>8, <2>1
      <3>2. QED
        BY <1>6, <2>1, <3>1
    <2>2. CASE stage # "Merge"
      <3>1. PaidFor(p, "Merge")' = PaidFor(p, "Merge")
        BY <1>3, <2>2
      <3>2. PaidFor(p, "Merge") = {} /\ Cardinality(PaidFor(p, "Merge")) <= 1
        BY DEF StagesFollowGates
      <3>3. QED
        BY <3>1, <3>2
    <2>3. QED
      BY <2>1, <2>2
  <1>12. params' # None
    BY DEF StagesFollowGates
  <1>13. QED
    BY <1>1, <1>9, <1>10, <1>11, <1>12 DEF StagesFollowGates

-----------------------------------------------------------------------------
(* Features: the steps. *)

LEMMA FeaturesInvInit == FeaturesInit => FeaturesInv
  <1> SUFFICES ASSUME FeaturesInit PROVE FeaturesInv
    OBVIOUS
  <1>1. FeaturesTypeOK
    BY ChainAssumption, GovernanceAssumption
    DEF FeaturesInit, GovernanceInit, FeaturesTypeOK, GovernanceTypeOK, Times
  <1>2. payments = <<>> /\ fund = Treasury0
    BY DEF FeaturesInit, GovernanceInit
  <1>3. \A q, t : PaidFor(q, t) = {}
    BY <1>2 DEF PaidFor
  <1>4. FundIsShort
    <2>1. PICK f : f = Amounts
      OBVIOUS
    <2>2. Total(f, {}) = 0 /\ DOMAIN payments = {}
      BY <1>2, TotalOfNone
    <2>3. Total(Amounts, DOMAIN payments) = 0
      BY <2>1, <2>2
    <2>4. QED
      BY <1>2, <2>3, GovernanceAssumption DEF FundIsShort
  <1>5. VotesFollowRecords /\ StagesFollowGates
    BY <1>3 DEF FeaturesInit, VotesFollowRecords, StagesFollowGates
  <1>6. QED
    BY <1>1, <1>4, <1>5 DEF FeaturesInv

\* A step that moves no tokens.
LEMMA NothingPaid ==
  ASSUME FeaturesInv, UNCHANGED governanceVars
  PROVE  GovernanceTypeOK' /\ FundIsShort' /\ UNCHANGED <<now, params, fund, payments>>
  <1>1. UNCHANGED <<now, params, fund, payments>> /\ GovernanceTypeOK /\ FundIsShort
    BY DEF governanceVars, FeaturesInv, FeaturesTypeOK
  <1>2. FundIsShort'
    BY <1>1 DEF FundIsShort, Amounts
  <1>3. QED
    BY <1>1, <1>2 DEF GovernanceTypeOK

\* The row of one proposal changes; nothing is voted or paid.
LEMMA RowStep ==
  ASSUME FeaturesInv, NEW p \in Proposals, NEW row \in FeatureProposal,
         feature' = [feature EXCEPT ![p] = row], UNCHANGED vote, UNCHANGED governanceVars,
         params # None,
         feature[p] # None => row.votes = feature[p].votes /\ row.proposer = feature[p].proposer,
         feature[p] = None => row.votes = 0,
         \A g \in GateTypes : row.gate[g] # None /\ row.gate[g].claimed <=>
                                feature[p] # None /\ Claimed(p, g),
         \A g \in GateTypes : feature[p] # None /\ Passed(p, g) =>
                                row.gate[g] # None /\ row.gate[g].passed,
         feature[p] # None /\ feature[p].status \in {"Finalized", "Cancelled"} =>
           row.status \in {"Finalized", "Cancelled"}
  PROVE  FeaturesInv'
  <1>1. FeaturesTypeOK /\ VotesFollowRecords /\ StagesFollowGates
    BY DEF FeaturesInv
  <1>2. GovernanceTypeOK' /\ FundIsShort' /\ UNCHANGED <<params, payments>>
    BY NothingPaid
  <1>3. FeaturesTypeOK'
    BY <1>1, <1>2, NewRow DEF FeaturesTypeOK
  <1>4. VotesFollowRecords'
    BY <1>1, VotesStay
  <1>5. StagesFollowGates'
    BY <1>1, <1>2, StagesStay
  <1>6. QED
    BY <1>2, <1>3, <1>4, <1>5 DEF FeaturesInv

LEMMA submit_feature_proposalInv ==
  ASSUME FeaturesInv, NEW p \in Proposals, NEW u \in Users, NEW room \in Rooms,
         submit_feature_proposal(p, u, room)
  PROVE  FeaturesInv'
  <1>1. PICK gate : gate = [g \in GateTypes |-> None]
    OBVIOUS
  <1>2. PICK row : row = [ proposer |-> u, votes |-> 0, status |-> "Active", created |-> now,
                           completed |-> FALSE, room |-> room, gate |-> gate ]
    OBVIOUS
  <1>3. /\ feature[p] = None /\ params # None /\ feature' = [feature EXCEPT ![p] = row]
        /\ UNCHANGED vote /\ UNCHANGED governanceVars
    BY <1>1, <1>2 DEF submit_feature_proposal
  <1>4. now \in Times
    BY DEF FeaturesInv, FeaturesTypeOK, GovernanceTypeOK
  <1>5. row \in FeatureProposal /\ row.votes = 0 /\ row.gate = gate
    BY <1>1, <1>2, <1>4 DEF FeatureProposal, ProposalStatus
  <1>6. \A g \in GateTypes : row.gate[g] = None
    BY <1>1, <1>5
  <1>7. QED
    BY <1>3, <1>5, <1>6, RowStep

LEMMA update_proposal_statusInv ==
  ASSUME FeaturesInv, NEW p \in Proposals, NEW status \in ProposalStatus,
         update_proposal_status(p, status)
  PROVE  FeaturesInv'
  <1>1. FeaturesTypeOK /\ feature[p] # None /\ params # None
    BY DEF FeaturesInv, update_proposal_status, StagesFollowGates
  <1>2. PICK row \in FeatureProposal :
          /\ feature' = [feature EXCEPT ![p] = row]
          /\ row.status = status /\ row.gate = feature[p].gate
          /\ row.votes = feature[p].votes /\ row.proposer = feature[p].proposer
    BY <1>1, update_proposal_statusRow
  <1>3. /\ UNCHANGED vote /\ UNCHANGED governanceVars
        /\ <<feature[p].status, status>> \in NextStatus
    BY DEF update_proposal_status
  <1>4. feature[p].status \in {"Finalized", "Cancelled"} => status = "Cancelled"
    BY <1>3 DEF NextStatus
  <1>5. /\ \A g \in GateTypes : row.gate[g] # None /\ row.gate[g].claimed <=> Claimed(p, g)
        /\ \A g \in GateTypes : Passed(p, g) => row.gate[g] # None /\ row.gate[g].passed
    BY <1>2 DEF Claimed, Passed
  <1>6. QED
    BY <1>1, <1>2, <1>3, <1>4, <1>5, RowStep

LEMMA ReportsInv ==
  ASSUME FeaturesInv, NEW p \in Proposals, NEW g \in GateTypes, NEW score, Reports(p, g, score)
  PROVE  FeaturesInv'
  <1>1. FeaturesTypeOK /\ feature[p] # None /\ params # None /\ feature[p].status = "AwaitingGates"
    BY DEF FeaturesInv, Reports, HasStatus, StagesFollowGates
  <1>2. PICK row \in FeatureProposal :
          /\ feature' = [feature EXCEPT ![p] = row]
          /\ row.gate[g] # None /\ ~row.gate[g].claimed
          /\ \A h \in GateTypes : h # g => row.gate[h] = feature[p].gate[h]
          /\ row.status = feature[p].status
          /\ row.votes = feature[p].votes /\ row.proposer = feature[p].proposer
    BY <1>1, ReportsRow
  <1>3. feature[p].gate[g] = None /\ UNCHANGED vote /\ UNCHANGED governanceVars
    BY DEF Reports, Reported
  <1>4. ASSUME NEW h \in GateTypes
        PROVE  /\ (row.gate[h] # None /\ row.gate[h].claimed) <=> Claimed(p, h)
               /\ Passed(p, h) => row.gate[h] # None /\ row.gate[h].passed
    <2>1. CASE h = g
      BY <1>2, <1>3, <2>1 DEF Claimed, Passed
    <2>2. CASE h # g
      BY <1>2, <2>2 DEF Claimed, Passed
    <2>3. QED
      BY <2>1, <2>2
  <1>5. QED
    BY <1>1, <1>2, <1>3, <1>4, RowStep

LEMMA vote_for_featureInv ==
  ASSUME FeaturesInv, NEW p \in Proposals, NEW u \in Users, NEW amount \in VoteAmounts,
         vote_for_feature(p, u, amount)
  PROVE  FeaturesInv'
  <1>1. FeaturesTypeOK /\ VotesFollowRecords /\ StagesFollowGates /\ feature[p] # None
        /\ params # None
    BY DEF FeaturesInv, vote_for_feature, HasStatus, StagesFollowGates
  <1>2. PICK row \in FeatureProposal :
          /\ feature' = [feature EXCEPT ![p] = row]
          /\ row.gate = feature[p].gate /\ row.status = feature[p].status
    BY <1>1, vote_for_featureRow
  <1>3. UNCHANGED governanceVars /\ vote' = [vote EXCEPT ![p][u] = amount]
    BY DEF vote_for_feature
  <1>4. GovernanceTypeOK' /\ FundIsShort' /\ UNCHANGED <<params, payments>>
    BY <1>3, NothingPaid
  <1>5. FeaturesTypeOK'
    BY <1>1, <1>2, <1>3, <1>4, NewRow DEF FeaturesTypeOK
  <1>6. VotesFollowRecords'
    BY <1>1, vote_for_featureVotes
  <1>7. /\ \A g \in GateTypes : row.gate[g] # None /\ row.gate[g].claimed <=> Claimed(p, g)
        /\ \A g \in GateTypes : Passed(p, g) => row.gate[g] # None /\ row.gate[g].passed
    BY <1>2 DEF Claimed, Passed
  <1>8. StagesFollowGates'
    BY <1>1, <1>2, <1>4, <1>7, StagesStay
  <1>9. QED
    BY <1>4, <1>5, <1>6, <1>8 DEF FeaturesInv

\* The row of one proposal changes with a payment for one stage.
LEMMA PaidStep ==
  ASSUME FeaturesInv, NEW p \in Proposals, feature[p] # None,
         NEW row \in FeatureProposal, feature' = [feature EXCEPT ![p] = row],
         UNCHANGED <<now, params, vote>>,
         row.votes = feature[p].votes, row.proposer = feature[p].proposer,
         NEW stage \in GateTypes \cup {"Merge"}, NEW amount \in Nat, Pays(p, stage, amount),
         \A g \in GateTypes : Passed(p, g) => row.gate[g] # None /\ row.gate[g].passed,
         \A g \in GateTypes : (row.gate[g] # None /\ row.gate[g].claimed) <=>
                                Claimed(p, g) \/ g = stage,
         stage \in GateTypes => ~Claimed(p, stage) /\ Passed(p, "Benchmark") /\ Passed(p, stage),
         stage = "Merge" => \A g \in GateTypes : Passed(p, g),
         stage = "Merge" => row.status \in {"Finalized", "Cancelled"},
         feature[p].status \notin {"Finalized", "Cancelled"}
  PROVE  FeaturesInv'
  <1>1. /\ FeaturesTypeOK /\ VotesFollowRecords /\ StagesFollowGates /\ FundIsShort
        /\ GovernanceTypeOK
    BY DEF FeaturesInv, FeaturesTypeOK
  <1>2. p \in STRING /\ stage \in Stages
    BY GovernanceAssumption, FeaturesAssumption DEF Stages
  <1>3. fund' \in Nat /\ payments' \in Seq(Payment)
    BY <1>1, <1>2, PaysEffect
  <1>4. FeaturesTypeOK'
    BY <1>1, <1>3, NewRow DEF FeaturesTypeOK, GovernanceTypeOK
  <1>5. FundIsShort'
    BY <1>1, <1>2, FundStaysShort
  <1>6. VotesFollowRecords'
    BY <1>1, VotesStay
  <1>7. StagesFollowGates'
    BY <1>1, PaidStages
  <1>8. QED
    BY <1>4, <1>5, <1>6, <1>7 DEF FeaturesInv

LEMMA claim_bounty_rewardInv ==
  ASSUME FeaturesInv, NEW p \in Proposals, NEW g \in {"Benchmark", "ABTest"},
         claim_bounty_reward(p, g)
  PROVE  FeaturesInv'
  <1>1. /\ FeaturesTypeOK /\ GovernanceTypeOK /\ g \in GateTypes /\ params # None
        /\ feature[p] # None /\ feature[p].status \notin {"Finalized", "Cancelled"}
    BY GovernanceAssumption
    DEF FeaturesInv, FeaturesTypeOK, StagesFollowGates, claim_bounty_reward, HasStatus
  <1>2. /\ Passed(p, "Benchmark") /\ Passed(p, g) /\ ~feature[p].gate[g].claimed
        /\ Pays(p, g, PartOf(Bounty0, StagePart(g))) /\ UNCHANGED <<now, params, vote>>
    BY DEF claim_bounty_reward
  <1>3. PICK amount : amount = PartOf(Bounty0, StagePart(g))
    OBVIOUS
  <1>4. amount \in Nat
    <2>1. PICK part : part = StagePart(g)
      OBVIOUS
    <2>2. part \in Nat
      BY <1>1, <2>1, ParamsType DEF StagePart
    <2>3. QED
      BY <1>3, <2>1, <2>2, PartOfType, FeaturesAssumption
  <1>5. PICK row \in FeatureProposal :
          /\ feature' = [feature EXCEPT ![p] = row]
          /\ row.gate[g] # None /\ row.gate[g].claimed
          /\ row.gate[g].passed = feature[p].gate[g].passed
          /\ \A h \in GateTypes : h # g => row.gate[h] = feature[p].gate[h]
          /\ row.votes = feature[p].votes /\ row.proposer = feature[p].proposer
    BY <1>1, claim_bounty_rewardRow
  <1>6. ASSUME NEW h \in GateTypes
        PROVE  /\ Passed(p, h) => row.gate[h] # None /\ row.gate[h].passed
               /\ (row.gate[h] # None /\ row.gate[h].claimed) <=> Claimed(p, h) \/ h = g
    <2>1. CASE h = g
      BY <1>5, <2>1, Zenon DEF Passed
    <2>2. CASE h # g
      BY <1>5, <2>2 DEF Passed, Claimed
    <2>3. QED
      BY <2>1, <2>2
  <1>7. ~Claimed(p, g) /\ g # "Merge"
    BY <1>2 DEF Claimed
  <1>8. Pays(p, g, amount)
    BY <1>2, <1>3
  <1>9. /\ Passed(p, "Benchmark") /\ Passed(p, g) /\ UNCHANGED <<now, params, vote>>
        /\ feature' = [feature EXCEPT ![p] = row]
        /\ row.votes = feature[p].votes /\ row.proposer = feature[p].proposer
    BY <1>2, <1>5
  <1>10. g \in GateTypes \cup {"Merge"}
    BY <1>1
  <1>11. /\ \A h \in GateTypes : Passed(p, h) => row.gate[h] # None /\ row.gate[h].passed
         /\ \A h \in GateTypes : (row.gate[h] # None /\ row.gate[h].claimed) <=>
                                  Claimed(p, h) \/ h = g
    BY <1>6, Zenon
  <1>12. /\ feature[p] # None /\ feature[p].status \notin {"Finalized", "Cancelled"}
         /\ g \in GateTypes => ~Claimed(p, g) /\ Passed(p, "Benchmark") /\ Passed(p, g)
         /\ g = "Merge" => \A h \in GateTypes : Passed(p, h)
         /\ g = "Merge" => row.status \in {"Finalized", "Cancelled"}
    BY <1>1, <1>7, <1>9
  <1>13. QED
    BY <1>4, <1>8, <1>9, <1>10, <1>11, <1>12, PaidStep, Zenon

LEMMA finalize_rewardsInv ==
  ASSUME FeaturesInv, NEW p \in Proposals, finalize_rewards(p)
  PROVE  FeaturesInv'
  <1>1. /\ FeaturesTypeOK /\ GovernanceTypeOK /\ params # None
        /\ feature[p] # None /\ feature[p].status \notin {"Finalized", "Cancelled"}
    BY DEF FeaturesInv, FeaturesTypeOK, StagesFollowGates, finalize_rewards, HasStatus
  <1>2. /\ \A g \in GateTypes : Passed(p, g)
        /\ Pays(p, "Merge", PartOf(Bounty0, params.merge)) /\ UNCHANGED <<now, params, vote>>
    BY DEF finalize_rewards
  <1>3. PICK amount : amount = PartOf(Bounty0, params.merge)
    OBVIOUS
  <1>4. amount \in Nat
    <2>1. PICK part : part = params.merge
      OBVIOUS
    <2>2. part \in Nat
      BY <1>1, <2>1, ParamsType
    <2>3. QED
      BY <1>3, <2>1, <2>2, PartOfType, FeaturesAssumption
  <1>5. PICK row \in FeatureProposal :
          /\ feature' = [feature EXCEPT ![p] = row]
          /\ row.gate = feature[p].gate /\ row.status = "Finalized"
          /\ row.votes = feature[p].votes /\ row.proposer = feature[p].proposer
    BY <1>1, finalize_rewardsRow
  <1>6. "Merge" \notin GateTypes
    BY GovernanceAssumption
  <1>7. /\ \A h \in GateTypes : Passed(p, h) => row.gate[h] # None /\ row.gate[h].passed
        /\ \A h \in GateTypes : (row.gate[h] # None /\ row.gate[h].claimed) <=>
                                 Claimed(p, h) \/ h = "Merge"
    BY <1>5, <1>6 DEF Passed, Claimed
  <1>8. QED
    BY <1>1, <1>2, <1>3, <1>4, <1>5, <1>6, <1>7, PaidStep

LEMMA FeaturesStep == FeaturesInv /\ [FeaturesNext]_featureVars => FeaturesInv'
  <1> SUFFICES ASSUME FeaturesInv, [FeaturesNext]_featureVars PROVE FeaturesInv'
    OBVIOUS
  <1>1. ASSUME NEW p \in Proposals, NEW u \in Users, NEW room \in Rooms,
               submit_feature_proposal(p, u, room)
        PROVE  FeaturesInv'
    BY <1>1, submit_feature_proposalInv
  <1>2. ASSUME NEW p \in Proposals, NEW u \in Users, NEW amount \in VoteAmounts,
               vote_for_feature(p, u, amount)
        PROVE  FeaturesInv'
    BY <1>2, vote_for_featureInv
  <1>3. ASSUME NEW p \in Proposals, NEW status \in ProposalStatus,
               update_proposal_status(p, status)
        PROVE  FeaturesInv'
    BY <1>3, update_proposal_statusInv
  <1>4. ASSUME NEW p \in Proposals, NEW score \in Scores, NEW g \in GateTypes, Reports(p, g, score)
        PROVE  FeaturesInv'
    BY <1>4, ReportsInv
  <1>5. ASSUME NEW p \in Proposals, NEW score \in Scores,
               \/ report_benchmark_result(p, score) \/ report_ab_test_result(p, score)
               \/ report_feedback_result(p, score) \/ report_steward_approval(p, score)
        PROVE  FeaturesInv'
    BY <1>4, <1>5, GovernanceAssumption
    DEF report_benchmark_result, report_ab_test_result, report_feedback_result,
        report_steward_approval
  <1>6. ASSUME NEW p \in Proposals, NEW g \in {"Benchmark", "ABTest"}, claim_bounty_reward(p, g)
        PROVE  FeaturesInv'
    BY <1>6, claim_bounty_rewardInv
  <1>7. ASSUME NEW p \in Proposals, finalize_rewards(p) PROVE FeaturesInv'
    BY <1>7, finalize_rewardsInv
  <1>8. ASSUME GovernanceTypeOK', UNCHANGED <<fund, payments, feature, vote>>,
               params # None => params' # None
        PROVE  FeaturesInv'
    <2>1. \A q, t : PaidFor(q, t)' = PaidFor(q, t)
      BY <1>8 DEF PaidFor
    <2>2. \A q, g : (Claimed(q, g)' <=> Claimed(q, g)) /\ (Passed(q, g)' <=> Passed(q, g))
      BY <1>8 DEF Claimed, Passed
    <2>3. StagesFollowGates'
      BY <1>8, <2>1, <2>2 DEF FeaturesInv, StagesFollowGates
    <2>4. FeaturesTypeOK' /\ FundIsShort'
      BY <1>8 DEF FeaturesInv, FeaturesTypeOK, FundIsShort, Amounts
    <2>5. VotesFollowRecords'
      BY <1>8 DEF FeaturesInv, VotesFollowRecords, Voters
    <2>6. QED
      BY <2>3, <2>4, <2>5 DEF FeaturesInv
  <1>9. CASE govern /\ UNCHANGED <<feature, vote>>
    BY <1>8, <1>9, governType DEF FeaturesInv, FeaturesTypeOK
  <1>10. CASE UNCHANGED featureVars
    BY <1>8, <1>10
    DEF featureVars, governanceVars, FeaturesInv, FeaturesTypeOK, GovernanceTypeOK
  <1>11. QED
    BY <1>1, <1>2, <1>3, <1>5, <1>6, <1>7, <1>9, <1>10 DEF FeaturesNext

\* Rows, votes, parameters and payments of feature proposals keep their types, for any number
\* of proposals and voters (submit_feature_proposal, vote_for_feature, the oracle's
\* instructions and the claims).
THEOREM FeaturesCorrect == FeaturesSpec => []FeaturesTypeOK
  <1>1. FeaturesInv => FeaturesTypeOK
    BY DEF FeaturesInv
  <1>2. QED
    BY <1>1, FeaturesInvInit, FeaturesStep, PTL DEF FeaturesSpec

\* Each stage is paid once at most and only for gates that passed, and the treasury is short
\* of exactly what was paid (claim_bounty_reward, finalize_rewards), however the oracle moves
\* the status and the authority changes the parameters.
THEOREM StagesArePaid == FeaturesSpec => []StagesArePaidOnce
  <1>1. FeaturesInv => StagesArePaidOnce
    <2> SUFFICES ASSUME FeaturesInv PROVE StagesArePaidOnce
      OBVIOUS
    <2>1. Cardinality({}) = 0
      BY FS_EmptySet
    <2>2. "Benchmark" \in GateTypes
      BY GovernanceAssumption
    <2>3. ASSUME NEW p \in Proposals, feature[p] # None
          PROVE  /\ \A stage \in GateTypes \cup {"Merge"} : Cardinality(PaidFor(p, stage)) <= 1
                 /\ \A g \in GateTypes :
                      PaidFor(p, g) # {} => Passed(p, "Benchmark") /\ Passed(p, g)
                 /\ PaidFor(p, "Merge") # {} => \A g \in GateTypes : Passed(p, g)
      <3>1. ASSUME NEW g \in GateTypes
            PROVE  /\ Cardinality(PaidFor(p, g)) <= 1
                   /\ PaidFor(p, g) # {} => Passed(p, "Benchmark") /\ Passed(p, g)
        <4>1. CASE Claimed(p, g)
          BY <2>3, <4>1 DEF FeaturesInv, StagesFollowGates
        <4>2. CASE ~Claimed(p, g)
          <5>1. PaidFor(p, g) = {}
            BY <2>3, <4>2 DEF FeaturesInv, StagesFollowGates
          <5>2. QED
            BY <2>1, <5>1
        <4>3. QED
          BY <4>1, <4>2
      <3>2. QED
        BY <2>3, <3>1 DEF FeaturesInv, StagesFollowGates
    <2>4. QED
      BY <2>3 DEF FeaturesInv, FundIsShort, Amounts, StagesArePaidOnce
  <1>2. QED
    BY <1>1, FeaturesInvInit, FeaturesStep, PTL DEF FeaturesSpec

\* The weight of a proposal is the total of its vote records (vote_for_feature), whatever the
\* number of voters and their amounts.
THEOREM VotesAreTotalled == FeaturesSpec => []VotesAreCounted
  <1>1. FeaturesInv => VotesAreCounted
    BY DEF FeaturesInv, VotesFollowRecords, VotesAreCounted
  <1>2. QED
    BY <1>1, FeaturesInvInit, FeaturesStep, PTL DEF FeaturesSpec

\* What a step leaves to a proposal that is closed.
Untouched(q) ==
  /\ feature'[q].status \in {feature[q].status, "Cancelled"}
  /\ feature'[q].gate = feature[q].gate /\ vote'[q] = vote[q]
  /\ \A i \in DOMAIN payments' \ DOMAIN payments : payments'[i].proposal # q

\* The row of another proposal changes, and payments are for that one.
LEMMA OthersAreUntouched ==
  ASSUME FeaturesTypeOK, NEW p \in Proposals, NEW row \in FeatureProposal,
         feature' = [feature EXCEPT ![p] = row],
         \A q \in Proposals : q # p => vote'[q] = vote[q],
         \A i \in DOMAIN payments' \ DOMAIN payments : payments'[i].proposal = p
  PROVE  \A q \in Proposals : q # p => Untouched(q)
  BY NewRow DEF Untouched

LEMMA ClosedStep ==
  ASSUME FeaturesInv, [FeaturesNext]_featureVars, NEW q \in Proposals,
         HasStatus(q, {"Cancelled", "Finalized"})
  PROVE  Untouched(q)
  <1>1. /\ FeaturesTypeOK /\ GovernanceTypeOK /\ feature[q] # None
        /\ feature[q].status \in {"Cancelled", "Finalized"}
    BY DEF FeaturesInv, FeaturesTypeOK, HasStatus
  <1>2. ASSUME UNCHANGED governanceVars
        PROVE  DOMAIN payments' \ DOMAIN payments = {}
    BY <1>2 DEF governanceVars
  <1>3. ASSUME NEW p \in Proposals, NEW u \in Users, NEW room \in Rooms,
               submit_feature_proposal(p, u, room)
        PROVE  Untouched(q)
    <2>1. q # p /\ UNCHANGED vote /\ UNCHANGED governanceVars
      BY <1>1, <1>3 DEF submit_feature_proposal
    <2>2. feature'[q] = feature[q]
      BY <1>1, <1>3, <2>1 DEF submit_feature_proposal, FeaturesTypeOK
    <2>3. QED
      BY <1>2, <2>1, <2>2 DEF Untouched
  <1>4. ASSUME NEW p \in Proposals, NEW u \in Users, NEW amount \in VoteAmounts,
               vote_for_feature(p, u, amount)
        PROVE  Untouched(q)
    <2>1. /\ q # p /\ vote' = [vote EXCEPT ![p][u] = amount]
          /\ UNCHANGED governanceVars
      BY <1>1, <1>4 DEF vote_for_feature, HasStatus
    <2>2. PICK row \in FeatureProposal : feature' = [feature EXCEPT ![p] = row]
      BY <1>1, <1>4, vote_for_featureRow
    <2>3. \A r \in Proposals : r # p => vote'[r] = vote[r]
      BY <1>1, <2>1 DEF FeaturesTypeOK
    <2>4. QED
      BY <1>1, <1>2, <2>1, <2>2, <2>3, OthersAreUntouched
  <1>5. ASSUME NEW p \in Proposals, NEW status \in ProposalStatus,
               update_proposal_status(p, status)
        PROVE  Untouched(q)
    <2>1. PICK row \in FeatureProposal :
            /\ feature' = [feature EXCEPT ![p] = row]
            /\ row.status = status /\ row.gate = feature[p].gate
      BY <1>1, <1>5, update_proposal_statusRow
    <2>2. /\ UNCHANGED vote /\ UNCHANGED governanceVars
          /\ <<feature[p].status, status>> \in NextStatus
      BY <1>5 DEF update_proposal_status
    <2>3. CASE q = p
      <3>1. status = "Cancelled"
        BY <1>1, <2>2, <2>3 DEF NextStatus
      <3>2. feature'[q] = row
        BY <1>1, <2>1, <2>3, NewRow
      <3>3. QED
        BY <1>2, <2>1, <2>2, <2>3, <3>1, <3>2 DEF Untouched
    <2>4. CASE q # p
      BY <1>1, <1>2, <2>1, <2>2, <2>4, OthersAreUntouched
    <2>5. QED
      BY <2>3, <2>4
  <1>6. ASSUME NEW p \in Proposals, NEW score \in Scores, NEW g \in GateTypes, Reports(p, g, score)
        PROVE  Untouched(q)
    <2>1. q # p /\ UNCHANGED vote /\ UNCHANGED governanceVars
      BY <1>1, <1>6 DEF Reports, HasStatus
    <2>2. PICK row \in FeatureProposal : feature' = [feature EXCEPT ![p] = row]
      BY <1>1, <1>6, ReportsRow
    <2>3. QED
      BY <1>1, <1>2, <2>1, <2>2, OthersAreUntouched
  <1>7. ASSUME NEW p \in Proposals, NEW stage \in Stages, NEW amount \in Nat, Pays(p, stage, amount)
        PROVE  \A i \in DOMAIN payments' \ DOMAIN payments : payments'[i].proposal = p
    <2>1. p \in STRING
      BY FeaturesAssumption
    <2>2. /\ DOMAIN payments' = DOMAIN payments \cup {Len(payments) + 1}
          /\ payments'[Len(payments) + 1].proposal = p
      BY <1>1, <1>7, <2>1, PaysEffect
    <2>3. QED
      BY <2>2
  <1>8. ASSUME NEW p \in Proposals, NEW g \in {"Benchmark", "ABTest"}, claim_bounty_reward(p, g)
        PROVE  Untouched(q)
    <2>1. /\ q # p /\ UNCHANGED vote /\ g \in GateTypes /\ g \in Stages
          /\ params # None /\ Pays(p, g, PartOf(Bounty0, StagePart(g)))
      BY <1>1, <1>8, GovernanceAssumption
      DEF claim_bounty_reward, HasStatus, Stages, FeaturesInv, StagesFollowGates
    <2>2. PICK part : part = StagePart(g)
      OBVIOUS
    <2>3. part \in Nat
      BY <1>1, <2>1, <2>2, ParamsType DEF StagePart
    <2>4. PICK amount : amount = PartOf(Bounty0, part)
      OBVIOUS
    <2>5. amount \in Nat /\ Pays(p, g, amount)
      BY <2>1, <2>2, <2>3, <2>4, PartOfType, FeaturesAssumption
    <2>6. PICK row \in FeatureProposal : feature' = [feature EXCEPT ![p] = row]
      BY <1>1, <1>8, <2>1, claim_bounty_rewardRow
    <2>7. QED
      BY <1>1, <1>7, <2>1, <2>5, <2>6, OthersAreUntouched
  <1>9. ASSUME NEW p \in Proposals, finalize_rewards(p) PROVE Untouched(q)
    <2>1. /\ q # p /\ UNCHANGED vote /\ "Merge" \in Stages
          /\ params # None /\ Pays(p, "Merge", PartOf(Bounty0, params.merge))
      BY <1>1, <1>9
      DEF finalize_rewards, HasStatus, Stages, FeaturesInv, StagesFollowGates
    <2>2. PICK part : part = params.merge
      OBVIOUS
    <2>3. part \in Nat
      BY <1>1, <2>1, <2>2, ParamsType
    <2>4. PICK amount : amount = PartOf(Bounty0, part)
      OBVIOUS
    <2>5. amount \in Nat /\ Pays(p, "Merge", amount)
      BY <2>1, <2>2, <2>3, <2>4, PartOfType, FeaturesAssumption
    <2>6. PICK row \in FeatureProposal : feature' = [feature EXCEPT ![p] = row]
      BY <1>1, <1>9, finalize_rewardsRow
    <2>7. QED
      BY <1>1, <1>7, <2>1, <2>5, <2>6, OthersAreUntouched
  <1>10. ASSUME UNCHANGED <<payments, feature, vote>> PROVE Untouched(q)
    BY <1>10 DEF Untouched
  <1>11. ASSUME NEW p \in Proposals, NEW score \in Scores,
                \/ report_benchmark_result(p, score) \/ report_ab_test_result(p, score)
                \/ report_feedback_result(p, score) \/ report_steward_approval(p, score)
         PROVE  Untouched(q)
    BY <1>6, <1>11, GovernanceAssumption
    DEF report_benchmark_result, report_ab_test_result, report_feedback_result,
        report_steward_approval
  <1>12. CASE govern /\ UNCHANGED <<feature, vote>>
    BY <1>1, <1>10, <1>12, governType
  <1>13. CASE UNCHANGED featureVars
    BY <1>10, <1>13 DEF featureVars, governanceVars
  <1>14. QED
    BY <1>3, <1>4, <1>5, <1>8, <1>9, <1>11, <1>12, <1>13 DEF FeaturesNext

\* A cancelled or finalized proposal is over: no vote, no report, no payment, and no status but
\* Cancelled (update_proposal_status and the status checks of the other instructions).
THEOREM ClosedIsOver == FeaturesSpec => ClosedStaysClosed
  <1>1. FeaturesInv /\ [FeaturesNext]_featureVars =>
          [\A p \in Proposals :
             HasStatus(p, {"Cancelled", "Finalized"}) =>
               /\ feature'[p].status \in {feature[p].status, "Cancelled"}
               /\ feature'[p].gate = feature[p].gate /\ vote'[p] = vote[p]
               /\ \A i \in DOMAIN payments' \ DOMAIN payments :
                    payments'[i].proposal # p]_featureVars
    BY ClosedStep DEF Untouched
  <1>2. QED
    BY <1>1, FeaturesInvInit, FeaturesStep, PTL DEF FeaturesSpec, ClosedStaysClosed
=============================================================================
