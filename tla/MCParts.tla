------------------------------- MODULE MCParts --------------------------------
(***************************************************************************)
(* The parts of the system that run on their own, checked side by side: a  *)
(* behaviour is one of one part, while the variables of the others keep    *)
(* their initial values.  The parts of the three Solana programs share     *)
(* what Chain, BountyAccounts and Governance define, the oracle and the    *)
(* agent's loop share nothing with them.                                   *)
(***************************************************************************)
EXTENDS OnChainListing, CommercialEscrow, AgentTrust, TypeRegistry, Treasury,
        Features, Research, BudgetGates, TokenMath, OracleLoop, AgentLoop

VARIABLE part

escrowState    == <<balance, burned, escrow, proofs>>
treasuryState  == <<treasury, holderPool, stake, distributions, coins, grown, astray>>
featuresState  == <<feature, vote>>
payingState    == <<params, fund, payments>>
accountsState  == <<config, metrics, stats>>
loopVars       == <<oracleVars, agentVars>>
vars == <<part, now, accountsState, listing, escrowState, trustVars, registry, treasuryState,
          payingState, featuresState, study, budgetVars, mathVars, loopVars>>

SomeMath == CHOOSE q \in [amount : Quotes, pool : Quotes, stake : Quotes, other : Quotes] : TRUE

MathParts ==
  \/ /\ part = "curves"
     /\ curve \in {[day |-> d, k |-> c[1], midpoint |-> c[2]] : d \in CurveDays, c \in Curvatures}
     /\ holding = FirstHolding(Max(Originals), 0) /\ quote = SomeMath
  \/ /\ part = "decay"
     /\ curve = [day |-> 0, k |-> 50, midpoint |-> 1460]
     /\ holding \in {FirstHolding(o, t) : o \in Originals, t \in Tiers} /\ quote = SomeMath
  \/ /\ part = "quotes"
     /\ curve = [day |-> 0, k |-> 50, midpoint |-> 1460]
     /\ holding = FirstHolding(Max(Originals), 0)
     /\ quote \in [amount : Quotes, pool : Quotes, stake : Quotes, other : Quotes]
  \/ /\ part \in {"listing", "escrow", "trust", "registry", "treasury", "features", "research",
                  "budget", "oracle", "agent"}
     /\ curve = [day |-> 0, k |-> 50, midpoint |-> 1460]
     /\ holding = FirstHolding(Max(Originals), 0) /\ quote = SomeMath

Init ==
  /\ MathParts /\ jobs = 0
  /\ ListingInit /\ EscrowInit /\ TrustInit /\ RegistryInit /\ TreasuryInit /\ FeaturesInit
  /\ ResearchInit /\ BudgetInit /\ OracleInit
  /\ AgentInit
  /\ part # "agent" => session.mode = 0 /\ messages = <<Text("user")>> /\ orderly

Next ==
  /\ UNCHANGED part
  /\ \/ /\ part = "listing" /\ ListingNext
        /\ UNCHANGED <<escrowState, trustVars, registry, treasuryState, payingState,
                       featuresState, study, budgetVars, mathVars, loopVars>>
     \/ /\ part = "escrow" /\ EscrowNext
        /\ UNCHANGED <<listing, trustVars, registry, treasuryState, payingState, featuresState,
                       study, budgetVars, mathVars, loopVars>>
     \/ /\ part = "trust" /\ TrustNext
        /\ UNCHANGED <<now, accountsState, listing, escrowState, registry, treasuryState,
                       payingState, featuresState, study, budgetVars, mathVars, loopVars>>
     \/ /\ part = "registry" /\ RegistryNext
        /\ UNCHANGED <<accountsState, listing, escrowState, trustVars, treasuryState,
                       payingState, featuresState, study, budgetVars, mathVars, loopVars>>
     \/ /\ part = "treasury" /\ TreasuryNext
        /\ UNCHANGED <<accountsState, listing, escrowState, trustVars, registry, payingState,
                       featuresState, study, budgetVars, mathVars, loopVars>>
     \/ /\ part = "features" /\ FeaturesNext
        /\ UNCHANGED <<accountsState, listing, escrowState, trustVars, registry, treasuryState,
                       study, budgetVars, mathVars, loopVars>>
     \/ /\ part = "research" /\ ResearchNext
        /\ UNCHANGED <<accountsState, listing, escrowState, trustVars, registry, treasuryState,
                       featuresState, budgetVars, mathVars, loopVars>>
     \/ /\ part = "budget" /\ BudgetNext
        /\ UNCHANGED <<now, accountsState, listing, escrowState, trustVars, registry,
                       treasuryState, payingState, featuresState, study, mathVars, loopVars>>
     \/ /\ part \in {"curves", "decay"} /\ MathNext
        /\ part = "curves" <=> holding' = holding /\ jobs' = jobs
        /\ UNCHANGED <<now, accountsState, listing, escrowState, trustVars, registry,
                       treasuryState, payingState, featuresState, study, budgetVars, loopVars>>
     \/ /\ part = "oracle" /\ OracleNext
        /\ UNCHANGED <<now, accountsState, listing, escrowState, trustVars, registry,
                       treasuryState, payingState, featuresState, study, budgetVars, mathVars,
                       agentVars>>
     \/ /\ part = "agent" /\ AgentNext
        /\ UNCHANGED <<now, accountsState, listing, escrowState, trustVars, registry,
                       treasuryState, payingState, featuresState, study, budgetVars, mathVars,
                       oracleVars>>

Spec == Init /\ [][Next]_vars

TypeOK ==
  /\ part \in {"listing", "escrow", "trust", "registry", "treasury", "features", "research",
               "budget", "curves", "decay", "quotes", "oracle", "agent"}
  /\ ListingTypeOK /\ EscrowTypeOK /\ TrustTypeOK /\ RegistryTypeOK /\ TreasuryTypeOK
  /\ FeaturesTypeOK /\ ResearchTypeOK /\ BudgetTypeOK /\ MathTypeOK
  /\ OracleTypeOK /\ AgentTypeOK

-----------------------------------------------------------------------------
\* Values of the constants.

FirstBalances ==
  [m \in Mints |-> [h \in Holders |->
     IF m # FirstMint THEN 0 ELSE IF h = "treasury" THEN 10 ELSE IF h = "ann" THEN 20 ELSE 0]]
ReportedProfits == {<<5, 5>>}
FirstWallets ==
  [m \in Coins |-> [u \in Users |-> IF m # FirstCoin THEN 0 ELSE IF u = "bob" THEN 2 ELSE 5]]
Completions == <<0, 1, 2>>
Reputations == <<0, 5, 8>>
NeededCompletions == [l \in 2 .. 3 |-> Completions[l]]
NeededReputation == [l \in 2 .. 3 |-> Reputations[l]]
LevelPoints == <<1, 3, 5>>
GovernanceParams ==
  { [ threshold |-> [g \in GateTypes |-> 2], completion |-> 5, ab |-> 3, merge |-> 2,
      stipend |-> 4, success |-> 6 ],
    [ threshold |-> [g \in GateTypes |-> 1], completion |-> 3, ab |-> 2, merge |-> 5,
      stipend |-> 2, success |-> 3 ],
    [ threshold |-> [g \in GateTypes |-> 0], completion |-> 6, ab |-> 6, merge |-> 6,
      stipend |-> 2, success |-> 3 ] }
Days == UNION {0 .. 60, 240 .. 280, 520 .. 620, 1020 .. 1150, 1420 .. 1500,
               1800 .. 1880, 2600 .. 2680}
Curves == {<<50, 1460>>, <<200, 730>>, <<20, 3650>>}
AgentSessions ==
  { [preserve |-> 6, mode |-> 1, overrides |-> <<>>],
    [preserve |-> 6, mode |-> 0, overrides |-> [t \in {"remember"} |-> 0]] }
RequiredLevels == [t \in Tools |-> 1]
\* Nothing; text; calls with their results; the same, begun or ended in a way that is not
\* orderly; and more than forty messages, cut between calls and results on both sides.
AgentHistories ==
  LET worked(n) == [k \in 1 .. n |-> IF k = 1 THEN Text("user")
                                     ELSE IF k = n /\ n % 2 = 0 THEN Text("assistant")
                                     ELSE IF k % 2 = 0 THEN Calling(-k) ELSE Answering(1 - k)]
  IN {<<>>, <<Text("user"), Text("assistant")>>, worked(6), worked(5), worked(42),
      <<[role |-> "tool", uses |-> -1, results |-> -2], Text("system")>>}
=============================================================================
