------------------------------ MODULE Governance ------------------------------
(***************************************************************************)
(* What the instructions of the amos-governance program share: the         *)
(* parameters that the authority may change at any time, the treasury      *)
(* account that pays rewards and stipends, and what it has paid.           *)
(***************************************************************************)
EXTENDS Chain

CONSTANTS
  ParamSets,   \* parameters the authority may set
  GateTypes,   \* GateType, in the order of the enumeration
  Treasury0    \* tokens in the treasury account at the start

ASSUME GovernanceAssumption ==
  /\ GateTypes = {"Benchmark", "ABTest", "Feedback", "StewardApproval"}
  /\ Treasury0 \in Nat
  /\ None \notin ParamSets
  /\ \A p \in ParamSets :
       /\ p.threshold \in [GateTypes -> Nat]   \* min_benchmark_bps, ..., steward_quorum
       /\ {p.completion, p.ab, p.merge, p.stipend, p.success} \subseteq Nat

VARIABLES
  params,     \* StoredGovernanceParams, None until initialize_governance
  fund,       \* the treasury's tokens
  payments    \* history: what was paid, of which proposal, for which stage

governanceVars == <<now, params, fund, payments>>

Stages == GateTypes \cup {"Merge", "Stipend", "Bonus"}

Payment == [proposal : STRING, stage : Stages, amount : Nat]

GovernanceTypeOK ==
  /\ now \in Times
  /\ params \in ParamSets \cup {None}
  /\ fund \in Nat
  /\ payments \in Seq(Payment)

GovernanceInit == now = 0 /\ params = None /\ fund = Treasury0 /\ payments = <<>>

\* The split of a bounty adds up to the whole.
SplitIsWhole(p) == p.completion + p.ab + p.merge = Whole

initialize_governance(p) ==
  /\ params = None
  /\ SplitIsWhole(p)
  /\ params' = p
  /\ UNCHANGED <<now, fund, payments>>

\* Without a delay, whatever is being paid meanwhile.
update_governance_params(p) ==
  /\ params # None
  /\ SplitIsWhole(p)
  /\ params' = p
  /\ UNCHANGED <<now, fund, payments>>

\* The transfer from the treasury: a fraction of the amount a proposal asked for.
Pays(proposal, stage, amount) ==
  /\ fund >= amount
  /\ fund' = fund - amount
  /\ payments' = Append(payments, [proposal |-> proposal, stage |-> stage, amount |-> amount])

govern ==
  \/ \E p \in ParamSets : initialize_governance(p) \/ update_governance_params(p)
  \/ passes /\ UNCHANGED <<params, fund, payments>>

PaidFor(proposal, stage) ==
  {i \in DOMAIN payments : payments[i].proposal = proposal /\ payments[i].stage = stage}
=============================================================================
