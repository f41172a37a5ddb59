---------------------------- MODULE BountyAccounts ----------------------------
(***************************************************************************)
(* The accounts the instructions of amos-bounty share: the configuration   *)
(* with its decay rate and its migrations of mint, the platform metrics    *)
(* that recompute the rate, and the statistics of each operator, which     *)
(* claims, escrow, proofs and decay all write.                             *)
(*                                                                         *)
(* The instructions of the oracle are taken from anybody who holds its     *)
(* key; has_one and the seeds of an account are the arguments of the       *)
(* action.                                                                 *)
(***************************************************************************)
EXTENDS Chain

CONSTANTS
  Mints,        \* token mints, of which FirstMint is the one at initialization
  FirstMint,
  MinRate,      \* MIN_DECAY_RATE_BPS
  MaxRate,      \* MAX_DECAY_RATE_BPS
  BaseRate,     \* BASE_DECAY_RATE_BPS
  DefaultRate,  \* DEFAULT_DECAY_RATE_BPS
  ProfitPart,   \* DECAY_PROFIT_MULTIPLIER_BPS
  RatioWidth,   \* 2^16: the profit ratio is computed in 64 bits and cast to 16
  Rates,        \* rates the oracle may ask for
  Profits       \* pairs of fees and system volume it may report

ASSUME AccountsAssumption ==
  /\ FirstMint \in Mints
  /\ MinRate \in Nat /\ MaxRate \in Nat /\ DefaultRate \in MinRate .. MaxRate
  /\ BaseRate \in Nat /\ ProfitPart \in Nat /\ RatioWidth \in Nat \ {0}
  /\ Rates \subseteq Nat /\ Profits \subseteq Nat \X Nat

VARIABLES
  config,   \* BountyConfig
  metrics,  \* PlatformMetrics, None until it is initialized
  stats     \* OperatorStats of each user, None until prepare creates it

accountVars == <<now, config, metrics, stats>>

Config == [ mint        : Mints,
            recipients  : BOOLEAN,   \* holder_pool and labs_wallet are set
            rate        : Nat,       \* decay_rate_bps
            distributed : Nat,       \* total_tokens_distributed
            bounties    : Nat ]      \* total_bounties

\* The volumes and counts it also records are never read.
Metrics == [ratio : Nat, rate : Nat]   \* profit_ratio_bps, computed_decay_rate_bps

Stats == [ bounties  : Nat,     \* total_bounties
           earned    : Nat,     \* total_tokens_earned
           decayable : Nat,     \* decayable_balance
           original  : Nat,     \* original_allocation
           decayed   : Nat,     \* tokens_decayed
           burned    : Nat,     \* tokens_burned
           recycled  : Nat,     \* tokens_recycled
           activity  : Times,   \* last_activity_time
           decay     : Times,   \* last_decay_time
           claims    : Int ]    \* active_claim_count

ASSUME NoneIsNoStats == None \notin Stats

NewStats ==
  [ bounties |-> 0, earned |-> 0, decayable |-> 0, original |-> 0, decayed |-> 0,
    burned |-> 0, recycled |-> 0, activity |-> now, decay |-> now, claims |-> 0 ]

AccountsTypeOK ==
  /\ now \in Times
  /\ config \in Config
  /\ metrics \in Metrics \cup {None}
  /\ stats \in [Users -> Stats \cup {None}]

AccountsInit ==
  /\ now = 0
  /\ config = [ mint |-> FirstMint, recipients |-> FALSE, rate |-> DefaultRate,
                distributed |-> 0, bounties |-> 0 ]
  /\ metrics = None
  /\ stats = [u \in Users |-> None]

-----------------------------------------------------------------------------
\* prepare_bounty_submission, the part about the operator: create the statistics once.
prepare_operator(u) ==
  /\ stats' = [stats EXCEPT ![u] = IF @ = None THEN NewStats ELSE @]
  /\ UNCHANGED <<now, config, metrics>>

\* What submit_bounty_proof and release_escrow add to the row of an operator.
Credited(row, tokens) ==
  [row EXCEPT !.bounties = @ + 1, !.earned = @ + tokens, !.decayable = @ + tokens,
              !.original = @ + tokens, !.activity = now]

-----------------------------------------------------------------------------
\* Administration.

update_decay_rate(rate) ==
  /\ rate \in MinRate .. MaxRate
  /\ config' = [config EXCEPT !.rate = rate]
  /\ UNCHANGED <<now, metrics, stats>>

set_fee_recipients ==
  /\ config' = [config EXCEPT !.recipients = TRUE]
  /\ UNCHANGED <<now, metrics, stats>>

\* A new mint with its treasury; the recipients were accounts of the old one.
update_mint(mint) ==
  /\ config' = [config EXCEPT !.mint = mint, !.recipients = FALSE]
  /\ UNCHANGED <<now, metrics, stats>>

-----------------------------------------------------------------------------
\* Platform metrics.

initialize_metrics ==
  /\ metrics = None
  /\ metrics' = [ratio |-> 0, rate |-> DefaultRate]
  /\ UNCHANGED <<now, config, stats>>

\* Cast to 16 bits first, capped afterwards.
profit_ratio(fees, volume) ==
  IF volume = 0 THEN 0 ELSE Least(((fees * Whole) \div volume) % RatioWidth, Whole)

decay_rate_of(ratio) ==
  Least(Most(Less(BaseRate, PartOf(ratio, ProfitPart)), MinRate), MaxRate)

\* The oracle reports fees and volume; the rate of the configuration follows.
update_metrics(fees, volume) ==
  LET ratio == profit_ratio(fees, volume)
      rate  == decay_rate_of(ratio)
  IN /\ metrics # None
     /\ metrics' = [ratio |-> ratio, rate |-> rate]
     /\ config' = [config EXCEPT !.rate = rate]
     /\ UNCHANGED <<now, stats>>

administer ==
  \/ \E rate \in Rates : update_decay_rate(rate)
  \/ set_fee_recipients
  \/ \E mint \in Mints : update_mint(mint)
  \/ initialize_metrics
  \/ \E p \in Profits : update_metrics(p[1], p[2])

\* Time passes.
wait ==
  /\ passes
  /\ UNCHANGED <<config, metrics, stats>>
=============================================================================
