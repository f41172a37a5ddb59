---------------------------- MODULE EmissionPool -----------------------------
(***************************************************************************)
(* The daily emission pool: what a settled bounty is paid.                 *)
(*                                                                         *)
(* The relay reads today's pool and computes a cap for the payout          *)
(* (amos-relay/src/solana.rs); later a transaction with                    *)
(* prepare_bounty_submission and submit_bounty_proof computes the payout   *)
(* from the pool as it is then, and takes the lower of the two             *)
(* (amos-bounty/src/instructions).  Between the two, other payouts change  *)
(* the pool and the day may end.  A transaction is atomic; one that fails  *)
(* changes nothing.                                                        *)
(*                                                                         *)
(* Amounts are small: OneToken stands for 10^9 lamports, Whole for 10000   *)
(* basis points, DayLength for 86400 seconds.  The sigmoid curves are the  *)
(* constant functions Emission and GrowthCap of the day.                   *)
(*                                                                         *)
(* Definitions with a suffix (Charged_growth_apart, ...) that precede one  *)
(* without are faulty variants, used only to see that the properties       *)
(* matter.                                                                 *)
(***************************************************************************)
EXTENDS Integers, FiniteSets

CONSTANTS
  Bounties,
  Relays,           \* settlements in flight
  Types,            \* contribution types the relay sends
  GrowthTypes,      \* types of the growth pool (8 to 10)
  Multiplier,       \* multiplier of each type, in parts of Whole
  BasePoints,       \* points the relay may send
  MaxBountyPoints,  \* MAX_BOUNTY_POINTS
  LastDay,          \* bound of the model: days are 0 .. LastDay
  DayLength,
  Emission,         \* sigmoid_daily_emission of each day
  GrowthCap,        \* sigmoid_growth_cap_bps of each day, in parts of Whole
  Whole,            \* BPS_DENOMINATOR
  ReviewerPart,     \* REVIEWER_REWARD_BPS
  VirtualPoints,    \* VIRTUAL_POINTS_BASE
  AssumedEmission,  \* the emission fallback_max_reward assumes
  AssumedPoints,    \* the points it assumes
  OneToken,
  Supply,           \* what the treasury holds at the start
  None

Days == 0 .. LastDay

ASSUME SizesAssumption ==
  /\ LastDay \in Nat /\ DayLength \in Nat \ {0}
  /\ Whole \in Nat \ {0} /\ ReviewerPart \in 0 .. Whole
  /\ VirtualPoints \in Nat /\ AssumedEmission \in Nat /\ AssumedPoints \in Nat
  /\ OneToken \in Nat \ {0} /\ Supply \in Nat
  /\ BasePoints \subseteq Nat \ {0} /\ MaxBountyPoints \in Nat \ {0}

ASSUME CurvesAssumption ==
  /\ Emission \in [Days -> Nat \ {0}]
  /\ GrowthCap \in [Days -> 0 .. Whole]
  /\ GrowthTypes \subseteq Types
  /\ Multiplier \in [Types -> Nat]

VARIABLES
  now,       \* day and second of the day, on chain and in the relay
  pool,      \* the DailyPool accounts
  proofs,    \* bounties whose BountyProof account exists
  treasury,  \* balance of the treasury token account
  config,    \* total_tokens_distributed of BountyConfig
  received,  \* what operators and reviewers received
  quote      \* what each settlement in flight is about to submit

vars == <<now, pool, proofs, treasury, config, received, quote>>

\* emission = 0 is an account that does not exist or was not initialized.
Pool == [ emission        : Nat,
          distributed     : Nat,   \* tokens_distributed
          points          : Nat,   \* total_points
          growth          : Nat,   \* growth_tokens_distributed
          growthPoints    : Nat,
          technical       : Nat,   \* technical_tokens_distributed
          technicalPoints : Nat,
          proofs          : Nat ]  \* proof_count

EmptyPool(emission) ==
  [ emission |-> emission, distributed |-> 0, points |-> 0, growth |-> 0, growthPoints |-> 0,
    technical |-> 0, technicalPoints |-> 0, proofs |-> 0 ]

\* cap = 0 is "no cap" to submit_bounty_proof.
Quote == [bounty : Bounties, type : Types, points : BasePoints, cap : Nat]

TypeOK ==
  /\ now \in [day : Days, second : 0 .. DayLength - 1]
  /\ pool \in [Days -> Pool]
  /\ proofs \subseteq Bounties
  /\ treasury \in Nat
  /\ config \in Nat
  /\ received \in [operators : Nat, reviewers : Nat]
  /\ quote \in [Relays -> Quote \cup {None}]

Init ==
  /\ now = [day |-> 0, second |-> 0]
  /\ pool = [d \in Days |-> EmptyPool(0)]
  /\ proofs = {}
  /\ treasury = Supply
  /\ config = 0
  /\ received = [operators |-> 0, reviewers |-> 0]
  /\ quote = [r \in Relays |-> None]

-----------------------------------------------------------------------------
Least(a, b) == IF a <= b THEN a ELSE b
Most(a, b) == IF a >= b THEN a ELSE b
Less(a, b) == IF a >= b THEN a - b ELSE 0     \* saturating_sub

\* The share of `points' points in `amount', beside `others' points.
Share(points, amount, others) == (points * amount) \div (others + points)

-----------------------------------------------------------------------------
\* The cap of the relay.

\* compute_dynamic_max_reward: a share of what the day has dripped and not paid.
compute_dynamic_max_reward(points, p, second) ==
  LET available == Less((p.emission * second) \div DayLength, p.distributed) IN
  IF available = 0 THEN 0
  ELSE Most(Share(points, available, p.points + VirtualPoints), Least(OneToken, available))

\* fallback_max_reward: the pool could not be read.
fallback_max_reward(points) ==
  Most(Share(points, AssumedEmission, AssumedPoints + VirtualPoints), OneToken)

\* The relay prices a settlement.  Without a pool account, or when a read fails, it falls
\* back; neither it nor the chain looks at the price again.
price(r, b, type, points) ==
  /\ quote[r] = None
  /\ \E cap \in {fallback_max_reward(points)} \cup
        (IF pool[now.day].emission = 0 THEN {}
         ELSE {compute_dynamic_max_reward(points, pool[now.day], now.second)}) :
       quote' = [quote EXCEPT ![r] = [bounty |-> b, type |-> type, points |-> points, cap |-> cap]]
  /\ UNCHANGED <<now, pool, proofs, treasury, config, received>>

\* The request is dropped, or its transaction fails.
drop(r) ==
  /\ quote[r] # None
  /\ quote' = [quote EXCEPT ![r] = None]
  /\ UNCHANGED <<now, pool, proofs, treasury, config, received>>

-----------------------------------------------------------------------------
\* The program.

Prepared_day_sentinel(d) == IF d = 0 THEN EmptyPool(Emission[d]) ELSE
  IF pool[d].emission = 0 THEN EmptyPool(Emission[d]) ELSE pool[d]

\* Today's pool after prepare_bounty_submission, which anybody may call at any time.
Prepared(d) == IF pool[d].emission = 0 THEN EmptyPool(Emission[d]) ELSE pool[d]

prepare_bounty_submission ==
  /\ pool' = [pool EXCEPT ![now.day] = Prepared(now.day)]
  /\ UNCHANGED <<now, proofs, treasury, config, received, quote>>

growth_pool_max(d) == (Emission[d] * GrowthCap[d]) \div Whole

adjusted_points(type, points) ==
  Least((points * Multiplier[type]) \div Whole, MaxBountyPoints)

\* Tokens of a growth bounty: from the growth pool only, one unit once that is exhausted.
growth_tokens_uncapped(p, d, points) ==
  Most(Share(points, p.emission - p.distributed, p.growthPoints), 1)

growth_tokens(p, d, points) ==
  LET left == Less(growth_pool_max(d), p.growth) IN
  IF left = 0 THEN 1 ELSE Least(Most(Share(points, left, p.growthPoints), 1), left)

\* Tokens of a technical bounty: from the technical pool and what growth has not used,
\* within what is left of the day.
technical_tokens_unbounded(p, d, points) ==
  LET left == Less(p.emission - growth_pool_max(d), p.technical) + growth_pool_max(d) IN
  Most(Share(points, left, p.technicalPoints), 1)

technical_tokens(p, d, points) ==
  LET left == Least(Less(p.emission - growth_pool_max(d), p.technical)
                      + Less(growth_pool_max(d), p.growth),
                    p.emission - p.distributed)
  IN Most(Share(points, left, p.technicalPoints), 1)

Payout(p, d, type, points, cap) ==
  LET tokens == IF type \in GrowthTypes THEN growth_tokens(p, d, points)
                                        ELSE technical_tokens(p, d, points)
  IN IF cap > 0 THEN Least(tokens, cap) ELSE tokens

Charged_growth_apart(p, type, points, tokens) ==
  LET growth == type \in GrowthTypes IN
  [p EXCEPT !.distributed     = IF growth THEN @ ELSE @ + tokens,
            !.points          = @ + points,
            !.growth          = IF growth THEN @ + tokens ELSE @,
            !.growthPoints    = IF growth THEN @ + points ELSE @,
            !.technical       = IF growth THEN @ ELSE @ + tokens,
            !.technicalPoints = IF growth THEN @ ELSE @ + points,
            !.proofs          = @ + 1]

\* The pool p after a payout.
Charged(p, type, points, tokens) ==
  LET growth == type \in GrowthTypes IN
  [ emission        |-> p.emission,
    distributed     |-> p.distributed + tokens,
    points          |-> p.points + points,
    growth          |-> p.growth + (IF growth THEN tokens ELSE 0),
    growthPoints    |-> p.growthPoints + (IF growth THEN points ELSE 0),
    technical       |-> p.technical + (IF growth THEN 0 ELSE tokens),
    technicalPoints |-> p.technicalPoints + (IF growth THEN 0 ELSE points),
    proofs          |-> p.proofs + 1 ]

submit_bounty_proof_no_init(r) ==
  /\ quote[r] # None
  /\ LET q == quote[r]
         d == now.day
         p == Prepared(d)
         points == adjusted_points(q.type, q.points)
         tokens == Payout(p, d, q.type, points, q.cap)
         reviewer == (tokens * ReviewerPart) \div Whole
     IN /\ points > 0
        /\ p.emission > p.distributed
        /\ tokens - reviewer > 0
        /\ treasury >= tokens
        /\ pool' = [pool EXCEPT ![d] = Charged(p, q.type, points, tokens)]
        /\ proofs' = proofs \cup {q.bounty}
        /\ treasury' = treasury - tokens
        /\ config' = config + tokens
        /\ received' = [operators |-> received.operators + (tokens - reviewer),
                        reviewers |-> received.reviewers + reviewer]
  /\ quote' = [quote EXCEPT ![r] = None]
  /\ UNCHANGED now

\* The settlement transaction: prepare and submit together, on the day they execute.
submit_bounty_proof(r) ==
  /\ quote[r] # None
  /\ LET q == quote[r]
         d == now.day
         p == Prepared(d)
         points == adjusted_points(q.type, q.points)
         tokens == Payout(p, d, q.type, points, q.cap)
         reviewer == (tokens * ReviewerPart) \div Whole
     IN /\ q.bounty \notin proofs
        /\ points > 0
        /\ p.emission > p.distributed
        /\ tokens - reviewer > 0
        /\ treasury >= tokens
        /\ pool' = [pool EXCEPT ![d] = Charged(p, q.type, points, tokens)]
        /\ proofs' = proofs \cup {q.bounty}
        /\ treasury' = treasury - tokens
        /\ config' = config + tokens
        /\ received' = [operators |-> received.operators + (tokens - reviewer),
                        reviewers |-> received.reviewers + reviewer]
  /\ quote' = [quote EXCEPT ![r] = None]
  /\ UNCHANGED now

tick_past_midnight ==
  /\ \/ /\ now.second < DayLength
        /\ now' = [now EXCEPT !.second = @ + 1]
     \/ /\ now.second + 1 = DayLength
        /\ now.day < LastDay
        /\ now' = [day |-> now.day + 1, second |-> 0]
  /\ UNCHANGED <<pool, proofs, treasury, config, received, quote>>

\* Time passes, to the end of the last day.
tick ==
  /\ \/ /\ now.second + 1 < DayLength
        /\ now' = [now EXCEPT !.second = @ + 1]
     \/ /\ now.second + 1 = DayLength
        /\ now.day < LastDay
        /\ now' = [day |-> now.day + 1, second |-> 0]
  /\ UNCHANGED <<pool, proofs, treasury, config, received, quote>>

Next ==
  \/ \E r \in Relays :
       \/ \E b \in Bounties, type \in Types, points \in BasePoints : price(r, b, type, points)
       \/ drop(r)
       \/ submit_bounty_proof(r)
  \/ prepare_bounty_submission
  \/ tick

Spec == Init /\ [][Next]_vars

-----------------------------------------------------------------------------
\* Properties.

\* What the days have counted, one pair for each unit.
Counted(count) == UNION {{d} \X (1 .. count[d]) : d \in Days}

\* Every token that left the treasury is accounted for three times over: in the program's
\* total, in the pool of the day it was paid, under growth or technical, and with whoever
\* received it.
BooksBalance ==
  /\ Supply = treasury + config
  /\ config = received.operators + received.reviewers
  /\ config = Cardinality(Counted([d \in Days |-> pool[d].distributed]))
  /\ \A d \in Days : pool[d].distributed = pool[d].growth + pool[d].technical

\* The pools have paid exactly as many times as there are bounties with a proof: two
\* settlements of one bounty, in flight together or on different days, are paid once.
OnePayoutPerProof ==
  Cardinality(Counted([d \in Days |-> pool[d].proofs])) = Cardinality(proofs)

\* Growth bounties are not bounded by what is left of the day, only by the growth pool.  So a
\* day may overspend, but by less than its growth pool.
OverspendIsBounded ==
  \A d \in Days :
    pool[d].emission > 0 =>
      pool[d].distributed < pool[d].emission + Most(growth_pool_max(d), 1)

\* A flood of growth bounties takes the growth pool and one unit for each bounty after that,
\* whatever the order in which growth and technical bounties arrive.
GrowthIsCapped ==
  \A d \in Days : pool[d].growth <= growth_pool_max(d) + pool[d].proofs

\* A pool that exists is never set up again, keeps its emission and takes no token back, and
\* a day that is over keeps its pool: however often prepare is called, and whatever was
\* priced before midnight.
PoolOnlyFills ==
  [][\A d \in Days :
       /\ pool[d].emission > 0 =>
            /\ pool'[d].emission = pool[d].emission
            /\ pool'[d].distributed >= pool[d].distributed
            /\ pool'[d].proofs >= pool[d].proofs
       /\ d # now.day => pool'[d] = pool[d]]_vars

\* AGENT_CONTEXT.md on dynamic payouts: "The treasury can never overspend".  The technical
\* pool may use the growth pool's part, and the growth pool then pays it again.
DailyBudget == \A d \in Days : pool[d].distributed <= Emission[d]

\* The comment on VIRTUAL_POINTS_BASE: "no single submission can drain the pool", which a test
\* puts at half of the emission.  A cap of 0, computed when nothing has dripped yet, is no
\* cap at all to the program.
FirstSubmissionTakesHalfAtMost ==
  \A d \in Days : pool[d].proofs = 1 => 2 * pool[d].distributed <= pool[d].emission

=============================================================================
