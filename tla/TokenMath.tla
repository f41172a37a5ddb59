------------------------------- MODULE TokenMath -------------------------------
(***************************************************************************)
(* The arithmetic of the token: the curves of amos-bounty that set the     *)
(* emission of a day and the share of growth work, and the off-chain       *)
(* library of amos-core, with its daily decay, the split of fees, the      *)
(* claims of holders and the rewards of a day.                             *)
(*                                                                         *)
(* Numbers are the program's own.  Emission is counted in whole tokens,    *)
(* which are its integer part in the program's units.  The powers of the   *)
(* decay rate are floating point in the library; the result is a small     *)
(* integer, given here by the rates at which it changes.                   *)
(***************************************************************************)
EXTENDS Integers, Sequences, FiniteSets, FiniteSetsExt, Functions

CONSTANTS
  CurveDays,    \* days since the launch that are looked at
  Curvatures,   \* pairs of k and midpoint, within the bounds for governance
  Originals,    \* tokens of a holding when it was awarded
  Tiers,        \* VaultTier: 0 none, 1 bronze, 2 silver, 3 gold, 4 permanent
  Tenures,      \* days between two runs of the daily job, while it is down
  AnnualRates,  \* base rates, in bps
  MaxJobs,      \* bound of the model: runs of the job
  Quotes        \* amounts of fees, pools and stakes to compute with

ASSUME MathAssumption ==
  /\ CurveDays \subseteq Nat
  /\ \A c \in Curvatures : c[1] \in 20 .. 200 /\ c[2] \in 730 .. 3650
  /\ Originals \subseteq Nat /\ Tiers \subseteq 0 .. 4 /\ Tenures \subseteq Nat
  /\ AnnualRates \subseteq 200 .. 2500 /\ MaxJobs \in Nat /\ Quotes \subseteq Nat \ {0}

VARIABLES
  curve,    \* the day, and k and midpoint of the emission curve
  holding,  \* StakeContext of a holding, and what decay took from it
  jobs,     \* how often the daily job has run
  quote     \* the amounts of one computation

mathVars == <<curve, holding, jobs, quote>>

BPS == 10000

Holding == [ tenure   : Nat,    \* tenure_days
             current  : Nat,    \* current_balance
             original : Originals,
             tier     : Tiers,
             burned   : Nat,
             recycled : Nat ]

MathTypeOK ==
  /\ curve \in [day : CurveDays, k : Nat, midpoint : Nat]
  /\ holding \in Holding /\ jobs \in 0 .. MaxJobs
  /\ quote \in [amount : Quotes, pool : Quotes, stake : Quotes, other : Quotes]

FirstHolding(original, tier) ==
  [ tenure |-> 0, current |-> original, original |-> original, tier |-> tier, burned |-> 0,
    recycled |-> 0 ]

MathInit ==
  /\ curve \in {[day |-> d, k |-> c[1], midpoint |-> c[2]] : d \in CurveDays, c \in Curvatures}
  /\ holding \in {FirstHolding(original, tier) : original \in Originals, tier \in Tiers}
  /\ jobs = 0
  /\ quote \in [amount : Quotes, pool : Quotes, stake : Quotes, other : Quotes]

-----------------------------------------------------------------------------
\* The curves of the chain.

\* Division of signed integers, which rounds to zero.
Over(a, b) == IF a >= 0 THEN a \div b ELSE -((-a) \div b)

\* e^(i / 10), scaled by 10000; the first entry is for i = 0.
EXP_LOOKUP ==
  << 10000, 11052, 12214, 13499, 14918, 16487, 18221, 20138, 22255, 24596,
     27183, 30042, 33201, 36693, 40552, 44817, 49530, 54739, 60496, 66859,
     73891, 81662, 90250, 99741, 110232, 121825, 134637, 148797, 164446, 181741,
     200855, 221979, 245325, 271126, 299641, 331155, 365982, 404473, 447012, 494024,
     545982, 603403, 666863, 737095, 814509, 900171, 995303, 1100317, 1215810, 1343600,
     1484132, 1640029, 1812118, 2002581, 2213643, 2447647, 2707083, 2995545, 3316723, 3674497,
     4034288 >>

\* e^x between two entries of the table, for x = hundredths / 100 in 0 .. 6.
Interpolated_unscaled(hundredths) ==
  LET i == hundredths \div 10 IN
  IF i >= 60 THEN EXP_LOOKUP[61]
  ELSE EXP_LOOKUP[i + 1] + (EXP_LOOKUP[i + 2] - EXP_LOOKUP[i + 1]) * (hundredths % 10)

Interpolated(hundredths) ==
  LET i == hundredths \div 10 IN
  IF i >= 60 THEN EXP_LOOKUP[61]
  ELSE EXP_LOOKUP[i + 1] + ((EXP_LOOKUP[i + 2] - EXP_LOOKUP[i + 1]) * (hundredths % 10)) \div 10

\* Constant beyond 6 on either side; a negative power is a reciprocal.
exp_scaled(hundredths) ==
  IF hundredths >= 600 THEN EXP_LOOKUP[61]
  ELSE IF hundredths <= -600 THEN 1
  ELSE IF hundredths < 0 THEN 100000000 \div Interpolated(-hundredths)
  ELSE Interpolated(hundredths)

\* Tokens of a day, from 16000 at the launch towards 100.
sigmoid_daily_emission(day, k, midpoint) ==
  LET power == exp_scaled(Over(k * (day - midpoint), 100))
  IN 100 + ((16000 - 100) * BPS) \div (BPS + power)

\* Share of growth work, from 20% at the launch towards 3%.
sigmoid_growth_cap_bps(day) ==
  LET power == exp_scaled(Over(100 * (day - 540), 100))
  IN 300 + ((2000 - 300) * (100000000 \div (BPS + power))) \div BPS

\* Multiplier of a discovery, from 150% at the launch towards 300%.
discovery_multiplier_bps(day) ==
  LET power == exp_scaled(Over(-(50 * (day - 1825)), 100))
  IN 15000 + ((30000 - 15000) * (100000000 \div (BPS + power))) \div BPS

\* A day passes.
dawns ==
  /\ curve.day + 1 \in CurveDays
  /\ curve' = [curve EXCEPT !.day = @ + 1]
  /\ UNCHANGED <<holding, jobs, quote>>

-----------------------------------------------------------------------------
\* The decay of the library, one day at a time.

\* By year of tenure: the first, the second, the third to fifth, any later one.
ByTenure(days, values) ==
  LET year == days \div 365
  IN values[IF year <= 1 THEN year + 1 ELSE IF year <= 4 THEN 3 ELSE 4]

tenure_floor_bps(days) == ByTenure(days, <<500, 1000, 1500, 2500>>)
tenure_reduction_bps(days) == ByTenure(days, <<0, 2000, 4000, 7000>>)
vault_reduction_bps(tier) == <<0, 2000, 5000, 8000, 9500>>[tier + 1]

effective_annual_rate_bps(rate, days, tier) ==
  LET after_tenure == (rate * (BPS - tenure_reduction_bps(days))) \div BPS
      after_vault  == (after_tenure * (BPS - vault_reduction_bps(tier))) \div BPS
  IN Max({after_vault, 200})

\* 10%, less a twentieth of the profit as a fraction of the costs, within 2% and 25%.
calculate_dynamic_decay_rate(revenue, costs) ==
  LET profit_ratio == Over((revenue - costs) * BPS, costs)
  IN Min({Max({1000 - Over(profit_ratio, 20), 200}), 2500})

\* ceil((1 - (1 - annual)^(1/365)) * 10000): the annual rates after which it is one more.
annual_to_daily_rate_bps(annual) ==
  1 + Cardinality({r \in {358, 704, 1037, 1358, 1668, 1967, 2255} : annual > r})

Floor(h) == (h.original * tenure_floor_bps(h.tenure)) \div BPS

\* Without the floor.
Decayed_to_nothing(h, rate) ==
  LET daily == annual_to_daily_rate_bps(effective_annual_rate_bps(rate, h.tenure, h.tier))
      due   == Max({(h.current * daily) \div BPS, 1})
  IN IF h.tenure < 365 THEN 0 ELSE Min({due, h.current})

\* What one day takes: nothing in the first year or at the floor, else at least one token.
Decayed(h, rate) ==
  LET daily == annual_to_daily_rate_bps(effective_annual_rate_bps(rate, h.tenure, h.tier))
      due   == Max({(h.current * daily) \div BPS, 1})
  IN IF h.tenure < 365 \/ h.current <= Floor(h) THEN 0 ELSE Min({due, h.current - Floor(h)})

\* The job, after it was down for some days.
apply_daily_decay(rate, days) ==
  LET h      == [holding EXCEPT !.tenure = @ + days]
      taken  == Decayed(h, rate)
      burned == (taken * 1000) \div BPS
  IN /\ jobs < MaxJobs
     /\ jobs' = jobs + 1
     /\ holding' = [h EXCEPT !.current = @ - taken, !.burned = @ + burned,
                             !.recycled = @ + (taken - burned)]
     /\ UNCHANGED <<curve, quote>>

-----------------------------------------------------------------------------
\* Fees, claims and rewards.

\* The share of holders, the part that is burned, and what is left for Labs.
split_protocol_fee(amount) ==
  LET holders == (amount * 5000) \div BPS
      burn    == (amount * 4000) \div BPS
  IN [holders |-> holders, burn |-> burn, labs |-> amount - holders - burn]

\* The relay's: 3% of a reward, then the same split.
calculate_fee(reward) == split_protocol_fee((reward * 300) \div BPS)

calculate_holder_claim_rounded_up(stake, total, pool) ==
  (pool * ((stake * BPS + total - 1) \div total)) \div BPS

\* By a share in bps, where the program multiplies first and divides once.
calculate_holder_claim(stake, total, pool) == (pool * ((stake * BPS) \div total)) \div BPS

\* The reward of a contributor for points of a day, and those of a whole day.
calculate_token_reward(points, total, emission) == (points * emission) \div total

\* A bounty of adjusted points, after others took `distributed' for `today' points of the day.
calculate_bounty_award(points, today, emission, distributed) ==
  LET total    == calculate_token_reward(points, today + points, Max({emission - distributed, 0}))
      reviewer == (total * 500) \div BPS
  IN [total |-> total, reviewer |-> reviewer, contributor |-> total - reviewer]

calculate_daily_rewards(points, emission) ==
  LET total == FoldFunction(LAMBDA a, b : a + b, 0, points)
  IN [c \in DOMAIN points |-> calculate_token_reward(points[c], total, emission)]

MathNext ==
  \/ dawns
  \/ \E rate \in AnnualRates, days \in Tenures : apply_daily_decay(rate, days)

MathSpec == MathInit /\ [][MathNext]_mathVars

-----------------------------------------------------------------------------
\* Properties.

EmissionRange == 100 .. 16000
GrowthRange == 300 .. 2000
DiscoveryRange == 15000 .. 30000
MirrorRange == 16100 - 40 .. 16100 + 40

\* From one day to the next the emission of a day never rises, within ceiling and floor; nor
\* does the share of growth work; and a discovery never becomes worth less.
EmissionOnlyFalls(day, k, midpoint) ==
  /\ sigmoid_daily_emission(day, k, midpoint) \in EmissionRange
  /\ sigmoid_daily_emission(day + 1, k, midpoint) <= sigmoid_daily_emission(day, k, midpoint)

GrowthCapOnlyFalls(day) ==
  /\ sigmoid_growth_cap_bps(day) \in GrowthRange
  /\ sigmoid_growth_cap_bps(day + 1) <= sigmoid_growth_cap_bps(day)

DiscoveryOnlyRises(day) ==
  /\ discovery_multiplier_bps(day) \in DiscoveryRange
  /\ discovery_multiplier_bps(day + 1) >= discovery_multiplier_bps(day)

\* What a day lacks from the ceiling is what its mirror day has above the floor, nearly.
EmissionMirrored(day, k, midpoint) ==
  day <= 2 * midpoint =>
    sigmoid_daily_emission(day, k, midpoint)
      + sigmoid_daily_emission(2 * midpoint - day, k, midpoint) \in MirrorRange

\* The budget of a day and the share of growth work never rise from one day to the next and
\* stay between floor and ceiling, for any parameters governance may choose; a discovery never
\* becomes worth less.  The curves are mirrored at their midpoint, up to what the table cuts
\* off at its ends.
CurvesOnlyFall ==
  /\ EmissionOnlyFalls(curve.day, curve.k, curve.midpoint)
  /\ GrowthCapOnlyFalls(curve.day)
  /\ DiscoveryOnlyRises(curve.day)
  /\ EmissionMirrored(curve.day, curve.k, curve.midpoint)

\* However often the job runs, how long it was down and how the rate changed, a holding in its
\* first year is whole, an older one keeps the floor of its tenure as soon as it is that old,
\* and every token that was taken is burned or recycled.
HoldingKeepsFloor ==
  /\ holding.tenure < 365 => holding.current = holding.original
  /\ holding.current >= (holding.original * tenure_floor_bps(365)) \div BPS
  /\ holding.current + holding.burned + holding.recycled = holding.original
  /\ \A rate \in AnnualRates :
       LET h == holding IN
         /\ h.current - Decayed(h, rate) >= Min({h.current, Floor(h)})
         /\ \A tier \in Tiers : tier >= h.tier =>
              Decayed([h EXCEPT !.tier = tier], rate) <= Decayed(h, rate)

\* Two holders' claims are within the pool, and one is not above what claim_revenue pays for
\* the same stake, nor short of it by more than a ten-thousandth of the pool and a token.
ClaimsAreWithin(stake, other, pool) ==
  LET claim == calculate_holder_claim(stake, stake + other, pool)
      paid  == (stake * pool) \div (stake + other)
  IN /\ claim + calculate_holder_claim(other, stake + other, pool) <= pool
     /\ claim <= paid /\ paid <= claim + pool \div BPS + 1

\* The rewards of a day are its emission, but for one token that rounding leaves.
RewardsAreWithin(stake, other, pool) ==
  LET rewards == calculate_daily_rewards(<<stake, other>>, pool)
  IN rewards[1] + rewards[2] \in pool - 1 .. pool

\* The awards of two bounties, one after the other, are within the emission.
AwardsAreWithin(stake, other, pool) ==
  LET first  == calculate_bounty_award(stake, 0, pool, 0)
      second == calculate_bounty_award(other, stake, pool, first.total)
  IN /\ first.total + second.total <= pool
     /\ second.contributor + second.reviewer = second.total

\* The rate is within its bounds, above the base after a loss only, below it after a profit only.
RateFollowsProfit(revenue, costs) ==
  LET rate == calculate_dynamic_decay_rate(revenue, costs)
  IN /\ rate \in 200 .. 2500
     /\ revenue > costs => rate <= 1000
     /\ revenue < costs => rate >= 1000

\* A fee is split without a remainder, and Labs has its tenth.
FeeIsSplit(amount) ==
  LET fee == calculate_fee(amount)
  IN /\ fee.holders + fee.burn + fee.labs = (amount * 300) \div BPS
     /\ fee.labs >= (((amount * 300) \div BPS) * 1000) \div BPS

\* Off-chain figures never promise what the chain does not pay: two holders' claims together
\* are within the pool, and neither is above what claim_revenue pays for the same stake, or
\* short of it by more than a ten-thousandth of the pool and a token; the rewards of a day are
\* within its emission, and so are the awards of two bounties one after the other; a fee is
\* split without a remainder; decay is lowered by profits only, and raised by losses only.
QuotesAreCovered ==
  /\ ClaimsAreWithin(quote.stake, quote.other, quote.pool)
  /\ RewardsAreWithin(quote.stake, quote.other, quote.pool)
  /\ AwardsAreWithin(quote.stake, quote.other, quote.pool)
  /\ RateFollowsProfit(quote.amount, quote.pool)
  /\ FeeIsSplit(quote.amount)
=============================================================================
