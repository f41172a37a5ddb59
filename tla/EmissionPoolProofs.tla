-------------------------- MODULE EmissionPoolProofs --------------------------
(***************************************************************************)
(* What holds of the daily pools for any curves, any multipliers and caps, *)
(* any number of days, bounties and settlements in flight, and whatever    *)
(* the relay computed before it submitted.                                 *)
(***************************************************************************)
EXTENDS EmissionPool, FiniteSetTheorems, TLAPS

\* The account of a day holds nothing until it is set up, has that day's emission from then
\* on, and has paid what its two parts have paid.
PoolsAreSetUp ==
  \A d \in Days :
    /\ pool[d].emission = 0 => pool[d] = EmptyPool(0)
    /\ pool[d].emission \in {0, Emission[d]}
    /\ pool[d].distributed = pool[d].growth + pool[d].technical

\* The three ways a token is accounted for, and the counting of payouts, over finite sets.
TokensAreCounted ==
  /\ Supply = treasury + config
  /\ config = received.operators + received.reviewers
  /\ IsFiniteSet(Counted([d \in Days |-> pool[d].distributed]))
  /\ config = Cardinality(Counted([d \in Days |-> pool[d].distributed]))

PayoutsAreCounted ==
  /\ IsFiniteSet(proofs)
  /\ IsFiniteSet(Counted([d \in Days |-> pool[d].proofs]))
  /\ Cardinality(Counted([d \in Days |-> pool[d].proofs])) = Cardinality(proofs)

PoolInv == TypeOK /\ PoolsAreSetUp

-----------------------------------------------------------------------------
(* Counting. *)

\* k more units on one day are k more pairs.
LEMMA CountedGrows ==
  ASSUME NEW f \in [Days -> Nat], NEW g \in [Days -> Nat], NEW e \in Days, NEW k \in Nat,
         g[e] = f[e] + k, \A d \in Days \ {e} : g[d] = f[d], IsFiniteSet(Counted(f))
  PROVE  IsFiniteSet(Counted(g)) /\ Cardinality(Counted(g)) = Cardinality(Counted(f)) + k
  <1> DEFINE new == {e} \X (f[e] + 1 .. f[e] + k)
  <1>1. Counted(g) = Counted(f) \cup new
    <2>1. ASSUME NEW d \in Days PROVE {d} \X (1 .. f[d]) \subseteq {d} \X (1 .. g[d])
      BY <2>1
    <2>2. new \subseteq {e} \X (1 .. g[e])
      OBVIOUS
    <2>3. Counted(f) \cup new \subseteq Counted(g)
      BY <2>1, <2>2 DEF Counted
    <2>4. ASSUME NEW d \in Days, NEW x \in {d} \X (1 .. g[d])
          PROVE  x \in Counted(f) \cup new
      <3>1. CASE d # e
        BY <3>1 DEF Counted
      <3>2. CASE d = e
        <4>1. PICK n \in 1 .. g[e] : x = <<e, n>>
          BY <3>2
        <4>2. CASE n <= f[e]
          <5>1. n \in 1 .. f[e]
            BY <4>2
          <5>2. x \in {e} \X (1 .. f[e])
            BY <4>1, <5>1
          <5>3. QED
            BY <5>2 DEF Counted
        <4>3. CASE n > f[e]
          <5>1. n \in f[e] + 1 .. f[e] + k
            BY <4>3
          <5>2. x \in new
            BY <4>1, <5>1
          <5>3. QED
            BY <5>2
        <4>4. QED
          BY <4>2, <4>3
      <3>3. QED
        BY <3>1, <3>2
    <2>5. QED
      BY <2>3, <2>4 DEF Counted
  <1>2. Counted(f) \cap new = {}
    BY DEF Counted
  <1>3. IsFiniteSet(f[e] + 1 .. f[e] + k) /\ Cardinality(f[e] + 1 .. f[e] + k) = k
    <2>1. f[e] + 1 \in Int /\ f[e] + k \in Int
      OBVIOUS
    <2>2. /\ IsFiniteSet(f[e] + 1 .. f[e] + k)
          /\ Cardinality(f[e] + 1 .. f[e] + k) =
               IF f[e] + 1 > f[e] + k THEN 0 ELSE (f[e] + k) - (f[e] + 1) + 1
      BY <2>1, FS_Interval
    <2>3. QED
      BY <2>2
  <1>4. IsFiniteSet({e}) /\ Cardinality({e}) = 1
    BY FS_Singleton
  <1>5. IsFiniteSet(new) /\ Cardinality(new) = 1 * k
    <2>1. PICK S : S = {e}
      OBVIOUS
    <2>2. PICK T : T = f[e] + 1 .. f[e] + k
      OBVIOUS
    <2>3. IsFiniteSet(S) /\ Cardinality(S) = 1 /\ IsFiniteSet(T) /\ Cardinality(T) = k
      BY <1>3, <1>4, <2>1, <2>2
    <2>4. IsFiniteSet(S \X T) /\ Cardinality(S \X T) = 1 * k
      BY <2>3, FS_Product, Zenon
    <2>5. QED
      BY <2>1, <2>2, <2>4, Zenon
  <1>6. Cardinality(Counted(f)) \in Nat
    BY FS_CardinalityType
  <1>7. Cardinality(Counted(f) \cap new) = 0
    BY <1>2, FS_EmptySet
  <1>8. /\ IsFiniteSet(Counted(f) \cup new)
        /\ Cardinality(Counted(f) \cup new)
             = Cardinality(Counted(f)) + Cardinality(new) - Cardinality(Counted(f) \cap new)
    BY <1>5, FS_Union
  <1>9. /\ IsFiniteSet(Counted(g))
        /\ Cardinality(Counted(g)) = Cardinality(Counted(f)) + (1 * k) - 0
    BY <1>1, <1>5, <1>7, <1>8, Zenon
  <1>10. QED
    BY <1>6, <1>9

\* Nothing counted is the empty set.
LEMMA CountedNothing ==
  ASSUME NEW f \in [Days -> Nat], \A d \in Days : f[d] = 0
  PROVE  Counted(f) = {} /\ IsFiniteSet(Counted(f)) /\ Cardinality(Counted(f)) = 0
  <1>1. \A d \in Days : 1 .. f[d] = {}
    OBVIOUS
  <1>2. Counted(f) = {}
    BY <1>1 DEF Counted
  <1>3. QED
    BY <1>2, FS_EmptySet

-----------------------------------------------------------------------------
(* What the program computes. *)

LEMMA Division ==
  ASSUME NEW a \in Nat, NEW b \in Nat \ {0}
  PROVE  a \div b \in Nat
  OBVIOUS

\* A share of an amount is no more than the amount.
LEMMA PartOf ==
  ASSUME NEW a \in Nat, NEW b \in Nat \ {0}, NEW part \in Nat, part <= b
  PROVE  (part * a) \div b \in Nat /\ (part * a) \div b <= a
  <1>1. part * a \in Nat /\ part * a <= b * a
    BY SMT
  <1>2. QED
    BY <1>1, SMT

LEMMA ShareBound ==
  ASSUME NEW points \in Nat \ {0}, NEW amount \in Nat, NEW others \in Nat
  PROVE  Share(points, amount, others) \in Nat /\ Share(points, amount, others) <= amount
  BY PartOf DEF Share

LEMMA growth_pool_maxType ==
  ASSUME NEW d \in Days
  PROVE  growth_pool_max(d) \in Nat /\ growth_pool_max(d) <= Emission[d]
  <1>1. Emission[d] \in Nat /\ GrowthCap[d] \in Nat /\ GrowthCap[d] <= Whole /\ Whole \in Nat \ {0}
    BY CurvesAssumption, SizesAssumption
  <1>2. Emission[d] * GrowthCap[d] = GrowthCap[d] * Emission[d]
    BY <1>1
  <1>3. QED
    BY <1>1, <1>2, PartOf DEF growth_pool_max

LEMMA growth_tokensBound ==
  ASSUME NEW p \in Pool, NEW d \in Days, NEW points \in Nat \ {0}
  PROVE  /\ growth_tokens(p, d, points) \in Nat
         /\ \/ growth_tokens(p, d, points) = 1
            \/ p.growth + growth_tokens(p, d, points) <= growth_pool_max(d)
         /\ growth_tokens(p, d, points) <= Most(growth_pool_max(d), 1)
  <1> DEFINE left == Less(growth_pool_max(d), p.growth)
             share == Share(points, left, p.growthPoints)
  <1>1. growth_pool_max(d) \in Nat /\ p.growth \in Nat /\ p.growthPoints \in Nat
    BY growth_pool_maxType DEF Pool
  <1>2. left \in Nat /\ (left # 0 => p.growth + left = growth_pool_max(d))
    BY <1>1 DEF Less
  <1>3. share \in Nat
    BY <1>1, <1>2, ShareBound
  <1>4. growth_tokens(p, d, points) = IF left = 0 THEN 1 ELSE Least(Most(share, 1), left)
    BY DEF growth_tokens
  <1> HIDE DEF left, share
  <1>5. QED
    BY <1>1, <1>2, <1>3, <1>4 DEF Least, Most

LEMMA technical_tokensBound ==
  ASSUME NEW p \in Pool, NEW d \in Days, NEW points \in Nat \ {0}, p.emission > p.distributed
  PROVE  /\ technical_tokens(p, d, points) \in Nat
         /\ p.distributed + technical_tokens(p, d, points) <= p.emission
  <1> DEFINE left == Least(Less(p.emission - growth_pool_max(d), p.technical)
                             + Less(growth_pool_max(d), p.growth),
                           p.emission - p.distributed)
             share == Share(points, left, p.technicalPoints)
  <1>1. /\ growth_pool_max(d) \in Nat /\ p.growth \in Nat /\ p.technical \in Nat
        /\ p.technicalPoints \in Nat /\ p.emission \in Nat /\ p.distributed \in Nat
    BY growth_pool_maxType DEF Pool
  <1>2. left \in Nat /\ left <= p.emission - p.distributed
    BY <1>1 DEF Less, Least
  <1>3. share \in Nat /\ share <= left
    BY <1>1, <1>2, ShareBound
  <1>4. technical_tokens(p, d, points) = Most(share, 1)
    BY DEF technical_tokens
  <1> HIDE DEF left, share
  <1>5. QED
    BY <1>1, <1>2, <1>3, <1>4 DEF Most

\* A payout, capped or not: a growth payout stays within the growth pool or is one unit, a
\* technical one within the day.
LEMMA PayoutBound ==
  ASSUME NEW p \in Pool, NEW d \in Days, NEW type \in Types, NEW points \in Nat \ {0},
         NEW cap \in Nat, p.emission > p.distributed
  PROVE  LET tokens == Payout(p, d, type, points, cap) IN
         /\ tokens \in Nat
         /\ type \in GrowthTypes =>
              /\ tokens <= 1 \/ p.growth + tokens <= growth_pool_max(d)
              /\ tokens <= Most(growth_pool_max(d), 1)
         /\ type \notin GrowthTypes => p.distributed + tokens <= p.emission
  <1> DEFINE whole == IF type \in GrowthTypes THEN growth_tokens(p, d, points)
                                             ELSE technical_tokens(p, d, points)
             tokens == Payout(p, d, type, points, cap)
  <1>1. /\ p.growth \in Nat /\ p.distributed \in Nat /\ p.emission \in Nat
        /\ growth_pool_max(d) \in Nat /\ Most(growth_pool_max(d), 1) \in Nat
    BY growth_pool_maxType DEF Pool, Most
  <1>2. tokens = IF cap > 0 THEN Least(whole, cap) ELSE whole
    BY DEF Payout
  <1>3. CASE type \in GrowthTypes
    <2>1. /\ whole \in Nat
          /\ whole = 1 \/ p.growth + whole <= growth_pool_max(d)
          /\ whole <= Most(growth_pool_max(d), 1)
      BY <1>3, growth_tokensBound
    <2> HIDE DEF whole, tokens
    <2>2. tokens \in Nat /\ tokens <= whole
      BY <1>2, <2>1 DEF Least
    <2>3. QED
      BY <1>1, <1>3, <2>1, <2>2 DEF tokens
  <1>4. CASE type \notin GrowthTypes
    <2>1. whole \in Nat /\ p.distributed + whole <= p.emission
      BY <1>4, technical_tokensBound
    <2> HIDE DEF whole, tokens
    <2>2. tokens \in Nat /\ tokens <= whole
      BY <1>2, <2>1 DEF Least
    <2>3. QED
      BY <1>1, <1>4, <2>1, <2>2 DEF tokens
  <1>5. QED
    BY <1>3, <1>4

LEMMA adjusted_pointsType ==
  ASSUME NEW type \in Types, NEW points \in BasePoints
  PROVE  adjusted_points(type, points) \in Nat
  <1>1. points \in Nat /\ Multiplier[type] \in Nat /\ Whole \in Nat \ {0} /\ MaxBountyPoints \in Nat
    BY SizesAssumption, CurvesAssumption
  <1>2. points * Multiplier[type] \in Nat
    BY <1>1
  <1>3. (points * Multiplier[type]) \div Whole \in Nat
    BY <1>1, <1>2, Division
  <1>4. QED
    BY <1>1, <1>3 DEF adjusted_points, Least

\* The relay's cap is a number, whatever it read.
LEMMA capType ==
  ASSUME TypeOK, NEW points \in BasePoints,
         NEW cap \in {fallback_max_reward(points)} \cup
           (IF pool[now.day].emission = 0 THEN {}
            ELSE {compute_dynamic_max_reward(points, pool[now.day], now.second)})
  PROVE  cap \in Nat
  <1>1. /\ points \in Nat \ {0} /\ AssumedEmission \in Nat /\ AssumedPoints + VirtualPoints \in Nat
        /\ OneToken \in Nat
    BY SizesAssumption
  <1>2. fallback_max_reward(points) \in Nat
    BY <1>1, ShareBound DEF fallback_max_reward, Most
  <1> DEFINE p == pool[now.day]
             available == Less((p.emission * now.second) \div DayLength, p.distributed)
             share == Share(points, available, p.points + VirtualPoints)
  <1>3. /\ p.emission \in Nat /\ p.distributed \in Nat /\ p.points \in Nat
        /\ now.second \in Nat /\ DayLength \in Nat \ {0} /\ VirtualPoints \in Nat
    BY SizesAssumption DEF TypeOK, Pool
  <1>4. p.emission * now.second \in Nat
    BY <1>3
  <1>5. (p.emission * now.second) \div DayLength \in Nat
    BY <1>3, <1>4, Division
  <1>6. available \in Nat
    BY <1>3, <1>5 DEF Less
  <1>7. share \in Nat
    <2>1. p.points + VirtualPoints \in Nat
      BY <1>3
    <2> HIDE DEF available
    <2>2. QED
      BY <1>1, <1>6, <2>1, ShareBound
  <1>8. compute_dynamic_max_reward(points, p, now.second)
          = IF available = 0 THEN 0 ELSE Most(share, Least(OneToken, available))
    BY DEF compute_dynamic_max_reward
  <1> HIDE DEF available, share
  <1>9. compute_dynamic_max_reward(points, p, now.second) \in Nat
    BY <1>1, <1>6, <1>7, <1>8 DEF Most, Least
  <1>10. QED
    BY <1>2, <1>9

-----------------------------------------------------------------------------
(* What a step does to the pools. *)

LEMMA EmptyPoolType ==
  ASSUME NEW emission \in Nat
  PROVE  EmptyPool(emission) \in Pool
  BY DEF EmptyPool, Pool

LEMMA PreparedPool ==
  ASSUME PoolInv, NEW d \in Days
  PROVE  LET p == Prepared(d) IN
         /\ p \in Pool
         /\ p.emission = Emission[d] /\ p.emission > 0
         /\ pool[d].emission > 0 => p = pool[d]
         /\ p.distributed = pool[d].distributed /\ p.proofs = pool[d].proofs
         /\ p.growth = pool[d].growth /\ p.technical = pool[d].technical
  <1>1. pool[d] \in Pool /\ Emission[d] \in Nat \ {0}
    BY CurvesAssumption DEF PoolInv, TypeOK
  <1>2. pool[d].emission \in {0, Emission[d]} /\ (pool[d].emission = 0 => pool[d] = EmptyPool(0))
    BY DEF PoolInv, PoolsAreSetUp
  <1>3. CASE pool[d].emission = 0
    BY <1>1, <1>2, <1>3, EmptyPoolType DEF Prepared, EmptyPool
  <1>4. CASE pool[d].emission # 0
    <2>1. Prepared(d) = pool[d]
      BY <1>4 DEF Prepared
    <2>2. QED
      BY <1>1, <1>2, <1>4, <2>1
  <1>5. QED
    BY <1>3, <1>4

LEMMA ChargedPool ==
  ASSUME NEW p \in Pool, NEW type \in Types, NEW points \in Nat, NEW tokens \in Nat
  PROVE  LET c == Charged(p, type, points, tokens) IN
         /\ c \in Pool
         /\ c.emission = p.emission
         /\ c.distributed = p.distributed + tokens
         /\ c.proofs = p.proofs + 1
         /\ type \in GrowthTypes => c.growth = p.growth + tokens /\ c.technical = p.technical
         /\ type \notin GrowthTypes => c.growth = p.growth /\ c.technical = p.technical + tokens
  <1> DEFINE growth == type \in GrowthTypes
             c == Charged(p, type, points, tokens)
  <1>1. /\ p.emission \in Nat /\ p.distributed \in Nat /\ p.points \in Nat /\ p.growth \in Nat
        /\ p.growthPoints \in Nat /\ p.technical \in Nat /\ p.technicalPoints \in Nat
        /\ p.proofs \in Nat
    BY DEF Pool
  <1>2. c = [ emission        |-> p.emission,
              distributed     |-> p.distributed + tokens,
              points          |-> p.points + points,
              growth          |-> p.growth + (IF growth THEN tokens ELSE 0),
              growthPoints    |-> p.growthPoints + (IF growth THEN points ELSE 0),
              technical       |-> p.technical + (IF growth THEN 0 ELSE tokens),
              technicalPoints |-> p.technicalPoints + (IF growth THEN 0 ELSE points),
              proofs          |-> p.proofs + 1 ]
    BY DEF Charged
  <1> HIDE DEF c
  <1>3. c \in Pool
    BY <1>1, <1>2 DEF Pool
  <1>4. QED
    BY <1>1, <1>2, <1>3 DEF c

\* A settlement that executes: the bounty q.bounty is paid tokens from today's pool.
LEMMA SubmitEffect ==
  ASSUME PoolInv, NEW r \in Relays, submit_bounty_proof(r)
  PROVE  \E q \in Quote, points \in Nat \ {0}, tokens \in Nat, reviewer \in Nat :
           LET d == now.day  p == Prepared(d) IN
           /\ q.bounty \in Bounties \ proofs /\ q.type \in Types /\ q.cap \in Nat
           /\ p.emission > p.distributed
           /\ tokens = Payout(p, d, q.type, points, q.cap)
           /\ reviewer <= tokens /\ tokens <= treasury
           /\ pool' = [pool EXCEPT ![d] = Charged(p, q.type, points, tokens)]
           /\ proofs' = proofs \cup {q.bounty}
           /\ treasury' = treasury - tokens
           /\ config' = config + tokens
           /\ received' = [operators |-> received.operators + (tokens - reviewer),
                           reviewers |-> received.reviewers + reviewer]
           /\ quote' = [quote EXCEPT ![r] = None]
           /\ now' = now
  <1> DEFINE d == now.day
             p == Prepared(d)
             q == quote[r]
             points == adjusted_points(q.type, q.points)
             tokens == Payout(p, d, q.type, points, q.cap)
             reviewer == (tokens * ReviewerPart) \div Whole
  <1>1. q \in Quote /\ d \in Days
    BY DEF submit_bounty_proof, PoolInv, TypeOK
  <1>2. q.bounty \in Bounties /\ q.type \in Types /\ q.points \in BasePoints /\ q.cap \in Nat
    BY <1>1 DEF Quote
  <1>3. points \in Nat \ {0}
    BY <1>2, adjusted_pointsType DEF submit_bounty_proof
  <1>4. p \in Pool
    BY <1>1, PreparedPool
  <1>5. p.emission > p.distributed /\ q.bounty \notin proofs /\ treasury >= tokens
    BY DEF submit_bounty_proof
  <1>6. tokens \in Nat
    BY <1>1, <1>2, <1>3, <1>4, <1>5, PayoutBound
  <1>7. reviewer \in Nat /\ reviewer <= tokens
    <2>1. ReviewerPart \in Nat /\ ReviewerPart <= Whole /\ Whole \in Nat \ {0}
      BY SizesAssumption
    <2> HIDE DEF tokens
    <2>2. tokens * ReviewerPart = ReviewerPart * tokens
      BY <1>6, <2>1
    <2>3. QED
      BY <1>6, <2>1, <2>2, PartOf
  <1>8. tokens <= treasury
    BY <1>5, <1>6 DEF PoolInv, TypeOK
  <1>9. /\ pool' = [pool EXCEPT ![d] = Charged(p, q.type, points, tokens)]
        /\ proofs' = proofs \cup {q.bounty}
        /\ treasury' = treasury - tokens
        /\ config' = config + tokens
        /\ received' = [operators |-> received.operators + (tokens - reviewer),
                        reviewers |-> received.reviewers + reviewer]
        /\ quote' = [quote EXCEPT ![r] = None]
        /\ now' = now
    BY DEF submit_bounty_proof
  <1> HIDE DEF q, points, tokens, reviewer
  <1>10. QED
    BY <1>1, <1>2, <1>3, <1>5, <1>6, <1>7, <1>8, <1>9 DEF tokens

-----------------------------------------------------------------------------
(* Types, and what an account may be. *)

LEMMA PoolInvInit == Init => PoolInv
  <1> SUFFICES ASSUME Init PROVE PoolInv
    OBVIOUS
  <1>1. \A d \in Days : pool[d] = EmptyPool(0)
    BY DEF Init
  <1>2. pool \in [Days -> Pool]
    BY EmptyPoolType DEF Init
  <1>3. 0 \in Days /\ 0 \in 0 .. DayLength - 1 /\ Supply \in Nat
    BY SizesAssumption DEF Days
  <1>4. TypeOK
    BY <1>2, <1>3 DEF Init, TypeOK
  <1>5. PoolsAreSetUp
    BY <1>1 DEF PoolsAreSetUp, EmptyPool
  <1>6. QED
    BY <1>4, <1>5 DEF PoolInv

\* A step that leaves the pools alone, or changes today's to an account of today.
LEMMA TodaysAccount ==
  ASSUME PoolInv, NEW c \in Pool, pool' = [pool EXCEPT ![now.day] = c],
         c.emission = Emission[now.day], c.distributed = c.growth + c.technical
  PROVE  pool' \in [Days -> Pool] /\ PoolsAreSetUp'
  <1>1. now.day \in Days /\ pool \in [Days -> Pool] /\ Emission[now.day] # 0
    BY CurvesAssumption DEF PoolInv, TypeOK
  <1>2. pool' \in [Days -> Pool]
    BY <1>1
  <1>3. ASSUME NEW e \in Days
        PROVE  /\ pool'[e].emission = 0 => pool'[e] = EmptyPool(0)
               /\ pool'[e].emission \in {0, Emission[e]}
               /\ pool'[e].distributed = pool'[e].growth + pool'[e].technical
    <2>1. CASE e = now.day
      BY <1>1, <2>1
    <2>2. CASE e # now.day
      BY <1>1, <2>2 DEF PoolInv, PoolsAreSetUp
    <2>3. QED
      BY <2>1, <2>2
  <1>4. QED
    BY <1>2, <1>3 DEF PoolsAreSetUp

LEMMA PreparePool ==
  ASSUME PoolInv, prepare_bounty_submission
  PROVE  pool' \in [Days -> Pool] /\ PoolsAreSetUp'
  <1> DEFINE p == Prepared(now.day)
  <1>1. now.day \in Days /\ pool[now.day].distributed = pool[now.day].growth + pool[now.day].technical
    BY DEF PoolInv, TypeOK, PoolsAreSetUp
  <1>2. p \in Pool /\ p.emission = Emission[now.day] /\ p.distributed = p.growth + p.technical
    BY <1>1, PreparedPool
  <1>3. pool' = [pool EXCEPT ![now.day] = p]
    BY DEF prepare_bounty_submission
  <1> HIDE DEF p
  <1>4. QED
    BY <1>2, <1>3, TodaysAccount

\* What a payout makes of today's account.
LEMMA SubmitPool ==
  ASSUME PoolInv, NEW r \in Relays, submit_bounty_proof(r)
  PROVE  pool' \in [Days -> Pool] /\ PoolsAreSetUp'
  <1>1. PICK q \in Quote, points \in Nat \ {0}, tokens \in Nat :
          /\ q.type \in Types
          /\ pool' = [pool EXCEPT ![now.day] = Charged(Prepared(now.day), q.type, points, tokens)]
    BY SubmitEffect
  <1>2. now.day \in Days /\ pool[now.day].distributed = pool[now.day].growth + pool[now.day].technical
    BY DEF PoolInv, TypeOK, PoolsAreSetUp
  <1>3. PICK p \in Pool :
          /\ p = Prepared(now.day) /\ p.emission = Emission[now.day]
          /\ p.distributed = p.growth + p.technical
    BY <1>2, PreparedPool
  <1>4. PICK c : c = Charged(p, q.type, points, tokens)
    OBVIOUS
  <1>5. /\ c \in Pool /\ c.emission = p.emission /\ c.distributed = p.distributed + tokens
        /\ q.type \in GrowthTypes => c.growth = p.growth + tokens /\ c.technical = p.technical
        /\ q.type \notin GrowthTypes => c.growth = p.growth /\ c.technical = p.technical + tokens
    BY <1>1, <1>4, ChargedPool
  <1>6. pool' = [pool EXCEPT ![now.day] = c]
    BY <1>1, <1>3, <1>4
  <1>7. p.growth \in Nat /\ p.technical \in Nat
    BY DEF Pool
  <1>8. c.emission = Emission[now.day] /\ c.distributed = c.growth + c.technical
    BY <1>1, <1>3, <1>5, <1>7
  <1>9. QED
    BY <1>5, <1>6, <1>8, TodaysAccount

LEMMA SubmitType ==
  ASSUME PoolInv, NEW r \in Relays, submit_bounty_proof(r)
  PROVE  TypeOK'
  <1>1. PICK q \in Quote, tokens \in Nat, reviewer \in Nat :
          /\ q.bounty \in Bounties
          /\ reviewer <= tokens /\ tokens <= treasury
          /\ proofs' = proofs \cup {q.bounty}
          /\ treasury' = treasury - tokens
          /\ config' = config + tokens
          /\ received' = [operators |-> received.operators + (tokens - reviewer),
                          reviewers |-> received.reviewers + reviewer]
          /\ quote' = [quote EXCEPT ![r] = None]
          /\ now' = now
    BY SubmitEffect
  <1>2. /\ received.operators \in Nat /\ received.reviewers \in Nat /\ treasury \in Nat
        /\ config \in Nat /\ quote \in [Relays -> Quote \cup {None}]
    BY DEF PoolInv, TypeOK
  <1>3. treasury' \in Nat /\ config' \in Nat
    BY <1>1, <1>2
  <1>4. received.operators + (tokens - reviewer) \in Nat /\ received.reviewers + reviewer \in Nat
    BY <1>1, <1>2
  <1>5. received' \in [operators : Nat, reviewers : Nat]
    BY <1>1, <1>4
  <1>6. quote' \in [Relays -> Quote \cup {None}]
    BY <1>1, <1>2
  <1>7. pool' \in [Days -> Pool]
    BY SubmitPool
  <1>8. QED
    BY <1>1, <1>3, <1>5, <1>6, <1>7 DEF PoolInv, TypeOK

LEMMA PriceType ==
  ASSUME PoolInv, NEW r \in Relays, NEW b \in Bounties, NEW type \in Types,
         NEW points \in BasePoints, price(r, b, type, points)
  PROVE  TypeOK'
  <1>1. PICK cap \in {fallback_max_reward(points)} \cup
           (IF pool[now.day].emission = 0 THEN {}
            ELSE {compute_dynamic_max_reward(points, pool[now.day], now.second)}) :
          quote' = [quote EXCEPT ![r] = [bounty |-> b, type |-> type, points |-> points, cap |-> cap]]
    BY DEF price
  <1>2. cap \in Nat
    BY capType DEF PoolInv
  <1>3. [bounty |-> b, type |-> type, points |-> points, cap |-> cap] \in Quote
    BY <1>2 DEF Quote
  <1>4. quote' \in [Relays -> Quote \cup {None}]
    BY <1>1, <1>3 DEF PoolInv, TypeOK
  <1>5. QED
    BY <1>4 DEF PoolInv, TypeOK, price

LEMMA TickType ==
  ASSUME PoolInv, tick
  PROVE  TypeOK'
  <1>1. /\ now \in [day : Days, second : 0 .. DayLength - 1]
        /\ LastDay \in Nat /\ DayLength \in Nat \ {0}
    BY SizesAssumption DEF PoolInv, TypeOK
  <1>2. CASE now.second + 1 < DayLength /\ now' = [now EXCEPT !.second = @ + 1]
    <2>1. now.second + 1 \in 0 .. DayLength - 1
      BY <1>1, <1>2
    <2>2. now' \in [day : Days, second : 0 .. DayLength - 1]
      BY <1>1, <1>2, <2>1
    <2>3. QED
      BY <2>2 DEF PoolInv, TypeOK, tick
  <1>3. CASE now.day < LastDay /\ now' = [day |-> now.day + 1, second |-> 0]
    <2>1. now.day + 1 \in Days /\ 0 \in 0 .. DayLength - 1
      BY <1>1, <1>3 DEF Days
    <2>2. now' \in [day : Days, second : 0 .. DayLength - 1]
      BY <1>3, <2>1
    <2>3. QED
      BY <2>2 DEF PoolInv, TypeOK, tick
  <1>4. QED
    BY <1>2, <1>3 DEF tick

LEMMA PoolInvStep == PoolInv /\ [Next]_vars => PoolInv'
  <1> SUFFICES ASSUME PoolInv, [Next]_vars PROVE PoolInv'
    OBVIOUS
  <1>1. ASSUME NEW r \in Relays, NEW b \in Bounties, NEW type \in Types, NEW points \in BasePoints,
               price(r, b, type, points)
        PROVE  PoolInv'
    BY <1>1, PriceType, ZenonT(60) DEF price, PoolInv, PoolsAreSetUp
  <1>2. ASSUME NEW r \in Relays, drop(r)
        PROVE  PoolInv'
    BY <1>2 DEF drop, PoolInv, PoolsAreSetUp, TypeOK
  <1>3. ASSUME NEW r \in Relays, submit_bounty_proof(r)
        PROVE  PoolInv'
    BY <1>3, SubmitType, SubmitPool DEF PoolInv
  <1>4. CASE prepare_bounty_submission
    <2>1. pool' \in [Days -> Pool] /\ PoolsAreSetUp'
      BY <1>4, PreparePool
    <2>2. TypeOK'
      BY <1>4, <2>1 DEF prepare_bounty_submission, PoolInv, TypeOK
    <2>3. QED
      BY <2>1, <2>2 DEF PoolInv
  <1>5. CASE tick
    BY <1>5, TickType DEF tick, PoolInv, PoolsAreSetUp
  <1>6. CASE UNCHANGED vars
    BY <1>6 DEF vars, PoolInv, PoolsAreSetUp, TypeOK
  <1>7. QED
    BY <1>1, <1>2, <1>3, <1>4, <1>5, <1>6 DEF Next

LEMMA SpecPoolInv == Spec => []PoolInv
  BY PoolInvInit, PoolInvStep, PTL DEF Spec

\* The variables have their types: amounts never fall below zero, whatever is taken from the
\* treasury and split with the reviewer, and the division of an amount is one.
THEOREM TypeCorrect == Spec => []TypeOK
  <1>1. PoolInv => TypeOK
    BY DEF PoolInv
  <1>2. QED
    BY <1>1, SpecPoolInv, PTL

-----------------------------------------------------------------------------
(* The books. *)

\* A payout as the books see it: p becomes c, which has paid tokens more.
LEMMA SubmitBooks ==
  ASSUME PoolInv, NEW r \in Relays, submit_bounty_proof(r)
  PROVE  \E p \in Pool, c \in Pool, b \in Bounties \ proofs, tokens \in Nat, reviewer \in Nat :
           /\ p.distributed = pool[now.day].distributed /\ p.proofs = pool[now.day].proofs
           /\ p.growth = pool[now.day].growth /\ p.emission > p.distributed
           /\ c.distributed = p.distributed + tokens /\ c.proofs = p.proofs + 1
           /\ c.emission = p.emission
           /\ c.growth <= p.growth + 1 \/ c.growth <= growth_pool_max(now.day) \/ c.growth = p.growth
           /\ c.distributed <= p.emission \/ tokens <= Most(growth_pool_max(now.day), 1)
           /\ pool' = [pool EXCEPT ![now.day] = c]
           /\ proofs' = proofs \cup {b}
           /\ treasury' = treasury - tokens /\ config' = config + tokens
           /\ received' = [operators |-> received.operators + (tokens - reviewer),
                           reviewers |-> received.reviewers + reviewer]
  <1>1. PICK q \in Quote, points \in Nat \ {0}, tokens \in Nat, reviewer \in Nat :
          /\ q.bounty \in Bounties \ proofs /\ q.type \in Types /\ q.cap \in Nat
          /\ Prepared(now.day).emission > Prepared(now.day).distributed
          /\ tokens = Payout(Prepared(now.day), now.day, q.type, points, q.cap)
          /\ pool' = [pool EXCEPT ![now.day] = Charged(Prepared(now.day), q.type, points, tokens)]
          /\ proofs' = proofs \cup {q.bounty}
          /\ treasury' = treasury - tokens /\ config' = config + tokens
          /\ received' = [operators |-> received.operators + (tokens - reviewer),
                          reviewers |-> received.reviewers + reviewer]
    BY SubmitEffect
  <1>2. PICK d \in Days : d = now.day
    BY DEF PoolInv, TypeOK
  <1>3. PICK p \in Pool :
          /\ p = Prepared(d)
          /\ p.distributed = pool[d].distributed /\ p.proofs = pool[d].proofs
          /\ p.growth = pool[d].growth
    BY PreparedPool
  <1>4. PICK c : c = Charged(p, q.type, points, tokens)
    OBVIOUS
  <1>5. /\ c \in Pool /\ c.emission = p.emission /\ c.distributed = p.distributed + tokens
        /\ c.proofs = p.proofs + 1
        /\ q.type \in GrowthTypes => c.growth = p.growth + tokens /\ c.technical = p.technical
        /\ q.type \notin GrowthTypes => c.growth = p.growth /\ c.technical = p.technical + tokens
    <2>1. q.type \in Types /\ points \in Nat
      BY <1>1
    <2>2. QED
      BY <1>4, <2>1, ChargedPool, SMTT(60)
  <1>6. p.emission > p.distributed /\ tokens = Payout(p, d, q.type, points, q.cap)
    BY <1>1, <1>2, <1>3
  <1>7. /\ q.type \in GrowthTypes =>
             /\ tokens <= 1 \/ p.growth + tokens <= growth_pool_max(d)
             /\ tokens <= Most(growth_pool_max(d), 1)
        /\ q.type \notin GrowthTypes => p.distributed + tokens <= p.emission
    BY <1>1, <1>6, PayoutBound
  <1>8. p.growth \in Nat
    BY DEF Pool
  <1>9. /\ c.growth <= p.growth + 1 \/ c.growth <= growth_pool_max(d) \/ c.growth = p.growth
        /\ c.distributed <= p.emission \/ tokens <= Most(growth_pool_max(d), 1)
    <2>1. CASE q.type \in GrowthTypes
      BY <1>5, <1>7, <1>8, <2>1
    <2>2. CASE q.type \notin GrowthTypes
      BY <1>5, <1>7, <2>2
    <2>3. QED
      BY <2>1, <2>2
  <1>10. pool' = [pool EXCEPT ![now.day] = c]
    BY <1>1, <1>2, <1>3, <1>4
  <1>11. QED
    BY <1>1, <1>2, <1>3, <1>5, <1>6, <1>9, <1>10, ZenonT(60)

\* What prepare does to the counts: nothing.
LEMMA PrepareCounts ==
  ASSUME PoolInv, prepare_bounty_submission, NEW e \in Days
  PROVE  /\ pool'[e].distributed = pool[e].distributed
         /\ pool'[e].proofs = pool[e].proofs
         /\ pool'[e].growth = pool[e].growth
         /\ pool'[e].emission = pool[e].emission \/ pool'[e].distributed = 0
  <1>1. now.day \in Days /\ pool \in [Days -> Pool]
    BY DEF PoolInv, TypeOK
  <1>2. PICK p \in Pool :
          /\ p = Prepared(now.day)
          /\ pool[now.day].emission > 0 => p = pool[now.day]
          /\ p.distributed = pool[now.day].distributed /\ p.proofs = pool[now.day].proofs
          /\ p.growth = pool[now.day].growth
    BY <1>1, PreparedPool
  <1>3. pool[now.day].emission = 0 => pool[now.day].distributed = 0
    BY <1>1 DEF PoolInv, PoolsAreSetUp, EmptyPool
  <1>4. pool' = [pool EXCEPT ![now.day] = p]
    BY <1>2 DEF prepare_bounty_submission
  <1>5. pool[now.day].emission \in Nat
    BY <1>1 DEF Pool
  <1>6. CASE e = now.day
    BY <1>1, <1>2, <1>3, <1>4, <1>5, <1>6
  <1>7. CASE e # now.day
    BY <1>1, <1>4, <1>7
  <1>8. QED
    BY <1>6, <1>7

\* The steps that move no money.
LEMMA QuietStep ==
  ASSUME PoolInv, [Next]_vars, ~ \E r \in Relays : submit_bounty_proof(r)
  PROVE  /\ prepare_bounty_submission \/ pool' = pool
         /\ UNCHANGED <<proofs, treasury, config, received>>
  BY DEF Next, vars, price, drop, prepare_bounty_submission, tick

BooksInv == PoolInv /\ TokensAreCounted /\ PayoutsAreCounted

LEMMA BooksInit == Init => BooksInv
  <1> SUFFICES ASSUME Init PROVE BooksInv
    OBVIOUS
  <1> DEFINE paid == [d \in Days |-> pool[d].distributed]
             made == [d \in Days |-> pool[d].proofs]
  <1>1. \A d \in Days : pool[d].distributed = 0 /\ pool[d].proofs = 0
    BY DEF Init, EmptyPool
  <1>2. /\ paid \in [Days -> Nat] /\ \A d \in Days : paid[d] = 0
        /\ made \in [Days -> Nat] /\ \A d \in Days : made[d] = 0
    BY <1>1
  <1> HIDE DEF paid, made
  <1>3. /\ IsFiniteSet(Counted(paid)) /\ Cardinality(Counted(paid)) = 0
        /\ IsFiniteSet(Counted(made)) /\ Cardinality(Counted(made)) = 0
    BY <1>2, CountedNothing
  <1>4. IsFiniteSet(proofs) /\ Cardinality(proofs) = 0
    BY FS_EmptySet DEF Init
  <1>5. TokensAreCounted
    BY <1>3, SizesAssumption DEF Init, TokensAreCounted, paid
  <1>6. PayoutsAreCounted
    BY <1>3, <1>4 DEF PayoutsAreCounted, made
  <1>7. QED
    BY <1>5, <1>6, PoolInvInit DEF BooksInv

LEMMA BooksStep == BooksInv /\ [Next]_vars => BooksInv'
  <1> SUFFICES ASSUME BooksInv, [Next]_vars PROVE BooksInv'
    OBVIOUS
  <1> DEFINE paid == [d \in Days |-> pool[d].distributed]
             made == [d \in Days |-> pool[d].proofs]
  <1>1. PoolInv /\ PoolInv' /\ TypeOK
    BY PoolInvStep DEF BooksInv, PoolInv
  <1>2. ASSUME NEW r \in Relays, submit_bounty_proof(r)
        PROVE  TokensAreCounted' /\ PayoutsAreCounted'
    <2>1. PICK p \in Pool, c \in Pool, b \in Bounties \ proofs, tokens \in Nat, reviewer \in Nat :
            /\ p.distributed = pool[now.day].distributed /\ p.proofs = pool[now.day].proofs
            /\ c.distributed = p.distributed + tokens /\ c.proofs = p.proofs + 1
            /\ pool' = [pool EXCEPT ![now.day] = c]
            /\ proofs' = proofs \cup {b}
            /\ treasury' = treasury - tokens /\ config' = config + tokens
            /\ received' = [operators |-> received.operators + (tokens - reviewer),
                            reviewers |-> received.reviewers + reviewer]
      BY <1>1, <1>2, SubmitBooks
    <2>2. PICK e \in Days : e = now.day
      BY <1>1 DEF TypeOK
    <2>3. pool \in [Days -> Pool] /\ pool' \in [Days -> Pool]
      BY <1>1 DEF PoolInv, TypeOK
    <2>4. /\ paid \in [Days -> Nat] /\ paid' \in [Days -> Nat]
          /\ made \in [Days -> Nat] /\ made' \in [Days -> Nat]
      BY <2>3 DEF Pool
    <2>5. paid' = [paid EXCEPT ![e] = paid[e] + tokens] /\ made' = [made EXCEPT ![e] = made[e] + 1]
      BY <2>1, <2>2, <2>3
    <2>6. /\ IsFiniteSet(Counted(paid)) /\ config = Cardinality(Counted(paid))
          /\ IsFiniteSet(Counted(made)) /\ Cardinality(Counted(made)) = Cardinality(proofs)
          /\ IsFiniteSet(proofs)
      BY DEF BooksInv, TokensAreCounted, PayoutsAreCounted
    <2>7. PICK f, g, m, n : f = paid /\ g = paid' /\ m = made /\ n = made'
      OBVIOUS
    <2> HIDE DEF paid, made
    <2>8. IsFiniteSet(Counted(g)) /\ Cardinality(Counted(g)) = Cardinality(Counted(f)) + tokens
      <3>1. /\ f \in [Days -> Nat] /\ g \in [Days -> Nat]
            /\ g[e] = f[e] + tokens /\ \A d \in Days \ {e} : g[d] = f[d]
            /\ IsFiniteSet(Counted(f))
        BY <2>4, <2>5, <2>6, <2>7
      <3>2. QED
        BY <3>1, CountedGrows
    <2>9. IsFiniteSet(Counted(n)) /\ Cardinality(Counted(n)) = Cardinality(Counted(m)) + 1
      <3>1. /\ m \in [Days -> Nat] /\ n \in [Days -> Nat]
            /\ n[e] = m[e] + 1 /\ \A d \in Days \ {e} : n[d] = m[d]
            /\ IsFiniteSet(Counted(m)) /\ 1 \in Nat
        BY <2>4, <2>5, <2>6, <2>7
      <3>2. QED
        BY <3>1, CountedGrows
    <2>10. IsFiniteSet(proofs') /\ Cardinality(proofs') = Cardinality(proofs) + 1
      BY <2>1, <2>6, FS_AddElement
    <2>11. config' = Cardinality(Counted(g)) /\ Cardinality(Counted(n)) = Cardinality(proofs')
      BY <2>1, <2>6, <2>7, <2>8, <2>9, <2>10
    <2>12. /\ treasury \in Nat /\ config \in Nat
           /\ received.operators \in Nat /\ received.reviewers \in Nat
      BY <1>1 DEF TypeOK
    <2>13. Supply = treasury + config /\ config = received.operators + received.reviewers
      BY DEF BooksInv, TokensAreCounted
    <2>14. Supply = treasury' + config' /\ config' = received'.operators + received'.reviewers
      BY <2>1, <2>12, <2>13
    <2>15. TokensAreCounted'
      BY <2>7, <2>8, <2>11, <2>14 DEF TokensAreCounted, paid
    <2>16. PayoutsAreCounted'
      BY <2>7, <2>9, <2>10, <2>11 DEF PayoutsAreCounted, made
    <2>17. QED
      BY <2>15, <2>16
  <1>3. CASE ~ \E r \in Relays : submit_bounty_proof(r)
    <2>1. /\ prepare_bounty_submission \/ pool' = pool
          /\ UNCHANGED <<proofs, treasury, config, received>>
      BY <1>1, <1>3, QuietStep
    <2>2. \A e \in Days : pool'[e].distributed = pool[e].distributed /\ pool'[e].proofs = pool[e].proofs
      BY <1>1, <2>1, PrepareCounts
    <2>3. paid' = paid /\ made' = made
      BY <2>2
    <2>4. QED
      BY <1>1, <2>1, <2>3 DEF BooksInv, TokensAreCounted, PayoutsAreCounted
  <1>4. QED
    BY <1>1, <1>2, <1>3 DEF BooksInv

LEMMA SpecBooks == Spec => []BooksInv
  BY BooksInit, BooksStep, PTL DEF Spec

\* Every token that left the treasury is accounted for in the program's total, in the pool of
\* the day it was paid, under growth or technical, and with its receivers.
THEOREM BooksAreBalanced == Spec => []BooksBalance
  <1>1. BooksInv => BooksBalance
    BY DEF BooksInv, PoolInv, TokensAreCounted, PoolsAreSetUp, BooksBalance
  <1>2. QED
    BY <1>1, SpecBooks, PTL

\* There are as many payouts as bounties with a proof, however many settlements of one bounty
\* are in flight.
THEOREM PaidOncePerProof == Spec => []OnePayoutPerProof
  <1>1. BooksInv => OnePayoutPerProof
    BY DEF BooksInv, PayoutsAreCounted, OnePayoutPerProof
  <1>2. QED
    BY <1>1, SpecBooks, PTL

-----------------------------------------------------------------------------
(* What the pools may pay. *)

\* A day gives out less than its emission and its growth pool.
OverspendInv == BooksInv /\ OverspendIsBounded

LEMMA OverspendInit == Init => OverspendIsBounded
  BY DEF Init, OverspendIsBounded, EmptyPool

LEMMA OverspendStep == BooksInv /\ OverspendIsBounded /\ [Next]_vars => OverspendIsBounded'
  <1> SUFFICES ASSUME BooksInv, OverspendIsBounded, [Next]_vars, NEW e \in Days,
                      pool'[e].emission > 0
               PROVE  pool'[e].distributed < pool'[e].emission + Most(growth_pool_max(e), 1)
    BY DEF OverspendIsBounded, growth_pool_max
  <1>1. /\ PoolInv /\ pool \in [Days -> Pool] /\ pool' \in [Days -> Pool] /\ now.day \in Days
        /\ pool'[e].emission \in Nat /\ pool'[e].distributed \in Nat
        /\ pool[e].emission \in Nat /\ pool[e].distributed \in Nat
    BY PoolInvStep DEF BooksInv, PoolInv, TypeOK, Pool
  <1>2. Most(growth_pool_max(e), 1) \in Nat /\ Most(growth_pool_max(e), 1) > 0
    BY growth_pool_maxType DEF Most
  <1>3. pool[e].emission > 0 => pool[e].distributed < pool[e].emission + Most(growth_pool_max(e), 1)
    BY DEF OverspendIsBounded
  <1>4. ASSUME NEW r \in Relays, submit_bounty_proof(r)
        PROVE  pool'[e].distributed < pool'[e].emission + Most(growth_pool_max(e), 1)
    <2>1. PICK p \in Pool, c \in Pool, tokens \in Nat :
            /\ p.emission > p.distributed
            /\ c.distributed = p.distributed + tokens /\ c.emission = p.emission
            /\ c.distributed <= p.emission \/ tokens <= Most(growth_pool_max(now.day), 1)
            /\ pool' = [pool EXCEPT ![now.day] = c]
      BY <1>1, <1>4, SubmitBooks
    <2>2. p.emission \in Nat /\ p.distributed \in Nat /\ c.distributed \in Nat
      BY DEF Pool
    <2>3. CASE e = now.day
      <3>1. pool'[e] = c
        BY <1>1, <2>1, <2>3
      <3>2. c.distributed < c.emission + Most(growth_pool_max(e), 1)
        BY <1>2, <2>1, <2>2, <2>3
      <3>3. QED
        BY <3>1, <3>2
    <2>4. CASE e # now.day
      BY <1>1, <1>3, <2>1, <2>4
    <2>5. QED
      BY <2>3, <2>4
  <1>5. CASE ~ \E r \in Relays : submit_bounty_proof(r)
    <2>1. prepare_bounty_submission \/ pool' = pool
      BY <1>1, <1>5, QuietStep
    <2>2. /\ pool'[e].distributed = pool[e].distributed
          /\ pool'[e].emission = pool[e].emission \/ pool'[e].distributed = 0
      BY <1>1, <2>1, PrepareCounts
    <2>3. QED
      BY <1>1, <1>2, <1>3, <2>2
  <1>6. QED
    BY <1>4, <1>5

\* A day may pay more than its emission, because growth bounties are not bounded by what is
\* left of it, but never by as much as its growth pool.
THEOREM OverspendBounded == Spec => []OverspendIsBounded
  <1>1. Init => OverspendInv
    BY BooksInit, OverspendInit DEF OverspendInv
  <1>2. OverspendInv /\ [Next]_vars => OverspendInv'
    BY BooksStep, OverspendStep DEF OverspendInv
  <1>3. OverspendInv => OverspendIsBounded
    BY DEF OverspendInv
  <1>4. QED
    BY <1>1, <1>2, <1>3, PTL DEF Spec

GrowthInv == BooksInv /\ GrowthIsCapped

LEMMA GrowthStep == BooksInv /\ GrowthIsCapped /\ [Next]_vars => GrowthIsCapped'
  <1> SUFFICES ASSUME BooksInv, GrowthIsCapped, [Next]_vars, NEW e \in Days
               PROVE  pool'[e].growth <= growth_pool_max(e) + pool'[e].proofs
    BY DEF GrowthIsCapped, growth_pool_max
  <1>1. /\ PoolInv /\ pool \in [Days -> Pool] /\ now.day \in Days
        /\ pool[e].growth \in Nat /\ pool[e].proofs \in Nat /\ growth_pool_max(e) \in Nat
    BY growth_pool_maxType DEF BooksInv, PoolInv, TypeOK, Pool
  <1>2. pool[e].growth <= growth_pool_max(e) + pool[e].proofs
    BY DEF GrowthIsCapped
  <1>3. ASSUME NEW r \in Relays, submit_bounty_proof(r)
        PROVE  pool'[e].growth <= growth_pool_max(e) + pool'[e].proofs
    <2>1. PICK p \in Pool, c \in Pool :
            /\ p.proofs = pool[now.day].proofs /\ p.growth = pool[now.day].growth
            /\ c.proofs = p.proofs + 1
            /\ c.growth <= p.growth + 1 \/ c.growth <= growth_pool_max(now.day) \/ c.growth = p.growth
            /\ pool' = [pool EXCEPT ![now.day] = c]
      BY <1>1, <1>3, SubmitBooks
    <2>2. c.growth \in Nat
      BY DEF Pool
    <2>3. CASE e = now.day
      <3>1. pool'[e] = c
        BY <1>1, <2>1, <2>3
      <3>2. c.growth <= growth_pool_max(e) + c.proofs
        BY <1>1, <1>2, <2>1, <2>2, <2>3
      <3>3. QED
        BY <3>1, <3>2
    <2>4. CASE e # now.day
      BY <1>1, <1>2, <2>1, <2>4
    <2>5. QED
      BY <2>3, <2>4
  <1>4. CASE ~ \E r \in Relays : submit_bounty_proof(r)
    <2>1. prepare_bounty_submission \/ pool' = pool
      BY <1>1, <1>4, QuietStep
    <2>2. pool'[e].growth = pool[e].growth /\ pool'[e].proofs = pool[e].proofs
      BY <1>1, <2>1, PrepareCounts
    <2>3. QED
      BY <1>2, <2>2
  <1>5. QED
    BY <1>3, <1>4

\* Growth bounties take the growth pool of the day, and after that one unit each.
THEOREM GrowthCapped == Spec => []GrowthIsCapped
  <1>1. Init => GrowthInv
    <2>1. ASSUME Init, NEW d \in Days PROVE pool[d].growth <= growth_pool_max(d) + pool[d].proofs
      BY <2>1, growth_pool_maxType DEF Init, EmptyPool
    <2>2. QED
      BY <2>1, BooksInit DEF GrowthInv, GrowthIsCapped
  <1>2. GrowthInv /\ [Next]_vars => GrowthInv'
    BY BooksStep, GrowthStep DEF GrowthInv
  <1>3. GrowthInv => GrowthIsCapped
    BY DEF GrowthInv
  <1>4. QED
    BY <1>1, <1>2, <1>3, PTL DEF Spec

LEMMA FillStep ==
  ASSUME BooksInv, [Next]_vars, NEW e \in Days
  PROVE  /\ pool[e].emission > 0 =>
              /\ pool'[e].emission = pool[e].emission
              /\ pool'[e].distributed >= pool[e].distributed
              /\ pool'[e].proofs >= pool[e].proofs
         /\ e # now.day => pool'[e] = pool[e]
  <1>1. /\ PoolInv /\ PoolInv' /\ pool \in [Days -> Pool] /\ now.day \in Days
        /\ pool[e].emission \in Nat /\ pool[e].distributed \in Nat /\ pool[e].proofs \in Nat
    BY PoolInvStep DEF BooksInv, PoolInv, TypeOK, Pool
  <1>2. CASE \E r \in Relays : submit_bounty_proof(r)
    <2>1. PICK p \in Pool, c \in Pool, tokens \in Nat :
            /\ p.distributed = pool[now.day].distributed /\ p.proofs = pool[now.day].proofs
            /\ p.emission > p.distributed
            /\ c.distributed = p.distributed + tokens /\ c.proofs = p.proofs + 1
            /\ pool' = [pool EXCEPT ![now.day] = c]
      BY <1>1, <1>2, SubmitBooks
    <2>2. CASE e = now.day
      <3>1. pool'[e] = c
        BY <1>1, <2>1, <2>2
      <3>2. c.distributed >= pool[e].distributed /\ c.proofs >= pool[e].proofs
        BY <1>1, <2>1, <2>2
      <3>3. c.emission \in {0, Emission[e]} /\ pool[e].emission \in {0, Emission[e]}
        BY <1>1, <3>1 DEF PoolInv, PoolsAreSetUp
      <3>4. c.emission = 0 => c.proofs = 0
        BY <1>1, <3>1 DEF PoolInv, PoolsAreSetUp, EmptyPool
      <3>5. c.emission # 0
        BY <1>1, <2>1, <2>2, <3>4
      <3>6. QED
        BY <2>2, <3>1, <3>2, <3>3, <3>5
    <2>3. CASE e # now.day
      BY <1>1, <2>1, <2>3
    <2>4. QED
      BY <2>2, <2>3
  <1>3. CASE prepare_bounty_submission
    <2>1. PICK p \in Pool :
            p = Prepared(now.day) /\ (pool[now.day].emission > 0 => p = pool[now.day])
      BY <1>1, PreparedPool
    <2>2. pool' = [pool EXCEPT ![now.day] = p]
      BY <1>3, <2>1 DEF prepare_bounty_submission
    <2>3. QED
      BY <1>1, <2>1, <2>2
  <1>4. CASE pool' = pool
    BY <1>1, <1>4
  <1>5. QED
    BY <1>1, <1>2, <1>3, <1>4, QuietStep

\* A pool that exists keeps its emission and takes nothing back, and a day that is over keeps
\* its pool.
THEOREM PoolsOnlyFill == Spec => PoolOnlyFills
  <1>1. BooksInv /\ [Next]_vars =>
          [\A d \in Days :
            /\ pool[d].emission > 0 =>
                 /\ pool'[d].emission = pool[d].emission
                 /\ pool'[d].distributed >= pool[d].distributed
                 /\ pool'[d].proofs >= pool[d].proofs
            /\ d # now.day => pool'[d] = pool[d]]_vars
    BY FillStep
  <1>2. QED
    BY <1>1, SpecBooks, PTL DEF Spec, PoolOnlyFills
=============================================================================
