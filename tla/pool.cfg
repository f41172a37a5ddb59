\* Three bounties, two settlements in flight, two days of two seconds.  The amounts are
\* small enough for the pools to run dry and the treasury to be emptied.
SPECIFICATION Spec
CONSTANTS
  None = None
  Bounties = {b1, b2, b3}
  Relays = {r1, r2}
  Types = {"content", "infrastructure"}
  GrowthTypes = {"content"}
  Multiplier <- MCMultiplier
  BasePoints = {1, 5}
  MaxBountyPoints = 6
  LastDay = 1
  DayLength = 2
  Emission <- MCEmission
  GrowthCap <- MCGrowthCap
  Whole = 10
  ReviewerPart = 3
  VirtualPoints = 3
  AssumedEmission = 10
  AssumedPoints = 3
  OneToken = 1
  Supply = 16
SYMMETRY Symmetry
INVARIANTS
  TypeOK
  BooksBalance
  OnePayoutPerProof
  OverspendIsBounded
  GrowthIsCapped
PROPERTY
  PoolOnlyFills
CHECK_DEADLOCK FALSE
