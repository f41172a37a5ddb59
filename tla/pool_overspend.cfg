\* "The treasury can never overspend": refuted by growth bounties after a day on which
\* technical bounties used the growth pool's part.
SPECIFICATION Spec
CONSTANTS
  None = None
  Bounties = {b1, b2, b3}
  Relays = {r1}
  Types = {"content", "infrastructure"}
  GrowthTypes = {"content"}
  Multiplier <- MCMultiplier
  BasePoints = {1, 5}
  MaxBountyPoints = 6
  LastDay = 0
  DayLength = 2
  Emission <- MCEmission
  GrowthCap <- MCGrowthCap
  Whole = 10
  ReviewerPart = 3
  VirtualPoints = 3
  AssumedEmission = 10
  AssumedPoints = 3
  OneToken = 1
  Supply = 16
INVARIANT
  DailyBudget
CHECK_DEADLOCK FALSE
