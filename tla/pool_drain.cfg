\* "No single submission can drain the pool": refuted by a settlement priced when nothing
\* has dripped yet.
SPECIFICATION Spec
CONSTANTS
  None = None
  Bounties = {b1}
  Relays = {r1}
  Types = {"content", "infrastructure"}
  GrowthTypes = {"content"}
  Multiplier <- MCMultiplier
  BasePoints = {1, 5}
  MaxBountyPoints = 6
  LastDay = 0
  DayLength = 2
  Emission <- MCEmission
  GrowthCap <- MCGrowthCap
  Whole = 10
  ReviewerPart = 3
  VirtualPoints = 3
  AssumedEmission = 10
  AssumedPoints = 3
  OneToken = 1
  Supply = 16
INVARIANT
  FirstSubmissionTakesHalfAtMost
CHECK_DEADLOCK FALSE
