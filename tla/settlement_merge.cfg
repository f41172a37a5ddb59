\* "settlement must precede merge" (record_merge): refuted without any fault, by a retry
\* that gives up on a bounty somebody else settled.
SPECIFICATION Spec
CONSTANTS
  None = None
  Loop = Loop
  Orphan = Orphan
  Bounties = {b1}
  Requests = {h1, h2}
  Shas = {s1}
  MaxRetries = 2
  MaxFaults = 0
INVARIANT
  MergedIsSettled
CHECK_DEADLOCK FALSE
