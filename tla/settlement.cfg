\* One bounty, two requests in flight beside the retry loop, two retries, one fault: a
\* crash, a dropped request, a failed statement or a failed read, at any step.
SPECIFICATION Spec
CONSTANTS
  None = None
  Loop = Loop
  Orphan = Orphan
  Bounties = {b1}
  Requests = {h1, h2}
  Shas = {s1}
  MaxRetries = 2
  MaxFaults = 1
SYMMETRY RequestSymmetry
INVARIANTS
  TypeOK
  BooksFollowChain
  RetryBudget
  PendingIsBeingSettled
PROPERTIES
  OnlyGivingUpUnsettles
  PaysOnce
CHECK_DEADLOCK FALSE
