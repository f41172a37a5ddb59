\* The same system with one request in flight, under the fairness of the relay's own
\* tasks and of the chain.  No symmetry: it is not sound for liveness.
SPECIFICATION FairSpec
CONSTANTS
  None = None
  Loop = Loop
  Orphan = Orphan
  Bounties = {b1}
  Requests = {h1}
  Shas = {s1}
  MaxRetries = 2
  MaxFaults = 1
PROPERTIES
  ApprovedIsResolved
  FailedIsResolved
CHECK_DEADLOCK FALSE
