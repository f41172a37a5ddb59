\* "this check lets a retry reconcile" (is_bounty_settled): refuted by a crash between the
\* confirmation of a payout and the write of its row.
SPECIFICATION Spec
CONSTANTS
  None = None
  Loop = Loop
  Orphan = Orphan
  Bounties = {b1}
  Requests = {h1, h2}
  Shas = {s1}
  MaxRetries = 2
  MaxFaults = 1
INVARIANT
  PaidIsRetryable
CHECK_DEADLOCK FALSE
