\* One bounty, of either category, three requests in flight, two revisions allowed.
\* Any wallet may post, work and, as far as its standing allows, review.
SPECIFICATION Spec
CONSTANTS
  None = None
  Bounties = {b1}
  Agents = {a1}
  Wallets = {w1, w2, w3}
  Handlers = {h1, h2, h3}
  Trusted = {w2, w3}
  Council = {w3}
  MaxRevisions = 2
SYMMETRY HandlerSymmetry
INVARIANTS
  TypeOK
  VerificationIsFresh
  ReviewerIsIndependent
  RevisionOvershoot
PROPERTIES
  ApprovalIsBacked
  DecisionIsFinal
CHECK_DEADLOCK FALSE
