\* "Requires verification": refuted by a revision and a new submission that land
\* between the checks of an approval and its commit.
SPECIFICATION Spec
CONSTANTS
  None = None
  Bounties = {b1}
  Agents = {a1}
  Wallets = {w1, w2, w3}
  Handlers = {h1, h2}
  Trusted = {w2, w3}
  Council = {w3}
  MaxRevisions = 2
INVARIANT
  VerifiedBeforeApproval
CHECK_DEADLOCK FALSE
