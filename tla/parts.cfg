\* The Solana programs, the token's arithmetic, the oracle and the agent's loop, part by part.
SPECIFICATION Spec
CONSTANTS
  None = None
  Users = {"ann", "bob"}
  Vaults = {"treasury", "holder_pool", "labs_wallet", "stake_vault"}
  LastTime = 2
  Whole = 10
  Mints = {"amos", "amos2"}
  FirstMint = "amos"
  MinRate = 2
  MaxRate = 9
  BaseRate = 6
  DefaultRate = 2
  ProfitPart = 4
  RatioWidth = 16
  Rates = {9}
  Profits <- ReportedProfits
  Listings = {"l1", "l2"}
  Timeouts = {0, 9}
  MinTimeout = 1
  MaxTimeout = 3
  DefaultTimeout = 1
  Cooldown = 1
  MaxClaims = 1
  Bounties = {"b1", "b2"}
  Workers = {"bob"}
  Rewards = {20}
  MinEscrow = 20
  Payouts = {10}
  FeePart = 3
  HolderPart = 5
  BurnPart = 4
  ReviewerPart = 1
  Grace = 1
  Year = 2
  FloorPart = 1
  DecayBurnPart = 1
  Endowment <- FirstBalances
  Agents = {"a1"}
  MinCompletions <- NeededCompletions
  MinReputation <- NeededReputation
  MaxPoints <- LevelPoints
  Requests = {1, 2, 3, 4, 5, 6}
  MaxReports = 4
  FirstTypes = 1
  MaxTypes = 2
  Multipliers = {1, 2}
  FreezeAfter = 1
  MaxExtensions = 2
  Extension = 1
  Coins = {"amos", "amos2"}
  FirstCoin = "amos"
  Deposits = {4}
  Withdrawals = {4}
  Stakes = {1, 2}
  MinStake = 1
  MinStakeTime = 1
  HoldersPart = 5
  BurnedPart = 4
  MaxDistributions = 2
  Wallets <- FirstWallets
  Named = {"ann", "treasury", "stake_vault", "holder_pool", "labs_wallet"}
  MaxAstray = 1
  ParamSets <- GovernanceParams
  GateTypes = {"Benchmark", "ABTest", "Feedback", "StewardApproval"}
  Treasury0 = 20
  Proposals = {"f1"}
  Bounty0 = 11
  Rooms = {3, 4}
  Scores = {0, 1, 2}
  VoteAmounts = {2}
  Expiration = 1
  Studies = {"r1"}
  Stipend = 11
  MilestoneCounts = {0, 1, 2}
  Completable = {1, 2}
  Gates = {"g1"}
  Stewards = {"s1", "s2", "s3"}
  Quorum = 3
  CurveDays <- Days
  Curvatures <- Curves
  Originals = {4, 30000}
  Tiers = {0, 1, 3}
  Tenures = {1, 370, 1100}
  AnnualRates = {200, 1000, 2500}
  MaxJobs = 5
  Quotes = {1, 7, 99, 10000, 40000}
  Nothing = Nothing
  Intakes = {1, 2}
  Works = {7}
  Limit = 1
  MaxDecisions = 3
  MaxFaults = 1
  Sessions <- AgentSessions
  Tools = {"remember", "shell"}
  Required <- RequiredLevels
  Histories <- AgentHistories
  MaxIterations = 6
  MaxCalls = 2
INVARIANTS TypeOK ClaimsAreCounted TokensAreConserved OperatorBooks PointsAreEarned
  DebtsAreBacked StagesArePaidOnce VotesAreCounted BonusIsEarned DecisionHasQuorum
  CurvesOnlyFall HoldingKeepsFloor QuotesAreCovered CommissionedOnce LinkIsPending CallsAreAnswered
PROPERTIES ClaimKeepsItsTerm FrozenIsForever FreshStakeEarnsNothing ClosedStaysClosed
CHECK_DEADLOCK FALSE
