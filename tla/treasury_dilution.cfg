\* "Proportional distribution based on stake": refuted by a second claim on the same deposit.
SPECIFICATION TreasurySpec
CONSTANTS
  None = None
  Users = {"ann", "bob"}
  Vaults = {"treasury", "holder_pool", "labs_wallet", "stake_vault"}
  LastTime = 3
  Whole = 10
  Coins = {"amos"}
  FirstCoin = "amos"
  Deposits = {8}
  Withdrawals = {}
  Stakes = {1}
  MinStake = 1
  MinStakeTime = 1
  HoldersPart = 5
  BurnedPart = 4
  MaxDistributions = 1
  Wallets <- EqualWallets
  Named = {"treasury", "stake_vault", "holder_pool", "labs_wallet"}
  MaxAstray = 0
PROPERTY OneShareOfEachDeposit
CHECK_DEADLOCK FALSE
