------------------------------- MODULE Treasury -------------------------------
(***************************************************************************)
(* The amos-treasury program: protocol fees that reach its vault are       *)
(* distributed to a pool for holders, burned and sent to Labs; holders     *)
(* stake and claim from the pool.                                          *)
(*                                                                         *)
(* The treasury vault is found by its seeds.  For the stake vault, the     *)
(* pool's token account and the wallet of Labs the program keeps no        *)
(* address: the caller passes a token account, which must be of the mint,  *)
(* and which the token program lets the treasury pay from if the treasury  *)
(* owns it.  "stake_vault", "holder_pool" and "labs_wallet" are the        *)
(* accounts meant for these roles, one of each per mint; an instruction    *)
(* may be called with any of Named.                                        *)
(***************************************************************************)
EXTENDS Chain

CONSTANTS
  Coins,             \* token mints, of which FirstCoin is the one at initialization
  FirstCoin,
  Deposits,          \* amounts that are deposited and distributed
  Withdrawals,       \* amounts the authority withdraws
  Stakes,            \* amounts a user may stake
  MinStake,          \* MIN_STAKE_AMOUNT
  MinStakeTime,      \* MIN_STAKE_DAYS
  HoldersPart,       \* FEE_HOLDER_SHARE_BPS
  BurnedPart,        \* FEE_BURN_SHARE_BPS
  MaxDistributions,  \* bound of the model
  Wallets,           \* what each user has of each coin at the start
  Named,             \* the token accounts that callers pass
  MaxAstray          \* bound of the model

ASSUME TreasuryAssumption ==
  /\ FirstCoin \in Coins
  /\ Deposits \cup Withdrawals \cup Stakes \subseteq Nat
  /\ MinStake \in Nat \ {0} /\ MinStakeTime \in Nat
  /\ HoldersPart \in Nat /\ BurnedPart \in Nat /\ HoldersPart + BurnedPart <= Whole
  /\ MaxDistributions \in Nat
  /\ {"treasury", "stake_vault", "holder_pool", "labs_wallet"} \subseteq Vaults
  /\ Wallets \in [Coins -> [Users -> Nat]]
  /\ IsFiniteSet(Coins) /\ None \notin Coins
  /\ Named \subseteq Holders /\ MaxAstray \in Nat

VARIABLES
  treasury,       \* TreasuryConfig, None until it is initialized
  holderPool,     \* HolderPool
  stake,          \* StakeRecord of each user, None until registered
  distributions,  \* the Distribution records, in order
  coins,          \* token accounts, of each mint
  grown,          \* history: when each stake last grew
  astray          \* history: coins that went to or came from another account than was meant

treasuryVars == <<now, treasury, holderPool, stake, distributions, coins, grown, astray>>

TreasuryConfig ==
  [ mint      : Coins,                \* amos_mint
    vault     : Coins \cup {None},    \* mint the vaults were created for
    reserve   : BOOLEAN,              \* the reserve vault exists; nothing ever uses it
    collected : Nat,                  \* total_fees_collected
    toHolders : Nat,                  \* total_fees_to_holders
    burned    : Nat,                  \* total_fees_burned, total_amos_burned
    toLabs    : Nat,                  \* total_fees_to_labs
    stakes    : Nat,                  \* total_stakes
    staked    : Nat ]                 \* total_staked_amount

HolderPool ==
  [ balance     : Nat,                   \* amos_balance
    deposited   : Nat,                   \* total_amos_deposited
    claimed     : Nat,                   \* total_amos_claimed
    lastDeposit : Times ]                \* last_deposit_at

StakeRecord ==
  [ amount    : Nat,
    stakedAt  : Times,                   \* staked_at
    lastClaim : Times \cup {-1},         \* last_claim_at
    claimed   : Nat ]                    \* total_amos_claimed

Distribution == [total : Nat, holders : Nat, burned : Nat, labs : Nat]

ASSUME NoneIsNoRecord == None \notin TreasuryConfig /\ None \notin StakeRecord

TreasuryTypeOK ==
  /\ now \in Times
  /\ treasury \in TreasuryConfig \cup {None}
  /\ holderPool \in HolderPool
  /\ stake \in [Users -> StakeRecord \cup {None}]
  /\ distributions \in Seq(Distribution) /\ Len(distributions) <= MaxDistributions
  /\ coins \in [Coins -> [Holders -> Nat]]
  /\ grown \in [Users -> Times]
  /\ astray \in 0 .. MaxAstray

TreasuryInit ==
  /\ now = 0
  /\ treasury = None
  /\ holderPool = [balance |-> 0, deposited |-> 0, claimed |-> 0, lastDeposit |-> 0]
  /\ stake = [u \in Users |-> None]
  /\ distributions = <<>>
  /\ coins = [m \in Coins |-> [h \in Holders |-> IF h \in Users THEN Wallets[m][h] ELSE 0]]
  /\ grown = [u \in Users |-> 0]
  /\ astray = 0

-----------------------------------------------------------------------------
\* Administration.

initialize_treasury ==
  /\ treasury = None
  /\ treasury' = [ mint |-> FirstCoin, vault |-> None, reserve |-> FALSE, collected |-> 0,
                   toHolders |-> 0, burned |-> 0, toLabs |-> 0, stakes |-> 0, staked |-> 0 ]
  /\ UNCHANGED <<now, holderPool, stake, distributions, coins, grown, astray>>

Ready == treasury # None

initialize_vaults ==
  /\ Ready /\ treasury.vault = None
  /\ treasury' = [treasury EXCEPT !.vault = treasury.mint]
  /\ UNCHANGED <<now, holderPool, stake, distributions, coins, grown, astray>>

initialize_reserve ==
  /\ Ready /\ ~treasury.reserve
  /\ treasury' = [treasury EXCEPT !.reserve = TRUE]
  /\ UNCHANGED <<now, holderPool, stake, distributions, coins, grown, astray>>

\* Stakes and pool keep their amounts, of whatever mint they were.
migrate_mint(m) ==
  /\ Ready
  /\ treasury' = [treasury EXCEPT !.mint = m]
  /\ UNCHANGED <<now, holderPool, stake, distributions, coins, grown, astray>>

\* The vault is found by its seeds, and has the mint it was created with.
VaultUsable == Ready /\ treasury.vault = treasury.mint

Purse == coins[treasury.mint]
Transferred(from, to, amount) == [coins EXCEPT ![treasury.mint] = Moved(@, from, to, amount)]

\* There are accounts of every mint, but one vault.
Exists(v) == v = "treasury" => VaultUsable

\* Accounts from which the treasury can sign a payment.
OwnAccounts == {"treasury", "stake_vault", "holder_pool"}

\* An account that is passed is checked for its mint, not for being the one that is meant.
PassedFor(v, meant, amount) ==
  /\ Exists(v)
  /\ astray' = astray + (IF v = meant THEN 0 ELSE amount)
  /\ astray' <= MaxAstray

\* To any account of the mint.
authority_withdraw(to, amount) ==
  /\ VaultUsable
  /\ amount > 0 /\ Purse["treasury"] >= amount
  /\ coins' = Transferred("treasury", to, amount)
  /\ UNCHANGED <<now, treasury, holderPool, stake, distributions, grown, astray>>

\* A payment to the vault, or to any other account: a plain transfer of the token program.
\* Commercial escrows send the holders' part of their fee to the vault in this way
\* (amos-solana/scripts/set-fee-recipients.mjs).
deposit_fee(from, to, amount) ==
  /\ Ready /\ Exists(to)
  /\ Purse[from] >= amount
  /\ coins' = Transferred(from, to, amount)
  /\ UNCHANGED <<now, treasury, holderPool, stake, distributions, grown, astray>>

-----------------------------------------------------------------------------
\* Distribution of fees.

\* Labs takes the remainder.
Split(amount) ==
  LET holders == PartOf(amount, HoldersPart)
      burn    == PartOf(amount, BurnedPart)
  IN [total |-> amount, holders |-> holders, burned |-> burn, labs |-> amount - holders - burn]

\* Anybody distributes what the vault holds, with a reference to the payment: two transfers,
\* to the accounts passed for the pool and for Labs, and a part that is burned.
distribute_protocol_fee(amount, pool, labs) ==
  LET d    == Split(amount)
      paid == Moved(Moved(Purse, "treasury", pool, d.holders),
                    "treasury", labs, d.labs) IN
  /\ VaultUsable
  /\ amount > 0 /\ Purse["treasury"] >= amount
  /\ Len(distributions) < MaxDistributions
  /\ PassedFor(pool, "holder_pool", d.holders) /\ Exists(labs)
  /\ coins' = [coins EXCEPT ![treasury.mint] =
                  [paid EXCEPT !["treasury"] = @ - d.burned]]
  /\ treasury' = [treasury EXCEPT !.collected = @ + amount, !.toHolders = @ + d.holders,
                                  !.burned = @ + d.burned, !.toLabs = @ + d.labs]
  /\ holderPool' = [holderPool EXCEPT !.balance = @ + d.holders, !.deposited = @ + d.holders,
                                      !.lastDeposit = now]
  /\ distributions' = Append(distributions, d)
  /\ UNCHANGED <<now, stake, grown>>

-----------------------------------------------------------------------------
\* Stakes.

register_stake(u, amount, v) ==
  /\ Ready
  /\ stake[u] = None
  /\ amount >= MinStake
  /\ Purse[u] >= amount
  /\ PassedFor(v, "stake_vault", amount)
  /\ coins' = Transferred(u, v, amount)
  /\ stake' = [stake EXCEPT ![u] =
       [amount |-> amount, stakedAt |-> now, lastClaim |-> -1, claimed |-> 0]]
  /\ treasury' = [treasury EXCEPT !.stakes = @ + 1, !.staked = @ + amount]
  /\ grown' = [grown EXCEPT ![u] = now]
  /\ UNCHANGED <<now, holderPool, distributions>>

\* A larger stake starts the waiting time again.
increase_stake_keeps_timer(u, amount, v) ==
  LET added == amount - stake[u].amount IN
  /\ Ready
  /\ stake[u] # None
  /\ amount >= MinStake /\ added > 0
  /\ Purse[u] >= added
  /\ PassedFor(v, "stake_vault", added)
  /\ coins' = Transferred(u, v, added)
  /\ stake' = [stake EXCEPT ![u].amount = amount]
  /\ treasury' = [treasury EXCEPT !.staked = @ + added]
  /\ grown' = [grown EXCEPT ![u] = now]
  /\ UNCHANGED <<now, holderPool, distributions>>

increase_stake(u, amount, v) ==
  LET added == amount - stake[u].amount IN
  /\ Ready
  /\ stake[u] # None
  /\ amount >= MinStake /\ added > 0
  /\ Purse[u] >= added
  /\ PassedFor(v, "stake_vault", added)
  /\ coins' = Transferred(u, v, added)
  /\ stake' = [stake EXCEPT ![u].amount = amount, ![u].stakedAt = now]
  /\ treasury' = [treasury EXCEPT !.staked = @ + added]
  /\ grown' = [grown EXCEPT ![u] = now]
  /\ UNCHANGED <<now, holderPool, distributions>>

decrease_stake_forgets_total(u, amount, v) ==
  LET removed == stake[u].amount - amount IN
  /\ Ready
  /\ stake[u] # None
  /\ amount >= MinStake /\ removed > 0
  /\ Purse[v] >= removed
  /\ PassedFor(v, "stake_vault", removed)
  /\ coins' = Transferred(v, u, removed)
  /\ stake' = [stake EXCEPT ![u].amount = amount]
  /\ UNCHANGED <<now, treasury, holderPool, distributions, grown>>

\* Never below the minimum: a stake cannot be closed.  The treasury signs the payment.
decrease_stake(u, amount, v) ==
  LET removed == stake[u].amount - amount IN
  /\ Ready
  /\ stake[u] # None
  /\ amount >= MinStake /\ removed > 0
  /\ Purse[v] >= removed
  /\ PassedFor(v, "stake_vault", removed)
  /\ coins' = Transferred(v, u, removed)
  /\ stake' = [stake EXCEPT ![u].amount = amount]
  /\ treasury' = [treasury EXCEPT !.staked = @ - removed]
  /\ UNCHANGED <<now, holderPool, distributions, grown>>

\* StakeRecord::can_claim
can_claim(u) == now - stake[u].stakedAt >= MinStakeTime

\* get_claimable_amount: a share of what the pool holds now, for all stakes, seasoned or not.
get_claimable_amount(u) ==
  [ amount    |-> IF treasury.staked = 0 THEN 0
                  ELSE (stake[u].amount * holderPool.balance) \div treasury.staked,
    remaining |-> Less(MinStakeTime, now - stake[u].stakedAt) ]   \* days_remaining

claim_revenue(u, v) ==
  LET claim == (stake[u].amount * holderPool.balance) \div treasury.staked IN
  /\ Ready
  /\ stake[u] # None
  /\ can_claim(u)
  /\ treasury.staked > 0
  /\ claim \in 1 .. holderPool.balance
  /\ Purse[v] >= claim
  /\ PassedFor(v, "holder_pool", claim)
  /\ coins' = Transferred(v, u, claim)
  /\ holderPool' = [holderPool EXCEPT !.balance = @ - claim, !.claimed = @ + claim]
  /\ stake' = [stake EXCEPT ![u].lastClaim = now, ![u].claimed = @ + claim]
  /\ UNCHANGED <<now, treasury, distributions, grown>>

-----------------------------------------------------------------------------
TreasuryNext ==
  \/ initialize_treasury
  \/ initialize_vaults
  \/ initialize_reserve
  \/ \E m \in Coins : migrate_mint(m)
  \/ \E amount \in Withdrawals, v \in Named : authority_withdraw(v, amount)
  \/ \E u \in Users, v \in Named :
       \/ \E amount \in Deposits : deposit_fee(u, v, amount)
       \/ \E amount \in Stakes : register_stake(u, amount, v) \/ increase_stake(u, amount, v)
  \/ \E u \in Users, v \in Named \cap OwnAccounts :
       \/ \E amount \in Stakes : decrease_stake(u, amount, v)
       \/ claim_revenue(u, v)
  \/ \E amount \in Deposits, pool \in Named, labs \in Named :
       distribute_protocol_fee(amount, pool, labs)
  \/ passes /\ UNCHANGED <<treasury, holderPool, stake, distributions, coins, grown, astray>>

TreasurySpec == TreasuryInit /\ [][TreasuryNext]_treasuryVars

-----------------------------------------------------------------------------
\* Properties.

Stakers == {u \in Users : stake[u] # None}
AllCoins(h) == Total([m \in Coins |-> coins[m][h]], Coins)

\* A field of the Distribution records, in total.
Distributed(field) ==
  Total([i \in DOMAIN distributions |-> distributions[i][field]], DOMAIN distributions)

\* By how much the accounts meant for them fall short of the stakes and of the pool.  (After a
\* migration the accounts of several mints hold them together.)
Shortfall == Less(treasury.staked, AllCoins("stake_vault"))
             + Less(holderPool.balance, AllCoins("holder_pool"))

\* What the program owes to stakers is in the accounts meant for it, except for what
\* instructions moved through other accounts, which a caller passed in their place: without
\* that nothing is missing, and with it never more.  Whatever was passed, the books are true:
\* the total staked is the sum of the stakes, the pool's balance is what was deposited and not
\* claimed, the totals of the fees are those of the public records, and no coin appears or
\* disappears unless it is burned.
DebtsAreBacked ==
  /\ Ready =>
       /\ Shortfall <= astray
       /\ treasury.stakes = Cardinality(Stakers)
       /\ treasury.staked = Total([u \in Stakers |-> stake[u].amount], Stakers)
       /\ treasury.collected = treasury.toHolders + treasury.burned + treasury.toLabs
       /\ treasury.collected = Distributed("total")
       /\ treasury.toHolders = Distributed("holders")
  /\ holderPool.balance = holderPool.deposited - holderPool.claimed
  /\ holderPool.claimed = Total([u \in Stakers |-> stake[u].claimed], Stakers)
  /\ Total([m \in Coins |-> TotalHeld(coins[m])], Coins) + Distributed("burned")
       = Total([m \in Coins |-> Total(Wallets[m], Users)], Coins)

\* Coins that were staked less than the minimum time ago earn nothing, however the stake was
\* changed in between, and whoever is paid is paid what get_claimable_amount promised.
FreshStakeEarnsNothing ==
  [][\A u \in Users :
       stake[u] # None /\ stake'[u].claimed # stake[u].claimed =>
         /\ now - grown[u] >= MinStakeTime
         /\ get_claimable_amount(u).remaining = 0
         /\ stake'[u].claimed = stake[u].claimed + get_claimable_amount(u).amount]_treasuryVars

\* The documentation of the program: "Proportional distribution based on stake".  But a claim
\* takes its share of whatever the pool holds, so a second claim on the same deposits, by a
\* stake that has not grown since, pays again, out of the shares of the others.
OneShareOfEachDeposit ==
  [][\A u \in Users :
       /\ stake[u] # None
       /\ grown[u] <= holderPool.lastDeposit /\ holderPool.lastDeposit < stake[u].lastClaim
       => stake'[u].claimed = stake[u].claimed]_treasuryVars
=============================================================================
