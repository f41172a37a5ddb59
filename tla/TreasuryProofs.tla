---------------------------- MODULE TreasuryProofs ----------------------------
(***************************************************************************)
(* The treasury's books are true, what it owes is in the accounts meant    *)
(* for it but for what callers moved through others, and a stake earns     *)
(* nothing before its time, for any number of stakers, mints,              *)
(* distributions and migrations, any accounts passed and any amounts.      *)
(***************************************************************************)
EXTENDS Treasury, ChainProofs

-----------------------------------------------------------------------------
(* Tokens that move. *)

\* The accounts of one mint change: the accounts of all mints together change alike.
OfAll(c, h) == Total([m \in Coins |-> c[m][h]], Coins)
SupplyOf(c) == Total([m \in Coins |-> TotalHeld(c[m])], Coins)

LEMMA OneMintChanges ==
  ASSUME NEW c \in [Coins -> [Holders -> Nat]], NEW m \in Coins, NEW new \in [Holders -> Nat],
         NEW d \in [Coins -> [Holders -> Nat]], d[m] = new,
         \A n \in Coins : n # m => d[n] = c[n]
  PROVE  /\ \A h \in Holders : /\ OfAll(c, h) \in Nat /\ OfAll(c, h) >= c[m][h]
                               /\ OfAll(d, h) = OfAll(c, h) - c[m][h] + new[h]
         /\ SupplyOf(c) \in Nat /\ TotalHeld(c[m]) \in Nat /\ TotalHeld(new) \in Nat
         /\ SupplyOf(d) = SupplyOf(c) - TotalHeld(c[m]) + TotalHeld(new)
  <1>1. d[m] = new /\ \A n \in Coins : n # m => d[n] = c[n]
    OBVIOUS
  <1>2. IsFiniteSet(Coins)
    BY TreasuryAssumption
  <1>3. ASSUME NEW h \in Holders
        PROVE  /\ OfAll(c, h) \in Nat /\ OfAll(c, h) >= c[m][h]
               /\ OfAll(d, h) = OfAll(c, h) - c[m][h] + new[h]
    <2>1. PICK f : f = [n \in Coins |-> c[n][h]]
      OBVIOUS
    <2>2. PICK g : g = [n \in Coins |-> d[n][h]]
      OBVIOUS
    <2>3. /\ f \in [Coins -> Nat] /\ g \in [Coins -> Nat]
          /\ \A n \in Coins : n # m => g[n] = f[n]
          /\ f[m] = c[m][h] /\ g[m] = new[h]
      BY <1>1, <2>1, <2>2
    <2>4. Total(f, Coins) \in Nat
      BY <1>2, <2>3, TotalType
    <2>7. f[m] <= Total(f, Coins)
      BY <1>2, <2>3, TotalBounds
    <2>5. Total(g, Coins) = Total(f, Coins) - f[m] + g[m]
      BY <1>2, <2>3, TotalChanges
    <2>6. OfAll(c, h) = Total(f, Coins) /\ OfAll(d, h) = Total(g, Coins)
      BY <2>1, <2>2 DEF OfAll
    <2>8. QED
      BY <2>3, <2>4, <2>5, <2>6, <2>7
  <1>4. ASSUME NEW held \in [Holders -> Nat] PROVE TotalHeld(held) \in Nat
    BY HoldersAreFinite, TotalType DEF TotalHeld
  <1>5. /\ SupplyOf(c) \in Nat
        /\ SupplyOf(d) = SupplyOf(c) - TotalHeld(c[m]) + TotalHeld(new)
    <2>1. PICK f : f = [n \in Coins |-> TotalHeld(c[n])]
      OBVIOUS
    <2>2. PICK g : g = [n \in Coins |-> TotalHeld(d[n])]
      OBVIOUS
    <2>3. ASSUME NEW n \in Coins
          PROVE  f[n] \in Nat /\ g[n] \in Nat /\ (n # m => g[n] = f[n])
      <3>1. f[n] = TotalHeld(c[n]) /\ g[n] = TotalHeld(d[n])
        BY <2>1, <2>2
      <3>2. c[n] \in [Holders -> Nat] /\ d[n] \in [Holders -> Nat]
        BY <1>1
      <3>3. QED
        BY <1>1, <1>4, <3>1, <3>2
    <2>4. f[m] = TotalHeld(c[m]) /\ g[m] = TotalHeld(new)
      BY <1>1, <2>1, <2>2
    <2>9. /\ f \in [Coins -> Nat] /\ g \in [Coins -> Nat]
          /\ \A n \in Coins : n # m => g[n] = f[n]
          /\ f[m] \in Nat /\ g[m] \in Nat
      BY <2>1, <2>2, <2>3
    <2>5. Total(f, Coins) \in Nat
      BY <1>2, <2>9, TotalType
    <2>6. Total(g, Coins) = Total(f, Coins) - f[m] + g[m]
      BY <1>2, <2>9, TotalChanges
    <2>7. SupplyOf(c) = Total(f, Coins) /\ SupplyOf(d) = Total(g, Coins)
      BY <2>1, <2>2 DEF SupplyOf
    <2>8. QED
      BY <2>4, <2>5, <2>6, <2>7
  <1>6. TotalHeld(c[m]) \in Nat /\ TotalHeld(new) \in Nat
    BY <1>4
  <1>7. QED
    BY <1>1, <1>3, <1>5, <1>6

Supply == SupplyOf(coins)

\* The same of the token accounts of the state.
LEMMA CoinsType ==
  ASSUME TreasuryTypeOK, NEW h \in Holders
  PROVE  AllCoins(h) \in Nat
  <1>1. PICK f : f = [m \in Coins |-> coins[m][h]]
    OBVIOUS
  <1>2. IsFiniteSet(Coins) /\ \A m \in Coins : f[m] \in Nat
    BY <1>1, TreasuryAssumption DEF TreasuryTypeOK
  <1>3. Total(f, Coins) \in Nat
    BY <1>2, TotalType
  <1>4. QED
    BY <1>1, <1>3 DEF AllCoins

LEMMA TransferredEffect ==
  ASSUME TreasuryTypeOK, Ready, NEW from \in Holders, NEW to \in Holders,
         NEW amount \in Nat, Purse[from] >= amount, coins' = Transferred(from, to, amount)
  PROVE  /\ coins' \in [Coins -> [Holders -> Nat]] /\ Supply' = Supply
         /\ AllCoins(from) >= amount
         /\ \A h \in Holders :
              /\ AllCoins(h) \in Nat
              /\ AllCoins(h)' = AllCoins(h) - (IF h = from THEN amount ELSE 0)
                                            + (IF h = to THEN amount ELSE 0)
  <1>1. PICK c : c = coins
    OBVIOUS
  <1>2. PICK d : d = coins'
    OBVIOUS
  <1>3. PICK m : m = treasury.mint
    OBVIOUS
  <1>4. c \in [Coins -> [Holders -> Nat]] /\ m \in Coins
    BY <1>1, <1>3 DEF TreasuryTypeOK, Ready, TreasuryConfig
  <1>5. PICK held : held = c[m]
    OBVIOUS
  <1>6. held \in [Holders -> Nat] /\ held[from] >= amount
    BY <1>1, <1>3, <1>4, <1>5 DEF Purse
  <1>7. PICK new : new = Moved(held, from, to, amount)
    OBVIOUS
  <1>8. /\ new \in [Holders -> Nat] /\ TotalHeld(new) = TotalHeld(held)
        /\ \A h \in Holders :
             new[h] = held[h] - (IF h = from THEN amount ELSE 0)
                              + (IF h = to THEN amount ELSE 0)
    BY <1>6, <1>7, MovedAny
  <1>9. d = [c EXCEPT ![m] = new]
    BY <1>1, <1>2, <1>3, <1>5, <1>7 DEF Transferred
  <1>10. /\ d \in [Coins -> [Holders -> Nat]] /\ d[m] = new
         /\ \A n \in Coins : n # m => d[n] = c[n]
    BY <1>4, <1>8, <1>9
  <1>11. /\ \A h \in Holders : /\ OfAll(c, h) \in Nat /\ OfAll(c, h) >= held[h]
                               /\ OfAll(d, h) = OfAll(c, h) - held[h] + new[h]
         /\ SupplyOf(c) \in Nat /\ TotalHeld(held) \in Nat
         /\ SupplyOf(d) = SupplyOf(c) - TotalHeld(held) + TotalHeld(new)
    BY <1>4, <1>5, <1>8, <1>10, OneMintChanges, SMTT(60)
  <1>12. SupplyOf(d) = SupplyOf(c)
    BY <1>8, <1>11
  <1>13. ASSUME NEW h \in Holders
         PROVE  /\ OfAll(c, h) \in Nat
                /\ OfAll(d, h) = OfAll(c, h) - (IF h = from THEN amount ELSE 0)
                                             + (IF h = to THEN amount ELSE 0)
    <2>1. held[h] \in Nat /\ OfAll(c, h) \in Nat /\ OfAll(d, h) = OfAll(c, h) - held[h] + new[h]
      BY <1>6, <1>11
    <2>2. new[h] = held[h] - (IF h = from THEN amount ELSE 0) + (IF h = to THEN amount ELSE 0)
      BY <1>8
    <2>3. QED
      BY <2>1, <2>2
  <1>14. OfAll(c, from) >= amount
    BY <1>6, <1>11
  <1>15. \A h \in Holders : AllCoins(h) = OfAll(c, h) /\ AllCoins(h)' = OfAll(d, h)
    BY <1>1, <1>2 DEF AllCoins, OfAll
  <1>16. Supply = SupplyOf(c) /\ Supply' = SupplyOf(d)
    BY <1>1, <1>2 DEF Supply, SupplyOf
  <1>17. QED
    BY <1>2, <1>10, <1>12, <1>13, <1>14, <1>15, <1>16

-----------------------------------------------------------------------------
(* The invariant. *)

StakerAmounts == [u \in Stakers |-> stake[u].amount]
StakerClaims  == [u \in Stakers |-> stake[u].claimed]

\* Stakes are counted and totalled, and each knows when it last grew.
StakesInv ==
  /\ ~Ready => Stakers = {}
  /\ Ready => /\ treasury.stakes = Cardinality(Stakers)
              /\ treasury.staked = Total(StakerAmounts, Stakers)
  /\ \A u \in Users : stake[u] # None => grown[u] = stake[u].stakedAt

\* The pool is what was deposited and not claimed.
PoolInv ==
  /\ holderPool.balance = holderPool.deposited - holderPool.claimed
  /\ holderPool.claimed = Total(StakerClaims, Stakers)

\* Fees are split without a remainder, and the totals are those of the records.
FeesInv ==
  /\ ~Ready => distributions = <<>>
  /\ Ready => /\ treasury.collected = treasury.toHolders + treasury.burned + treasury.toLabs
              /\ treasury.collected = Distributed("total")
              /\ treasury.toHolders = Distributed("holders")

FirstSupply == Total([m \in Coins |-> Total(Wallets[m], Users)], Coins)

SupplyInv == Supply + Distributed("burned") = FirstSupply

\* The accounts meant for stakes and pool lack no more than went astray.
BackingInv ==
  Less(Total(StakerAmounts, Stakers), AllCoins("stake_vault"))
    + Less(holderPool.balance, AllCoins("holder_pool")) <= astray

TreasuryInv ==
  TreasuryTypeOK /\ StakesInv /\ PoolInv /\ FeesInv /\ SupplyInv /\ BackingInv

LEMMA NothingDistributed ==
  ASSUME distributions = <<>>, NEW field
  PROVE  Distributed(field) = 0
  <1>1. PICK f : f = [i \in DOMAIN distributions |-> distributions[i][field]]
    OBVIOUS
  <1>2. Total(f, {}) = 0 /\ DOMAIN distributions = {}
    BY TotalOfNone
  <1>3. QED
    BY <1>1, <1>2 DEF Distributed

LEMMA TreasuryInvInit == TreasuryInit => TreasuryInv
  <1> SUFFICES ASSUME TreasuryInit PROVE TreasuryInv
    OBVIOUS
  <1>1. /\ now = 0 /\ treasury = None /\ distributions = <<>> /\ astray = 0
        /\ holderPool = [balance |-> 0, deposited |-> 0, claimed |-> 0, lastDeposit |-> 0]
        /\ stake = [u \in Users |-> None] /\ grown = [u \in Users |-> 0]
    BY DEF TreasuryInit
  <1>2. \A m \in Coins, h \in Holders :
          coins[m][h] = IF h \in Users THEN Wallets[m][h] ELSE 0
    BY DEF TreasuryInit
  <1>3. coins \in [Coins -> [Holders -> Nat]]
    <2>1. \A m \in Coins : [h \in Holders |-> IF h \in Users THEN Wallets[m][h] ELSE 0]
                             \in [Holders -> Nat]
      BY TreasuryAssumption
    <2>2. QED
      BY <2>1 DEF TreasuryInit
  <1>4. TreasuryTypeOK
    <2>1. 0 \in Times
      BY ChainAssumption DEF Times
    <2>2. holderPool \in HolderPool
      BY <1>1, <2>1 DEF HolderPool
    <2>3. Len(distributions) <= MaxDistributions /\ distributions \in Seq(Distribution)
      BY <1>1, TreasuryAssumption
    <2>4. astray \in 0 .. MaxAstray
      BY <1>1, TreasuryAssumption
    <2>5. QED
      BY <1>1, <1>3, <2>1, <2>2, <2>3, <2>4 DEF TreasuryTypeOK
  <1>5. Stakers = {}
    BY <1>1 DEF Stakers
  <1>6. Total(StakerAmounts, Stakers) = 0 /\ Total(StakerClaims, Stakers) = 0
    <2>1. PICK f : f = StakerAmounts
      OBVIOUS
    <2>2. PICK g : g = StakerClaims
      OBVIOUS
    <2>3. Total(f, {}) = 0 /\ Total(g, {}) = 0
      BY TotalOfNone
    <2>4. QED
      BY <1>5, <2>1, <2>2, <2>3
  <1>7. ASSUME NEW h \in Vaults PROVE AllCoins(h) = 0
    <2>1. h \in Holders /\ h \notin Users
      BY TreasuryAssumption, ChainAssumption DEF Holders
    <2>2. PICK f : f = [m \in Coins |-> coins[m][h]]
      OBVIOUS
    <2>3. \A m \in Coins : f[m] = 0
      BY <1>2, <2>1, <2>2
    <2>4. Total(f, Coins) = 0
      BY <2>3, TotalOfZeros
    <2>5. QED
      BY <2>2, <2>4 DEF AllCoins
  <1>8. AllCoins("stake_vault") = 0 /\ AllCoins("holder_pool") = 0
    BY <1>7, TreasuryAssumption
  <1>9. Supply = FirstSupply
    <2>1. ASSUME NEW m \in Coins PROVE TotalHeld(coins[m]) = Total(Wallets[m], Users)
      <3>1. PICK f : f = coins[m]
        OBVIOUS
      <3>2. PICK g : g = Wallets[m]
        OBVIOUS
      <3>3. \A h \in Vaults : f[h] = 0
        BY <1>2, <3>1, TreasuryAssumption, ChainAssumption DEF Holders
      <3>4. \A u \in Users : f[u] = g[u]
        BY <1>2, <3>1, <3>2 DEF Holders
      <3>5. Total(f, Users \cup Vaults) = Total(f, Users)
        BY <3>3, TotalIgnoresZeros
      <3>6. Total(f, Users) = Total(g, Users)
        BY <3>4, TotalSame
      <3>7. QED
        BY <3>1, <3>2, <3>5, <3>6 DEF TotalHeld, Holders
    <2>2. PICK f : f = [m \in Coins |-> TotalHeld(coins[m])]
      OBVIOUS
    <2>3. PICK g : g = [m \in Coins |-> Total(Wallets[m], Users)]
      OBVIOUS
    <2>4. \A m \in Coins : f[m] = g[m]
      BY <2>1, <2>2, <2>3
    <2>5. Total(f, Coins) = Total(g, Coins)
      BY <2>4, TotalSame
    <2>6. QED
      BY <2>2, <2>3, <2>5 DEF Supply, SupplyOf, FirstSupply
  <1>10. Supply \in Nat
    <2>1. PICK f : f = [m \in Coins |-> TotalHeld(coins[m])]
      OBVIOUS
    <2>2. ASSUME NEW m \in Coins PROVE f[m] \in Nat
      <3>1. PICK held : held = coins[m]
        OBVIOUS
      <3>2. \A h \in Holders : held[h] \in Nat
        BY <1>3, <3>1
      <3>3. Total(held, Holders) \in Nat
        BY <3>2, HoldersAreFinite, TotalType
      <3>4. QED
        BY <2>1, <3>1, <3>3 DEF TotalHeld
    <2>3. Total(f, Coins) \in Nat
      BY <2>2, TotalType, TreasuryAssumption
    <2>4. QED
      BY <2>1, <2>3 DEF Supply, SupplyOf
  <1>11. SupplyInv
    BY <1>1, <1>9, <1>10, NothingDistributed DEF SupplyInv
  <1>12. StakesInv
    BY <1>1, <1>5 DEF StakesInv, Ready
  <1>13. PoolInv
    BY <1>1, <1>6 DEF PoolInv
  <1>14. FeesInv
    BY <1>1 DEF FeesInv, Ready
  <1>15. BackingInv
    BY <1>1, <1>6, <1>8 DEF BackingInv, Less
  <1>16. QED
    BY <1>4, <1>11, <1>12, <1>13, <1>14, <1>15 DEF TreasuryInv

-----------------------------------------------------------------------------
(* Stakes that change. *)

StakeTotal == Total(StakerAmounts, Stakers)
ClaimTotal == Total(StakerClaims, Stakers)

LEMMA StakersAreFinite ==
  IsFiniteSet(Stakers) /\ Cardinality(Stakers) \in Nat /\ Stakers \subseteq Users
  <1>1. Stakers \subseteq Users /\ IsFiniteSet(Users)
    BY ChainAssumption DEF Stakers
  <1>2. QED
    BY <1>1, FS_Subset, FS_CardinalityType

LEMMA StakeTotalsType ==
  ASSUME TreasuryTypeOK
  PROVE  /\ StakeTotal \in Nat /\ ClaimTotal \in Nat
         /\ \A u \in Stakers : stake[u].amount \in Nat /\ stake[u].claimed \in Nat
                              /\ stake[u].amount <= StakeTotal
  <1>1. \A u \in Stakers : stake[u].amount \in Nat /\ stake[u].claimed \in Nat
    BY DEF TreasuryTypeOK, Stakers, StakeRecord
  <1>2. PICK f : f = StakerAmounts
    OBVIOUS
  <1>3. PICK g : g = StakerClaims
    OBVIOUS
  <1>4. PICK S : S = Stakers
    OBVIOUS
  <1>5. f \in [S -> Nat] /\ g \in [S -> Nat] /\ IsFiniteSet(S) /\ \A u \in S : f[u] = stake[u].amount
    BY <1>1, <1>2, <1>3, <1>4, StakersAreFinite DEF StakerAmounts, StakerClaims
  <1>6. Total(f, S) \in Nat /\ Total(g, S) \in Nat
    BY <1>5, TotalType
  <1>7. \A u \in S : f[u] <= Total(f, S)
    BY <1>5, TotalBounds
  <1>8. QED
    BY <1>1, <1>2, <1>3, <1>4, <1>5, <1>6, <1>7 DEF StakeTotal, ClaimTotal

\* The record of a staker changes.
LEMMA StakeChanges ==
  ASSUME TreasuryTypeOK, NEW u \in Users, stake[u] # None, NEW row \in StakeRecord,
         stake' = [stake EXCEPT ![u] = row]
  PROVE  /\ stake' \in [Users -> StakeRecord \cup {None}] /\ stake'[u] = row
         /\ \A v \in Users : v # u => stake'[v] = stake[v]
         /\ Stakers' = Stakers /\ u \in Stakers
         /\ StakeTotal' = StakeTotal - stake[u].amount + row.amount
         /\ ClaimTotal' = ClaimTotal - stake[u].claimed + row.claimed
  <1>1. /\ stake' \in [Users -> StakeRecord \cup {None}] /\ stake'[u] = row
        /\ \A v \in Users : v # u => stake'[v] = stake[v]
    BY DEF TreasuryTypeOK
  <1>2. row # None
    BY NoneIsNoRecord
  <1>3. Stakers' = Stakers /\ u \in Stakers
    BY <1>1, <1>2 DEF Stakers
  <1>4. PICK S : S = Stakers
    OBVIOUS
  <1>5. IsFiniteSet(S) /\ u \in S /\ S = Stakers'
    BY <1>3, <1>4, StakersAreFinite
  <1>6. ASSUME NEW v \in S
        PROVE  /\ stake[v].amount \in Nat /\ stake[v].claimed \in Nat
               /\ stake'[v].amount \in Nat /\ stake'[v].claimed \in Nat
               /\ v # u => stake'[v] = stake[v]
    <2>1. stake[v] \in StakeRecord /\ stake'[v] \in StakeRecord /\ v \in Users
      BY <1>1, <1>3, <1>4 DEF Stakers, TreasuryTypeOK
    <2>2. QED
      BY <1>1, <2>1 DEF StakeRecord
  <1>7. StakeTotal' = StakeTotal - stake[u].amount + row.amount
    <2>1. PICK f : f = StakerAmounts
      OBVIOUS
    <2>2. PICK g : g = StakerAmounts'
      OBVIOUS
    <2>3. /\ f \in [S -> Nat] /\ g \in [S -> Nat]
          /\ \A v \in S : v # u => g[v] = f[v]
          /\ f[u] = stake[u].amount /\ g[u] = row.amount
      <3>1. f = [v \in S |-> stake[v].amount] /\ g = [v \in S |-> stake'[v].amount]
        BY <1>4, <1>5, <2>1, <2>2 DEF StakerAmounts
      <3>2. f \in [S -> Nat] /\ g \in [S -> Nat]
        BY <1>6, <3>1
      <3>3. \A v \in S : v # u => g[v] = f[v]
        BY <1>6, <3>1
      <3>4. f[u] = stake[u].amount /\ g[u] = row.amount
        BY <1>1, <1>5, <3>1
      <3>5. QED
        BY <3>2, <3>3, <3>4
    <2>4. Total(g, S) = Total(f, S) - f[u] + g[u]
      BY <1>5, <2>3, TotalChanges
    <2>5. StakeTotal = Total(f, S) /\ StakeTotal' = Total(g, S)
      BY <1>4, <1>5, <2>1, <2>2 DEF StakeTotal
    <2>6. QED
      BY <2>3, <2>4, <2>5
  <1>8. ClaimTotal' = ClaimTotal - stake[u].claimed + row.claimed
    <2>1. PICK f : f = StakerClaims
      OBVIOUS
    <2>2. PICK g : g = StakerClaims'
      OBVIOUS
    <2>3. /\ f \in [S -> Nat] /\ g \in [S -> Nat]
          /\ \A v \in S : v # u => g[v] = f[v]
          /\ f[u] = stake[u].claimed /\ g[u] = row.claimed
      <3>1. f = [v \in S |-> stake[v].claimed] /\ g = [v \in S |-> stake'[v].claimed]
        BY <1>4, <1>5, <2>1, <2>2 DEF StakerClaims
      <3>2. f \in [S -> Nat] /\ g \in [S -> Nat]
        BY <1>6, <3>1
      <3>3. \A v \in S : v # u => g[v] = f[v]
        BY <1>6, <3>1
      <3>4. f[u] = stake[u].claimed /\ g[u] = row.claimed
        BY <1>1, <1>5, <3>1
      <3>5. QED
        BY <3>2, <3>3, <3>4
    <2>4. Total(g, S) = Total(f, S) - f[u] + g[u]
      BY <1>5, <2>3, TotalChanges
    <2>5. ClaimTotal = Total(f, S) /\ ClaimTotal' = Total(g, S)
      BY <1>4, <1>5, <2>1, <2>2 DEF ClaimTotal
    <2>6. QED
      BY <2>3, <2>4, <2>5
  <1>9. QED
    BY <1>1, <1>3, <1>7, <1>8

\* One staker more.
LEMMA StakeIsNew ==
  ASSUME TreasuryTypeOK, NEW u \in Users, stake[u] = None, NEW row \in StakeRecord,
         stake' = [stake EXCEPT ![u] = row]
  PROVE  /\ stake' \in [Users -> StakeRecord \cup {None}] /\ stake'[u] = row
         /\ \A v \in Users : v # u => stake'[v] = stake[v]
         /\ Cardinality(Stakers') = Cardinality(Stakers) + 1
         /\ StakeTotal' = StakeTotal + row.amount
         /\ ClaimTotal' = ClaimTotal + row.claimed
  <1>1. /\ stake' \in [Users -> StakeRecord \cup {None}] /\ stake'[u] = row
        /\ \A v \in Users : v # u => stake'[v] = stake[v]
    BY DEF TreasuryTypeOK
  <1>2. row # None /\ row.amount \in Nat /\ row.claimed \in Nat
    BY NoneIsNoRecord DEF StakeRecord
  <1>3. PICK S : S = Stakers
    OBVIOUS
  <1>4. IsFiniteSet(S) /\ u \notin S /\ Stakers' = S \cup {u}
    BY <1>1, <1>2, <1>3, StakersAreFinite DEF Stakers
  <1>5. Cardinality(S \cup {u}) = Cardinality(S) + 1
    BY <1>4, FS_AddElement
  <1>6. ASSUME NEW v \in S
        PROVE  /\ stake[v].amount \in Nat /\ stake[v].claimed \in Nat
               /\ v # u /\ stake'[v] = stake[v]
    <2>1. stake[v] \in StakeRecord /\ v \in Users /\ v # u
      BY <1>3, <1>4 DEF Stakers, TreasuryTypeOK
    <2>2. QED
      BY <1>1, <2>1 DEF StakeRecord
  <1>7. StakeTotal' = StakeTotal + row.amount
    <2>1. PICK f : f = StakerAmounts
      OBVIOUS
    <2>2. PICK g : g = StakerAmounts'
      OBVIOUS
    <2>3. /\ \A v \in S : g[v] = f[v]
          /\ \A v \in S : g[v] \in Nat
          /\ g[u] = row.amount
      BY <1>1, <1>3, <1>4, <1>6, <2>1, <2>2 DEF StakerAmounts
    <2>4. Total(g, S \cup {u}) = Total(g, S) + row.amount
      BY <1>2, <1>4, <2>3, TotalOneMore
    <2>5. Total(g, S) = Total(f, S)
      BY <2>3, TotalSame
    <2>6. StakeTotal = Total(f, S) /\ StakeTotal' = Total(g, S \cup {u})
      BY <1>3, <1>4, <2>1, <2>2 DEF StakeTotal
    <2>7. QED
      BY <2>4, <2>5, <2>6
  <1>8. ClaimTotal' = ClaimTotal + row.claimed
    <2>1. PICK f : f = StakerClaims
      OBVIOUS
    <2>2. PICK g : g = StakerClaims'
      OBVIOUS
    <2>3. /\ \A v \in S : g[v] = f[v]
          /\ \A v \in S : g[v] \in Nat
          /\ g[u] = row.claimed
      BY <1>1, <1>3, <1>4, <1>6, <2>1, <2>2 DEF StakerClaims
    <2>4. Total(g, S \cup {u}) = Total(g, S) + row.claimed
      BY <1>2, <1>4, <2>3, TotalOneMore
    <2>5. Total(g, S) = Total(f, S)
      BY <2>3, TotalSame
    <2>6. ClaimTotal = Total(f, S) /\ ClaimTotal' = Total(g, S \cup {u})
      BY <1>3, <1>4, <2>1, <2>2 DEF ClaimTotal
    <2>7. QED
      BY <2>4, <2>5, <2>6
  <1>9. QED
    BY <1>1, <1>3, <1>4, <1>5, <1>7, <1>8

-----------------------------------------------------------------------------
(* What a step leaves alone. *)

\* The accounts with a role of their own are no user's.
LEMMA OwnNames ==
  /\ {"treasury", "stake_vault", "holder_pool", "labs_wallet"} \subseteq Holders
  /\ Users \subseteq Holders /\ Named \subseteq Holders
  /\ \A u \in Users : u \notin {"treasury", "stake_vault", "holder_pool", "labs_wallet"}
  BY TreasuryAssumption, ChainAssumption DEF Holders

LEMMA StakesStay ==
  ASSUME StakesInv, UNCHANGED <<stake, grown>>, Ready => Ready',
         Ready' => treasury'.stakes = Cardinality(Stakers) /\ treasury'.staked = StakeTotal
  PROVE  StakesInv'
  <1>1. Stakers' = Stakers /\ Total(StakerAmounts, Stakers)' = StakeTotal
    BY DEF Stakers, StakerAmounts, StakeTotal
  <1>2. QED
    BY <1>1 DEF StakesInv

LEMMA PoolStays ==
  ASSUME PoolInv, UNCHANGED <<holderPool, stake>>
  PROVE  PoolInv'
  <1>1. Total(StakerClaims, Stakers)' = Total(StakerClaims, Stakers)
    BY DEF Stakers, StakerClaims
  <1>2. QED
    BY <1>1 DEF PoolInv

\* Nothing is owed that was not, and no coins leave the accounts.
LEMMA BackingStays ==
  ASSUME TreasuryInv, UNCHANGED <<stake, holderPool, astray>>,
         NEW a \in Nat, a = AllCoins("stake_vault")', a >= AllCoins("stake_vault"),
         NEW b \in Nat, b = AllCoins("holder_pool")', b >= AllCoins("holder_pool")
  PROVE  BackingInv'
  <1>1. PICK s : s = Total(StakerAmounts, Stakers)
    OBVIOUS
  <1>2. s \in Nat /\ Total(StakerAmounts, Stakers)' = s
    BY <1>1, StakeTotalsType DEF TreasuryInv, StakeTotal, Stakers, StakerAmounts
  <1>3. holderPool.balance \in Nat /\ astray \in Nat
    BY TreasuryAssumption DEF TreasuryInv, TreasuryTypeOK, HolderPool
  <1>4. AllCoins("stake_vault") \in Nat /\ AllCoins("holder_pool") \in Nat
    BY OwnNames, CoinsType DEF TreasuryInv
  <1>5. Less(s, AllCoins("stake_vault")) + Less(holderPool.balance, AllCoins("holder_pool")) <= astray
    BY <1>1 DEF TreasuryInv, BackingInv
  <1>6. Less(s, a) + Less(holderPool.balance, b) <= astray
    BY <1>2, <1>3, <1>4, <1>5 DEF Less
  <1>7. QED
    BY <1>2, <1>6 DEF BackingInv

LEMMA FeesStay ==
  ASSUME FeesInv, SupplyInv, UNCHANGED distributions, Ready, Ready', Supply' = Supply,
         treasury'.collected = treasury.collected, treasury'.toHolders = treasury.toHolders,
         treasury'.burned = treasury.burned, treasury'.toLabs = treasury.toLabs
  PROVE  FeesInv' /\ SupplyInv'
  <1>1. /\ Distributed("total")' = Distributed("total")
        /\ Distributed("holders")' = Distributed("holders")
        /\ Distributed("burned")' = Distributed("burned")
    BY DEF Distributed
  <1>2. QED
    BY <1>1 DEF FeesInv, SupplyInv

LEMMA SameCoins ==
  ASSUME UNCHANGED coins
  PROVE  Supply' = Supply /\ \A h : AllCoins(h)' = AllCoins(h)
  BY DEF Supply, SupplyOf, AllCoins

LEMMA SameBacking ==
  ASSUME TreasuryInv, UNCHANGED <<coins, stake, holderPool, astray>>
  PROVE  BackingInv'
  <1>1. PICK a, b : a = AllCoins("stake_vault") /\ b = AllCoins("holder_pool")
    OBVIOUS
  <1>2. a \in Nat /\ b \in Nat
    BY <1>1, OwnNames, CoinsType DEF TreasuryInv
  <1>3. AllCoins("stake_vault")' = a /\ AllCoins("holder_pool")' = b
    BY <1>1, SameCoins
  <1>4. QED
    BY <1>1, <1>2, <1>3, BackingStays

-----------------------------------------------------------------------------
(* Each instruction keeps the invariant. *)

LEMMA initialize_treasuryInv ==
  ASSUME TreasuryInv, initialize_treasury
  PROVE  TreasuryInv'
  <1>1. PICK row : row = [ mint |-> FirstCoin, vault |-> None, reserve |-> FALSE, collected |-> 0,
                           toHolders |-> 0, burned |-> 0, toLabs |-> 0, stakes |-> 0, staked |-> 0 ]
    OBVIOUS
  <1>2. /\ treasury = None /\ treasury' = row
        /\ UNCHANGED <<now, holderPool, stake, distributions, coins, grown, astray>>
    BY <1>1 DEF initialize_treasury
  <1>3. /\ row \in TreasuryConfig /\ row.collected = 0 /\ row.toHolders = 0 /\ row.burned = 0
        /\ row.toLabs = 0 /\ row.stakes = 0 /\ row.staked = 0
    BY <1>1, TreasuryAssumption DEF TreasuryConfig
  <1>4. ~Ready /\ Ready'
    BY <1>2, <1>3, NoneIsNoRecord DEF Ready
  <1>5. TreasuryTypeOK'
    BY <1>2, <1>3 DEF TreasuryInv, TreasuryTypeOK
  <1>6. Stakers = {} /\ distributions = <<>>
    BY <1>4 DEF TreasuryInv, StakesInv, FeesInv
  <1>7. StakeTotal = 0 /\ Cardinality(Stakers) = 0
    <2>1. PICK f : f = StakerAmounts
      OBVIOUS
    <2>2. Total(f, {}) = 0
      BY TotalOfNone
    <2>3. QED
      BY <1>6, <2>1, <2>2, FS_EmptySet DEF StakeTotal
  <1>8. Supply' = Supply /\ \A h : AllCoins(h)' = AllCoins(h)
    BY <1>2, SameCoins
  <1>9. StakesInv'
    BY <1>2, <1>3, <1>4, <1>7, StakesStay DEF TreasuryInv
  <1>10. PoolInv'
    BY <1>2, PoolStays DEF TreasuryInv
  <1>11. /\ Distributed("total")' = 0 /\ Distributed("holders")' = 0
         /\ Distributed("burned")' = Distributed("burned")
    <2>1. Distributed("total") = 0 /\ Distributed("holders") = 0
      BY <1>6, NothingDistributed
    <2>2. QED
      BY <1>2, <2>1 DEF Distributed
  <1>12. FeesInv' /\ SupplyInv'
    BY <1>2, <1>3, <1>4, <1>8, <1>11 DEF TreasuryInv, FeesInv, SupplyInv
  <1>13. BackingInv'
    BY <1>2, SameBacking
  <1>14. QED
    BY <1>5, <1>9, <1>10, <1>12, <1>13 DEF TreasuryInv

\* The configuration changes in what is not counted.
LEMMA AdministrationInv ==
  ASSUME TreasuryInv, Ready, NEW row \in TreasuryConfig, treasury' = row,
         row.collected = treasury.collected, row.toHolders = treasury.toHolders,
         row.burned = treasury.burned, row.toLabs = treasury.toLabs,
         row.stakes = treasury.stakes, row.staked = treasury.staked,
         UNCHANGED <<now, holderPool, stake, distributions, coins, grown, astray>>
  PROVE  TreasuryInv'
  <1>1. Ready'
    BY NoneIsNoRecord DEF Ready
  <1>2. TreasuryTypeOK'
    BY DEF TreasuryInv, TreasuryTypeOK
  <1>3. Supply' = Supply /\ \A h : AllCoins(h)' = AllCoins(h)
    BY SameCoins
  <1>4. StakesInv'
    BY <1>1, StakesStay DEF TreasuryInv, StakesInv, StakeTotal
  <1>5. PoolInv'
    BY PoolStays DEF TreasuryInv
  <1>6. FeesInv' /\ SupplyInv'
    BY <1>1, <1>3, FeesStay DEF TreasuryInv
  <1>7. BackingInv'
    BY SameBacking
  <1>8. QED
    BY <1>2, <1>4, <1>5, <1>6, <1>7 DEF TreasuryInv

LEMMA administerInv ==
  ASSUME TreasuryInv,
         \/ initialize_vaults \/ initialize_reserve
         \/ \E m \in Coins : migrate_mint(m)
  PROVE  TreasuryInv'
  <1>1. /\ Ready /\ treasury \in TreasuryConfig
        /\ UNCHANGED <<now, holderPool, stake, distributions, coins, grown, astray>>
    BY DEF TreasuryInv, TreasuryTypeOK, Ready, initialize_vaults, initialize_reserve, migrate_mint
  <1>2. CASE initialize_vaults
    <2>1. PICK row : row = [treasury EXCEPT !.vault = treasury.mint]
      OBVIOUS
    <2>2. /\ row \in TreasuryConfig /\ row.collected = treasury.collected
          /\ row.toHolders = treasury.toHolders /\ row.burned = treasury.burned
          /\ row.toLabs = treasury.toLabs /\ row.stakes = treasury.stakes
          /\ row.staked = treasury.staked
      BY <1>1, <2>1 DEF TreasuryConfig
    <2>3. treasury' = row
      BY <1>2, <2>1 DEF initialize_vaults
    <2>4. QED
      BY <1>1, <2>2, <2>3, AdministrationInv
  <1>3. CASE initialize_reserve
    <2>1. PICK row : row = [treasury EXCEPT !.reserve = TRUE]
      OBVIOUS
    <2>2. /\ row \in TreasuryConfig /\ row.collected = treasury.collected
          /\ row.toHolders = treasury.toHolders /\ row.burned = treasury.burned
          /\ row.toLabs = treasury.toLabs /\ row.stakes = treasury.stakes
          /\ row.staked = treasury.staked
      BY <1>1, <2>1 DEF TreasuryConfig
    <2>3. treasury' = row
      BY <1>3, <2>1 DEF initialize_reserve
    <2>4. QED
      BY <1>1, <2>2, <2>3, AdministrationInv
  <1>4. ASSUME NEW m \in Coins, migrate_mint(m) PROVE TreasuryInv'
    <2>1. PICK row : row = [treasury EXCEPT !.mint = m]
      OBVIOUS
    <2>2. /\ row \in TreasuryConfig /\ row.collected = treasury.collected
          /\ row.toHolders = treasury.toHolders /\ row.burned = treasury.burned
          /\ row.toLabs = treasury.toLabs /\ row.stakes = treasury.stakes
          /\ row.staked = treasury.staked
      BY <1>1, <2>1 DEF TreasuryConfig
    <2>3. treasury' = row
      BY <1>4, <2>1 DEF migrate_mint
    <2>4. QED
      BY <1>1, <2>2, <2>3, AdministrationInv
  <1>5. QED
    BY <1>2, <1>3, <1>4

\* Coins move, and none of those owed to stakers.
LEMMA VaultInv ==
  ASSUME TreasuryInv, Ready, NEW from \in Holders, NEW to \in Holders,
         from \notin {"stake_vault", "holder_pool"},
         NEW amount \in Nat, Purse[from] >= amount, coins' = Transferred(from, to, amount),
         UNCHANGED <<now, treasury, holderPool, stake, distributions, grown, astray>>
  PROVE  TreasuryInv'
  <1>1. /\ coins' \in [Coins -> [Holders -> Nat]] /\ Supply' = Supply
        /\ \A h \in Holders :
             /\ AllCoins(h) \in Nat
             /\ AllCoins(h)' = AllCoins(h) - (IF h = from THEN amount ELSE 0)
                                           + (IF h = to THEN amount ELSE 0)
    BY TransferredEffect DEF TreasuryInv
  <1>2. PICK a, b : a = AllCoins("stake_vault")' /\ b = AllCoins("holder_pool")'
    OBVIOUS
  <1>3. a \in Nat /\ a >= AllCoins("stake_vault") /\ b \in Nat /\ b >= AllCoins("holder_pool")
    BY <1>1, <1>2, OwnNames
  <1>4. Ready'
    BY DEF Ready
  <1>5. TreasuryTypeOK'
    BY <1>1 DEF TreasuryInv, TreasuryTypeOK
  <1>6. StakesInv'
    BY <1>4, StakesStay DEF TreasuryInv, StakesInv, StakeTotal
  <1>7. PoolInv'
    BY PoolStays DEF TreasuryInv
  <1>8. FeesInv' /\ SupplyInv'
    BY <1>1, <1>4, FeesStay DEF TreasuryInv
  <1>9. BackingInv'
    BY <1>2, <1>3, BackingStays
  <1>10. QED
    BY <1>5, <1>6, <1>7, <1>8, <1>9 DEF TreasuryInv

LEMMA authority_withdrawInv ==
  ASSUME TreasuryInv, NEW v \in Named, NEW amount \in Withdrawals, authority_withdraw(v, amount)
  PROVE  TreasuryInv'
  <1>1. /\ Ready /\ Purse["treasury"] >= amount
        /\ coins' = Transferred("treasury", v, amount)
        /\ UNCHANGED <<now, treasury, holderPool, stake, distributions, grown, astray>>
    BY DEF authority_withdraw, VaultUsable
  <1>2. amount \in Nat /\ v \in Holders /\ "treasury" \in Holders
    BY OwnNames, TreasuryAssumption
  <1>3. "treasury" \notin {"stake_vault", "holder_pool"}
    OBVIOUS
  <1>4. QED
    BY <1>1, <1>2, <1>3, VaultInv

LEMMA deposit_feeInv ==
  ASSUME TreasuryInv, NEW u \in Users, NEW v \in Named, NEW amount \in Deposits,
         deposit_fee(u, v, amount)
  PROVE  TreasuryInv'
  <1>1. /\ Ready /\ Purse[u] >= amount /\ coins' = Transferred(u, v, amount)
        /\ UNCHANGED <<now, treasury, holderPool, stake, distributions, grown, astray>>
    BY DEF deposit_fee
  <1>2. amount \in Nat /\ v \in Holders /\ u \in Holders /\ u \notin {"stake_vault", "holder_pool"}
    BY OwnNames, TreasuryAssumption
  <1>3. QED
    BY <1>1, <1>2, VaultInv

LEMMA passesInv ==
  ASSUME TreasuryInv, passes, UNCHANGED <<treasury, holderPool, stake, distributions, coins, grown, astray>>
  PROVE  TreasuryInv'
  <1>1. now' \in Times
    BY ChainAssumption DEF TreasuryInv, TreasuryTypeOK, passes, Times
  <1>2. TreasuryTypeOK'
    BY <1>1 DEF TreasuryInv, TreasuryTypeOK
  <1>3. Supply' = Supply /\ \A h : AllCoins(h)' = AllCoins(h)
    BY SameCoins
  <1>4. StakesInv'
    BY DEF TreasuryInv, StakesInv, Stakers, StakerAmounts, Ready
  <1>5. PoolInv'
    BY PoolStays DEF TreasuryInv
  <1>6. FeesInv' /\ SupplyInv'
    BY <1>3 DEF TreasuryInv, FeesInv, SupplyInv, Distributed, Ready
  <1>7. BackingInv'
    BY SameBacking
  <1>8. QED
    BY <1>2, <1>4, <1>5, <1>6, <1>7 DEF TreasuryInv

-----------------------------------------------------------------------------
(* Coins that are owed. *)

LEMMA OwedType ==
  ASSUME TreasuryInv
  PROVE  /\ StakeTotal \in Nat /\ holderPool.balance \in Nat /\ astray \in Nat
         /\ AllCoins("stake_vault") \in Nat /\ AllCoins("holder_pool") \in Nat
         /\ Less(StakeTotal, AllCoins("stake_vault"))
              + Less(holderPool.balance, AllCoins("holder_pool")) <= astray
  <1>1. StakeTotal \in Nat
    BY StakeTotalsType DEF TreasuryInv
  <1>2. holderPool.balance \in Nat /\ astray \in Nat
    BY TreasuryAssumption DEF TreasuryInv, TreasuryTypeOK, HolderPool
  <1>3. AllCoins("stake_vault") \in Nat /\ AllCoins("holder_pool") \in Nat
    BY OwnNames, CoinsType DEF TreasuryInv
  <1>4. QED
    BY <1>1, <1>2, <1>3 DEF TreasuryInv, BackingInv, StakeTotal

\* More is owed: the coins are in the account meant for it, or went astray.
LEMMA MoreOwed ==
  ASSUME NEW s \in Nat, NEW a \in Nat, NEW p \in Nat, NEW b \in Nat, NEW t \in Nat,
         Less(s, a) + Less(p, b) <= t,
         NEW x \in Nat, NEW a2 \in Nat, NEW b2 \in Nat, NEW t2 \in Nat, b2 >= b,
         \/ a2 >= a + x /\ t2 = t
         \/ a2 >= a /\ t2 = t + x
  PROVE  Less(s + x, a2) + Less(p, b2) <= t2
  BY DEF Less

\* A user's coins are staked, in the account that is passed.
LEMMA StakeReceived ==
  ASSUME TreasuryInv, Ready, NEW u \in Users, NEW v \in Named, NEW x \in Nat, Purse[u] >= x,
         coins' = Transferred(u, v, x), PassedFor(v, "stake_vault", x),
         StakeTotal' = StakeTotal + x, UNCHANGED holderPool
  PROVE  /\ coins' \in [Coins -> [Holders -> Nat]] /\ Supply' = Supply
         /\ astray' \in 0 .. MaxAstray /\ BackingInv'
  <1>1. /\ u \in Holders /\ v \in Holders /\ u # "stake_vault" /\ u # "holder_pool"
        /\ "stake_vault" \in Holders /\ "holder_pool" \in Holders
    BY OwnNames
  <1>2. /\ coins' \in [Coins -> [Holders -> Nat]] /\ Supply' = Supply
        /\ \A h \in Holders :
             /\ AllCoins(h) \in Nat
             /\ AllCoins(h)' = AllCoins(h) - (IF h = u THEN x ELSE 0)
                                           + (IF h = v THEN x ELSE 0)
    BY <1>1, TransferredEffect DEF TreasuryInv
  <1>3. PICK a2, b2 : a2 = AllCoins("stake_vault")' /\ b2 = AllCoins("holder_pool")'
    OBVIOUS
  <1>4. PICK s, a, p, b : /\ s = StakeTotal /\ a = AllCoins("stake_vault")
                          /\ p = holderPool.balance /\ b = AllCoins("holder_pool")
    OBVIOUS
  <1>5. /\ s \in Nat /\ a \in Nat /\ p \in Nat /\ b \in Nat /\ astray \in Nat
        /\ Less(s, a) + Less(p, b) <= astray
    BY <1>4, OwedType
  <1>6. a2 = a + (IF v = "stake_vault" THEN x ELSE 0)
    BY <1>1, <1>2, <1>3, <1>4, <1>5
  <1>7. b2 = b + (IF v = "holder_pool" THEN x ELSE 0)
    BY <1>1, <1>2, <1>3, <1>4, <1>5
  <1>8. PICK t2 : t2 = astray'
    OBVIOUS
  <1>9. t2 = astray + (IF v = "stake_vault" THEN 0 ELSE x) /\ t2 <= MaxAstray
    BY <1>8 DEF PassedFor
  <1>10. a2 \in Nat /\ b2 \in Nat /\ t2 \in Nat /\ b2 >= b
    BY <1>5, <1>6, <1>7, <1>9
  <1>11. (a2 >= a + x /\ t2 = astray) \/ (a2 >= a /\ t2 = astray + x)
    BY <1>5, <1>6, <1>9
  <1>12. Less(s + x, a2) + Less(p, b2) <= t2
    BY <1>5, <1>10, <1>11, MoreOwed
  <1>13. StakeTotal' = s + x /\ holderPool'.balance = p
    BY <1>4
  <1>14. BackingInv'
    BY <1>3, <1>8, <1>12, <1>13 DEF BackingInv, StakeTotal
  <1>15. t2 \in 0 .. MaxAstray
    BY <1>9, <1>10, TreasuryAssumption
  <1>16. QED
    BY <1>2, <1>8, <1>14, <1>15

\* Staked coins are paid back, from the account that is passed.
LEMMA StakePaid ==
  ASSUME TreasuryInv, Ready, NEW u \in Users, NEW v \in Named, NEW x \in Nat, Purse[v] >= x,
         coins' = Transferred(v, u, x), PassedFor(v, "stake_vault", x),
         x <= StakeTotal, StakeTotal' = StakeTotal - x, UNCHANGED holderPool
  PROVE  /\ coins' \in [Coins -> [Holders -> Nat]] /\ Supply' = Supply
         /\ astray' \in 0 .. MaxAstray /\ BackingInv'
  <1>1. /\ u \in Holders /\ v \in Holders /\ u # "stake_vault" /\ u # "holder_pool"
        /\ "stake_vault" \in Holders /\ "holder_pool" \in Holders
    BY OwnNames
  <1>2. /\ coins' \in [Coins -> [Holders -> Nat]] /\ Supply' = Supply /\ AllCoins(v) >= x
        /\ \A h \in Holders :
             /\ AllCoins(h) \in Nat
             /\ AllCoins(h)' = AllCoins(h) - (IF h = v THEN x ELSE 0)
                                           + (IF h = u THEN x ELSE 0)
    BY <1>1, TransferredEffect DEF TreasuryInv
  <1>3. PICK a2, b2 : a2 = AllCoins("stake_vault")' /\ b2 = AllCoins("holder_pool")'
    OBVIOUS
  <1>4. PICK s, a, p, b : /\ s = StakeTotal /\ a = AllCoins("stake_vault")
                          /\ p = holderPool.balance /\ b = AllCoins("holder_pool")
    OBVIOUS
  <1>5. /\ s \in Nat /\ a \in Nat /\ p \in Nat /\ b \in Nat /\ astray \in Nat
        /\ Less(s, a) + Less(p, b) <= astray
    BY <1>4, OwedType
  <1>6. a2 = a - (IF v = "stake_vault" THEN x ELSE 0)
    BY <1>1, <1>2, <1>3, <1>4, <1>5
  <1>7. b2 = b - (IF v = "holder_pool" THEN x ELSE 0)
    BY <1>1, <1>2, <1>3, <1>4, <1>5
  <1>8. PICK t2 : t2 = astray'
    OBVIOUS
  <1>9. t2 = astray + (IF v = "stake_vault" THEN 0 ELSE x) /\ t2 <= MaxAstray
    BY <1>8 DEF PassedFor
  <1>10. a2 \in Nat /\ b2 \in Nat /\ t2 \in Nat
    <2>1. v = "stake_vault" => a >= x
      BY <1>2, <1>4
    <2>2. v = "holder_pool" => b >= x
      BY <1>2, <1>4
    <2>3. QED
      BY <1>5, <1>6, <1>7, <1>9, <2>1, <2>2
  <1>11. \/ a2 >= a - x /\ b2 >= b /\ t2 = astray
         \/ a2 >= a /\ b2 >= b - x /\ t2 = astray + x
    BY <1>5, <1>6, <1>7, <1>9
  <1>12. Less(s - x, a2) + Less(p, b2) <= t2
    <2>1. x <= s
      BY <1>4
    <2>2. QED
      BY <1>5, <1>10, <1>11, <2>1 DEF Less
  <1>13. StakeTotal' = s - x /\ holderPool'.balance = p
    BY <1>4
  <1>14. BackingInv'
    BY <1>3, <1>8, <1>12, <1>13 DEF BackingInv, StakeTotal
  <1>15. t2 \in 0 .. MaxAstray
    BY <1>9, <1>10, TreasuryAssumption
  <1>16. QED
    BY <1>2, <1>8, <1>14, <1>15

\* A share of the pool is paid, from the account that is passed.
LEMMA ClaimPaid ==
  ASSUME TreasuryInv, Ready, NEW u \in Users, NEW v \in Named, NEW x \in Nat, Purse[v] >= x,
         coins' = Transferred(v, u, x), PassedFor(v, "holder_pool", x),
         x <= holderPool.balance, StakeTotal' = StakeTotal,
         holderPool'.balance = holderPool.balance - x
  PROVE  /\ coins' \in [Coins -> [Holders -> Nat]] /\ Supply' = Supply
         /\ astray' \in 0 .. MaxAstray /\ BackingInv'
  <1>1. /\ u \in Holders /\ v \in Holders /\ u # "stake_vault" /\ u # "holder_pool"
        /\ "stake_vault" \in Holders /\ "holder_pool" \in Holders
    BY OwnNames
  <1>2. /\ coins' \in [Coins -> [Holders -> Nat]] /\ Supply' = Supply /\ AllCoins(v) >= x
        /\ \A h \in Holders :
             /\ AllCoins(h) \in Nat
             /\ AllCoins(h)' = AllCoins(h) - (IF h = v THEN x ELSE 0)
                                           + (IF h = u THEN x ELSE 0)
    BY <1>1, TransferredEffect DEF TreasuryInv
  <1>3. PICK a2, b2 : a2 = AllCoins("stake_vault")' /\ b2 = AllCoins("holder_pool")'
    OBVIOUS
  <1>4. PICK s, a, p, b : /\ s = StakeTotal /\ a = AllCoins("stake_vault")
                          /\ p = holderPool.balance /\ b = AllCoins("holder_pool")
    OBVIOUS
  <1>5. /\ s \in Nat /\ a \in Nat /\ p \in Nat /\ b \in Nat /\ astray \in Nat
        /\ Less(p, b) + Less(s, a) <= astray
    <2>1. /\ s \in Nat /\ a \in Nat /\ p \in Nat /\ b \in Nat /\ astray \in Nat
          /\ Less(s, a) + Less(p, b) <= astray
      BY <1>4, OwedType
    <2>2. QED
      BY <2>1 DEF Less
  <1>6. a2 = a - (IF v = "stake_vault" THEN x ELSE 0)
    BY <1>1, <1>2, <1>3, <1>4, <1>5
  <1>7. b2 = b - (IF v = "holder_pool" THEN x ELSE 0)
    BY <1>1, <1>2, <1>3, <1>4, <1>5
  <1>8. PICK t2 : t2 = astray'
    OBVIOUS
  <1>9. t2 = astray + (IF v = "holder_pool" THEN 0 ELSE x) /\ t2 <= MaxAstray
    BY <1>8 DEF PassedFor
  <1>10. a2 \in Nat /\ b2 \in Nat /\ t2 \in Nat
    <2>1. v = "stake_vault" => a >= x
      BY <1>2, <1>4
    <2>2. v = "holder_pool" => b >= x
      BY <1>2, <1>4
    <2>3. QED
      BY <1>5, <1>6, <1>7, <1>9, <2>1, <2>2
  <1>11. \/ b2 >= b - x /\ a2 >= a /\ t2 = astray
         \/ b2 >= b /\ a2 >= a - x /\ t2 = astray + x
    BY <1>5, <1>6, <1>7, <1>9
  <1>12. Less(p - x, b2) + Less(s, a2) <= t2
    <2>1. x <= p
      BY <1>4
    <2>2. QED
      BY <1>5, <1>10, <1>11, <2>1 DEF Less
  <1>13. Less(s, a2) + Less(p - x, b2) <= t2
    <2>1. p - x \in Nat
      BY <1>4, <1>5
    <2>2. QED
      BY <1>5, <1>10, <1>12, <2>1 DEF Less
  <1>14. StakeTotal' = s /\ holderPool'.balance = p - x
    BY <1>4
  <1>15. BackingInv'
    BY <1>3, <1>8, <1>13, <1>14 DEF BackingInv, StakeTotal
  <1>16. t2 \in 0 .. MaxAstray
    BY <1>9, <1>10, TreasuryAssumption
  <1>17. QED
    BY <1>2, <1>8, <1>15, <1>16

\* The stakes change, and the coins with them.
LEMMA StakingInv ==
  ASSUME TreasuryInv, Ready,
         coins' \in [Coins -> [Holders -> Nat]], Supply' = Supply,
         astray' \in 0 .. MaxAstray, BackingInv',
         NEW config \in TreasuryConfig, treasury' = config,
         config.collected = treasury.collected, config.toHolders = treasury.toHolders,
         config.burned = treasury.burned, config.toLabs = treasury.toLabs,
         stake' \in [Users -> StakeRecord \cup {None}], grown' \in [Users -> Times],
         config.stakes = Cardinality(Stakers)', config.staked = StakeTotal',
         ClaimTotal' = ClaimTotal,
         \A u \in Users : stake'[u] # None => grown'[u] = stake'[u].stakedAt,
         UNCHANGED <<now, holderPool, distributions>>
  PROVE  TreasuryInv'
  <1>1. Ready'
    BY NoneIsNoRecord DEF Ready
  <1>2. TreasuryTypeOK'
    BY DEF TreasuryInv, TreasuryTypeOK
  <1>3. StakesInv'
    BY <1>1 DEF StakesInv, StakeTotal
  <1>4. PoolInv'
    <2>1. Total(StakerClaims, Stakers)' = Total(StakerClaims, Stakers)
      BY DEF ClaimTotal
    <2>2. QED
      BY <2>1 DEF PoolInv, TreasuryInv
  <1>5. FeesInv' /\ SupplyInv'
    BY <1>1, FeesStay DEF TreasuryInv
  <1>6. QED
    BY <1>2, <1>3, <1>4, <1>5 DEF TreasuryInv

LEMMA StakedType ==
  ASSUME TreasuryInv, Ready
  PROVE  /\ treasury \in TreasuryConfig /\ now \in Times /\ now \in Nat
         /\ treasury.staked = StakeTotal /\ StakeTotal \in Nat /\ ClaimTotal \in Nat
         /\ treasury.stakes = Cardinality(Stakers) /\ Cardinality(Stakers) \in Nat
         /\ \A v \in Users : stake[v] # None => /\ stake[v] \in StakeRecord
                                               /\ grown[v] = stake[v].stakedAt
         /\ stake \in [Users -> StakeRecord \cup {None}] /\ grown \in [Users -> Times]
  <1>1. StakeTotal \in Nat /\ ClaimTotal \in Nat /\ Cardinality(Stakers) \in Nat
    BY StakeTotalsType, StakersAreFinite DEF TreasuryInv
  <1>2. /\ treasury.staked = StakeTotal /\ treasury.stakes = Cardinality(Stakers)
        /\ \A v \in Users : stake[v] # None => grown[v] = stake[v].stakedAt
    BY DEF TreasuryInv, StakesInv, StakeTotal
  <1>3. /\ treasury \in TreasuryConfig /\ now \in Times
        /\ \A v \in Users : stake[v] # None => stake[v] \in StakeRecord
        /\ stake \in [Users -> StakeRecord \cup {None}] /\ grown \in [Users -> Times]
    BY DEF TreasuryInv, TreasuryTypeOK, Ready
  <1>4. now \in Nat
    BY <1>3, ChainAssumption DEF Times
  <1>5. QED
    BY <1>1, <1>2, <1>3, <1>4

LEMMA register_stakeInv ==
  ASSUME TreasuryInv, NEW u \in Users, NEW v \in Named, NEW amount \in Stakes,
         register_stake(u, amount, v)
  PROVE  TreasuryInv'
  <1>1. /\ Ready /\ stake[u] = None /\ Purse[u] >= amount
        /\ coins' = Transferred(u, v, amount) /\ PassedFor(v, "stake_vault", amount)
        /\ UNCHANGED <<now, holderPool, distributions>>
        /\ grown' = [grown EXCEPT ![u] = now]
    BY DEF register_stake
  <1>2. amount \in Nat
    BY TreasuryAssumption
  <1>3. PICK row : row = [amount |-> amount, stakedAt |-> now, lastClaim |-> -1, claimed |-> 0]
    OBVIOUS
  <1>4. /\ row \in StakeRecord /\ row.amount = amount /\ row.claimed = 0 /\ row.stakedAt = now
    BY <1>2, <1>3, StakedType, <1>1 DEF StakeRecord
  <1>5. stake' = [stake EXCEPT ![u] = row]
    BY <1>3 DEF register_stake
  <1>6. /\ stake' \in [Users -> StakeRecord \cup {None}] /\ stake'[u] = row
        /\ \A w \in Users : w # u => stake'[w] = stake[w]
        /\ Cardinality(Stakers') = Cardinality(Stakers) + 1
        /\ StakeTotal' = StakeTotal + row.amount
        /\ ClaimTotal' = ClaimTotal + row.claimed
    BY <1>1, <1>4, <1>5, StakeIsNew DEF TreasuryInv
  <1>7. PICK old : old = treasury
    OBVIOUS
  <1>8. PICK config : config = [old EXCEPT !.stakes = @ + 1, !.staked = @ + amount]
    OBVIOUS
  <1>9. treasury' = config
    BY <1>7, <1>8 DEF register_stake
  <1>10. old \in TreasuryConfig
    BY <1>1, <1>7, StakedType
  <1>11. PICK mid : mid = [old EXCEPT !.stakes = @ + 1]
    OBVIOUS
  <1>12. /\ mid \in TreasuryConfig /\ mid.stakes = old.stakes + 1 /\ mid.staked = old.staked
         /\ mid.collected = old.collected /\ mid.toHolders = old.toHolders
         /\ mid.burned = old.burned /\ mid.toLabs = old.toLabs
    BY <1>10, <1>11 DEF TreasuryConfig
  <1>13. config = [mid EXCEPT !.staked = @ + amount]
    BY <1>8, <1>10, <1>11 DEF TreasuryConfig
  <1>14. /\ config \in TreasuryConfig /\ config.stakes = mid.stakes
         /\ config.staked = mid.staked + amount
         /\ config.collected = mid.collected /\ config.toHolders = mid.toHolders
         /\ config.burned = mid.burned /\ config.toLabs = mid.toLabs
    BY <1>2, <1>12, <1>13 DEF TreasuryConfig
  <1>15. config.stakes = Cardinality(Stakers)' /\ config.staked = StakeTotal'
    BY <1>1, <1>4, <1>6, <1>7, <1>12, <1>14, StakedType
  <1>16. /\ coins' \in [Coins -> [Holders -> Nat]] /\ Supply' = Supply
         /\ astray' \in 0 .. MaxAstray /\ BackingInv'
    BY <1>1, <1>2, <1>4, <1>6, StakeReceived
  <1>17. ClaimTotal' = ClaimTotal
    BY <1>1, <1>4, <1>6, StakedType
  <1>18. /\ grown' \in [Users -> Times]
         /\ \A w \in Users : stake'[w] # None => grown'[w] = stake'[w].stakedAt
    BY <1>1, <1>4, <1>6, StakedType
  <1>19. /\ config.collected = treasury.collected /\ config.toHolders = treasury.toHolders
         /\ config.burned = treasury.burned /\ config.toLabs = treasury.toLabs
    BY <1>7, <1>12, <1>14
  <1>20. QED
    BY <1>1, <1>6, <1>9, <1>14, <1>15, <1>16, <1>17, <1>18, <1>19, StakingInv

LEMMA increase_stakeInv ==
  ASSUME TreasuryInv, NEW u \in Users, NEW v \in Named, NEW amount \in Stakes,
         increase_stake(u, amount, v)
  PROVE  TreasuryInv'
  <1>1. PICK added : added = amount - stake[u].amount
    OBVIOUS
  <1>2. /\ Ready /\ stake[u] # None /\ added > 0 /\ Purse[u] >= added
        /\ coins' = Transferred(u, v, added) /\ PassedFor(v, "stake_vault", added)
        /\ UNCHANGED <<now, holderPool, distributions>>
        /\ grown' = [grown EXCEPT ![u] = now]
    BY <1>1 DEF increase_stake
  <1>3. amount \in Nat
    BY TreasuryAssumption
  <1>4. PICK first : first = stake[u]
    OBVIOUS
  <1>5. first \in StakeRecord /\ first.amount \in Nat
    BY <1>2, <1>4, StakedType DEF StakeRecord
  <1>6. added \in Nat /\ amount = first.amount + added
    BY <1>1, <1>2, <1>3, <1>4, <1>5
  <1>7. PICK row : row = [first EXCEPT !.amount = amount, !.stakedAt = now]
    OBVIOUS
  <1>8. /\ row \in StakeRecord /\ row.amount = amount /\ row.claimed = first.claimed
        /\ row.stakedAt = now
    <2>1. now \in Times
      BY <1>2, StakedType
    <2>2. QED
      BY <1>3, <1>5, <1>7, <2>1 DEF StakeRecord
  <1>9. stake' = [stake EXCEPT ![u] = row]
    BY <1>4, <1>7 DEF increase_stake
  <1>10. /\ stake' \in [Users -> StakeRecord \cup {None}] /\ stake'[u] = row
         /\ \A w \in Users : w # u => stake'[w] = stake[w]
         /\ Stakers' = Stakers
         /\ StakeTotal' = StakeTotal - stake[u].amount + row.amount
         /\ ClaimTotal' = ClaimTotal - stake[u].claimed + row.claimed
    BY <1>2, <1>8, <1>9, StakeChanges DEF TreasuryInv
  <1>11. PICK config : config = [treasury EXCEPT !.staked = @ + added]
    OBVIOUS
  <1>12. treasury' = config
    BY <1>1, <1>11 DEF increase_stake
  <1>13. /\ config \in TreasuryConfig /\ config.stakes = treasury.stakes
         /\ config.staked = treasury.staked + added
         /\ config.collected = treasury.collected /\ config.toHolders = treasury.toHolders
         /\ config.burned = treasury.burned /\ config.toLabs = treasury.toLabs
    BY <1>2, <1>6, <1>11, StakedType DEF TreasuryConfig
  <1>14. StakeTotal' = StakeTotal + added
    BY <1>2, <1>4, <1>5, <1>6, <1>8, <1>10, StakedType
  <1>15. config.stakes = Cardinality(Stakers)' /\ config.staked = StakeTotal'
    BY <1>2, <1>10, <1>13, <1>14, StakedType
  <1>16. /\ coins' \in [Coins -> [Holders -> Nat]] /\ Supply' = Supply
         /\ astray' \in 0 .. MaxAstray /\ BackingInv'
    BY <1>2, <1>6, <1>14, StakeReceived
  <1>17. ClaimTotal' = ClaimTotal
    <2>1. first.claimed \in Nat
      BY <1>5 DEF StakeRecord
    <2>2. QED
      BY <1>2, <1>4, <1>8, <1>10, <2>1, StakedType
  <1>18. /\ grown' \in [Users -> Times]
         /\ \A w \in Users : stake'[w] # None => grown'[w] = stake'[w].stakedAt
    BY <1>2, <1>8, <1>10, StakedType
  <1>19. QED
    BY <1>2, <1>10, <1>12, <1>13, <1>15, <1>16, <1>17, <1>18, StakingInv

LEMMA decrease_stakeInv ==
  ASSUME TreasuryInv, NEW u \in Users, NEW v \in Named, NEW amount \in Stakes,
         decrease_stake(u, amount, v)
  PROVE  TreasuryInv'
  <1>1. PICK removed : removed = stake[u].amount - amount
    OBVIOUS
  <1>2. /\ Ready /\ stake[u] # None /\ removed > 0 /\ Purse[v] >= removed
        /\ coins' = Transferred(v, u, removed) /\ PassedFor(v, "stake_vault", removed)
        /\ UNCHANGED <<now, holderPool, distributions, grown>>
    BY <1>1 DEF decrease_stake
  <1>3. amount \in Nat
    BY TreasuryAssumption
  <1>4. PICK first : first = stake[u]
    OBVIOUS
  <1>5. first \in StakeRecord /\ first.amount \in Nat
    BY <1>2, <1>4, StakedType DEF StakeRecord
  <1>6. removed \in Nat /\ first.amount = amount + removed
    BY <1>1, <1>2, <1>3, <1>4, <1>5
  <1>7. PICK row : row = [first EXCEPT !.amount = amount]
    OBVIOUS
  <1>8. /\ row \in StakeRecord /\ row.amount = amount /\ row.claimed = first.claimed
        /\ row.stakedAt = first.stakedAt
    BY <1>3, <1>5, <1>7 DEF StakeRecord
  <1>9. stake' = [stake EXCEPT ![u] = row]
    BY <1>4, <1>7 DEF decrease_stake
  <1>10. /\ stake' \in [Users -> StakeRecord \cup {None}] /\ stake'[u] = row
         /\ \A w \in Users : w # u => stake'[w] = stake[w]
         /\ Stakers' = Stakers /\ u \in Stakers
         /\ StakeTotal' = StakeTotal - stake[u].amount + row.amount
         /\ ClaimTotal' = ClaimTotal - stake[u].claimed + row.claimed
    BY <1>2, <1>8, <1>9, StakeChanges DEF TreasuryInv
  <1>11. first.amount <= StakeTotal
    BY <1>4, <1>10, StakeTotalsType DEF TreasuryInv
  <1>12. PICK config : config = [treasury EXCEPT !.staked = @ - removed]
    OBVIOUS
  <1>13. treasury' = config
    BY <1>1, <1>12 DEF decrease_stake
  <1>14. treasury.staked = StakeTotal /\ StakeTotal \in Nat /\ treasury.staked - removed \in Nat
    BY <1>2, <1>3, <1>5, <1>6, <1>11, StakedType
  <1>15. /\ config \in TreasuryConfig /\ config.stakes = treasury.stakes
         /\ config.staked = treasury.staked - removed
         /\ config.collected = treasury.collected /\ config.toHolders = treasury.toHolders
         /\ config.burned = treasury.burned /\ config.toLabs = treasury.toLabs
    BY <1>2, <1>12, <1>14, StakedType DEF TreasuryConfig
  <1>16. StakeTotal' = StakeTotal - removed
    BY <1>3, <1>4, <1>5, <1>6, <1>8, <1>10, <1>14
  <1>17. config.stakes = Cardinality(Stakers)' /\ config.staked = StakeTotal'
    BY <1>2, <1>10, <1>14, <1>15, <1>16, StakedType
  <1>18. /\ coins' \in [Coins -> [Holders -> Nat]] /\ Supply' = Supply
         /\ astray' \in 0 .. MaxAstray /\ BackingInv'
    <2>1. removed <= StakeTotal
      BY <1>3, <1>5, <1>6, <1>11, <1>14
    <2>2. QED
      BY <1>2, <1>6, <1>16, <2>1, StakePaid
  <1>19. ClaimTotal' = ClaimTotal
    <2>1. first.claimed \in Nat
      BY <1>5 DEF StakeRecord
    <2>2. QED
      BY <1>2, <1>4, <1>8, <1>10, <2>1, StakedType
  <1>20. /\ grown' \in [Users -> Times]
         /\ \A w \in Users : stake'[w] # None => grown'[w] = stake'[w].stakedAt
    BY <1>2, <1>4, <1>8, <1>10, StakedType
  <1>21. QED
    BY <1>2, <1>10, <1>13, <1>15, <1>17, <1>18, <1>19, <1>20, StakingInv

LEMMA claim_revenueInv ==
  ASSUME TreasuryInv, NEW u \in Users, NEW v \in Named, claim_revenue(u, v)
  PROVE  TreasuryInv'
  <1>1. PICK claim : claim = (stake[u].amount * holderPool.balance) \div treasury.staked
    OBVIOUS
  <1>2. /\ Ready /\ stake[u] # None /\ claim \in 1 .. holderPool.balance
        /\ Purse[v] >= claim /\ coins' = Transferred(v, u, claim) /\ PassedFor(v, "holder_pool", claim)
        /\ UNCHANGED <<now, treasury, distributions, grown>>
    BY <1>1 DEF claim_revenue
  <1>3. claim <= holderPool.balance
    BY <1>2
  <1>4. /\ holderPool \in HolderPool /\ holderPool.balance \in Nat
        /\ holderPool.claimed \in Nat /\ holderPool.deposited \in Nat
    BY DEF TreasuryInv, TreasuryTypeOK, HolderPool
  <1>5. claim \in Nat /\ holderPool.balance - claim \in Nat
    BY <1>2, <1>4
  <1>6. PICK first : first = stake[u]
    OBVIOUS
  <1>7. /\ first \in StakeRecord /\ first.amount \in Nat /\ first.claimed \in Nat
        /\ now \in Times
    BY <1>2, <1>6, StakedType DEF StakeRecord
  <1>8. PICK row : row = [first EXCEPT !.lastClaim = now, !.claimed = @ + claim]
    OBVIOUS
  <1>9. /\ row \in StakeRecord /\ row.amount = first.amount
        /\ row.claimed = first.claimed + claim /\ row.stakedAt = first.stakedAt
    <2>1. PICK mid : mid = [first EXCEPT !.lastClaim = now]
      OBVIOUS
    <2>2. /\ mid \in StakeRecord /\ mid.amount = first.amount /\ mid.claimed = first.claimed
          /\ mid.stakedAt = first.stakedAt
      BY <1>7, <2>1 DEF StakeRecord
    <2>3. row = [mid EXCEPT !.claimed = @ + claim]
      BY <1>7, <1>8, <2>1 DEF StakeRecord
    <2>4. QED
      BY <1>5, <1>7, <2>2, <2>3 DEF StakeRecord
  <1>10. stake' = [stake EXCEPT ![u] = row]
    BY <1>1, <1>6, <1>8 DEF claim_revenue
  <1>11. /\ stake' \in [Users -> StakeRecord \cup {None}] /\ stake'[u] = row
         /\ \A w \in Users : w # u => stake'[w] = stake[w]
         /\ Stakers' = Stakers
         /\ StakeTotal' = StakeTotal - stake[u].amount + row.amount
         /\ ClaimTotal' = ClaimTotal - stake[u].claimed + row.claimed
    BY <1>2, <1>9, <1>10, StakeChanges DEF TreasuryInv
  <1>12. StakeTotal' = StakeTotal /\ ClaimTotal' = ClaimTotal + claim
    BY <1>2, <1>5, <1>6, <1>7, <1>9, <1>11, StakedType
  <1>13. PICK pool : pool = holderPool'
    OBVIOUS
  <1>14. /\ pool \in HolderPool /\ pool.balance = holderPool.balance - claim
         /\ pool.claimed = holderPool.claimed + claim /\ pool.deposited = holderPool.deposited
    <2>1. PICK old : old = holderPool
      OBVIOUS
    <2>2. PICK mid : mid = [old EXCEPT !.balance = @ - claim]
      OBVIOUS
    <2>3. /\ mid \in HolderPool /\ mid.balance = old.balance - claim
          /\ mid.claimed = old.claimed /\ mid.deposited = old.deposited
      BY <1>4, <1>5, <2>1, <2>2 DEF HolderPool
    <2>4. pool = [old EXCEPT !.balance = @ - claim, !.claimed = @ + claim]
      BY <1>1, <1>13, <2>1 DEF claim_revenue
    <2>5. pool = [mid EXCEPT !.claimed = @ + claim]
      BY <1>4, <2>1, <2>2, <2>4 DEF HolderPool
    <2>6. QED
      BY <1>4, <1>5, <2>1, <2>3, <2>5 DEF HolderPool
  <1>15. /\ coins' \in [Coins -> [Holders -> Nat]] /\ Supply' = Supply
         /\ astray' \in 0 .. MaxAstray /\ BackingInv'
    BY <1>2, <1>3, <1>5, <1>12, <1>13, <1>14, ClaimPaid
  <1>16. TreasuryTypeOK'
    BY <1>2, <1>11, <1>13, <1>14, <1>15 DEF TreasuryInv, TreasuryTypeOK
  <1>17. Ready'
    BY <1>2 DEF Ready
  <1>18. StakesInv'
    <2>1. \A w \in Users : stake'[w] # None => grown'[w] = stake'[w].stakedAt
      BY <1>2, <1>6, <1>9, <1>11, StakedType
    <2>2. /\ treasury'.stakes = Cardinality(Stakers)' /\ treasury'.staked = StakeTotal'
      BY <1>2, <1>11, <1>12, StakedType
    <2>3. QED
      BY <1>17, <2>1, <2>2 DEF StakesInv, StakeTotal
  <1>19. PoolInv'
    <2>1. /\ holderPool.balance = holderPool.deposited - holderPool.claimed
          /\ holderPool.claimed = ClaimTotal
      BY DEF TreasuryInv, PoolInv, ClaimTotal
    <2>2. /\ pool.balance = pool.deposited - pool.claimed
          /\ pool.claimed = ClaimTotal'
      BY <1>4, <1>5, <1>12, <1>14, <2>1
    <2>3. QED
      BY <1>13, <2>2 DEF PoolInv, ClaimTotal
  <1>20. FeesInv' /\ SupplyInv'
    BY <1>2, <1>15, <1>17, FeesStay DEF TreasuryInv
  <1>21. QED
    BY <1>15, <1>16, <1>18, <1>19, <1>20 DEF TreasuryInv

-----------------------------------------------------------------------------
(* A distribution. *)

LEMMA SplitWhole ==
  ASSUME NEW amount \in Nat
  PROVE  /\ Split(amount) \in Distribution /\ Split(amount).total = amount
         /\ amount = Split(amount).holders + Split(amount).burned + Split(amount).labs
  <1>1. PICK h : h = PartOf(amount, HoldersPart)
    OBVIOUS
  <1>2. PICK b : b = PartOf(amount, BurnedPart)
    OBVIOUS
  <1>3. h \in Nat /\ b \in Nat /\ h + b <= amount
    BY <1>1, <1>2, PartsFit, TreasuryAssumption
  <1>4. PICK l : l = amount - h - b
    OBVIOUS
  <1>5. l \in Nat /\ amount = h + b + l
    BY <1>3, <1>4
  <1>6. Split(amount) = [total |-> amount, holders |-> h, burned |-> b, labs |-> l]
    BY <1>1, <1>2, <1>4 DEF Split
  <1>7. QED
    BY <1>3, <1>5, <1>6 DEF Distribution

\* One record more.
LEMMA DistributedMore ==
  ASSUME distributions \in Seq(Distribution), NEW d \in Distribution, NEW field,
         field \in {"total", "holders", "burned"},
         distributions' = Append(distributions, d)
  PROVE  /\ Distributed(field) \in Nat /\ d[field] \in Nat
         /\ Distributed(field)' = Distributed(field) + d[field]
  <1>1. \A r \in Distribution : r[field] \in Nat
    BY DEF Distribution
  <1>2. PICK s : s = distributions
    OBVIOUS
  <1>3. PICK t : t = Append(s, d)
    OBVIOUS
  <1>4. PICK n : n = Len(s)
    OBVIOUS
  <1>5. /\ s \in Seq(Distribution) /\ n \in Nat /\ DOMAIN s = 1 .. n
        /\ DOMAIN t = 1 .. n + 1 /\ t[n + 1] = d
        /\ \A i \in 1 .. n : t[i] = s[i] /\ s[i] \in Distribution
    BY <1>2, <1>3, <1>4
  <1>6. PICK f : f = [i \in 1 .. n |-> s[i][field]]
    OBVIOUS
  <1>7. PICK g : g = [i \in 1 .. n + 1 |-> t[i][field]]
    OBVIOUS
  <1>8. PICK S : S = 1 .. n
    OBVIOUS
  <1>9. PICK e : e = n + 1
    OBVIOUS
  <1>10. IsFiniteSet(S) /\ e \notin S /\ 1 .. n + 1 = S \cup {e}
    <2>1. IsFiniteSet(S)
      <3>1. 1 \in Int /\ n \in Int
        BY <1>5
      <3>2. IsFiniteSet(1 .. n)
        BY <3>1, FS_Interval
      <3>3. QED
        BY <1>8, <3>2
    <2>2. e \notin S
      BY <1>5, <1>8, <1>9
    <2>3. 1 .. n + 1 = S \cup {e}
      BY <1>5, <1>8, <1>9
    <2>4. QED
      BY <2>1, <2>2, <2>3
  <1>11. /\ \A i \in S : f[i] \in Nat /\ g[i] \in Nat /\ g[i] = f[i]
         /\ g[e] = d[field] /\ g[e] \in Nat
    BY <1>1, <1>5, <1>6, <1>7, <1>8, <1>9
  <1>12. Total(g, S \cup {e}) = Total(g, S) + g[e]
    <2>1. IsFiniteSet(S) /\ e \notin S /\ (\A i \in S : g[i] \in Nat) /\ g[e] \in Nat
      BY <1>10, <1>11
    <2>2. QED
      BY <2>1, TotalOneMore
  <1>13. Total(g, S) = Total(f, S)
    BY <1>11, TotalSame
  <1>14. Total(f, S) \in Nat
    BY <1>10, <1>11, TotalType
  <1>15. Distributed(field) = Total(f, S)
    BY <1>2, <1>5, <1>6, <1>8 DEF Distributed
  <1>16. Distributed(field)' = Total(g, S \cup {e})
    BY <1>2, <1>3, <1>5, <1>7, <1>10 DEF Distributed
  <1>17. QED
    BY <1>11, <1>12, <1>13, <1>14, <1>15, <1>16

\* Coins are burned.
LEMMA BurnedHolds ==
  ASSUME NEW held \in [Holders -> Nat], NEW new \in [Holders -> Nat], NEW vault \in Holders,
         NEW b \in Nat, new[vault] = held[vault] - b,
         \A h \in Holders : h # vault => new[h] = held[h]
  PROVE  TotalHeld(new) = TotalHeld(held) - b /\ TotalHeld(held) \in Nat
  <1>1. Total(new, Holders) = Total(held, Holders) - held[vault] + new[vault]
    BY HoldersAreFinite, TotalChanges
  <1>2. Total(held, Holders) \in Nat
    BY HoldersAreFinite, TotalType
  <1>3. QED
    BY <1>1, <1>2 DEF TotalHeld

\* One mint's accounts after a distribution: what is burned is gone.
Shared(held, vault, pool, labs, a, b, l) ==
  [Moved(Moved(held, vault, pool, a), vault, labs, l) EXCEPT ![vault] = @ - b]

LEMMA SharedHolds ==
  ASSUME NEW held \in [Holders -> Nat], NEW vault \in Holders, NEW pool \in Holders,
         NEW labs \in Holders, NEW a \in Nat, NEW b \in Nat, NEW l \in Nat,
         held[vault] >= a + b + l
  PROVE  /\ Shared(held, vault, pool, labs, a, b, l) \in [Holders -> Nat]
         /\ TotalHeld(held) \in Nat
         /\ TotalHeld(Shared(held, vault, pool, labs, a, b, l)) = TotalHeld(held) - b
         /\ \A h \in Holders \ {vault} :
              /\ Shared(held, vault, pool, labs, a, b, l)[h] >= held[h]
              /\ h = pool => Shared(held, vault, pool, labs, a, b, l)[h] >= held[h] + a
  <1>1. PICK new : new = Shared(held, vault, pool, labs, a, b, l)
    OBVIOUS
  <1>2. PICK y : y = Moved(held, vault, pool, a)
    OBVIOUS
  <1>3. held[vault] \in Nat /\ held[vault] >= a
    OBVIOUS
  <1>4. /\ y \in [Holders -> Nat] /\ TotalHeld(y) = TotalHeld(held)
        /\ \A h \in Holders :
             y[h] = held[h] - (IF h = vault THEN a ELSE 0) + (IF h = pool THEN a ELSE 0)
    BY <1>2, <1>3, MovedAny
  <1>5. y[vault] \in Nat /\ y[vault] >= b + l
    <2>1. y[vault] = held[vault] - a + (IF vault = pool THEN a ELSE 0)
      BY <1>4
    <2>2. QED
      BY <1>3, <1>4, <2>1
  <1>6. PICK z : z = Moved(y, vault, labs, l)
    OBVIOUS
  <1>7. y[vault] >= l
    BY <1>5
  <1>8. /\ z \in [Holders -> Nat] /\ TotalHeld(z) = TotalHeld(y)
        /\ \A h \in Holders :
             z[h] = y[h] - (IF h = vault THEN l ELSE 0) + (IF h = labs THEN l ELSE 0)
    BY <1>4, <1>6, <1>7, MovedAny
  <1>9. z[vault] \in Nat /\ z[vault] - b \in Nat
    <2>1. z[vault] = y[vault] - l + (IF vault = labs THEN l ELSE 0)
      BY <1>8
    <2>2. QED
      BY <1>5, <1>8, <2>1
  <1>10. new = [z EXCEPT ![vault] = @ - b]
    BY <1>2, <1>6, <1>1 DEF Shared
  <1>11. /\ new \in [Holders -> Nat] /\ new[vault] = z[vault] - b
         /\ \A h \in Holders : h # vault => new[h] = z[h]
    BY <1>8, <1>9, <1>10
  <1>12. TotalHeld(new) = TotalHeld(z) - b /\ TotalHeld(z) \in Nat
    <2>1. \A h \in Holders : h # vault => new[h] = z[h]
      BY <1>11
    <2>2. QED
      BY <1>8, <1>11, <2>1, BurnedHolds
  <1>13. TotalHeld(held) \in Nat /\ TotalHeld(new) = TotalHeld(held) - b
    BY <1>4, <1>8, <1>12
  <1>14. ASSUME NEW h \in Holders, h # vault
         PROVE  new[h] = held[h] + (IF h = pool THEN a ELSE 0) + (IF h = labs THEN l ELSE 0)
    <2>1. held[h] \in Nat /\ new[h] = z[h]
      BY <1>11, <1>14
    <2>2. z[h] = y[h] + (IF h = labs THEN l ELSE 0)
      <3>1. y[h] \in Nat /\ z[h] = y[h] - 0 + (IF h = labs THEN l ELSE 0)
        BY <1>4, <1>8, <1>14
      <3>2. QED
        BY <3>1
    <2>3. y[h] = held[h] + (IF h = pool THEN a ELSE 0)
      <3>1. y[h] = held[h] - 0 + (IF h = pool THEN a ELSE 0)
        BY <1>4, <1>14
      <3>2. QED
        BY <2>1, <3>1
    <2>4. QED
      BY <2>1, <2>2, <2>3
  <1>15. ASSUME NEW h \in Holders \ {vault}
         PROVE  new[h] >= held[h] /\ (h = pool => new[h] >= held[h] + a)
    <2>1. new[h] = held[h] + (IF h = pool THEN a ELSE 0) + (IF h = labs THEN l ELSE 0)
      BY <1>14
    <2>2. held[h] \in Nat
      OBVIOUS
    <2>3. QED
      BY <2>1, <2>2
  <1>16. QED
    BY <1>11, <1>13, <1>1, <1>15

\* The accounts of all mints after a distribution.
LEMMA SharedEffect ==
  ASSUME TreasuryInv, NEW amount \in Nat, NEW pool \in Named, NEW labs \in Named,
         distribute_protocol_fee(amount, pool, labs)
  PROVE  /\ coins' \in [Coins -> [Holders -> Nat]]
         /\ AllCoins("stake_vault")' \in Nat
         /\ AllCoins("stake_vault")' >= AllCoins("stake_vault")
         /\ AllCoins("holder_pool")' \in Nat
         /\ AllCoins("holder_pool")'
              >= AllCoins("holder_pool") + (IF pool = "holder_pool" THEN Split(amount).holders ELSE 0)
         /\ Supply' = Supply - Split(amount).burned /\ Supply \in Nat
  <1>1. PICK c : c = coins
    OBVIOUS
  <1>2. PICK e : e = coins'
    OBVIOUS
  <1>3. PICK m : m = treasury.mint
    OBVIOUS
  <1>4. /\ Ready /\ c[m]["treasury"] >= amount
        /\ c \in [Coins -> [Holders -> Nat]] /\ m \in Coins
    BY <1>1, <1>3 DEF distribute_protocol_fee, VaultUsable, Ready, Purse, TreasuryInv,
                      TreasuryTypeOK, TreasuryConfig
  <1>5. PICK a, b, l :
          a = Split(amount).holders /\ b = Split(amount).burned /\ l = Split(amount).labs
    OBVIOUS
  <1>6. a \in Nat /\ b \in Nat /\ l \in Nat /\ amount = a + b + l
    <2>1. PICK d : d = Split(amount)
      OBVIOUS
    <2>2. d \in Distribution /\ amount = d.holders + d.burned + d.labs
      BY <2>1, SplitWhole
    <2>3. a = d.holders /\ b = d.burned /\ l = d.labs
      BY <1>5, <2>1
    <2>4. QED
      BY <2>2, <2>3 DEF Distribution
  <1>7. PICK held : held = c[m]
    OBVIOUS
  <1>8. PICK vault, staked, holders :
          vault = "treasury" /\ staked = "stake_vault" /\ holders = "holder_pool"
    OBVIOUS
  <1>9. PICK new : new = Shared(held, vault, pool, labs, a, b, l)
    OBVIOUS
  <1>10. e = [c EXCEPT ![m] = new]
    <2>1. PICK d : d = Split(amount)
      OBVIOUS
    <2>2. PICK y : y = Moved(Moved(held, vault, pool, d.holders), vault, labs, d.labs)
      OBVIOUS
    <2>3. e = [c EXCEPT ![m] = [y EXCEPT ![vault] = @ - d.burned]]
      BY <1>1, <1>2, <1>3, <1>7, <1>8, <2>1, <2>2, Zenon DEF distribute_protocol_fee, Purse
    <2>4. [y EXCEPT ![vault] = @ - d.burned]
            = Shared(held, vault, pool, labs, d.holders, d.burned, d.labs)
      BY <2>2, Zenon DEF Shared
    <2>5. d.holders = a /\ d.burned = b /\ d.labs = l
      BY <1>5, <2>1
    <2>6. new = Shared(held, vault, pool, labs, d.holders, d.burned, d.labs)
      BY <1>9, <2>5, Zenon
    <2>7. QED
      BY <2>6, <2>3, <2>4, Zenon
  <1>11. /\ vault \in Holders /\ pool \in Holders /\ labs \in Holders
         /\ staked \in Holders /\ holders \in Holders /\ staked # vault /\ holders # vault
    BY <1>8, OwnNames
  <1>12. held \in [Holders -> Nat] /\ held[vault] >= a + b + l
    BY <1>4, <1>6, <1>7, <1>8
  <1>13. /\ new \in [Holders -> Nat]
         /\ TotalHeld(held) \in Nat /\ TotalHeld(new) = TotalHeld(held) - b
         /\ \A h \in Holders \ {vault} : /\ new[h] >= held[h]
                                         /\ h = pool => new[h] >= held[h] + a
    <2>1. held[vault] >= a + b + l /\ held \in [Holders -> Nat]
      BY <1>12
    <2>2. a \in Nat /\ b \in Nat /\ l \in Nat
      BY <1>6
    <2>3. vault \in Holders /\ pool \in Holders /\ labs \in Holders
      BY <1>11
    <2>4. /\ Shared(held, vault, pool, labs, a, b, l) \in [Holders -> Nat]
          /\ TotalHeld(held) \in Nat
          /\ TotalHeld(Shared(held, vault, pool, labs, a, b, l)) = TotalHeld(held) - b
          /\ \A h \in Holders \ {vault} :
               /\ Shared(held, vault, pool, labs, a, b, l)[h] >= held[h]
               /\ h = pool => Shared(held, vault, pool, labs, a, b, l)[h] >= held[h] + a
      BY <2>1, <2>2, <2>3, SharedHolds
    <2>5. QED
      BY <1>9, <2>4
  <1>14. /\ e \in [Coins -> [Holders -> Nat]] /\ e[m] = new
         /\ \A n \in Coins : n # m => e[n] = c[n]
    BY <1>4, <1>10, <1>13
  <1>15. /\ \A h \in Holders : /\ OfAll(c, h) \in Nat
                               /\ OfAll(e, h) = OfAll(c, h) - held[h] + new[h]
         /\ SupplyOf(c) \in Nat
         /\ SupplyOf(e) = SupplyOf(c) - TotalHeld(held) + TotalHeld(new)
    BY <1>4, <1>7, <1>13, <1>14, OneMintChanges, SMTT(60)
  <1>16. SupplyOf(e) = SupplyOf(c) - b
    BY <1>6, <1>13, <1>15
  <1>17. ASSUME NEW h \in Holders, h # vault
         PROVE  /\ OfAll(e, h) \in Nat
                /\ OfAll(e, h) >= OfAll(c, h) + (IF h = pool THEN a ELSE 0)
    <2>1. held[h] \in Nat /\ OfAll(c, h) \in Nat
      BY <1>12, <1>15
    <2>2. /\ OfAll(e, h) = OfAll(c, h) - held[h] + new[h] /\ new[h] \in Nat
          /\ new[h] >= held[h] /\ (h = pool => new[h] >= held[h] + a)
      BY <1>13, <1>15, <1>17
    <2>3. QED
      BY <1>6, <2>1, <2>2
  <1>18. \A h : AllCoins(h) = OfAll(c, h) /\ AllCoins(h)' = OfAll(e, h)
    BY <1>1, <1>2 DEF AllCoins, OfAll
  <1>19. Supply = SupplyOf(c) /\ Supply' = SupplyOf(e)
    BY <1>1, <1>2 DEF Supply, SupplyOf
  <1>20. /\ AllCoins(staked)' \in Nat /\ AllCoins(staked)' >= AllCoins(staked)
         /\ AllCoins(holders)' \in Nat
         /\ AllCoins(holders)' >= AllCoins(holders) + (IF holders = pool THEN a ELSE 0)
    <2>1. OfAll(c, staked) \in Nat /\ OfAll(c, holders) \in Nat
      BY <1>11, <1>15
    <2>2. /\ OfAll(e, staked) \in Nat
          /\ OfAll(e, staked) >= OfAll(c, staked) + (IF staked = pool THEN a ELSE 0)
      BY <1>11, <1>17
    <2>3. /\ OfAll(e, holders) \in Nat
          /\ OfAll(e, holders) >= OfAll(c, holders) + (IF holders = pool THEN a ELSE 0)
      BY <1>11, <1>17
    <2>4. OfAll(e, staked) >= OfAll(c, staked)
      BY <1>6, <2>1, <2>2
    <2>5. QED
      BY <1>18, <2>2, <2>3, <2>4
  <1>21. QED
    BY <1>2, <1>5, <1>8, <1>14, <1>15, <1>16, <1>19, <1>20

LEMMA distribute_protocol_feeInv ==
  ASSUME TreasuryInv, NEW amount \in Deposits, NEW labs \in Named, NEW v \in Named,
         distribute_protocol_fee(amount, v, labs)
  PROVE  TreasuryInv'
  <1>1. PICK d : d = Split(amount)
    OBVIOUS
  <1>2. amount \in Nat
    BY TreasuryAssumption
  <1>3. d \in Distribution /\ d.total = amount /\ amount = d.holders + d.burned + d.labs
    BY <1>1, <1>2, SplitWhole
  <1>4. d.holders \in Nat /\ d.burned \in Nat /\ d.labs \in Nat
    BY <1>3 DEF Distribution
  <1>5. /\ Ready /\ Purse["treasury"] >= amount /\ Len(distributions) < MaxDistributions
        /\ distributions' = Append(distributions, d) /\ UNCHANGED <<now, stake, grown>>
        /\ PassedFor(v, "holder_pool", d.holders)
        /\ treasury \in TreasuryConfig
    BY <1>1, StakedType DEF distribute_protocol_fee, VaultUsable
  <1>6. /\ coins' \in [Coins -> [Holders -> Nat]]
        /\ AllCoins("stake_vault")' \in Nat /\ AllCoins("holder_pool")' \in Nat
        /\ AllCoins("stake_vault")' >= AllCoins("stake_vault")
        /\ AllCoins("holder_pool")'
             >= AllCoins("holder_pool") + (IF v = "holder_pool" THEN d.holders ELSE 0)
        /\ Supply' = Supply - d.burned /\ Supply \in Nat
    BY <1>1, <1>2, SharedEffect
  <1>7. PICK config : config = treasury'
    OBVIOUS
  <1>8. /\ config \in TreasuryConfig
        /\ config.stakes = treasury.stakes /\ config.staked = treasury.staked
        /\ config.collected = treasury.collected + amount
        /\ config.toHolders = treasury.toHolders + d.holders
        /\ config.burned = treasury.burned + d.burned
        /\ config.toLabs = treasury.toLabs + d.labs
    <2>1. PICK old : old = treasury
      OBVIOUS
    <2>2. old \in TreasuryConfig
      BY <1>5, <2>1
    <2>3. config = [old EXCEPT !.collected = @ + amount, !.toHolders = @ + d.holders,
                               !.burned = @ + d.burned, !.toLabs = @ + d.labs]
      BY <1>1, <1>7, <2>1 DEF distribute_protocol_fee
    <2>4. PICK x : x = [old EXCEPT !.collected = @ + amount]
      OBVIOUS
    <2>5. /\ x \in TreasuryConfig /\ x.collected = old.collected + amount
          /\ x.stakes = old.stakes /\ x.staked = old.staked /\ x.toHolders = old.toHolders
          /\ x.burned = old.burned /\ x.toLabs = old.toLabs
      BY <1>2, <2>2, <2>4 DEF TreasuryConfig
    <2>6. PICK y : y = [x EXCEPT !.toHolders = @ + d.holders]
      OBVIOUS
    <2>7. /\ y \in TreasuryConfig /\ y.collected = x.collected
          /\ y.stakes = x.stakes /\ y.staked = x.staked /\ y.toHolders = x.toHolders + d.holders
          /\ y.burned = x.burned /\ y.toLabs = x.toLabs
      BY <1>4, <2>5, <2>6 DEF TreasuryConfig
    <2>8. PICK z : z = [y EXCEPT !.burned = @ + d.burned]
      OBVIOUS
    <2>9. /\ z \in TreasuryConfig /\ z.collected = y.collected
          /\ z.stakes = y.stakes /\ z.staked = y.staked /\ z.toHolders = y.toHolders
          /\ z.burned = y.burned + d.burned /\ z.toLabs = y.toLabs
      BY <1>4, <2>7, <2>8 DEF TreasuryConfig
    <2>10. config = [z EXCEPT !.toLabs = @ + d.labs]
      BY <2>2, <2>3, <2>4, <2>6, <2>8 DEF TreasuryConfig
    <2>11. /\ config \in TreasuryConfig /\ config.collected = z.collected
           /\ config.stakes = z.stakes /\ config.staked = z.staked
           /\ config.toHolders = z.toHolders
           /\ config.burned = z.burned /\ config.toLabs = z.toLabs + d.labs
      BY <1>4, <2>9, <2>10 DEF TreasuryConfig
    <2>12. QED
      BY <2>1, <2>5, <2>7, <2>9, <2>11
  <1>9. PICK pool : pool = holderPool'
    OBVIOUS
  <1>10. /\ holderPool \in HolderPool /\ holderPool.balance \in Nat
         /\ holderPool.claimed \in Nat /\ holderPool.deposited \in Nat /\ now \in Times
    BY DEF TreasuryInv, TreasuryTypeOK, HolderPool
  <1>11. /\ pool \in HolderPool /\ pool.balance = holderPool.balance + d.holders
         /\ pool.deposited = holderPool.deposited + d.holders /\ pool.claimed = holderPool.claimed
    <2>1. PICK old : old = holderPool
      OBVIOUS
    <2>2. pool = [old EXCEPT !.balance = @ + d.holders, !.deposited = @ + d.holders,
                             !.lastDeposit = now]
      BY <1>1, <1>9, <2>1 DEF distribute_protocol_fee
    <2>3. PICK x : x = [old EXCEPT !.balance = @ + d.holders]
      OBVIOUS
    <2>4. /\ x \in HolderPool /\ x.balance = old.balance + d.holders
          /\ x.deposited = old.deposited /\ x.claimed = old.claimed
      BY <1>4, <1>10, <2>1, <2>3 DEF HolderPool
    <2>5. PICK y : y = [x EXCEPT !.deposited = @ + d.holders]
      OBVIOUS
    <2>6. /\ y \in HolderPool /\ y.balance = x.balance
          /\ y.deposited = x.deposited + d.holders /\ y.claimed = x.claimed
      BY <1>4, <2>4, <2>5 DEF HolderPool
    <2>7. pool = [y EXCEPT !.lastDeposit = now]
      BY <1>10, <2>1, <2>2, <2>3, <2>5 DEF HolderPool
    <2>8. /\ pool \in HolderPool /\ pool.balance = y.balance
          /\ pool.deposited = y.deposited /\ pool.claimed = y.claimed
      BY <1>10, <2>6, <2>7 DEF HolderPool
    <2>9. QED
      BY <2>1, <2>4, <2>6, <2>8
  <1>12. /\ distributions \in Seq(Distribution) /\ MaxDistributions \in Nat
    BY TreasuryAssumption DEF TreasuryInv, TreasuryTypeOK
  <1>13. distributions' \in Seq(Distribution) /\ Len(distributions') <= MaxDistributions
    BY <1>3, <1>5, <1>12
  <1>14. PICK t2 : t2 = astray'
    OBVIOUS
  <1>15. t2 = astray + (IF v = "holder_pool" THEN 0 ELSE d.holders) /\ t2 <= MaxAstray
    BY <1>5, <1>14 DEF PassedFor
  <1>16. t2 \in Nat /\ astray' \in 0 .. MaxAstray
    BY <1>4, <1>14, <1>15, OwedType, TreasuryAssumption
  <1>17. TreasuryTypeOK'
    BY <1>5, <1>6, <1>7, <1>8, <1>9, <1>11, <1>13, <1>16 DEF TreasuryInv, TreasuryTypeOK
  <1>18. Ready'
    BY <1>7, <1>8, NoneIsNoRecord DEF Ready
  <1>19. StakesInv'
    <2>1. treasury'.stakes = Cardinality(Stakers) /\ treasury'.staked = StakeTotal
      BY <1>5, <1>7, <1>8, StakedType
    <2>2. QED
      BY <1>5, <1>18, <2>1, StakesStay DEF TreasuryInv
  <1>20. PoolInv'
    <2>1. /\ holderPool.balance = holderPool.deposited - holderPool.claimed
          /\ holderPool.claimed = ClaimTotal
      BY DEF TreasuryInv, PoolInv, ClaimTotal
    <2>2. ClaimTotal' = ClaimTotal
      BY <1>5 DEF ClaimTotal, Stakers, StakerClaims
    <2>3. /\ pool.balance = pool.deposited - pool.claimed
          /\ pool.claimed = ClaimTotal'
      BY <1>4, <1>10, <1>11, <2>1, <2>2
    <2>4. QED
      BY <1>9, <2>3 DEF PoolInv, ClaimTotal
  <1>21. /\ Distributed("total") \in Nat /\ Distributed("total")' = Distributed("total") + d.total
         /\ Distributed("holders") \in Nat
         /\ Distributed("holders")' = Distributed("holders") + d.holders
         /\ Distributed("burned") \in Nat
         /\ Distributed("burned")' = Distributed("burned") + d.burned
    BY <1>3, <1>5, <1>12, DistributedMore
  <1>22. FeesInv'
    <2>1. /\ treasury.collected = treasury.toHolders + treasury.burned + treasury.toLabs
          /\ treasury.collected = Distributed("total")
          /\ treasury.toHolders = Distributed("holders")
      BY <1>5 DEF TreasuryInv, FeesInv
    <2>2. /\ treasury.toHolders \in Nat /\ treasury.burned \in Nat /\ treasury.toLabs \in Nat
      BY <1>5 DEF TreasuryConfig
    <2>3. /\ config.collected = config.toHolders + config.burned + config.toLabs
          /\ config.collected = Distributed("total")'
          /\ config.toHolders = Distributed("holders")'
      BY <1>3, <1>4, <1>8, <1>21, <2>1, <2>2
    <2>4. QED
      BY <1>7, <1>18, <2>3 DEF FeesInv
  <1>23. SupplyInv'
    <2>1. Supply + Distributed("burned") = FirstSupply
      BY DEF TreasuryInv, SupplyInv
    <2>2. Supply' + Distributed("burned")' = FirstSupply
      BY <1>4, <1>6, <1>21, <2>1
    <2>3. QED
      BY <2>2 DEF SupplyInv, FirstSupply
  <1>24. BackingInv'
    <2>1. PICK s, a, p, b : /\ s = StakeTotal /\ a = AllCoins("stake_vault")
                            /\ p = holderPool.balance /\ b = AllCoins("holder_pool")
      OBVIOUS
    <2>2. /\ s \in Nat /\ a \in Nat /\ p \in Nat /\ b \in Nat /\ astray \in Nat
          /\ Less(p, b) + Less(s, a) <= astray
      <3>1. /\ s \in Nat /\ a \in Nat /\ p \in Nat /\ b \in Nat /\ astray \in Nat
            /\ Less(s, a) + Less(p, b) <= astray
        BY <2>1, OwedType
      <3>2. QED
        BY <3>1 DEF Less
    <2>3. PICK x, a2, b2 : /\ x = d.holders /\ a2 = AllCoins("stake_vault")'
                           /\ b2 = AllCoins("holder_pool")'
      OBVIOUS
    <2>4. /\ a2 \in Nat /\ b2 \in Nat /\ x \in Nat /\ a2 >= a
          /\ b2 >= b + (IF v = "holder_pool" THEN x ELSE 0)
      BY <1>4, <1>6, <2>1, <2>3
    <2>5. (b2 >= b + x /\ t2 = astray) \/ (b2 >= b /\ t2 = astray + x)
      BY <1>15, <2>2, <2>3, <2>4
    <2>6. Less(p + x, b2) + Less(s, a2) <= t2
      BY <1>16, <2>2, <2>4, <2>5, MoreOwed
    <2>7. Less(s, a2) + Less(p + x, b2) <= t2
      BY <1>16, <2>2, <2>4, <2>6 DEF Less
    <2>8. StakeTotal' = s /\ holderPool'.balance = p + x
      <3>1. StakeTotal' = s
        BY <1>5, <2>1 DEF StakeTotal, Stakers, StakerAmounts
      <3>2. QED
        BY <1>9, <1>11, <2>1, <2>3, <3>1
    <2>9. QED
      BY <1>14, <2>3, <2>7, <2>8 DEF BackingInv, StakeTotal
  <1>25. QED
    BY <1>17, <1>19, <1>20, <1>22, <1>23, <1>24 DEF TreasuryInv

-----------------------------------------------------------------------------
(* The theorems. *)

LEMMA TreasuryStep ==
  ASSUME TreasuryInv, [TreasuryNext]_treasuryVars
  PROVE  TreasuryInv'
  <1>1. CASE initialize_treasury
    BY <1>1, initialize_treasuryInv
  <1>2. CASE initialize_vaults \/ initialize_reserve \/ \E m \in Coins : migrate_mint(m)
    BY <1>2, administerInv
  <1>3. ASSUME NEW v \in Named,
               \/ \E amount \in Withdrawals : authority_withdraw(v, amount)
               \/ \E u \in Users, amount \in Deposits : deposit_fee(u, v, amount)
        PROVE  TreasuryInv'
    BY <1>3, authority_withdrawInv, deposit_feeInv
  <1>4. ASSUME NEW u \in Users, NEW v \in Named, NEW amount \in Stakes,
               \/ register_stake(u, amount, v) \/ increase_stake(u, amount, v)
               \/ decrease_stake(u, amount, v)
        PROVE  TreasuryInv'
    BY <1>4, register_stakeInv, increase_stakeInv, decrease_stakeInv
  <1>5. ASSUME NEW u \in Users, NEW v \in Named, claim_revenue(u, v) PROVE TreasuryInv'
    BY <1>5, claim_revenueInv
  <1>6. ASSUME NEW amount \in Deposits, NEW pool \in Named, NEW labs \in Named,
               distribute_protocol_fee(amount, pool, labs)
        PROVE  TreasuryInv'
    BY <1>6, distribute_protocol_feeInv
  <1>7. CASE passes /\ UNCHANGED <<treasury, holderPool, stake, distributions, coins, grown,
                                   astray>>
    BY <1>7, passesInv
  <1>8. CASE UNCHANGED treasuryVars
    <2>1. UNCHANGED <<now, treasury, holderPool, stake, distributions, coins, grown, astray>>
      BY <1>8 DEF treasuryVars
    <2>2. Supply' = Supply /\ \A h : AllCoins(h)' = AllCoins(h)
      BY <2>1, SameCoins
    <2>3. TreasuryTypeOK'
      BY <2>1 DEF TreasuryInv, TreasuryTypeOK
    <2>4. StakesInv'
      BY <2>1 DEF TreasuryInv, StakesInv, Stakers, StakerAmounts, Ready
    <2>5. PoolInv'
      BY <2>1, PoolStays DEF TreasuryInv
    <2>6. FeesInv' /\ SupplyInv'
      BY <2>1, <2>2 DEF TreasuryInv, FeesInv, SupplyInv, Distributed, Ready
    <2>7. BackingInv'
      BY <2>1, SameBacking
    <2>8. QED
      BY <2>3, <2>4, <2>5, <2>6, <2>7 DEF TreasuryInv
  <1>9. QED
    BY <1>1, <1>2, <1>3, <1>4, <1>5, <1>6, <1>7, <1>8 DEF TreasuryNext

LEMMA TreasuryInvImplies ==
  ASSUME TreasuryInv
  PROVE  DebtsAreBacked
  <1>1. /\ StakesInv /\ PoolInv /\ FeesInv /\ SupplyInv /\ BackingInv
    BY DEF TreasuryInv
  <1>2. Ready =>
          /\ treasury.stakes = Cardinality(Stakers)
          /\ treasury.staked = Total([u \in Stakers |-> stake[u].amount], Stakers)
          /\ Shortfall <= astray
    <2>1. Ready => /\ treasury.stakes = Cardinality(Stakers)
                   /\ treasury.staked = Total(StakerAmounts, Stakers)
      BY <1>1 DEF StakesInv
    <2>2. Ready => Shortfall <= astray
      BY <1>1, <2>1 DEF BackingInv, Shortfall
    <2>3. QED
      BY <2>1, <2>2 DEF StakerAmounts
  <1>3. Ready =>
          /\ treasury.collected = treasury.toHolders + treasury.burned + treasury.toLabs
          /\ treasury.collected = Distributed("total")
          /\ treasury.toHolders = Distributed("holders")
    BY <1>1 DEF FeesInv
  <1>4. /\ holderPool.balance = holderPool.deposited - holderPool.claimed
        /\ holderPool.claimed = Total([u \in Stakers |-> stake[u].claimed], Stakers)
    BY <1>1 DEF PoolInv, StakerClaims
  <1>5. Total([m \in Coins |-> TotalHeld(coins[m])], Coins) + Distributed("burned")
          = Total([m \in Coins |-> Total(Wallets[m], Users)], Coins)
    BY <1>1 DEF SupplyInv, Supply, SupplyOf, FirstSupply
  <1>6. QED
    BY <1>2, <1>3, <1>4, <1>5 DEF DebtsAreBacked

LEMMA TreasuryIsInvariant == TreasurySpec => []TreasuryInv
  <1>1. TreasuryInit => TreasuryInv
    BY TreasuryInvInit
  <1>2. TreasuryInv /\ [TreasuryNext]_treasuryVars => TreasuryInv'
    BY TreasuryStep
  <1>3. QED
    BY <1>1, <1>2, PTL DEF TreasurySpec

\* Whatever is deposited, distributed, withdrawn, staked, claimed and migrated, and whatever
\* accounts are passed, the treasury's books have their types and are true, and what it owes
\* to stakers is in the accounts meant for it, but for what was moved through others.
THEOREM StakersAreSafe == TreasurySpec => [](TreasuryTypeOK /\ DebtsAreBacked)
  <1>1. TreasurySpec => []TreasuryInv
    BY TreasuryIsInvariant
  <1>2. TreasuryInv => TreasuryTypeOK /\ DebtsAreBacked
    BY TreasuryInvImplies DEF TreasuryInv
  <1>3. QED
    BY <1>1, <1>2, PTL

\* Only a claim changes what a staker has claimed.
LEMMA OnlyClaimsPay ==
  ASSUME TreasuryInv, [TreasuryNext]_treasuryVars, NEW u \in Users, stake[u] # None,
         stake'[u].claimed # stake[u].claimed
  PROVE  \E v \in Named : claim_revenue(u, v)
  <1>1. stake \in [Users -> StakeRecord \cup {None}] /\ stake[u] \in StakeRecord
    BY DEF TreasuryInv, TreasuryTypeOK
  <1>2. stake' # stake
    OBVIOUS
  <1>3. PICK w \in Users, v \in Named :
          \/ \E amount \in Stakes : \/ register_stake(w, amount, v) \/ increase_stake(w, amount, v)
                                    \/ decrease_stake(w, amount, v)
          \/ claim_revenue(w, v)
    <2>1. CASE initialize_treasury \/ initialize_vaults \/ initialize_reserve
               \/ \E m \in Coins : migrate_mint(m)
      BY <1>2, <2>1 DEF initialize_treasury, initialize_vaults, initialize_reserve, migrate_mint
    <2>2. ASSUME NEW v \in Named,
                 \/ \E amount \in Withdrawals : authority_withdraw(v, amount)
                 \/ \E w \in Users, amount \in Deposits : deposit_fee(w, v, amount)
          PROVE  FALSE
      BY <1>2, <2>2 DEF authority_withdraw, deposit_fee
    <2>3. ASSUME NEW amount \in Deposits, NEW pool \in Named, NEW labs \in Named,
                 distribute_protocol_fee(amount, pool, labs)
          PROVE  FALSE
      BY <1>2, <2>3 DEF distribute_protocol_fee
    <2>4. QED
      BY <1>2, <2>1, <2>2, <2>3 DEF TreasuryNext, treasuryVars
  <1>4. stake'[u] # stake[u]
    OBVIOUS
  <1>5. w = u
    <2>1. PICK row : stake' = [stake EXCEPT ![w] = row]
      BY <1>3, ZenonT(60) DEF register_stake, increase_stake, decrease_stake, claim_revenue
    <2>2. QED
      BY <1>1, <1>4, <2>1
  <1>6. ASSUME NEW amount \in Stakes, register_stake(w, amount, v) PROVE FALSE
    BY <1>5, <1>6 DEF register_stake
  <1>7. PICK first : first = stake[u]
    OBVIOUS
  <1>8. first \in StakeRecord /\ first.claimed = stake[u].claimed
    BY <1>1, <1>7
  <1>9. ASSUME NEW amount \in Stakes, increase_stake(w, amount, v) PROVE FALSE
    <2>1. PICK row : row = [first EXCEPT !.amount = amount, !.stakedAt = now]
      OBVIOUS
    <2>2. row.claimed = first.claimed
      BY <1>8, <2>1 DEF StakeRecord
    <2>3. stake' = [stake EXCEPT ![u] = row]
      BY <1>5, <1>7, <1>9, <2>1 DEF increase_stake
    <2>4. stake'[u] = row
      BY <1>1, <2>3
    <2>5. QED
      BY <1>8, <2>2, <2>4
  <1>10. ASSUME NEW amount \in Stakes, decrease_stake(w, amount, v) PROVE FALSE
    <2>1. PICK row : row = [first EXCEPT !.amount = amount]
      OBVIOUS
    <2>2. row.claimed = first.claimed
      BY <1>8, <2>1 DEF StakeRecord
    <2>3. stake' = [stake EXCEPT ![u] = row]
      BY <1>5, <1>7, <1>10, <2>1 DEF decrease_stake
    <2>4. stake'[u] = row
      BY <1>1, <2>3
    <2>5. QED
      BY <1>8, <2>2, <2>4
  <1>11. QED
    BY <1>3, <1>5, <1>6, <1>9, <1>10

\* A claim pays what was promised, and only for a stake that has not grown of late.
LEMMA ClaimsAreOld ==
  ASSUME TreasuryInv, NEW u \in Users, NEW v \in Named, claim_revenue(u, v)
  PROVE  /\ now - grown[u] >= MinStakeTime
         /\ get_claimable_amount(u).remaining = 0
         /\ stake'[u].claimed = stake[u].claimed + get_claimable_amount(u).amount
  <1>1. PICK first : first = stake[u]
    OBVIOUS
  <1>2. /\ Ready /\ first \in StakeRecord /\ grown[u] = first.stakedAt /\ now \in Nat
        /\ stake \in [Users -> StakeRecord \cup {None}]
    BY <1>1, StakedType DEF claim_revenue
  <1>3. PICK claim : claim = (first.amount * holderPool.balance) \div treasury.staked
    OBVIOUS
  <1>4. now - first.stakedAt >= MinStakeTime /\ treasury.staked > 0
    BY <1>1 DEF claim_revenue, can_claim
  <1>5. treasury.staked \in Nat /\ first.stakedAt \in Nat /\ MinStakeTime \in Nat
    BY <1>2, StakedType, TreasuryAssumption DEF TreasuryConfig, StakeRecord, Times
  <1>6. get_claimable_amount(u).amount = claim
    <2>1. treasury.staked # 0
      BY <1>4, <1>5
    <2>2. QED
      BY <1>1, <1>3, <2>1 DEF get_claimable_amount
  <1>7. get_claimable_amount(u).remaining = 0
    <2>1. get_claimable_amount(u).remaining = Less(MinStakeTime, now - first.stakedAt)
      BY <1>1 DEF get_claimable_amount
    <2>2. QED
      BY <1>2, <1>4, <1>5, <2>1 DEF Less
  <1>8. stake'[u].claimed = first.claimed + claim
    <2>1. PICK row : row = [first EXCEPT !.lastClaim = now, !.claimed = @ + claim]
      OBVIOUS
    <2>2. row.claimed = first.claimed + claim
      BY <1>2, <2>1 DEF StakeRecord
    <2>3. stake' = [stake EXCEPT ![u] = row]
      BY <1>1, <1>3, <2>1 DEF claim_revenue
    <2>4. stake'[u] = row
      BY <1>2, <2>3
    <2>5. QED
      BY <2>2, <2>4
  <1>9. QED
    BY <1>1, <1>2, <1>4, <1>6, <1>7, <1>8

\* Coins that were staked less than the minimum time ago are paid nothing, however the stake
\* was changed in between, and a claim pays what get_claimable_amount promised.
THEOREM StakesEarnLater == TreasurySpec => FreshStakeEarnsNothing
  <1> DEFINE Paid == \A u \in Users :
               stake[u] # None /\ stake'[u].claimed # stake[u].claimed =>
                 /\ now - grown[u] >= MinStakeTime
                 /\ get_claimable_amount(u).remaining = 0
                 /\ stake'[u].claimed = stake[u].claimed + get_claimable_amount(u).amount
  <1>1. TreasuryInv /\ [TreasuryNext]_treasuryVars => [Paid]_treasuryVars
    <2>1. ASSUME TreasuryInv, [TreasuryNext]_treasuryVars PROVE Paid
      <3>1. ASSUME NEW u \in Users, stake[u] # None, stake'[u].claimed # stake[u].claimed
            PROVE  \E v \in Named : claim_revenue(u, v)
        BY <2>1, <3>1, OnlyClaimsPay
      <3>2. QED
        BY <2>1, <3>1, ClaimsAreOld
    <2>2. QED
      BY <2>1
  <1>2. TreasurySpec => []TreasuryInv /\ [][TreasuryNext]_treasuryVars
    BY TreasuryIsInvariant, PTL DEF TreasurySpec
  <1>3. QED
    BY <1>1, <1>2, PTL DEF FreshStakeEarnsNothing
=============================================================================
