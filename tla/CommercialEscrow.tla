--------------------------- MODULE CommercialEscrow ---------------------------
(***************************************************************************)
(* The money of amos-bounty: commercial bounties whose reward waits in     *)
(* escrow, proofs paid by the treasury, and the decay of what operators    *)
(* earned (instructions/escrow.rs, distribution.rs, decay.rs).             *)
(*                                                                         *)
(* The three meet in the statistics of an operator, and the first two in   *)
(* the BountyProof account of a bounty, which exists once.  How much a     *)
(* proof earns is the subject of EmissionPool; here it is one of Payouts.  *)
(*                                                                         *)
(* Tokens of different mints are kept apart.  An account that a migration  *)
(* of the mint leaves behind keeps its tokens, and no instruction accepts  *)
(* it any more.                                                            *)
(***************************************************************************)
EXTENDS BountyAccounts

CONSTANTS
  Bounties,
  Workers,       \* users who work as operators
  Rewards,       \* amounts a poster may escrow
  MinEscrow,     \* MIN_COMMERCIAL_ESCROW
  Payouts,       \* what submit_bounty_proof may pay
  FeePart,       \* PROTOCOL_FEE_BPS
  HolderPart,    \* FEE_HOLDER_SHARE_BPS
  BurnPart,      \* FEE_BURN_SHARE_BPS
  ReviewerPart,  \* REVIEWER_REWARD_BPS
  Grace,         \* INACTIVITY_GRACE_PERIOD_DAYS
  Year,          \* 365 days
  FloorPart,     \* DECAY_FLOOR_BPS
  DecayBurnPart, \* DECAY_BURN_PORTION_BPS
  Endowment      \* tokens of each holder when the program starts

ASSUME EscrowAssumption ==
  /\ Workers \subseteq Users
  /\ Rewards \subseteq Nat /\ MinEscrow \in Nat \ {0} /\ Payouts \subseteq Nat \ {0}
  /\ {FeePart, HolderPart, BurnPart, ReviewerPart, FloorPart, DecayBurnPart} \subseteq 0 .. Whole
  /\ HolderPart + BurnPart <= Whole
  /\ Grace \in Nat /\ Year \in Nat \ {0}
  /\ {"treasury", "holder_pool", "labs_wallet"} \subseteq Vaults
  /\ Endowment \in [Mints -> [Holders -> Nat]]
  /\ IsFiniteSet(Bounties)

VARIABLES
  balance,  \* token accounts, of each mint
  burned,   \* tokens burned, of each mint
  escrow,   \* escrow token account of each bounty, None until it is created
  proofs    \* BountyProof accounts

escrowVars == <<accountVars, balance, burned, escrow, proofs>>

Escrow == [mint : Mints, amount : Nat]

Proof == [ source   : {"Treasury", "Commercial"},
           operator : Users,
           tokens   : Nat,     \* tokens_earned
           reviewer : Nat,     \* reviewer_tokens
           fee      : Nat ]    \* fee_collected

ASSUME NoneIsNoAccount == None \notin Escrow \cup Proof

EscrowTypeOK ==
  /\ AccountsTypeOK
  /\ balance \in [Mints -> [Holders -> Nat]]
  /\ burned \in [Mints -> Nat]
  /\ escrow \in [Bounties -> Escrow \cup {None}]
  /\ proofs \in [Bounties -> Proof \cup {None}]

EscrowInit ==
  /\ AccountsInit
  /\ balance = Endowment
  /\ burned = [m \in Mints |-> 0]
  /\ escrow = [b \in Bounties |-> None]
  /\ proofs = [b \in Bounties |-> None]

\* What the token accounts of the current mint hold.
Held == balance[config.mint]

-----------------------------------------------------------------------------
\* Escrow.

create_commercial_bounty(b, poster, amount) ==
  /\ escrow[b] = None
  /\ amount >= MinEscrow
  /\ Held[poster] >= amount
  /\ escrow' = [escrow EXCEPT ![b] = [mint |-> config.mint, amount |-> amount]]
  /\ balance' = [balance EXCEPT ![config.mint][poster] = @ - amount]
  /\ UNCHANGED <<accountVars, burned, proofs>>

Funded(b) == escrow[b] # None /\ escrow[b].mint = config.mint /\ escrow[b].amount > 0

\* What release_escrow requires of its accounts.
Releasable(b, operator, reviewer) ==
  /\ Funded(b)
  /\ config.recipients
  /\ proofs[b] = None
  /\ stats[operator] # None
  /\ reviewer # operator

Fee_labs_rounded(amount) ==
  LET total == PartOf(amount, FeePart)
      holders == PartOf(total, HolderPart)
      burn == PartOf(total, BurnPart)
  IN [total |-> total, holders |-> holders, burn |-> burn,
      labs |-> PartOf(total, Whole - HolderPart - BurnPart)]

\* The fee of an escrow and where it goes; labs takes what rounding leaves.
Fee(amount) ==
  LET total == PartOf(amount, FeePart)
      holders == PartOf(total, HolderPart)
      burn == PartOf(total, BurnPart)
  IN [total |-> total, holders |-> holders, burn |-> burn, labs |-> total - holders - burn]

\* The token accounts after an escrow of `amount' paid out, and what remains in escrow.
PaidOut(amount, fee, operator, earned, reviewer, review) ==
  LET to == [h \in Holders |->
                 (IF h = operator THEN earned ELSE 0) + (IF h = reviewer THEN review ELSE 0)
               + (IF h = "holder_pool" THEN fee.holders ELSE 0)
               + (IF h = "labs_wallet" THEN fee.labs ELSE 0)]
  IN [ held |-> [h \in Holders |-> Held[h] + to[h]],
       left |-> amount - TotalHeld(to) - fee.burn ]

release_escrow_credits_review(b, operator, reviewer) ==
  LET amount == escrow[b].amount
      fee    == Fee(amount)
      review == PartOf(amount - fee.total, ReviewerPart)
      earned == amount - fee.total - review
      paid   == PaidOut(amount, fee, operator, earned, reviewer, review)
  IN /\ Releasable(b, operator, reviewer)
     /\ earned > 0
     /\ escrow' = [escrow EXCEPT ![b].amount = paid.left]
     /\ balance' = [balance EXCEPT ![config.mint] = paid.held]
     /\ burned' = [burned EXCEPT ![config.mint] = @ + fee.burn]
     /\ stats' = [stats EXCEPT ![operator] = Credited(@, amount - fee.total)]
     /\ config' = [config EXCEPT !.distributed = @ + amount - fee.total, !.bounties = @ + 1]
     /\ proofs' = [proofs EXCEPT ![b] = [ source |-> "Commercial", operator |-> operator,
                     tokens |-> earned, reviewer |-> review, fee |-> fee.total ]]
     /\ UNCHANGED <<now, metrics>>

\* The oracle pays the worker of a commercial bounty.  Points, quality and evidence are
\* checked and recorded; no amount depends on them.
release_escrow(b, operator, reviewer) ==
  LET amount == escrow[b].amount
      fee    == Fee(amount)
      review == PartOf(amount - fee.total, ReviewerPart)
      earned == amount - fee.total - review
      paid   == PaidOut(amount, fee, operator, earned, reviewer, review)
  IN /\ Releasable(b, operator, reviewer)
     /\ earned > 0
     /\ escrow' = [escrow EXCEPT ![b].amount = paid.left]
     /\ balance' = [balance EXCEPT ![config.mint] = paid.held]
     /\ burned' = [burned EXCEPT ![config.mint] = @ + fee.burn]
     /\ stats' = [stats EXCEPT ![operator] = Credited(@, earned)]
     /\ config' = [config EXCEPT !.distributed = @ + amount - fee.total, !.bounties = @ + 1]
     /\ proofs' = [proofs EXCEPT ![b] = [ source |-> "Commercial", operator |-> operator,
                     tokens |-> earned, reviewer |-> review, fee |-> fee.total ]]
     /\ UNCHANGED <<now, metrics>>

\* All that is in escrow goes back without a fee.  The deadline is an argument of the creation
\* that nothing stores, and the poster is whoever signs.
refund_escrow(b, poster) ==
  /\ Funded(b)
  /\ escrow' = [escrow EXCEPT ![b].amount = 0]
  /\ balance' = [balance EXCEPT ![config.mint][poster] = @ + escrow[b].amount]
  /\ UNCHANGED <<accountVars, burned, proofs>>

-----------------------------------------------------------------------------
\* Proofs of bounty, as far as they pay and are recorded; see EmissionPool for the amount.

submit_bounty_proof(b, operator, reviewer, tokens) ==
  LET review == PartOf(tokens, ReviewerPart)
      earned == tokens - review
  IN /\ proofs[b] = None
     /\ stats[operator] # None
     /\ reviewer # operator
     /\ earned > 0
     /\ Held["treasury"] >= tokens
     /\ balance' = [balance EXCEPT ![config.mint] =
          Moved(Moved(@, "treasury", operator, earned), "treasury", reviewer, review)]
     /\ stats' = [stats EXCEPT ![operator] = Credited(@, earned)]
     /\ config' = [config EXCEPT !.distributed = @ + tokens, !.bounties = @ + 1]
     /\ proofs' = [proofs EXCEPT ![b] = [ source |-> "Treasury", operator |-> operator,
                     tokens |-> earned, reviewer |-> review, fee |-> 0 ]]
     /\ UNCHANGED <<now, metrics, burned, escrow>>

-----------------------------------------------------------------------------
\* Decay.

\* What decay would take now: the rate for every day since the last decay, at least one day,
\* and at least one token when a day has passed.
DecayDue(row) ==
  LET since  == now - row.decay
      amount == (row.decayable * config.rate * Most(since, 1)) \div (Whole * Year)
  IN IF amount = 0 /\ since >= 1 THEN 1 ELSE amount

DecayFloor(row) == PartOf(row.original, FloorPart)

\* Down to the floor and no further.
DecayAmount(row) ==
  LET left == row.original - row.decayed
      due  == DecayDue(row)
  IN Least(IF left - due < DecayFloor(row) THEN left - DecayFloor(row) ELSE due, row.decayable)

\* An operator that has been idle for long enough and has more than the floor.
Decayable(operator) ==
  /\ stats[operator] # None
  /\ stats[operator].decayable > 0
  /\ now - stats[operator].activity >= Grace
  /\ stats[operator].original - stats[operator].decayed > DecayFloor(stats[operator])

\* Part of the amount is burned, the rest returns to the treasury.  The operator is the
\* authority over the account that pays, so its signature is needed.  An amount due beyond
\* the original allocation underflows before it can be lowered to the floor.
apply_decay(operator) ==
  LET row    == stats[operator]
      amount == DecayAmount(row)
      burn   == PartOf(amount, DecayBurnPart)
  IN /\ Decayable(operator)
     /\ DecayDue(row) > 0
     /\ row.decayed + DecayDue(row) <= row.original
     /\ Held[operator] >= amount
     /\ balance' = [balance EXCEPT ![config.mint] =
          [Moved(Held, operator, "treasury", amount - burn) EXCEPT ![operator] = @ - burn]]
     /\ burned' = [burned EXCEPT ![config.mint] = @ + burn]
     /\ stats' = [stats EXCEPT ![operator] =
          [row EXCEPT !.decayable = @ - amount, !.decayed = @ + amount, !.burned = @ + burn,
                      !.recycled = @ + (amount - burn), !.decay = now]]
     /\ UNCHANGED <<now, config, metrics, escrow, proofs>>

-----------------------------------------------------------------------------
EscrowNext ==
  \/ \E b \in Bounties, u \in Users :
       \/ \E amount \in Rewards : create_commercial_bounty(b, u, amount)
       \/ refund_escrow(b, u)
  \/ \E b \in Bounties, operator \in Workers, reviewer \in Users :
       \/ release_escrow(b, operator, reviewer)
       \/ \E tokens \in Payouts : submit_bounty_proof(b, operator, reviewer, tokens)
  \/ \E operator \in Workers : apply_decay(operator)
  \/ /\ \/ \E operator \in Workers : prepare_operator(operator)
        \/ administer
        \/ wait
     /\ UNCHANGED <<balance, burned, escrow, proofs>>

EscrowSpec == EscrowInit /\ [][EscrowNext]_escrowVars

-----------------------------------------------------------------------------
\* Properties.

ProofsOf(u) == {b \in Bounties : proofs[b] # None /\ proofs[b].operator = u}
Proven == {b \in Bounties : proofs[b] # None}
EscrowedIn(m) == {b \in Bounties : escrow[b] # None /\ escrow[b].mint = m}

\* Tokens are neither made nor lost: whatever was escrowed, released, refunded, decayed or
\* burned, in any order and across a migration, the supply of each mint is where it was, in
\* escrow or burned.  A released escrow is empty, to the last unit that rounding leaves: what
\* remained could be refunded to anybody and never be released, since the bounty has its proof.
TokensAreConserved ==
  /\ \A m \in Mints :
       TotalHeld(Endowment[m]) =
         TotalHeld(balance[m]) + burned[m]
           + Total([b \in EscrowedIn(m) |-> escrow[b].amount], EscrowedIn(m))
  /\ \A b \in Bounties :
       proofs[b] # None /\ proofs[b].source = "Commercial" => escrow[b].amount = 0

\* The statistics of an operator are those of the proofs that name the operator, whichever of
\* the two instructions made them; decay splits what they earned without a remainder and stops
\* at a tenth of everything the operator was ever given, through any sequence of earning,
\* changes of the rate and decay.
OperatorBooks ==
  /\ \A u \in Users :
       stats[u] # None =>
         /\ stats[u].bounties = Cardinality(ProofsOf(u))
         /\ stats[u].earned = Total([b \in ProofsOf(u) |-> proofs[b].tokens], ProofsOf(u))
         /\ stats[u].original = stats[u].earned
         /\ stats[u].original = stats[u].decayable + stats[u].decayed
         /\ stats[u].decayed = stats[u].burned + stats[u].recycled
         /\ stats[u].decayable >= DecayFloor(stats[u])
  /\ config.bounties = Cardinality(Proven)
  /\ config.distributed =
       Total([b \in Proven |-> proofs[b].tokens + proofs[b].reviewer], Proven)
=============================================================================
