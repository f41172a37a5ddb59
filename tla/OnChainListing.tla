---------------------------- MODULE OnChainListing ----------------------------
(***************************************************************************)
(* The bounty board of amos-bounty (instructions/claims.rs): a listing is  *)
(* posted, claimed, and handed back when its claim expires, by anybody.    *)
(* Nothing else moves a listing: no instruction submits, approves or       *)
(* rejects one, so the three instructions of dispute.rs, which need a      *)
(* rejected listing, can never run, and are left out.                      *)
(***************************************************************************)
EXTENDS BountyAccounts

CONSTANTS
  Listings,        \* bounty ids
  Timeouts,        \* claim_timeout_hours a poster may choose; 0 stands for the default
  MinTimeout,      \* MIN_CLAIM_TIMEOUT_HOURS
  MaxTimeout,      \* MAX_CLAIM_TIMEOUT_HOURS
  DefaultTimeout,  \* DEFAULT_CLAIM_TIMEOUT_HOURS
  Cooldown,        \* SELF_DEALING_COOLDOWN_HOURS
  MaxClaims        \* MAX_CONCURRENT_CLAIMS of trust level 1, which everybody has here

ASSUME ListingAssumption ==
  /\ Timeouts \subseteq Nat /\ MinTimeout \in Nat /\ MaxTimeout \in Nat
  /\ DefaultTimeout \in Nat /\ Cooldown \in Nat /\ MaxClaims \in Nat

VARIABLE listing   \* BountyListing of each id, None until it is posted

listingVars == <<accountVars, listing>>

Listing == [ status    : {"Open", "Claimed"},
             source    : {"Treasury", "Commercial"},
             poster    : Users,
             claimedBy : Users \cup {None},
             claimedAt : Times,
             timeout   : Nat,
             postedAt  : Times ]

ASSUME NoneIsNoListing == None \notin Listing

ListingTypeOK == AccountsTypeOK /\ listing \in [Listings -> Listing \cup {None}]

ListingInit == AccountsInit /\ listing = [b \in Listings |-> None]

Claimed(b) == listing[b] # None /\ listing[b].status = "Claimed"

\* Contribution type and required trust level are checked and never read again.
post_bounty_listing(b, poster, source, timeout) ==
  /\ listing[b] = None
  /\ timeout > 0 => timeout \in MinTimeout .. MaxTimeout
  /\ listing' = [listing EXCEPT ![b] =
       [ status |-> "Open", source |-> source, poster |-> poster, claimedBy |-> None,
         claimedAt |-> 0, timeout |-> timeout, postedAt |-> now ]]
  /\ UNCHANGED accountVars

claim_bounty_any_status(b, w) ==
  /\ listing[b] # None
  /\ listing[b].source = "Commercial" /\ listing[b].poster = w =>
       now - listing[b].postedAt >= Cooldown
  /\ stats[w] # None
  /\ stats[w].claims < MaxClaims
  /\ listing' = [listing EXCEPT ![b].status = "Claimed", ![b].claimedBy = w,
                                ![b].claimedAt = now]
  /\ stats' = [stats EXCEPT ![w].claims = @ + 1]
  /\ UNCHANGED <<now, config, metrics>>

\* The claimer needs statistics, made by prepare.
claim_bounty(b, w) ==
  /\ listing[b] # None
  /\ listing[b].status = "Open"
  /\ listing[b].source = "Commercial" /\ listing[b].poster = w =>
       now - listing[b].postedAt >= Cooldown
  /\ stats[w] # None
  /\ stats[w].claims < MaxClaims
  /\ listing' = [listing EXCEPT ![b].status = "Claimed", ![b].claimedBy = w,
                                ![b].claimedAt = now]
  /\ stats' = [stats EXCEPT ![w].claims = @ + 1]
  /\ UNCHANGED <<now, config, metrics>>

Term(b) == IF listing[b].timeout > 0 THEN listing[b].timeout ELSE DefaultTimeout

release_expired_claim_of_caller(b, caller) ==
  /\ Claimed(b)
  /\ now > listing[b].claimedAt + Term(b)
  /\ stats[caller] # None
  /\ listing' = [listing EXCEPT ![b].status = "Open", ![b].claimedBy = None,
                                ![b].claimedAt = 0]
  /\ stats' = [stats EXCEPT ![caller].claims = Less(@, 1)]
  /\ UNCHANGED <<now, config, metrics>>

\* Anybody calls it; the statistics are those of whoever claimed.
release_expired_claim(b, caller) ==
  /\ Claimed(b)
  /\ now > listing[b].claimedAt + Term(b)
  /\ listing' = [listing EXCEPT ![b].status = "Open", ![b].claimedBy = None,
                                ![b].claimedAt = 0]
  /\ stats' = [stats EXCEPT ![listing[b].claimedBy].claims = Less(@, 1)]
  /\ UNCHANGED <<now, config, metrics>>

ListingNext ==
  \/ \E b \in Listings, u \in Users :
       \/ \E source \in {"Treasury", "Commercial"}, timeout \in Timeouts :
            post_bounty_listing(b, u, source, timeout)
       \/ claim_bounty(b, u)
       \/ release_expired_claim(b, u)
  \/ /\ \/ \E u \in Users : prepare_operator(u)
        \/ wait
     /\ UNCHANGED listing

ListingSpec == ListingInit /\ [][ListingNext]_listingVars

-----------------------------------------------------------------------------
\* Properties.

\* The counter that limits an operator's claims is the number of listings that operator
\* holds, whoever released the ones that expired: a lost decrement would lock a worker out for
\* ever, a lost increment would lift the limit.
ClaimsAreCounted ==
  \A w \in Users :
    stats[w] # None =>
      stats[w].claims = Cardinality({b \in Listings : Claimed(b) /\ listing[b].claimedBy = w})

\* A worker keeps a claimed listing for its whole term: until then nothing that anybody does
\* moves it to somebody else or back to the board.
ClaimKeepsItsTerm ==
  [][\A b \in Listings :
       Claimed(b) /\ listing'[b] # listing[b] =>
         /\ now - listing[b].claimedAt > Term(b)
         /\ listing'[b].claimedBy = None]_listingVars
=============================================================================
