------------------------- MODULE BountyProgramProofs --------------------------
(***************************************************************************)
(* What holds of the amos-bounty program, for any number of agents,        *)
(* operators, listings, types, bounties and mints, any thresholds, terms,  *)
(* limits, deadlines, amounts and parts: of the trust records, of the      *)
(* listings, of the registry of contribution types, and of the money in    *)
(* escrow, in proofs of bounty and in decay.                               *)
(***************************************************************************)
EXTENDS AgentTrust, OnChainListing, TypeRegistry, CommercialEscrow, ChainProofs,
        FiniteSetTheorems, TLAPS

-----------------------------------------------------------------------------
(* Trust. *)

\* The oracle granted a level or the record allows it.
Allowed(a, level) ==
  bootstrapped[a] >= level \/ trust[a].completions >= MinCompletions[level]

\* An agent's level is allowed, and so is every level below it.
LevelIsAllowed ==
  \A a \in Agents : trust[a] # None =>
    \A level \in 2 .. TopLevel : level <= trust[a].level => Allowed(a, level)

TrustInv == TrustTypeOK /\ LevelIsAllowed /\ PointsAreEarned

\* A part of a whole number of parts is at most the whole.
LEMMA RatioBound ==
  ASSUME NEW a \in Nat, NEW b \in Nat, NEW w \in Nat, a + b # 0
  PROVE  (a * w) \div (a + b) \in 0 .. w
  <1>1. a * w \in Nat /\ (a + b) \in Nat \ {0} /\ a * w <= (a + b) * w
    BY SMT
  <1>2. QED
    BY <1>1, SMT

LEMMA calculate_reputationType ==
  ASSUME NEW a \in Nat, NEW b \in Nat
  PROVE  calculate_reputation(a, b) \in 0 .. Whole
  <1>1. Whole \in Nat
    BY ChainAssumption
  <1>2. CASE a + b = 0
    BY <1>1, <1>2 DEF calculate_reputation
  <1>3. CASE a + b # 0
    BY <1>1, <1>3, RatioBound DEF calculate_reputation
  <1>4. QED
    BY <1>2, <1>3

\* A step that changes the record of one agent: what is left to show is about that agent.
LEMMA OneRecord ==
  ASSUME TrustInv, NEW a \in Agents, NEW row \in TrustRecord, NEW top \in Levels,
         trust' = [trust EXCEPT ![a] = row], bootstrapped' = [bootstrapped EXCEPT ![a] = top],
         \A level \in 2 .. TopLevel :
           level <= row.level \/ row.largest > MaxPoints[level - 1] =>
             top >= level \/ row.completions >= MinCompletions[level]
  PROVE  TrustInv'
  <1>1. trust \in [Agents -> TrustRecord \cup {None}] /\ bootstrapped \in [Agents -> Levels]
    BY DEF TrustInv, TrustTypeOK
  <1>2. TrustTypeOK'
    BY <1>1 DEF TrustTypeOK
  <1>3. ASSUME NEW c \in Agents, trust'[c] # None, NEW level \in 2 .. TopLevel,
               level <= trust'[c].level \/ trust'[c].largest > MaxPoints[level - 1]
        PROVE  bootstrapped'[c] >= level \/ trust'[c].completions >= MinCompletions[level]
    <2>1. CASE c = a
      BY <1>1, <1>3, <2>1
    <2>2. CASE c # a
      <3>1. trust'[c] = trust[c] /\ bootstrapped'[c] = bootstrapped[c]
        BY <1>1, <2>2
      <3>2. QED
        BY <1>3, <3>1 DEF TrustInv, LevelIsAllowed, PointsAreEarned, Allowed
    <2>3. QED
      BY <2>1, <2>2
  <1>4. QED
    BY <1>2, <1>3 DEF TrustInv, LevelIsAllowed, PointsAreEarned, Allowed

\* What the invariant says of one agent.
LEMMA RecordOf ==
  ASSUME TrustInv, NEW a \in Agents, trust[a] # None
  PROVE  /\ trust[a] \in TrustRecord /\ bootstrapped[a] \in Levels
         /\ \A level \in 2 .. TopLevel :
              level <= trust[a].level \/ trust[a].largest > MaxPoints[level - 1] =>
                bootstrapped[a] >= level \/ trust[a].completions >= MinCompletions[level]
  BY DEF TrustInv, TrustTypeOK, LevelIsAllowed, PointsAreEarned, Allowed

LEMMA TrustInvInit == TrustInit => TrustInv
  <1>1. 1 \in Levels
    BY TrustAssumption
  <1>2. QED
    BY <1>1 DEF TrustInit, TrustInv, TrustTypeOK, LevelIsAllowed, PointsAreEarned

LEMMA register_agent_trustInv ==
  ASSUME TrustInv, NEW a \in Agents, register_agent_trust(a)
  PROVE  TrustInv'
  <1> DEFINE row == [level |-> 1, completions |-> 0, rejections |-> 0, reputation |-> 0, largest |-> 0]
  <1>1. 1 \in Levels /\ 0 \in 0 .. Whole
    BY TrustAssumption, ChainAssumption
  <1>2. row \in TrustRecord
    BY <1>1 DEF TrustRecord
  <1>3. bootstrapped[a] \in Levels /\ bootstrapped' = [bootstrapped EXCEPT ![a] = bootstrapped[a]]
    BY DEF TrustInv, TrustTypeOK, register_agent_trust
  <1>4. trust' = [trust EXCEPT ![a] = row]
    BY DEF register_agent_trust
  <1>5. ASSUME NEW level \in 2 .. TopLevel
        PROVE  ~ (level <= 1) /\ ~ (0 > MaxPoints[level - 1])
    <2>1. level - 1 \in Levels
      BY TrustAssumption
    <2>2. QED
      BY <2>1, TrustAssumption
  <1>6. QED
    BY <1>2, <1>3, <1>4, <1>5, OneRecord

\* A report, field by field.
LEMMA ReportedRecord ==
  ASSUME NEW row \in TrustRecord, NEW completions, NEW rejections, NEW reputation
  PROVE  [row EXCEPT !.completions = completions, !.rejections = rejections,
             !.reputation = reputation]
           = [level |-> row.level, completions |-> completions, rejections |-> rejections,
              reputation |-> reputation, largest |-> row.largest]
  <1>1. PICK r1 : r1 = [row EXCEPT !.completions = completions]
    OBVIOUS
  <1>2. r1 = [level |-> row.level, completions |-> completions, rejections |-> row.rejections,
              reputation |-> row.reputation, largest |-> row.largest]
    BY <1>1 DEF TrustRecord
  <1>3. PICK r2 : r2 = [r1 EXCEPT !.rejections = rejections]
    OBVIOUS
  <1>4. r2 = [level |-> row.level, completions |-> completions, rejections |-> rejections,
              reputation |-> row.reputation, largest |-> row.largest]
    BY <1>2, <1>3
  <1>5. [r2 EXCEPT !.reputation = reputation]
           = [level |-> row.level, completions |-> completions, rejections |-> rejections,
              reputation |-> reputation, largest |-> row.largest]
    BY <1>4
  <1>6. QED
    BY <1>1, <1>3, <1>5

LEMMA record_agent_completionInv ==
  ASSUME TrustInv, NEW a \in Agents, NEW approved \in BOOLEAN, record_agent_completion(a, approved)
  PROVE  TrustInv'
  <1> DEFINE completions == trust[a].completions + (IF approved THEN 1 ELSE 0)
             rejections  == trust[a].rejections + (IF approved THEN 0 ELSE 1)
             reputation  == calculate_reputation(completions, rejections)
  <1>1. trust[a] # None
    BY DEF record_agent_completion
  <1>2. /\ trust[a] \in TrustRecord /\ bootstrapped[a] \in Levels
        /\ \A level \in 2 .. TopLevel :
             level <= trust[a].level \/ trust[a].largest > MaxPoints[level - 1] =>
               bootstrapped[a] >= level \/ trust[a].completions >= MinCompletions[level]
    BY <1>1, RecordOf
  <1>3. /\ trust[a].completions \in Nat /\ trust[a].rejections \in Nat
        /\ trust[a].level \in Levels /\ trust[a].largest \in Nat
    BY <1>2 DEF TrustRecord
  <1>4. /\ completions \in Nat /\ rejections \in Nat /\ completions >= trust[a].completions
    BY <1>3
  <1>5. reputation \in 0 .. Whole
    BY <1>4, calculate_reputationType
  <1>6. PICK row : row = [level |-> trust[a].level, completions |-> completions,
                          rejections |-> rejections, reputation |-> reputation,
                          largest |-> trust[a].largest]
    OBVIOUS
  <1>7. trust' = [trust EXCEPT ![a] = row]
    <2>1. trust' = [trust EXCEPT ![a] = [trust[a] EXCEPT !.completions = completions,
                      !.rejections = rejections, !.reputation = reputation]]
      BY DEF record_agent_completion, TrustInv, TrustTypeOK
    <2> HIDE DEF completions, rejections, reputation
    <2>2. [trust[a] EXCEPT !.completions = completions, !.rejections = rejections,
             !.reputation = reputation] = row
      BY <1>2, <1>6, ReportedRecord, ZenonT(60)
    <2>3. QED
      BY <2>1, <2>2
  <1> HIDE DEF completions, rejections, reputation
  <1>8. row \in TrustRecord
    BY <1>3, <1>4, <1>5, <1>6 DEF TrustRecord
  <1>9. bootstrapped' = [bootstrapped EXCEPT ![a] = bootstrapped[a]]
    BY DEF TrustInv, TrustTypeOK, record_agent_completion
  <1>10. ASSUME NEW level \in 2 .. TopLevel,
                level <= row.level \/ row.largest > MaxPoints[level - 1]
         PROVE  bootstrapped[a] >= level \/ row.completions >= MinCompletions[level]
    <2>1. bootstrapped[a] >= level \/ trust[a].completions >= MinCompletions[level]
      BY <1>2, <1>6, <1>10
    <2>2. MinCompletions[level] \in Nat
      BY TrustAssumption
    <2>3. QED
      BY <1>3, <1>4, <1>6, <2>1, <2>2
  <1>11. QED
    BY <1>2, <1>7, <1>8, <1>9, <1>10, OneRecord

LEMMA upgrade_trust_levelInv ==
  ASSUME TrustInv, NEW a \in Agents, upgrade_trust_level(a)
  PROVE  TrustInv'
  <1>1. /\ trust[a] \in TrustRecord /\ bootstrapped[a] \in Levels
        /\ \A level \in 2 .. TopLevel :
             level <= trust[a].level \/ trust[a].largest > MaxPoints[level - 1] =>
               bootstrapped[a] >= level \/ trust[a].completions >= MinCompletions[level]
    BY RecordOf DEF upgrade_trust_level
  <1>2. PICK row : row = [trust[a] EXCEPT !.level = trust[a].level + 1]
    OBVIOUS
  <1>3. /\ row \in TrustRecord /\ row.level = trust[a].level + 1
        /\ row.largest = trust[a].largest /\ row.completions = trust[a].completions
        /\ trust[a].level \in Nat
    <2>1. trust[a].level + 1 \in Levels
      BY DEF upgrade_trust_level, can_upgrade_to_level
    <2>2. trust[a].level \in Nat
      BY <1>1, TrustAssumption DEF TrustRecord
    <2>3. QED
      BY <1>1, <1>2, <2>1, <2>2 DEF TrustRecord
  <1>4. row.completions >= MinCompletions[row.level]
    BY <1>3 DEF upgrade_trust_level, can_upgrade_to_level
  <1>5. trust' = [trust EXCEPT ![a] = row]
    BY <1>2 DEF upgrade_trust_level, TrustInv, TrustTypeOK
  <1>6. bootstrapped' = [bootstrapped EXCEPT ![a] = bootstrapped[a]]
    BY DEF TrustInv, TrustTypeOK, upgrade_trust_level
  <1>7. ASSUME NEW level \in 2 .. TopLevel, level <= row.level \/ row.largest > MaxPoints[level - 1]
        PROVE  bootstrapped[a] >= level \/ row.completions >= MinCompletions[level]
    <2>1. CASE level = row.level
      BY <1>4, <2>1
    <2>2. CASE level <= trust[a].level \/ row.largest > MaxPoints[level - 1]
      BY <1>1, <1>3, <2>2
    <2>3. QED
      BY <1>3, <1>7, <2>1, <2>2
  <1>8. QED
    BY <1>1, <1>3, <1>5, <1>6, <1>7, OneRecord

LEMMA bootstrap_agent_trustInv ==
  ASSUME TrustInv, NEW a \in Agents, NEW level \in Levels, bootstrap_agent_trust(a, level)
  PROVE  TrustInv'
  <1>1. /\ trust[a] \in TrustRecord /\ bootstrapped[a] \in Levels
        /\ \A k \in 2 .. TopLevel :
             k <= trust[a].level \/ trust[a].largest > MaxPoints[k - 1] =>
               bootstrapped[a] >= k \/ trust[a].completions >= MinCompletions[k]
    BY RecordOf DEF bootstrap_agent_trust
  <1>2. PICK row : row = [trust[a] EXCEPT !.level = level]
    OBVIOUS
  <1>3. /\ row \in TrustRecord /\ row.level = level
        /\ row.largest = trust[a].largest /\ row.completions = trust[a].completions
    BY <1>1, <1>2 DEF TrustRecord
  <1>4. trust' = [trust EXCEPT ![a] = row]
    BY <1>2 DEF bootstrap_agent_trust, TrustInv, TrustTypeOK
  <1>5. PICK top : top = Most(bootstrapped[a], level)
    OBVIOUS
  <1>6. bootstrapped[a] \in Nat /\ level \in Nat
    BY <1>1, TrustAssumption
  <1>7. top \in Levels /\ top >= bootstrapped[a] /\ top >= level
    BY <1>1, <1>5, <1>6 DEF Most
  <1>8. bootstrapped' = [bootstrapped EXCEPT ![a] = top]
    BY <1>5 DEF TrustInv, TrustTypeOK, bootstrap_agent_trust
  <1>9. ASSUME NEW k \in 2 .. TopLevel, k <= row.level \/ row.largest > MaxPoints[k - 1]
        PROVE  top >= k \/ row.completions >= MinCompletions[k]
    <2>1. top \in Nat
      BY <1>7, TrustAssumption
    <2>2. CASE k <= level
      BY <1>6, <1>7, <2>1, <2>2
    <2>3. CASE row.largest > MaxPoints[k - 1]
      BY <1>1, <1>3, <1>6, <1>7, <2>1, <2>3
    <2>4. QED
      BY <1>3, <1>9, <2>2, <2>3
  <1>10. QED
    BY <1>3, <1>4, <1>7, <1>8, <1>9, OneRecord

LEMMA submit_agent_proofInv ==
  ASSUME TrustInv, NEW a \in Agents, NEW points \in Requests, submit_agent_proof(a, points)
  PROVE  TrustInv'
  <1>1. /\ trust[a] \in TrustRecord /\ bootstrapped[a] \in Levels
        /\ \A k \in 2 .. TopLevel :
             k <= trust[a].level \/ trust[a].largest > MaxPoints[k - 1] =>
               bootstrapped[a] >= k \/ trust[a].completions >= MinCompletions[k]
    BY RecordOf DEF submit_agent_proof
  <1>2. PICK row : row = [trust[a] EXCEPT !.largest = Most(trust[a].largest, points)]
    OBVIOUS
  <1>3. /\ trust[a].largest \in Nat /\ points \in Nat /\ trust[a].level \in Levels
        /\ trust[a].level \in Nat /\ points <= MaxPoints[trust[a].level]
    BY <1>1, TrustAssumption, SMTT(60) DEF TrustRecord, submit_agent_proof
  <1>4. /\ row \in TrustRecord /\ row.level = trust[a].level
        /\ row.largest \in {trust[a].largest, points} /\ row.completions = trust[a].completions
    BY <1>1, <1>2, <1>3 DEF TrustRecord, Most
  <1>5. trust' = [trust EXCEPT ![a] = row]
    BY <1>2 DEF submit_agent_proof, TrustInv, TrustTypeOK
  <1>6. bootstrapped' = [bootstrapped EXCEPT ![a] = bootstrapped[a]]
    BY DEF TrustInv, TrustTypeOK, submit_agent_proof
  <1>7. ASSUME NEW k \in 2 .. TopLevel, k <= row.level \/ row.largest > MaxPoints[k - 1]
        PROVE  bootstrapped[a] >= k \/ row.completions >= MinCompletions[k]
    <2>1. CASE k <= trust[a].level \/ trust[a].largest > MaxPoints[k - 1]
      BY <1>1, <1>4, <2>1
    <2>2. CASE k > trust[a].level /\ points > MaxPoints[k - 1]
      <3>1. k - 1 \in Levels /\ trust[a].level <= k - 1
        <4>1. Levels = 1 .. TopLevel /\ TopLevel \in Nat /\ k \in Nat /\ k >= 2 /\ k <= TopLevel
          BY TrustAssumption
        <4>2. k - 1 \in 1 .. TopLevel
          BY <4>1
        <4>3. trust[a].level <= k - 1
          BY <1>3, <2>2, <4>1
        <4>4. QED
          BY <4>1, <4>2, <4>3
      <3>2. MaxPoints[trust[a].level] <= MaxPoints[k - 1]
        BY <1>3, <3>1, TrustAssumption
      <3>3. MaxPoints[trust[a].level] \in Nat /\ MaxPoints[k - 1] \in Nat
        BY <1>3, <3>1, TrustAssumption
      <3>4. QED
        BY <1>3, <2>2, <3>2, <3>3
    <2>3. QED
      BY <1>3, <1>4, <1>7, <2>1, <2>2
  <1>8. QED
    BY <1>1, <1>4, <1>5, <1>6, <1>7, OneRecord

LEMMA TrustInvStep == TrustInv /\ [TrustNext]_trustVars => TrustInv'
  <1> SUFFICES ASSUME TrustInv, [TrustNext]_trustVars PROVE TrustInv'
    OBVIOUS
  <1>1. ASSUME NEW a \in Agents, register_agent_trust(a) PROVE TrustInv'
    BY <1>1, register_agent_trustInv
  <1>2. ASSUME NEW a \in Agents, NEW approved \in BOOLEAN, record_agent_completion(a, approved)
        PROVE  TrustInv'
    BY <1>2, record_agent_completionInv
  <1>3. ASSUME NEW a \in Agents, upgrade_trust_level(a) PROVE TrustInv'
    BY <1>3, upgrade_trust_levelInv
  <1>4. ASSUME NEW a \in Agents, NEW level \in Levels, bootstrap_agent_trust(a, level)
        PROVE  TrustInv'
    BY <1>4, bootstrap_agent_trustInv
  <1>5. ASSUME NEW a \in Agents, NEW points \in Requests, submit_agent_proof(a, points)
        PROVE  TrustInv'
    BY <1>5, submit_agent_proofInv
  <1>6. CASE UNCHANGED trustVars
    BY <1>6 DEF trustVars, TrustInv, TrustTypeOK, LevelIsAllowed, PointsAreEarned, Allowed
  <1>7. QED
    BY <1>1, <1>2, <1>3, <1>4, <1>5, <1>6 DEF TrustNext

\* Whatever the order of reports, upgrades and bootstraps, an agent that submitted for more
\* than a level allows was granted the next one by the oracle or has its completions.
THEOREM LargePointsAreEarned == TrustSpec => [](TrustTypeOK /\ PointsAreEarned)
  <1>1. TrustInv => TrustTypeOK /\ PointsAreEarned
    BY DEF TrustInv
  <1>2. QED
    BY <1>1, TrustInvInit, TrustInvStep, PTL DEF TrustSpec

-----------------------------------------------------------------------------
(* Listings. *)

\* The listings an operator holds.
HeldBy(w) == {b \in Listings : Claimed(b) /\ listing[b].claimedBy = w}

\* Whoever holds a listing is an operator with statistics.
HoldersAreKnown ==
  \A b \in Listings : Claimed(b) =>
    listing[b].claimedBy \in Users /\ stats[listing[b].claimedBy] # None

\* The counter of each operator, over a finite set of listings.
CountersAreRight ==
  \A w \in Users :
    /\ IsFiniteSet(HeldBy(w))
    /\ stats[w] # None => stats[w].claims = Cardinality(HeldBy(w))

ListingInv == ListingTypeOK /\ HoldersAreKnown /\ CountersAreRight

LEMMA CreditedClaim ==
  ASSUME NEW row \in Stats, NEW n \in Int
  PROVE  /\ [row EXCEPT !.claims = n] \in Stats /\ [row EXCEPT !.claims = n] # None
         /\ [row EXCEPT !.claims = n].claims = n
  BY NoneIsNoStats DEF Stats

LEMMA ListingInvInit == ListingInit => ListingInv
  <1> SUFFICES ASSUME ListingInit PROVE ListingInv
    OBVIOUS
  <1>1. AccountsTypeOK
    <2>1. 0 \in Times
      BY ChainAssumption DEF Times
    <2>2. config \in Config
      BY AccountsAssumption DEF ListingInit, AccountsInit, Config
    <2>3. QED
      BY <2>1, <2>2 DEF ListingInit, AccountsInit, AccountsTypeOK
  <1>2. \A w \in Users : HeldBy(w) = {}
    BY DEF ListingInit, HeldBy, Claimed
  <1>3. CountersAreRight
    BY <1>2, FS_EmptySet DEF CountersAreRight, ListingInit, AccountsInit
  <1>4. QED
    BY <1>1, <1>3 DEF ListingInit, ListingInv, ListingTypeOK, HoldersAreKnown, Claimed

LEMMA post_bounty_listingInv ==
  ASSUME ListingInv, NEW b \in Listings, NEW poster \in Users,
         NEW source \in {"Treasury", "Commercial"}, NEW timeout \in Timeouts,
         post_bounty_listing(b, poster, source, timeout)
  PROVE  ListingInv'
  <1>1. PICK row : row = [ status |-> "Open", source |-> source, poster |-> poster, claimedBy |-> None,
                           claimedAt |-> 0, timeout |-> timeout, postedAt |-> now ]
    OBVIOUS
  <1>2. row \in Listing /\ row.status = "Open"
    <2>1. 0 \in Times /\ now \in Times /\ timeout \in Nat
      BY ChainAssumption, ListingAssumption DEF Times, ListingInv, ListingTypeOK, AccountsTypeOK
    <2>2. QED
      BY <1>1, <2>1 DEF Listing
  <1>3. /\ listing \in [Listings -> Listing \cup {None}] /\ listing' = [listing EXCEPT ![b] = row]
        /\ listing[b] = None /\ UNCHANGED <<now, config, metrics, stats>>
    BY <1>1 DEF ListingInv, ListingTypeOK, post_bounty_listing, accountVars
  <1>4. \A c \in Listings : (Claimed(c)' <=> Claimed(c)) /\ (Claimed(c) => listing'[c] = listing[c])
    BY <1>2, <1>3 DEF Claimed
  <1>5. \A w \in Users : HeldBy(w)' = HeldBy(w)
    BY <1>4 DEF HeldBy
  <1>6. ListingTypeOK'
    BY <1>2, <1>3 DEF ListingInv, ListingTypeOK, AccountsTypeOK
  <1>7. HoldersAreKnown'
    BY <1>3, <1>4 DEF ListingInv, HoldersAreKnown
  <1>8. CountersAreRight'
    BY <1>3, <1>5 DEF ListingInv, CountersAreRight
  <1>9. QED
    BY <1>6, <1>7, <1>8 DEF ListingInv

\* A claim: the listing goes to w, and counts for w alone.
LEMMA claim_bountyInv ==
  ASSUME ListingInv, NEW b \in Listings, NEW w \in Users, claim_bounty(b, w)
  PROVE  ListingInv'
  <1>1. /\ listing \in [Listings -> Listing \cup {None}] /\ stats \in [Users -> Stats \cup {None}]
        /\ listing[b] # None /\ listing[b].status = "Open" /\ stats[w] # None
        /\ now \in Times
    BY DEF ListingInv, ListingTypeOK, AccountsTypeOK, claim_bounty
  <1>2. listing[b] \in Listing /\ stats[w] \in Stats
    BY <1>1
  <1>3. PICK row : row = [[[listing[b] EXCEPT !.status = "Claimed"] EXCEPT !.claimedBy = w]
                            EXCEPT !.claimedAt = now]
    OBVIOUS
  <1>4. /\ row \in Listing /\ row # None /\ row.status = "Claimed" /\ row.claimedBy = w
    BY <1>1, <1>2, <1>3, NoneIsNoListing, ZenonT(60) DEF Listing
  <1>5. listing' = [listing EXCEPT ![b] = row]
    BY <1>1, <1>3 DEF claim_bounty
  <1>6. PICK n \in Int : n = stats[w].claims + 1
    BY <1>2 DEF Stats
  <1>7. PICK account : account = [stats[w] EXCEPT !.claims = n]
    OBVIOUS
  <1>8. account \in Stats /\ account # None /\ account.claims = n
    BY <1>2, <1>7, CreditedClaim
  <1>9. stats' = [stats EXCEPT ![w] = account]
    BY <1>1, <1>6, <1>7 DEF claim_bounty
  <1>10. ListingTypeOK'
    <2>1. UNCHANGED <<now, config, metrics>>
      BY DEF claim_bounty
    <2>2. listing' \in [Listings -> Listing \cup {None}] /\ stats' \in [Users -> Stats \cup {None}]
      BY <1>1, <1>4, <1>5, <1>8, <1>9
    <2>3. QED
      BY <2>1, <2>2 DEF ListingInv, ListingTypeOK, AccountsTypeOK
  <1>11. /\ ~Claimed(b) /\ Claimed(b)' /\ listing'[b].claimedBy = w
         /\ \A c \in Listings \ {b} : listing'[c] = listing[c] /\ (Claimed(c)' <=> Claimed(c))
    BY <1>1, <1>4, <1>5 DEF Claimed
  <1>12. HoldersAreKnown'
    BY <1>1, <1>8, <1>9, <1>11 DEF ListingInv, HoldersAreKnown
  <1>13. HeldBy(w)' = HeldBy(w) \cup {b} /\ b \notin HeldBy(w)
    BY <1>11 DEF HeldBy
  <1>14. \A u \in Users \ {w} : HeldBy(u)' = HeldBy(u) /\ stats'[u] = stats[u]
    BY <1>1, <1>9, <1>11 DEF HeldBy
  <1>15. IsFiniteSet(HeldBy(w)) /\ stats[w].claims = Cardinality(HeldBy(w))
    BY <1>1 DEF ListingInv, CountersAreRight
  <1>16. IsFiniteSet(HeldBy(w)') /\ Cardinality(HeldBy(w)') = n
    BY <1>6, <1>13, <1>15, FS_AddElement
  <1>17. CountersAreRight'
    BY <1>1, <1>8, <1>9, <1>14, <1>16 DEF ListingInv, CountersAreRight
  <1>18. QED
    BY <1>10, <1>12, <1>17 DEF ListingInv

\* A release: the listing goes back to the board, and counts for its holder no more, whoever
\* called.
LEMMA release_expired_claimInv ==
  ASSUME ListingInv, NEW b \in Listings, NEW caller \in Users, release_expired_claim(b, caller)
  PROVE  ListingInv'
  <1>1. /\ listing \in [Listings -> Listing \cup {None}] /\ stats \in [Users -> Stats \cup {None}]
        /\ Claimed(b)
    BY DEF ListingInv, ListingTypeOK, AccountsTypeOK, release_expired_claim
  <1>2. PICK w \in Users : w = listing[b].claimedBy /\ stats[w] # None
    BY <1>1 DEF ListingInv, HoldersAreKnown
  <1>3. listing[b] \in Listing /\ stats[w] \in Stats
    BY <1>1, <1>2 DEF Claimed
  <1>4. PICK row : row = [[[listing[b] EXCEPT !.status = "Open"] EXCEPT !.claimedBy = None]
                            EXCEPT !.claimedAt = 0]
    OBVIOUS
  <1>5. row \in Listing /\ row.status = "Open"
    <2>1. 0 \in Times
      BY ChainAssumption DEF Times
    <2>2. QED
      BY <1>3, <1>4, <2>1 DEF Listing
  <1>6. listing' = [listing EXCEPT ![b] = row]
    BY <1>1, <1>4 DEF release_expired_claim
  <1>7. IsFiniteSet(HeldBy(w)) /\ stats[w].claims = Cardinality(HeldBy(w))
    BY <1>2 DEF ListingInv, CountersAreRight
  <1>8. b \in HeldBy(w)
    BY <1>1, <1>2 DEF HeldBy
  <1>9. IsFiniteSet(HeldBy(w) \ {b}) /\ Cardinality(HeldBy(w) \ {b}) = Cardinality(HeldBy(w)) - 1
    BY <1>7, <1>8, FS_RemoveElement
  <1>10. PICK n \in Nat : n = Cardinality(HeldBy(w) \ {b}) /\ Less(stats[w].claims, 1) = n
    <2>1. Cardinality(HeldBy(w) \ {b}) \in Nat /\ Cardinality(HeldBy(w)) \in Nat
      BY <1>7, <1>9, FS_CardinalityType
    <2>2. QED
      BY <1>7, <1>9, <2>1 DEF Less
  <1>11. PICK account : account = [stats[w] EXCEPT !.claims = n]
    OBVIOUS
  <1>12. account \in Stats /\ account # None /\ account.claims = n
    BY <1>3, <1>11, CreditedClaim
  <1>13. stats' = [stats EXCEPT ![w] = account]
    BY <1>1, <1>2, <1>10, <1>11 DEF release_expired_claim
  <1>14. ListingTypeOK'
    <2>1. UNCHANGED <<now, config, metrics>>
      BY DEF release_expired_claim
    <2>2. listing' \in [Listings -> Listing \cup {None}] /\ stats' \in [Users -> Stats \cup {None}]
      BY <1>1, <1>5, <1>6, <1>12, <1>13
    <2>3. QED
      BY <2>1, <2>2 DEF ListingInv, ListingTypeOK, AccountsTypeOK
  <1>15. /\ ~Claimed(b)'
         /\ \A c \in Listings \ {b} : listing'[c] = listing[c] /\ (Claimed(c)' <=> Claimed(c))
    BY <1>1, <1>5, <1>6 DEF Claimed
  <1>16. HoldersAreKnown'
    BY <1>1, <1>12, <1>13, <1>15 DEF ListingInv, HoldersAreKnown
  <1>17. HeldBy(w)' = HeldBy(w) \ {b}
    BY <1>15 DEF HeldBy
  <1>18. \A u \in Users \ {w} : HeldBy(u)' = HeldBy(u) /\ stats'[u] = stats[u]
    BY <1>1, <1>2, <1>13, <1>15 DEF HeldBy
  <1>19. CountersAreRight'
    BY <1>1, <1>9, <1>10, <1>12, <1>13, <1>17, <1>18 DEF ListingInv, CountersAreRight
  <1>20. QED
    BY <1>14, <1>16, <1>19 DEF ListingInv

\* New statistics hold no claim, because nobody without statistics holds a listing.
LEMMA prepare_operatorInv ==
  ASSUME ListingInv, NEW u \in Users, prepare_operator(u), UNCHANGED listing
  PROVE  ListingInv'
  <1>1. stats \in [Users -> Stats \cup {None}] /\ now \in Times
    BY DEF ListingInv, ListingTypeOK, AccountsTypeOK
  <1>2. PICK fresh : fresh = NewStats
    OBVIOUS
  <1>3. fresh \in Stats /\ fresh # None /\ fresh.claims = 0
    BY <1>1, <1>2, NoneIsNoStats DEF NewStats, Stats
  <1>4. PICK account : account = IF stats[u] = None THEN fresh ELSE stats[u]
    OBVIOUS
  <1>5. account \in Stats /\ account # None
    BY <1>1, <1>3, <1>4
  <1>6. stats' = [stats EXCEPT ![u] = account]
    BY <1>1, <1>2, <1>4 DEF prepare_operator
  <1>7. ListingTypeOK'
    BY <1>1, <1>5, <1>6 DEF prepare_operator, ListingInv, ListingTypeOK, AccountsTypeOK
  <1>8. \A b \in Listings : Claimed(b)' <=> Claimed(b)
    BY DEF Claimed
  <1>9. HoldersAreKnown'
    BY <1>1, <1>5, <1>6, <1>8 DEF ListingInv, HoldersAreKnown
  <1>10. \A w \in Users : HeldBy(w)' = HeldBy(w)
    BY <1>8 DEF HeldBy
  <1>11. stats[u] = None => HeldBy(u) = {}
    BY DEF ListingInv, HoldersAreKnown, HeldBy
  <1>12. stats[u] = None => Cardinality(HeldBy(u)) = 0
    BY <1>11, FS_EmptySet
  <1>13. CountersAreRight'
    BY <1>1, <1>3, <1>4, <1>6, <1>10, <1>12 DEF ListingInv, CountersAreRight
  <1>14. QED
    BY <1>7, <1>9, <1>13 DEF ListingInv

LEMMA ListingInvStep == ListingInv /\ [ListingNext]_listingVars => ListingInv'
  <1> SUFFICES ASSUME ListingInv, [ListingNext]_listingVars PROVE ListingInv'
    OBVIOUS
  <1>1. ASSUME NEW b \in Listings, NEW u \in Users, NEW source \in {"Treasury", "Commercial"},
               NEW timeout \in Timeouts, post_bounty_listing(b, u, source, timeout)
        PROVE  ListingInv'
    BY <1>1, post_bounty_listingInv
  <1>2. ASSUME NEW b \in Listings, NEW u \in Users, claim_bounty(b, u)
        PROVE  ListingInv'
    BY <1>2, claim_bountyInv
  <1>3. ASSUME NEW b \in Listings, NEW u \in Users, release_expired_claim(b, u)
        PROVE  ListingInv'
    BY <1>3, release_expired_claimInv
  <1>4. ASSUME NEW u \in Users, prepare_operator(u), UNCHANGED listing
        PROVE  ListingInv'
    BY <1>4, prepare_operatorInv
  <1>5. ASSUME wait, UNCHANGED listing
        PROVE  ListingInv'
    <2>1. now' \in Times
      BY <1>5, ChainAssumption DEF wait, passes, Times, ListingInv, ListingTypeOK, AccountsTypeOK
    <2>2. QED
      BY <1>5, <2>1 DEF wait, ListingInv, ListingTypeOK, AccountsTypeOK, HoldersAreKnown,
                        CountersAreRight, HeldBy, Claimed
  <1>6. CASE UNCHANGED listingVars
    BY <1>6 DEF listingVars, accountVars, ListingInv, ListingTypeOK, AccountsTypeOK,
                HoldersAreKnown, CountersAreRight, HeldBy, Claimed
  <1>7. QED
    BY <1>1, <1>2, <1>3, <1>4, <1>5, <1>6 DEF ListingNext

LEMMA SpecListing == ListingSpec => []ListingInv
  BY ListingInvInit, ListingInvStep, PTL DEF ListingSpec

\* The counter that limits an operator's claims is the number of listings the operator holds,
\* whoever releases what has expired.
THEOREM CountersFollowClaims == ListingSpec => []ClaimsAreCounted
  <1>1. ListingInv => ClaimsAreCounted
    BY DEF ListingInv, CountersAreRight, HeldBy, ClaimsAreCounted
  <1>2. QED
    BY <1>1, SpecListing, PTL

\* Nothing takes a claimed listing from its holder before the term is over.
THEOREM HoldersKeepTheirTerm == ListingSpec => ClaimKeepsItsTerm
  <1>1. ListingInv /\ [ListingNext]_listingVars =>
          [\A b \in Listings :
             Claimed(b) /\ listing'[b] # listing[b] =>
               /\ now - listing[b].claimedAt > Term(b)
               /\ listing'[b].claimedBy = None]_listingVars
    <2> SUFFICES ASSUME ListingInv, ListingNext, NEW b \in Listings,
                        Claimed(b), listing'[b] # listing[b]
                 PROVE  now - listing[b].claimedAt > Term(b) /\ listing'[b].claimedBy = None
      OBVIOUS
    <2>1. /\ listing \in [Listings -> Listing \cup {None}] /\ listing[b] \in Listing
          /\ now \in Nat /\ listing[b].claimedAt \in Nat /\ Term(b) \in Nat
      BY ListingAssumption DEF ListingInv, ListingTypeOK, AccountsTypeOK, Claimed, Listing, Times, Term
    <2>2. \A c \in Listings, u \in Users, source \in {"Treasury", "Commercial"}, timeout \in Timeouts :
            ~post_bounty_listing(c, u, source, timeout)
      BY <2>1 DEF post_bounty_listing, Claimed
    <2>3. \A c \in Listings, u \in Users : ~claim_bounty(c, u)
      BY <2>1 DEF claim_bounty, Claimed
    <2>4. PICK c \in Listings, u \in Users : release_expired_claim(c, u)
      BY <2>2, <2>3 DEF ListingNext
    <2>5. c = b
      BY <2>1, <2>4 DEF release_expired_claim
    <2>6. now > listing[b].claimedAt + Term(b)
      BY <2>4, <2>5 DEF release_expired_claim
    <2>7. listing'[b].claimedBy = None
      BY <2>1, <2>4, <2>5 DEF release_expired_claim, Listing
    <2>8. QED
      BY <2>1, <2>6, <2>7
  <1>2. QED
    BY <1>1, SpecListing, PTL DEF ListingSpec, ClaimKeepsItsTerm

-----------------------------------------------------------------------------
(* The registry of contribution types. *)

\* A frozen registry has only frozen entries: freezing the whole freezes each of them, and
\* nothing is added afterwards.
FrozenIsWhole ==
  registry # None /\ registry.frozen => \A i \in Types : registry.entries[i].frozen

RegistryInv == RegistryTypeOK /\ FrozenIsWhole

-----------------------------------------------------------------------------
(* The entries of the registry. *)

\* A registry has its entries in one interval.
LEMMA EntriesOfRegistry ==
  ASSUME NEW r \in Registry
  PROVE  \E n \in 0 .. MaxTypes :
           r.entries \in [1 .. n -> Entry] /\ Cardinality(DOMAIN r.entries) = n
  <1>1. PICK n \in 0 .. MaxTypes : r.entries \in [1 .. n -> Entry]
    BY DEF Registry
  <1>2. Cardinality(1 .. n) = n
    BY <1>1, RegistryAssumption, FS_Interval
  <1>3. QED
    BY <1>1, <1>2

-----------------------------------------------------------------------------
(* Each instruction keeps the invariant of the registry. *)

LEMMA RegistryInvInit == RegistryInit => RegistryInv
  BY ChainAssumption DEF RegistryInit, RegistryInv, RegistryTypeOK, FrozenIsWhole, Times

LEMMA initialize_registryInv ==
  ASSUME RegistryInv, initialize_registry
  PROVE  RegistryInv'
  <1>1. PICK multiplier \in Multipliers :
          registry' = [ entries |-> [i \in 1 .. FirstTypes |-> NewEntry(multiplier, "Technical")],
                        frozen |-> FALSE, deadline |-> now + FreezeAfter, extensions |-> 0 ]
    BY DEF initialize_registry
  <1>2. [i \in 1 .. FirstTypes |-> NewEntry(multiplier, "Technical")] \in [1 .. FirstTypes -> Entry]
    BY DEF NewEntry, Entry, Categories
  <1>3. now + FreezeAfter \in Nat /\ 0 \in 0 .. MaxExtensions /\ FirstTypes \in 0 .. MaxTypes
    BY RegistryAssumption, ChainAssumption DEF RegistryInv, RegistryTypeOK, Times
  <1>4. registry' \in Registry
    BY <1>1, <1>2, <1>3 DEF Registry
  <1>5. QED
    BY <1>1, <1>4 DEF initialize_registry, RegistryInv, RegistryTypeOK, FrozenIsWhole

LEMMA add_contribution_typeInv ==
  ASSUME RegistryInv, NEW multiplier \in Multipliers, NEW category \in Categories,
         add_contribution_type(multiplier, category)
  PROVE  RegistryInv'
  <1>1. registry \in Registry /\ ~registry.frozen
    BY DEF RegistryInv, RegistryTypeOK, add_contribution_type, Changeable
  <1>2. PICK n \in 0 .. MaxTypes :
          registry.entries \in [1 .. n -> Entry] /\ Cardinality(Types) = n
    BY <1>1, EntriesOfRegistry DEF Types
  <1> DEFINE entries == [i \in 1 .. n + 1 |->
               IF i \in Types THEN registry.entries[i] ELSE NewEntry(multiplier, category)]
  <1>3. n + 1 \in 0 .. MaxTypes
    BY <1>2, RegistryAssumption DEF add_contribution_type
  <1>4. entries \in [1 .. n + 1 -> Entry]
    BY <1>2 DEF Types, NewEntry, Entry
  <1>5. registry' = [registry EXCEPT !.entries = entries]
    BY <1>2 DEF add_contribution_type
  <1>6. registry' \in Registry /\ registry'.frozen = registry.frozen
    BY <1>1, <1>3, <1>4, <1>5 DEF Registry
  <1>7. QED
    BY <1>1, <1>6 DEF RegistryInv, RegistryTypeOK, FrozenIsWhole, add_contribution_type

LEMMA update_contribution_typeInv ==
  ASSUME RegistryInv, NEW i \in 1 .. MaxTypes, NEW multiplier \in Multipliers,
         NEW category \in Categories, update_contribution_type(i, multiplier, category)
  PROVE  RegistryInv'
  <1>1. registry \in Registry /\ ~registry.frozen /\ i \in Types
    BY DEF RegistryInv, RegistryTypeOK, update_contribution_type, Changeable
  <1>2. PICK n \in 0 .. MaxTypes : registry.entries \in [1 .. n -> Entry]
    BY <1>1, EntriesOfRegistry
  <1> DEFINE entries == [registry.entries EXCEPT
               ![i] = [@ EXCEPT !.multiplier = multiplier, !.category = category]]
  <1>3. entries \in [1 .. n -> Entry]
    BY <1>1, <1>2 DEF Types, Entry
  <1>4. registry' = [registry EXCEPT !.entries = entries]
    BY <1>1, <1>2, ZenonT(60) DEF update_contribution_type, Registry
  <1>5. registry' \in Registry /\ registry'.frozen = registry.frozen
    BY <1>1, <1>3, <1>4 DEF Registry
  <1>6. QED
    BY <1>1, <1>5 DEF RegistryInv, RegistryTypeOK, FrozenIsWhole, update_contribution_type

LEMMA freeze_entryInv ==
  ASSUME RegistryInv, NEW i \in 1 .. MaxTypes, freeze_entry(i)
  PROVE  RegistryInv'
  <1>1. registry \in Registry /\ ~registry.frozen /\ i \in Types
    BY DEF RegistryInv, RegistryTypeOK, freeze_entry, Changeable
  <1>2. PICK n \in 0 .. MaxTypes : registry.entries \in [1 .. n -> Entry]
    BY <1>1, EntriesOfRegistry
  <1> DEFINE entries == [registry.entries EXCEPT ![i] = [@ EXCEPT !.frozen = TRUE]]
  <1>3. entries \in [1 .. n -> Entry]
    BY <1>1, <1>2 DEF Types, Entry
  <1>4. registry' = [registry EXCEPT !.entries = entries]
    BY <1>1, <1>2 DEF freeze_entry, Registry
  <1>5. registry' \in Registry /\ registry'.frozen = registry.frozen
    BY <1>1, <1>3, <1>4 DEF Registry
  <1>6. QED
    BY <1>1, <1>5 DEF RegistryInv, RegistryTypeOK, FrozenIsWhole, freeze_entry

\* Freezing the whole, by the oracle or by anybody after the deadline.
LEMMA AllFrozenInv ==
  ASSUME RegistryInv, Changeable, registry' = AllFrozen(registry), UNCHANGED now
  PROVE  RegistryInv'
  <1>1. registry \in Registry
    BY DEF RegistryInv, RegistryTypeOK, Changeable
  <1>2. PICK n \in 0 .. MaxTypes : registry.entries \in [1 .. n -> Entry]
    BY <1>1, EntriesOfRegistry
  <1> DEFINE entries == [i \in 1 .. n |-> [registry.entries[i] EXCEPT !.frozen = TRUE]]
  <1>3. entries \in [1 .. n -> Entry] /\ \A i \in 1 .. n : entries[i].frozen
    BY <1>2 DEF Entry
  <1>4. registry' = [registry EXCEPT !.frozen = TRUE, !.entries = entries]
    BY <1>2 DEF AllFrozen
  <1> HIDE DEF entries
  <1>5. registry'.entries = entries
    BY <1>1, <1>4 DEF Registry
  <1>6. entries \in UNION {[1 .. m -> Entry] : m \in 0 .. MaxTypes}
    BY <1>3
  <1>7. registry' \in Registry
    BY <1>1, <1>4, <1>6, Zenon DEF Registry
  <1>8. DOMAIN entries = 1 .. n
    BY <1>3
  <1>9. QED
    BY <1>3, <1>5, <1>7, <1>8 DEF RegistryInv, RegistryTypeOK, FrozenIsWhole, Types

LEMMA extend_freeze_deadlineInv ==
  ASSUME RegistryInv, extend_freeze_deadline
  PROVE  RegistryInv'
  <1>1. registry \in Registry /\ ~registry.frozen
    BY DEF RegistryInv, RegistryTypeOK, extend_freeze_deadline, Changeable
  <1>2. registry.deadline + Extension \in Nat /\ registry.extensions + 1 \in 0 .. MaxExtensions
    BY <1>1, RegistryAssumption DEF Registry, extend_freeze_deadline
  <1>3. registry' \in Registry /\ registry'.frozen = registry.frozen
    BY <1>1, <1>2 DEF Registry, extend_freeze_deadline
  <1>4. QED
    BY <1>1, <1>3 DEF RegistryInv, RegistryTypeOK, FrozenIsWhole, extend_freeze_deadline

LEMMA RegistryInvNext == RegistryInv /\ [RegistryNext]_registryVars => RegistryInv'
  <1> SUFFICES ASSUME RegistryInv, [RegistryNext]_registryVars
               PROVE  RegistryInv'
    OBVIOUS
  <1>1. CASE initialize_registry
    BY <1>1, initialize_registryInv
  <1>2. CASE \E multiplier \in Multipliers, category \in Categories :
               add_contribution_type(multiplier, category)
    BY <1>2, add_contribution_typeInv
  <1>3. CASE \E multiplier \in Multipliers, category \in Categories, i \in 1 .. MaxTypes :
               update_contribution_type(i, multiplier, category)
    BY <1>3, update_contribution_typeInv
  <1>4. CASE \E i \in 1 .. MaxTypes : freeze_entry(i)
    BY <1>4, freeze_entryInv
  <1>5. CASE freeze_registry \/ auto_freeze_registry
    BY <1>5, AllFrozenInv DEF freeze_registry, auto_freeze_registry
  <1>6. CASE extend_freeze_deadline
    BY <1>6, extend_freeze_deadlineInv
  <1>7. CASE passes /\ UNCHANGED registry
    <2>1. now' \in Times
      BY <1>7, ChainAssumption DEF passes, RegistryInv, RegistryTypeOK, Times
    <2>2. QED
      BY <1>7, <2>1 DEF RegistryInv, RegistryTypeOK, FrozenIsWhole, Types
  <1>8. CASE UNCHANGED registryVars
    BY <1>8 DEF registryVars, RegistryInv, RegistryTypeOK, FrozenIsWhole, Types
  <1>9. QED
    BY <1>1, <1>2, <1>3, <1>4, <1>5, <1>6, <1>7, <1>8 DEF RegistryNext

\* The registry keeps its type, and never has a frozen whole with an entry that is not.
THEOREM RegistryCorrect == RegistrySpec => []RegistryInv
  BY RegistryInvInit, RegistryInvNext, PTL DEF RegistrySpec

-----------------------------------------------------------------------------
(* What is frozen stays as it is. *)

\* What FrozenIsForever says of one step.
FrozenKept ==
  registry # None =>
    /\ \A i \in Types : registry.entries[i].frozen => registry'.entries[i] = registry.entries[i]
    /\ registry.frozen =>
         /\ registry' = registry
         /\ \A i \in Types : registry.entries[i].frozen

\* An instruction that changes the registry finds it not frozen.
LEMMA FrozenStepKeeps ==
  ASSUME RegistryInv, RegistryNext
  PROVE  FrozenKept
  <1> SUFFICES ASSUME registry # None
               PROVE  FrozenKept
    BY DEF FrozenKept
  <1>1. registry \in Registry
    BY DEF RegistryInv, RegistryTypeOK
  <1>2. PICK n \in 0 .. MaxTypes :
          registry.entries \in [1 .. n -> Entry] /\ Cardinality(Types) = n /\ Types = 1 .. n
    BY <1>1, EntriesOfRegistry DEF Types
  <1>3. CASE UNCHANGED registry
    BY <1>3 DEF FrozenKept, RegistryInv, FrozenIsWhole
  <1>4. ASSUME NEW multiplier, NEW category, add_contribution_type(multiplier, category)
        PROVE  FrozenKept
    <2>1. registry'.entries = [i \in 1 .. n + 1 |->
            IF i \in Types THEN registry.entries[i] ELSE NewEntry(multiplier, category)]
      BY <1>1, <1>2, <1>4 DEF add_contribution_type, Registry
    <2>2. \A i \in Types : registry'.entries[i] = registry.entries[i]
      BY <1>2, <2>1
    <2>3. QED
      BY <1>4, <2>2 DEF FrozenKept, add_contribution_type, Changeable
  <1>5. ASSUME NEW j, NEW multiplier, NEW category, update_contribution_type(j, multiplier, category)
        PROVE  FrozenKept
    <2>1. \A i \in Types \ {j} : registry'.entries[i] = registry.entries[i]
      BY <1>1, <1>2, <1>5 DEF update_contribution_type, Registry
    <2>2. QED
      BY <1>5, <2>1 DEF FrozenKept, update_contribution_type, Changeable
  <1>6. ASSUME NEW j, freeze_entry(j)
        PROVE  FrozenKept
    <2>1. \A i \in Types \ {j} : registry'.entries[i] = registry.entries[i]
      BY <1>1, <1>2, <1>6 DEF freeze_entry, Registry
    <2>2. registry.entries[j] \in Entry /\ j \in 1 .. n
      BY <1>2, <1>6 DEF freeze_entry
    <2>3. registry'.entries[j] = [registry.entries[j] EXCEPT !.frozen = TRUE]
      BY <1>1, <1>2, <1>6, <2>2 DEF freeze_entry, Registry
    <2>4. registry.entries[j].frozen => registry'.entries[j] = registry.entries[j]
      BY <2>2, <2>3 DEF Entry
    <2>5. QED
      BY <1>6, <2>1, <2>4 DEF FrozenKept, freeze_entry, Changeable
  <1>7. CASE freeze_registry \/ auto_freeze_registry
    <2>1. registry'.entries = [i \in Types |-> [registry.entries[i] EXCEPT !.frozen = TRUE]]
      BY <1>1, <1>7 DEF freeze_registry, auto_freeze_registry, AllFrozen, Types, Registry
    <2>2. ASSUME NEW i \in Types, registry.entries[i].frozen
          PROVE  registry'.entries[i] = registry.entries[i]
      <3>1. registry.entries[i] \in Entry
        BY <1>2
      <3>2. [registry.entries[i] EXCEPT !.frozen = TRUE] = registry.entries[i]
        BY <2>2, <3>1, Zenon DEF Entry
      <3>3. QED
        BY <2>1, <2>2, <3>2
    <2>3. QED
      BY <1>7, <2>2 DEF FrozenKept, freeze_registry, auto_freeze_registry, Changeable
  <1>8. CASE extend_freeze_deadline
    <2>1. registry'.entries = registry.entries
      BY <1>1, <1>8 DEF extend_freeze_deadline, Registry
    <2>2. QED
      BY <1>8, <2>1 DEF FrozenKept, extend_freeze_deadline, Changeable
  <1>9. ~initialize_registry
    BY DEF initialize_registry
  <1>10. QED
    BY <1>3, <1>4, <1>5, <1>6, <1>7, <1>8, <1>9 DEF RegistryNext

\* A frozen entry keeps its multiplier and its pool, and a frozen registry is never changed,
\* extended or added to again, whoever acts and however late.
THEOREM FrozenStays == RegistrySpec => FrozenIsForever
  <1>1. RegistryInv /\ [RegistryNext]_registryVars => [FrozenKept]_registryVars
    BY FrozenStepKeeps
  <1>2. RegistrySpec => [][FrozenKept]_registryVars
    BY <1>1, RegistryCorrect, PTL DEF RegistrySpec
  <1>3. QED
    BY <1>2 DEF FrozenIsForever, FrozenKept

-----------------------------------------------------------------------------
(* Escrow, proofs of bounty and decay. *)

\* One account gains an amount.
AddedTo(held, x, amount) == [h \in Holders |-> held[h] + (IF h = x THEN amount ELSE 0)]

\* The total gains as much.
LEMMA AddedHolds ==
  ASSUME NEW held \in [Holders -> Nat], NEW x \in Holders, NEW amount \in Nat
  PROVE  /\ AddedTo(held, x, amount) \in [Holders -> Nat]
         /\ TotalHeld(held) \in Nat
         /\ TotalHeld(AddedTo(held, x, amount)) = TotalHeld(held) + amount
  <1>1. PICK new : new = AddedTo(held, x, amount)
    OBVIOUS
  <1>2. new = [h \in Holders |-> held[h] + (IF h = x THEN amount ELSE 0)]
    BY <1>1 DEF AddedTo
  <1>3. \A h \in Holders : held[h] \in Nat /\ held[h] + (IF h = x THEN amount ELSE 0) \in Nat
    OBVIOUS
  <1>4. new \in [Holders -> Nat] /\ new[x] = held[x] + amount
    BY <1>2, <1>3
  <1>5. \A h \in Holders : h # x => new[h] = held[h]
    BY <1>2, <1>3
  <1>6. Total(held, Holders) \in Nat
    BY HoldersAreFinite, TotalType
  <1>7. \A h \in Holders : held[h] \in Nat /\ new[h] \in Nat
    BY <1>4
  <1>8. Total(new, Holders) = Total(held, Holders) - held[x] + new[x]
    BY <1>5, <1>7, HoldersAreFinite, TotalChanges
  <1>9. QED
    BY <1>1, <1>4, <1>6, <1>7, <1>8 DEF TotalHeld

\* Nobody holds anything.
LEMMA NobodyHolds ==
  ASSUME NEW f, f = [h \in Holders |-> 0]
  PROVE  f \in [Holders -> Nat] /\ TotalHeld(f) = 0
  <1>1. \A h \in Holders : f[h] = 0
    OBVIOUS
  <1>2. Total(f, Holders) = 0
    BY <1>1, TotalOfZeros
  <1>3. QED
    BY <1>2 DEF TotalHeld

\* The amounts an escrow is paid out in are all of it.
PaidInFull(amount, fee, operator, earned, reviewer, review) ==
  /\ amount \in Nat /\ earned \in Nat /\ review \in Nat
  /\ fee.holders \in Nat /\ fee.labs \in Nat /\ fee.burn \in Nat
  /\ operator \in Holders /\ reviewer \in Holders
  /\ amount = earned + review + fee.holders + fee.labs + fee.burn

\* An escrow that is paid out goes to the four accounts and is burned, and nothing is left.
LEMMA NothingIsLeft ==
  Held \in [Holders -> Nat] =>
    \A amount, fee, operator, earned, reviewer, review :
      PaidInFull(amount, fee, operator, earned, reviewer, review) =>
         /\ PaidOut(amount, fee, operator, earned, reviewer, review).held \in [Holders -> Nat]
         /\ PaidOut(amount, fee, operator, earned, reviewer, review).left = 0
         /\ TotalHeld(Held) \in Nat
         /\ TotalHeld(PaidOut(amount, fee, operator, earned, reviewer, review).held)
              = TotalHeld(Held) + amount - fee.burn
  <1>a. SUFFICES ASSUME Held \in [Holders -> Nat], NEW amount, NEW fee, NEW operator, NEW earned,
                        NEW reviewer, NEW review,
                        PaidInFull(amount, fee, operator, earned, reviewer, review)
        PROVE
         /\ PaidOut(amount, fee, operator, earned, reviewer, review).held \in [Holders -> Nat]
         /\ PaidOut(amount, fee, operator, earned, reviewer, review).left = 0
         /\ TotalHeld(Held) \in Nat
         /\ TotalHeld(PaidOut(amount, fee, operator, earned, reviewer, review).held)
              = TotalHeld(Held) + amount - fee.burn
    BY Zenon
  <1>b. /\ Held \in [Holders -> Nat]
        /\ amount \in Nat /\ earned \in Nat /\ review \in Nat
        /\ fee.holders \in Nat /\ fee.labs \in Nat /\ fee.burn \in Nat
        /\ operator \in Holders /\ reviewer \in Holders
        /\ amount = earned + review + fee.holders + fee.labs + fee.burn
    BY <1>a, Zenon DEF PaidInFull
  <1> USE <1>b
  <1>1. PICK pool \in Holders : pool = "holder_pool"
    BY EscrowAssumption, HoldersAreFinite
  <1>2. PICK labs \in Holders : labs = "labs_wallet"
    BY EscrowAssumption, HoldersAreFinite
  <1>3. PICK held : held = Held
    OBVIOUS
  <1>4. PICK to : to = [h \in Holders |->
                   (IF h = operator THEN earned ELSE 0) + (IF h = reviewer THEN review ELSE 0)
                 + (IF h = pool THEN fee.holders ELSE 0) + (IF h = labs THEN fee.labs ELSE 0)]
    OBVIOUS
  <1>5. PICK new : new = [h \in Holders |-> held[h] + to[h]]
    OBVIOUS
  <1>6. PaidOut(amount, fee, operator, earned, reviewer, review)
          = [held |-> new, left |-> amount - TotalHeld(to) - fee.burn]
    BY <1>1, <1>2, <1>3, <1>4, <1>5, Zenon DEF PaidOut
  <1>7. PICK c \in Nat : c = fee.holders
    OBVIOUS
  <1>8. PICK d \in Nat : d = fee.labs
    OBVIOUS
  <1>9. ASSUME NEW f \in [Holders -> Nat]
        PROVE  /\ TotalHeld(f) \in Nat
               /\ [h \in Holders |-> f[h] + to[h]] \in [Holders -> Nat]
               /\ TotalHeld([h \in Holders |-> f[h] + to[h]])
                    = TotalHeld(f) + earned + review + c + d
    <2>1. PICK f1 : f1 = AddedTo(f, operator, earned)
      OBVIOUS
    <2>2. f1 \in [Holders -> Nat] /\ TotalHeld(f) \in Nat /\ TotalHeld(f1) = TotalHeld(f) + earned
      BY <2>1, AddedHolds
    <2>3. PICK f2 : f2 = AddedTo(f1, reviewer, review)
      OBVIOUS
    <2>4. f2 \in [Holders -> Nat] /\ TotalHeld(f2) = TotalHeld(f1) + review
      BY <2>2, <2>3, AddedHolds
    <2>5. PICK f3 : f3 = AddedTo(f2, pool, c)
      OBVIOUS
    <2>6. f3 \in [Holders -> Nat] /\ TotalHeld(f3) = TotalHeld(f2) + c
      BY <2>4, <2>5, AddedHolds, ZenonT(60)
    <2>7. PICK f4 : f4 = AddedTo(f3, labs, d)
      OBVIOUS
    <2>8. f4 \in [Holders -> Nat] /\ TotalHeld(f4) = TotalHeld(f3) + d
      BY <2>6, <2>7, AddedHolds, ZenonT(60)
    <2>9. ASSUME NEW h \in Holders PROVE f4[h] = f[h] + to[h]
      <3>1. f1[h] = f[h] + (IF h = operator THEN earned ELSE 0)
        BY <2>1 DEF AddedTo
      <3>2. f2[h] = f1[h] + (IF h = reviewer THEN review ELSE 0)
        BY <2>3 DEF AddedTo
      <3>3. f3[h] = f2[h] + (IF h = pool THEN c ELSE 0)
        BY <2>5 DEF AddedTo
      <3>4. f4[h] = f3[h] + (IF h = labs THEN d ELSE 0)
        BY <2>7 DEF AddedTo
      <3>5. to[h] = (IF h = operator THEN earned ELSE 0) + (IF h = reviewer THEN review ELSE 0)
                  + (IF h = pool THEN c ELSE 0) + (IF h = labs THEN d ELSE 0)
        BY <1>4, <1>7, <1>8
      <3>6. f[h] \in Nat
        OBVIOUS
      <3>7. QED
        BY <3>1, <3>2, <3>3, <3>4, <3>5, <3>6
    <2>10. f4 = [h \in Holders |-> f[h] + to[h]]
      <3>1. f4 = [h \in Holders |-> f4[h]]
        BY <2>8
      <3>2. QED
        BY <2>9, <3>1, Zenon
    <2>11. TotalHeld(f4) = TotalHeld(f) + earned + review + c + d
      BY <2>2, <2>4, <2>6, <2>8
    <2>12. QED
      BY <2>2, <2>8, <2>10, <2>11, Zenon
  <1>10. /\ new \in [Holders -> Nat] /\ TotalHeld(held) \in Nat
         /\ TotalHeld(new) = TotalHeld(held) + earned + review + c + d
    BY <1>3, <1>5, <1>9, Zenon
  <1>11. TotalHeld(to) = earned + review + c + d
    <2>1. PICK zero : zero = [h \in Holders |-> 0]
      OBVIOUS
    <2>2. zero \in [Holders -> Nat] /\ TotalHeld(zero) = 0
      BY <2>1, NobodyHolds
    <2>3. TotalHeld([h \in Holders |-> zero[h] + to[h]]) = 0 + earned + review + c + d
      BY <1>9, <2>2, Zenon
    <2>4. \A h \in Holders : to[h] \in Int
      BY <1>4, <1>7, <1>8
    <2>5. \A h \in Holders : zero[h] + to[h] = to[h]
      BY <2>1, <2>4
    <2>6. to = [h \in Holders |-> zero[h] + to[h]]
      <3>1. to = [h \in Holders |-> to[h]]
        BY <1>4
      <3>2. QED
        BY <2>5, <3>1, Zenon
    <2>7. QED
      BY <2>3, <2>6
  <1>12. PICK e \in Nat : e = fee.burn
    OBVIOUS
  <1>13. amount = earned + review + c + d + e
    BY <1>7, <1>8, <1>12
  <1>14. amount - TotalHeld(to) - e = 0 /\ TotalHeld(new) = TotalHeld(held) + amount - e
    <2>1. PICK t \in Nat : t = TotalHeld(to) /\ t = earned + review + c + d
      BY <1>11
    <2>2. PICK x \in Nat : x = TotalHeld(held)
      BY <1>10
    <2>3. PICK y : y = TotalHeld(new)
      OBVIOUS
    <2>4. y = x + earned + review + c + d
      BY <1>10, <2>2, <2>3, Zenon
    <2>5. amount - t - e = 0 /\ y = x + amount - e
      BY <1>13, <2>1, <2>4
    <2>6. QED
      BY <2>1, <2>2, <2>3, <2>5, Zenon
  <1>15. /\ PaidOut(amount, fee, operator, earned, reviewer, review).held = new
         /\ PaidOut(amount, fee, operator, earned, reviewer, review).left
              = amount - TotalHeld(to) - fee.burn
    BY <1>6
  <1>16. QED
    BY <1>3, <1>10, <1>12, <1>14, <1>15, Zenon

\* What is escrowed of a mint: the total over all bounties of what each holds of it.
InMint(e, m) ==
  [b \in Bounties |-> IF e[b] # None /\ e[b].mint = m THEN e[b].amount ELSE 0]

\* The total of the property is a total over all bounties.
LEMMA EscrowedTotal ==
  ASSUME NEW m
  PROVE  Total([b \in EscrowedIn(m) |-> escrow[b].amount], EscrowedIn(m))
           = Total(InMint(escrow, m), Bounties)
  <1>1. PICK f : f = InMint(escrow, m)
    OBVIOUS
  <1>2. PICK S : S = EscrowedIn(m)
    OBVIOUS
  <1>3. PICK T : T = Bounties \ S
    OBVIOUS
  <1>4. \A b \in T : f[b] = 0
    BY <1>1, <1>2, <1>3 DEF InMint, EscrowedIn
  <1>5. Total(f, S \cup T) = Total(f, S)
    BY <1>4, TotalIgnoresZeros
  <1>6. S \cup T = Bounties
    BY <1>2, <1>3 DEF EscrowedIn
  <1>7. PICK g : g = [b \in S |-> escrow[b].amount]
    OBVIOUS
  <1>8. \A b \in S : g[b] = f[b]
    BY <1>1, <1>2, <1>7 DEF InMint, EscrowedIn
  <1>9. Total(g, S) = Total(f, S)
    BY <1>8, TotalSame
  <1>10. QED
    BY <1>1, <1>2, <1>5, <1>6, <1>7, <1>9

\* One bounty's summand changes.
LEMMA SummandChanges ==
  \A f, g : \A b \in Bounties :
    /\ \A c \in Bounties : f[c] \in Nat /\ g[c] \in Nat
    /\ \A c \in Bounties : c # b => g[c] = f[c]
    => /\ Total(f, Bounties) \in Nat
       /\ Total(g, Bounties) = Total(f, Bounties) - f[b] + g[b]
  <1> SUFFICES ASSUME NEW f, NEW g, NEW b \in Bounties,
                      \A c \in Bounties : f[c] \in Nat /\ g[c] \in Nat,
                      \A c \in Bounties : c # b => g[c] = f[c]
               PROVE  /\ Total(f, Bounties) \in Nat
                      /\ Total(g, Bounties) = Total(f, Bounties) - f[b] + g[b]
    OBVIOUS
  <1>1. IsFiniteSet(Bounties)
    BY EscrowAssumption
  <1>2. Total(f, Bounties) \in Nat
    BY <1>1, TotalType
  <1>3. Total(g, Bounties) = Total(f, Bounties) - f[b] + g[b]
    BY <1>1, TotalChanges
  <1>4. QED
    BY <1>2, <1>3

\* One escrow changes.
LEMMA EscrowChanges ==
  ASSUME NEW e \in [Bounties -> Escrow \cup {None}], NEW b \in Bounties, NEW row \in Escrow,
         NEW d \in [Bounties -> Escrow \cup {None}], d[b] = row,
         \A c \in Bounties : c # b => d[c] = e[c],
         NEW old \in Nat, e[b] = None => old = 0,
         e[b] # None => e[b].mint = row.mint /\ e[b].amount = old
  PROVE  /\ \A m \in Mints : /\ Total(InMint(e, m), Bounties) \in Nat
                             /\ m # row.mint =>
                                  Total(InMint(d, m), Bounties) = Total(InMint(e, m), Bounties)
         /\ Total(InMint(d, row.mint), Bounties)
              = Total(InMint(e, row.mint), Bounties) - old + row.amount
  <1>1. row # None /\ row.mint \in Mints /\ row.amount \in Nat
    BY NoneIsNoAccount DEF Escrow
  <1>2. ASSUME NEW m \in Mints
        PROVE  /\ \A c \in Bounties : /\ InMint(e, m)[c] \in Nat /\ InMint(d, m)[c] \in Nat
                                      /\ c # b => InMint(d, m)[c] = InMint(e, m)[c]
               /\ m # row.mint => InMint(d, m)[b] = 0 /\ InMint(e, m)[b] = 0
               /\ m = row.mint => InMint(d, m)[b] = row.amount /\ InMint(e, m)[b] = old
    <2>1. \A c \in Bounties :
            /\ InMint(e, m)[c] = IF e[c] # None /\ e[c].mint = m THEN e[c].amount ELSE 0
            /\ InMint(d, m)[c] = IF d[c] # None /\ d[c].mint = m THEN d[c].amount ELSE 0
      BY DEF InMint
    <2>2. ASSUME NEW c \in Bounties PROVE InMint(e, m)[c] \in Nat /\ InMint(d, m)[c] \in Nat
      <3>1. /\ e[c] # None => e[c].amount \in Nat
            /\ d[c] # None => d[c].amount \in Nat
        BY DEF Escrow
      <3>2. QED
        BY <2>1, <3>1
    <2>3. ASSUME NEW c \in Bounties, c # b PROVE InMint(d, m)[c] = InMint(e, m)[c]
      BY <2>1, <2>3, Zenon
    <2>4. CASE m # row.mint
      BY <1>1, <2>1, <2>2, <2>3, <2>4
    <2>5. CASE m = row.mint
      BY <1>1, <2>1, <2>2, <2>3, <2>5
    <2>6. QED
      BY <2>4, <2>5
  <1>3. ASSUME NEW m \in Mints
        PROVE  /\ Total(InMint(e, m), Bounties) \in Nat
               /\ Total(InMint(d, m), Bounties)
                    = Total(InMint(e, m), Bounties) - InMint(e, m)[b] + InMint(d, m)[b]
    <2>1. \A c \in Bounties : InMint(e, m)[c] \in Nat /\ InMint(d, m)[c] \in Nat
      BY <1>2, Zenon
    <2>2. \A c \in Bounties : c # b => InMint(d, m)[c] = InMint(e, m)[c]
      BY <1>2, Zenon
    <2>3. QED
      BY <2>1, <2>2, SummandChanges, Zenon
  <1>4. ASSUME NEW m \in Mints, m # row.mint
        PROVE  Total(InMint(d, m), Bounties) = Total(InMint(e, m), Bounties)
    BY <1>2, <1>3, <1>4
  <1>5. QED
    BY <1>1, <1>2, <1>3, <1>4

\* What a proof adds: the totals over the bounties of an operator and over all.
TokensOf(p, u) == [b \in Bounties |-> IF p[b] # None /\ p[b].operator = u THEN p[b].tokens ELSE 0]
PaidIn(p) == [b \in Bounties |-> IF p[b] # None THEN p[b].tokens + p[b].reviewer ELSE 0]

\* The totals of the properties are totals over all bounties.
LEMMA ProofTotals ==
  /\ \A u : Total([b \in ProofsOf(u) |-> proofs[b].tokens], ProofsOf(u))
              = Total(TokensOf(proofs, u), Bounties)
  /\ Total([b \in Proven |-> proofs[b].tokens + proofs[b].reviewer], Proven)
       = Total(PaidIn(proofs), Bounties)
  <1>1. ASSUME NEW u
        PROVE  Total([b \in ProofsOf(u) |-> proofs[b].tokens], ProofsOf(u))
                 = Total(TokensOf(proofs, u), Bounties)
    <2>1. PICK f : f = TokensOf(proofs, u)
      OBVIOUS
    <2>2. PICK S : S = ProofsOf(u)
      OBVIOUS
    <2>3. PICK T : T = Bounties \ S
      OBVIOUS
    <2>4. \A b \in T : f[b] = 0
      BY <2>1, <2>2, <2>3 DEF TokensOf, ProofsOf
    <2>5. Total(f, S \cup T) = Total(f, S)
      BY <2>4, TotalIgnoresZeros
    <2>6. S \cup T = Bounties
      BY <2>2, <2>3 DEF ProofsOf
    <2>7. PICK g : g = [b \in S |-> proofs[b].tokens]
      OBVIOUS
    <2>8. \A b \in S : g[b] = f[b]
      BY <2>1, <2>2, <2>7 DEF TokensOf, ProofsOf
    <2>9. Total(g, S) = Total(f, S)
      BY <2>8, TotalSame
    <2>10. QED
      BY <2>1, <2>2, <2>5, <2>6, <2>7, <2>9
  <1>2. Total([b \in Proven |-> proofs[b].tokens + proofs[b].reviewer], Proven)
          = Total(PaidIn(proofs), Bounties)
    <2>1. PICK f : f = PaidIn(proofs)
      OBVIOUS
    <2>2. PICK S : S = Proven
      OBVIOUS
    <2>3. PICK T : T = Bounties \ S
      OBVIOUS
    <2>4. \A b \in T : f[b] = 0
      BY <2>1, <2>2, <2>3 DEF PaidIn, Proven
    <2>5. Total(f, S \cup T) = Total(f, S)
      BY <2>4, TotalIgnoresZeros
    <2>6. S \cup T = Bounties
      BY <2>2, <2>3 DEF Proven
    <2>7. PICK g : g = [b \in S |-> proofs[b].tokens + proofs[b].reviewer]
      OBVIOUS
    <2>8. \A b \in S : g[b] = f[b]
      BY <2>1, <2>2, <2>7 DEF PaidIn, Proven
    <2>9. Total(g, S) = Total(f, S)
      BY <2>8, TotalSame
    <2>10. QED
      BY <2>1, <2>2, <2>5, <2>6, <2>7, <2>9
  <1>3. QED
    BY <1>1, <1>2

\* One proof more: it counts for its operator and for nobody else.
LEMMA OneProofMore ==
  ASSUME NEW p \in [Bounties -> Proof \cup {None}], NEW b \in Bounties, p[b] = None,
         NEW row \in Proof, NEW q \in [Bounties -> Proof \cup {None}], q[b] = row,
         \A c \in Bounties : c # b => q[c] = p[c]
  PROVE  /\ \A u \in Users :
              /\ Total(TokensOf(p, u), Bounties) \in Nat
              /\ u # row.operator =>
                   Total(TokensOf(q, u), Bounties) = Total(TokensOf(p, u), Bounties)
              /\ u = row.operator =>
                   Total(TokensOf(q, u), Bounties) = Total(TokensOf(p, u), Bounties) + row.tokens
         /\ Total(PaidIn(p), Bounties) \in Nat
         /\ Total(PaidIn(q), Bounties) = Total(PaidIn(p), Bounties) + (row.tokens + row.reviewer)
  <1>1. /\ row # None /\ row.operator \in Users /\ row.tokens \in Nat /\ row.reviewer \in Nat
        /\ \A c \in Bounties : /\ p[c] # None => p[c].tokens \in Nat /\ p[c].reviewer \in Nat
                               /\ q[c] # None => q[c].tokens \in Nat /\ q[c].reviewer \in Nat
    BY NoneIsNoAccount DEF Proof
  <1>2. IsFiniteSet(Bounties)
    BY EscrowAssumption
  <1>3. ASSUME NEW u \in Users
        PROVE  /\ Total(TokensOf(p, u), Bounties) \in Nat
               /\ u # row.operator =>
                    Total(TokensOf(q, u), Bounties) = Total(TokensOf(p, u), Bounties)
               /\ u = row.operator =>
                    Total(TokensOf(q, u), Bounties) = Total(TokensOf(p, u), Bounties) + row.tokens
    <2>1. PICK f : f = TokensOf(p, u)
      OBVIOUS
    <2>2. PICK g : g = TokensOf(q, u)
      OBVIOUS
    <2>3. \A c \in Bounties :
            /\ f[c] = IF p[c] # None /\ p[c].operator = u THEN p[c].tokens ELSE 0
            /\ g[c] = IF q[c] # None /\ q[c].operator = u THEN q[c].tokens ELSE 0
      BY <2>1, <2>2 DEF TokensOf
    <2>4. \A c \in Bounties : f[c] \in Nat /\ g[c] \in Nat
      BY <1>1, <2>3
    <2>5. \A c \in Bounties : c # b => g[c] = f[c]
      BY <2>3, Zenon
    <2>6. f[b] = 0 /\ g[b] = IF row.operator = u THEN row.tokens ELSE 0
      BY <1>1, <2>3
    <2>7. Total(f, Bounties) \in Nat
      BY <1>2, <2>4, TotalType
    <2>8. Total(g, Bounties) = Total(f, Bounties) - f[b] + g[b]
      BY <1>2, <2>4, <2>5, TotalChanges, SMTT(60)
    <2>9. QED
      BY <1>1, <2>1, <2>2, <2>6, <2>7, <2>8
  <1>4. /\ Total(PaidIn(p), Bounties) \in Nat
        /\ Total(PaidIn(q), Bounties) = Total(PaidIn(p), Bounties) + (row.tokens + row.reviewer)
    <2>1. PICK f : f = PaidIn(p)
      OBVIOUS
    <2>2. PICK g : g = PaidIn(q)
      OBVIOUS
    <2>3. \A c \in Bounties :
            /\ f[c] = IF p[c] # None THEN p[c].tokens + p[c].reviewer ELSE 0
            /\ g[c] = IF q[c] # None THEN q[c].tokens + q[c].reviewer ELSE 0
      BY <2>1, <2>2 DEF PaidIn
    <2>4. \A c \in Bounties : f[c] \in Nat /\ g[c] \in Nat
      BY <1>1, <2>3
    <2>5. \A c \in Bounties : c # b => g[c] = f[c]
      BY <2>3, Zenon
    <2>6. f[b] = 0 /\ g[b] = row.tokens + row.reviewer
      BY <1>1, <2>3
    <2>7. Total(f, Bounties) \in Nat
      BY <1>2, <2>4, TotalType
    <2>8. Total(g, Bounties) = Total(f, Bounties) - f[b] + g[b]
      BY <1>2, <2>4, <2>5, TotalChanges
    <2>9. QED
      BY <1>1, <2>1, <2>2, <2>6, <2>7, <2>8
  <1>5. QED
    BY <1>3, <1>4

\* The same of their numbers.
LEMMA OneProofCounted ==
  ASSUME proofs \in [Bounties -> Proof \cup {None}], NEW b \in Bounties, proofs[b] = None,
         NEW row \in Proof, proofs' = [proofs EXCEPT ![b] = row]
  PROVE  /\ \A u \in Users :
              /\ u # row.operator => Cardinality(ProofsOf(u)') = Cardinality(ProofsOf(u))
              /\ u = row.operator => Cardinality(ProofsOf(u)') = Cardinality(ProofsOf(u)) + 1
         /\ Cardinality(Proven') = Cardinality(Proven) + 1
  <1>1. row # None /\ IsFiniteSet(Bounties)
    BY NoneIsNoAccount, EscrowAssumption
  <1>2. proofs'[b] = row /\ \A c \in Bounties : c # b => proofs'[c] = proofs[c]
    OBVIOUS
  <1>3. ASSUME NEW u \in Users, u # row.operator PROVE ProofsOf(u)' = ProofsOf(u)
    BY <1>1, <1>2, <1>3, Zenon DEF ProofsOf
  <1>4. ASSUME NEW u \in Users, u = row.operator
        PROVE  Cardinality(ProofsOf(u)') = Cardinality(ProofsOf(u)) + 1
    <2>1. ProofsOf(u)' = ProofsOf(u) \cup {b} /\ b \notin ProofsOf(u)
      BY <1>1, <1>2, <1>4, Zenon DEF ProofsOf
    <2>2. IsFiniteSet(ProofsOf(u))
      BY <1>1, FS_Subset DEF ProofsOf
    <2>3. QED
      BY <2>1, <2>2, FS_AddElement
  <1>5. Cardinality(Proven') = Cardinality(Proven) + 1
    <2>1. Proven' = Proven \cup {b} /\ b \notin Proven
      BY <1>1, <1>2, Zenon DEF Proven
    <2>2. IsFiniteSet(Proven)
      BY <1>1, FS_Subset DEF Proven
    <2>3. QED
      BY <2>1, <2>2, FS_AddElement
  <1>6. QED
    BY <1>3, <1>4, <1>5

\* A part of an amount is at most the amount.
LEMMA PartFits ==
  ASSUME NEW a \in Nat, NEW p \in 0 .. Whole
  PROVE  PartOf(a, p) \in Nat /\ PartOf(a, p) <= a
  <1>1. Whole \in Nat /\ p \in Nat /\ p + 0 <= Whole
    BY ChainAssumption
  <1>2. /\ PartOf(a, p) \in Nat /\ PartOf(a, 0) \in Nat
        /\ PartOf(a, p) + PartOf(a, 0) <= a
    BY <1>1, PartsFit
  <1>3. QED
    BY <1>2

\* A part grows by no more than the amount does.
LEMMA PartGrows ==
  ASSUME NEW a \in Nat, NEW t \in Nat, NEW p \in 0 .. Whole
  PROVE  PartOf(a + t, p) <= PartOf(a, p) + t
  <1>1. Whole \in Nat /\ Whole > 0 /\ p \in Nat /\ p <= Whole
    BY ChainAssumption
  <1>2. PICK x \in Nat : x = a * p
    BY <1>1
  <1>3. PICK y \in Nat : y = t * p
    BY <1>1
  <1>4. y <= t * Whole
    <2>1. PICK r \in Nat : r = Whole - p
      BY <1>1
    <2>2. t * (p + r) = t * p + t * r /\ t * r \in Nat
      BY <1>1
    <2>3. p + r = Whole
      BY <1>1, <2>1
    <2>4. t * Whole = y + t * r
      BY <1>3, <2>2, <2>3
    <2>5. QED
      BY <2>2, <2>4
  <1>5. (a + t) * p = x + y
    BY <1>1, <1>2, <1>3
  <1>6. PICK h : h = x \div Whole
    OBVIOUS
  <1>7. PICK k : k = (x + y) \div Whole
    OBVIOUS
  <1>8. h \in Nat /\ x < Whole * h + Whole
    BY <1>1, <1>6
  <1>9. k \in Nat /\ Whole * k <= x + y
    BY <1>1, <1>7
  <1>10. k <= h + t
    <2>1. SUFFICES ASSUME k >= h + t + 1 PROVE FALSE
      BY <1>8, <1>9
    <2>2. PICK e \in Nat : k = h + t + 1 + e
      <3>1. k - h - t - 1 \in Nat
        BY <1>8, <1>9, <2>1
      <3>2. QED
        BY <1>8, <1>9, <3>1
    <2>3. Whole * (h + t + 1 + e) = Whole * h + Whole * t + Whole + Whole * e /\ Whole * e \in Nat
      BY <1>1, <1>8
    <2>4. Whole * t = t * Whole /\ t * Whole \in Nat /\ Whole * h \in Nat
      BY <1>1, <1>8
    <2>5. Whole * k = Whole * h + Whole * t + Whole + Whole * e
      BY <2>2, <2>3
    <2>6. QED
      BY <1>1, <1>4, <1>8, <1>9, <2>3, <2>4, <2>5
  <1>11. QED
    BY <1>2, <1>5, <1>6, <1>7, <1>10 DEF PartOf

\* A fee is a part of the amount, and splits without a remainder.
LEMMA FeeParts ==
  ASSUME NEW amount \in Nat
  PROVE  /\ Fee(amount).total \in Nat /\ Fee(amount).total <= amount
         /\ Fee(amount).holders \in Nat /\ Fee(amount).burn \in Nat /\ Fee(amount).labs \in Nat
         /\ Fee(amount).total = Fee(amount).holders + Fee(amount).burn + Fee(amount).labs
  <1>1. /\ FeePart \in 0 .. Whole /\ HolderPart \in Nat /\ BurnPart \in Nat
        /\ HolderPart + BurnPart <= Whole
    BY EscrowAssumption, ChainAssumption
  <1>2. PICK t : t = PartOf(amount, FeePart)
    OBVIOUS
  <1>3. t \in Nat /\ t <= amount
    BY <1>1, <1>2, PartFits
  <1>4. PICK h : h = PartOf(t, HolderPart)
    OBVIOUS
  <1>5. PICK b : b = PartOf(t, BurnPart)
    OBVIOUS
  <1>6. h \in Nat /\ b \in Nat /\ h + b <= t
    BY <1>1, <1>3, <1>4, <1>5, PartsFit
  <1>7. PICK l : l = t - h - b
    OBVIOUS
  <1>8. l \in Nat /\ t = h + b + l
    BY <1>3, <1>6, <1>7
  <1>9. Fee(amount) = [total |-> t, holders |-> h, burn |-> b, labs |-> l]
    BY <1>2, <1>4, <1>5, <1>7, Zenon DEF Fee
  <1>10. QED
    BY <1>3, <1>6, <1>8, <1>9

\* Decay takes no more than is left above the floor.
LEMMA DecayStops ==
  ASSUME NEW row \in Stats, row.original = row.decayable + row.decayed,
         config.rate \in Nat, now \in Times,
         row.decayable > DecayFloor(row), DecayDue(row) > 0
  PROVE  /\ DecayAmount(row) \in Nat /\ DecayAmount(row) <= row.decayable
         /\ row.decayable - DecayAmount(row) >= DecayFloor(row)
  <1>1. /\ row.original \in Nat /\ row.decayable \in Nat /\ row.decayed \in Nat
        /\ row.decay \in Int /\ now \in Int
    BY DEF Stats, Times
  <1>2. PICK f : f = DecayFloor(row)
    OBVIOUS
  <1>3. f \in Nat
    <2>1. FloorPart \in 0 .. Whole
      BY EscrowAssumption
    <2>2. QED
      BY <1>1, <1>2, <2>1, PartFits DEF DecayFloor
  <1>4. PICK due : due = DecayDue(row)
    OBVIOUS
  <1>5. due \in Int
    <2>1. PICK s : s = Most(now - row.decay, 1)
      OBVIOUS
    <2>2. s \in Int
      BY <1>1, <2>1 DEF Most
    <2>3. row.decayable * config.rate * s \in Int
      BY <1>1, <2>2
    <2>4. Whole * Year \in Nat \ {0}
      BY ChainAssumption, EscrowAssumption
    <2>5. (row.decayable * config.rate * s) \div (Whole * Year) \in Int
      BY <2>3, <2>4
    <2>6. QED
      BY <1>4, <2>1, <2>5 DEF DecayDue
  <1>6. PICK left : left = row.original - row.decayed
    OBVIOUS
  <1>7. left = row.decayable
    BY <1>1, <1>6
  <1>8. DecayAmount(row) = Least(IF left - due < f THEN left - f ELSE due, row.decayable)
    BY <1>2, <1>4, <1>6, Zenon DEF DecayAmount
  <1>9. f < row.decayable /\ due > 0
    BY <1>2, <1>4
  <1>10. PICK x : x = row.decayable
    OBVIOUS
  <1>11. PICK a : a = Least(IF x - due < f THEN x - f ELSE due, x)
    OBVIOUS
  <1>12. a \in Nat /\ a <= x /\ x - a >= f
    BY <1>1, <1>3, <1>5, <1>9, <1>10, <1>11 DEF Least
  <1>13. QED
    BY <1>2, <1>7, <1>8, <1>10, <1>11, <1>12, Zenon

\* Administration, metrics and time touch no counter and no balance.
LEMMA AdministrationKeeps ==
  ASSUME AccountsTypeOK, administer \/ wait
  PROVE  /\ AccountsTypeOK' /\ stats' = stats
         /\ config'.bounties = config.bounties /\ config'.distributed = config.distributed
  <1>1. config \in Config /\ metrics \in Metrics \cup {None} /\ now \in Times
        /\ stats \in [Users -> Stats \cup {None}]
    BY DEF AccountsTypeOK
  <1>2. ASSUME NEW rate \in Nat, config' = [config EXCEPT !.rate = rate],
               metrics' \in Metrics \cup {None}, UNCHANGED <<now, stats>>
        PROVE  /\ AccountsTypeOK' /\ stats' = stats
               /\ config'.bounties = config.bounties /\ config'.distributed = config.distributed
    BY <1>1, <1>2 DEF AccountsTypeOK, Config
  <1>3. CASE \E rate \in Rates : update_decay_rate(rate)
    <2>1. PICK rate \in Rates : update_decay_rate(rate)
      BY <1>3
    <2>2. rate \in Nat
      BY AccountsAssumption
    <2>3. QED
      BY <1>1, <1>2, <2>1, <2>2 DEF update_decay_rate
  <1>4. CASE set_fee_recipients
    BY <1>1, <1>4 DEF set_fee_recipients, AccountsTypeOK, Config
  <1>5. CASE \E mint \in Mints : update_mint(mint)
    <2>1. PICK mint \in Mints : update_mint(mint)
      BY <1>5
    <2>2. QED
      BY <1>1, <2>1 DEF update_mint, AccountsTypeOK, Config
  <1>6. CASE initialize_metrics
    <2>1. metrics' \in Metrics
      BY <1>6, AccountsAssumption DEF initialize_metrics, Metrics
    <2>2. QED
      BY <1>1, <1>6, <2>1 DEF initialize_metrics, AccountsTypeOK
  <1>7. CASE \E p \in Profits : update_metrics(p[1], p[2])
    <2>1. PICK p \in Profits : update_metrics(p[1], p[2])
      BY <1>7
    <2>2. p[1] \in Nat /\ p[2] \in Nat
      BY AccountsAssumption
    <2>3. PICK ratio : ratio = profit_ratio(p[1], p[2])
      OBVIOUS
    <2>4. ratio \in Nat
      <3>1. Whole \in Nat /\ RatioWidth \in Nat \ {0}
        BY ChainAssumption, AccountsAssumption
      <3>2. CASE p[2] = 0
        BY <2>3, <3>2 DEF profit_ratio
      <3>3. CASE p[2] # 0
        <4>1. p[1] * Whole \in Nat
          BY <2>2, <3>1
        <4>2. (p[1] * Whole) \div p[2] \in Nat
          BY <2>2, <3>3, <4>1
        <4>3. PICK q \in Nat : q = (p[1] * Whole) \div p[2]
          BY <4>2
        <4>4. q % RatioWidth \in Nat
          BY <3>1
        <4>5. ratio = Least(q % RatioWidth, Whole)
          BY <2>3, <3>3, <4>3 DEF profit_ratio
        <4>6. QED
          BY <3>1, <4>4, <4>5 DEF Least
      <3>4. QED
        BY <3>2, <3>3
    <2>5. PICK rate : rate = decay_rate_of(ratio)
      OBVIOUS
    <2>6. rate \in Nat
      <3>1. BaseRate \in Nat /\ ProfitPart \in Nat /\ MinRate \in Nat /\ MaxRate \in Nat
        BY AccountsAssumption
      <3>2. PartOf(ratio, ProfitPart) \in Nat
        BY <2>4, <3>1, PartOfType
      <3>3. QED
        BY <2>5, <3>1, <3>2 DEF decay_rate_of, Least, Most, Less
    <2>7. /\ metrics' = [ratio |-> ratio, rate |-> rate]
          /\ config' = [config EXCEPT !.rate = rate] /\ UNCHANGED <<now, stats>>
      BY <2>1, <2>3, <2>5 DEF update_metrics
    <2>8. metrics' \in Metrics
      BY <2>4, <2>6, <2>7 DEF Metrics
    <2>9. QED
      BY <1>2, <2>6, <2>7, <2>8
  <1>8. CASE wait
    BY <1>1, <1>8, ChainAssumption DEF wait, passes, Times, AccountsTypeOK
  <1>9. QED
    BY <1>3, <1>4, <1>5, <1>6, <1>7, <1>8 DEF administer

\* The inductive invariant, with totals over all bounties.

\* Endowments are what accounts hold, what was burned and what is escrowed.
Conserved ==
  \A m \in Mints :
    TotalHeld(Endowment[m]) =
      TotalHeld(balance[m]) + burned[m] + Total(InMint(escrow, m), Bounties)

\* A bounty paid from its escrow has one, and it is empty.
PaidAreEmpty ==
  \A b \in Bounties :
    proofs[b] # None /\ proofs[b].source = "Commercial" =>
      escrow[b] # None /\ escrow[b].amount = 0

\* Whoever is named by a proof has statistics.
OperatorsAreKnown ==
  \A b \in Bounties : proofs[b] # None => stats[proofs[b].operator] # None

RowBooks(row) ==
  /\ row.original = row.earned
  /\ row.original = row.decayable + row.decayed
  /\ row.decayed = row.burned + row.recycled
  /\ row.decayable >= DecayFloor(row)

Books ==
  /\ \A u \in Users :
       stats[u] # None =>
         /\ stats[u].bounties = Cardinality(ProofsOf(u))
         /\ stats[u].earned = Total(TokensOf(proofs, u), Bounties)
         /\ RowBooks(stats[u])
  /\ config.bounties = Cardinality(Proven)
  /\ config.distributed = Total(PaidIn(proofs), Bounties)

EscrowInv == EscrowTypeOK /\ Conserved /\ PaidAreEmpty /\ OperatorsAreKnown /\ Books

\* A row that a proof credits keeps its books.
LEMMA CreditedRow ==
  ASSUME NEW row \in Stats, NEW t \in Nat, now \in Times, RowBooks(row)
  PROVE  /\ Credited(row, t) \in Stats /\ RowBooks(Credited(row, t))
         /\ Credited(row, t).bounties = row.bounties + 1
         /\ Credited(row, t).earned = row.earned + t
  <1>1. /\ row.bounties \in Nat /\ row.earned \in Nat /\ row.decayable \in Nat
        /\ row.original \in Nat /\ row.decayed \in Nat
    BY DEF Stats
  <1>2. PICK r1 : r1 = [row EXCEPT !.bounties = row.bounties + 1]
    OBVIOUS
  <1>3. r1 \in Stats /\ r1.earned = row.earned /\ r1.decayable = row.decayable
        /\ r1.original = row.original /\ r1.decayed = row.decayed /\ r1.burned = row.burned
        /\ r1.recycled = row.recycled /\ r1.bounties = row.bounties + 1
    BY <1>1, <1>2 DEF Stats
  <1>4. PICK r2 : r2 = [r1 EXCEPT !.earned = row.earned + t]
    OBVIOUS
  <1>5. r2 \in Stats /\ r2.earned = row.earned + t /\ r2.decayable = row.decayable
        /\ r2.original = row.original /\ r2.decayed = row.decayed /\ r2.burned = row.burned
        /\ r2.recycled = row.recycled /\ r2.bounties = row.bounties + 1
    BY <1>1, <1>3, <1>4 DEF Stats
  <1>6. PICK r3 : r3 = [r2 EXCEPT !.decayable = row.decayable + t]
    OBVIOUS
  <1>7. r3 \in Stats /\ r3.earned = row.earned + t /\ r3.decayable = row.decayable + t
        /\ r3.original = row.original /\ r3.decayed = row.decayed /\ r3.burned = row.burned
        /\ r3.recycled = row.recycled /\ r3.bounties = row.bounties + 1
    BY <1>1, <1>5, <1>6 DEF Stats
  <1>8. PICK r4 : r4 = [r3 EXCEPT !.original = row.original + t]
    OBVIOUS
  <1>9. r4 \in Stats /\ r4.earned = row.earned + t /\ r4.decayable = row.decayable + t
        /\ r4.original = row.original + t /\ r4.decayed = row.decayed /\ r4.burned = row.burned
        /\ r4.recycled = row.recycled /\ r4.bounties = row.bounties + 1
    BY <1>1, <1>7, <1>8 DEF Stats
  <1>10. PICK r5 : r5 = [r4 EXCEPT !.activity = now]
    OBVIOUS
  <1>11. r5 \in Stats /\ r5.earned = row.earned + t /\ r5.decayable = row.decayable + t
        /\ r5.original = row.original + t /\ r5.decayed = row.decayed /\ r5.burned = row.burned
        /\ r5.recycled = row.recycled /\ r5.bounties = row.bounties + 1
    BY <1>1, <1>9, <1>10 DEF Stats
  <1>12. Credited(row, t) = r5
    BY <1>2, <1>4, <1>6, <1>8, <1>10 DEF Credited, Stats
  <1>13. DecayFloor(r5) \in Nat /\ DecayFloor(r5) <= DecayFloor(row) + t /\ DecayFloor(row) \in Nat
    <2>1. FloorPart \in 0 .. Whole
      BY EscrowAssumption
    <2>2. /\ PartOf(row.original + t, FloorPart) <= PartOf(row.original, FloorPart) + t
          /\ PartOf(row.original, FloorPart) \in Nat
      BY <1>1, <2>1, PartGrows, PartFits
    <2>3. PartOf(row.original + t, FloorPart) \in Nat
      <3>1. row.original + t \in Nat
        BY <1>1
      <3>2. QED
        BY <2>1, <3>1, PartFits
    <2>4. QED
      BY <1>11, <2>2, <2>3 DEF DecayFloor
  <1>14. RowBooks(r5)
    <2>1. /\ row.original = row.earned /\ row.original = row.decayable + row.decayed
          /\ row.decayed = row.burned + row.recycled /\ row.decayable >= DecayFloor(row)
      BY Zenon DEF RowBooks
    <2>2. r5.original = r5.earned
      BY <1>11, <2>1, Zenon
    <2>3. r5.original = r5.decayable + r5.decayed
      BY <1>1, <1>11, <2>1
    <2>4. r5.decayed = r5.burned + r5.recycled
      BY <1>11, <2>1, Zenon
    <2>5. r5.decayable >= DecayFloor(r5)
      BY <1>1, <1>11, <1>13, <2>1
    <2>6. QED
      BY <2>2, <2>3, <2>4, <2>5, Zenon DEF RowBooks
  <1>15. QED
    BY <1>11, <1>12, <1>14, Zenon

\* One account changes.
LEMMA HeldChanges ==
  \A held \in [Holders -> Nat], new \in [Holders -> Nat], x \in Holders :
    (\A h \in Holders : h # x => new[h] = held[h]) =>
      /\ TotalHeld(held) \in Nat
      /\ TotalHeld(new) = TotalHeld(held) - held[x] + new[x]
  <1>1. SUFFICES ASSUME NEW held \in [Holders -> Nat], NEW new \in [Holders -> Nat],
                        NEW x \in Holders, \A h \in Holders : h # x => new[h] = held[h]
                 PROVE  /\ TotalHeld(held) \in Nat
                        /\ TotalHeld(new) = TotalHeld(held) - held[x] + new[x]
    BY Zenon
  <1>2. \A h \in Holders : held[h] \in Nat /\ new[h] \in Nat
    OBVIOUS
  <1>3. Total(held, Holders) \in Nat
    BY <1>2, HoldersAreFinite, TotalType
  <1>4. Total(new, Holders) = Total(held, Holders) - held[x] + new[x]
    BY <1>1, <1>2, HoldersAreFinite, TotalChanges
  <1>5. QED
    BY <1>3, <1>4, Zenon DEF TotalHeld

\* A step that touches one mint, and there moves what it takes, keeps the supply of each.
LEMMA SupplyStays ==
  ASSUME balance \in [Mints -> [Holders -> Nat]], burned \in [Mints -> Nat], Conserved,
         NEW mint \in Mints, NEW held \in [Holders -> Nat], NEW burnt \in Nat,
         balance' = [balance EXCEPT ![mint] = held], burned' = [burned EXCEPT ![mint] = burnt],
         \A m \in Mints :
           m # mint => Total(InMint(escrow', m), Bounties) = Total(InMint(escrow, m), Bounties),
         TotalHeld(held) + burnt + Total(InMint(escrow', mint), Bounties)
           = TotalHeld(balance[mint]) + burned[mint] + Total(InMint(escrow, mint), Bounties)
  PROVE  /\ balance' \in [Mints -> [Holders -> Nat]] /\ burned' \in [Mints -> Nat]
         /\ Conserved'
  <1>1. /\ balance' \in [Mints -> [Holders -> Nat]] /\ burned' \in [Mints -> Nat]
        /\ balance'[mint] = held /\ burned'[mint] = burnt
        /\ \A m \in Mints : m # mint => balance'[m] = balance[m] /\ burned'[m] = burned[m]
    OBVIOUS
  <1>2. ASSUME NEW m \in Mints
        PROVE  TotalHeld(Endowment[m]) =
                 TotalHeld(balance'[m]) + burned'[m] + Total(InMint(escrow', m), Bounties)
    <2>1. TotalHeld(Endowment[m]) =
            TotalHeld(balance[m]) + burned[m] + Total(InMint(escrow, m), Bounties)
      BY Zenon DEF Conserved
    <2>2. CASE m = mint
      BY <1>1, <2>1, <2>2, Zenon
    <2>3. CASE m # mint
      BY <1>1, <2>1, <2>3, Zenon
    <2>4. QED
      BY <2>2, <2>3
  <1>3. QED
    BY <1>1, <1>2, Zenon DEF Conserved

\* A proof and the statistics it credits are booked together.
LEMMA ProofIsBooked ==
  ASSUME AccountsTypeOK, proofs \in [Bounties -> Proof \cup {None}], OperatorsAreKnown, Books,
         NEW b \in Bounties, proofs[b] = None, NEW row \in Proof, stats[row.operator] # None,
         proofs' = [proofs EXCEPT ![b] = row],
         stats' = [stats EXCEPT ![row.operator] = Credited(stats[row.operator], row.tokens)],
         config' \in Config,
         config'.distributed = config.distributed + (row.tokens + row.reviewer),
         config'.bounties = config.bounties + 1,
         UNCHANGED <<now, metrics>>
  PROVE  /\ AccountsTypeOK' /\ proofs' \in [Bounties -> Proof \cup {None}]
         /\ OperatorsAreKnown' /\ Books'
  <1>1. /\ now \in Times /\ stats \in [Users -> Stats \cup {None}] /\ config \in Config
        /\ metrics \in Metrics \cup {None}
    BY DEF AccountsTypeOK
  <1>2. PICK w \in Users : w = row.operator
    BY DEF Proof
  <1>3. PICK s \in Stats : s = stats[w]
    BY <1>1, <1>2
  <1>4. row.tokens \in Nat /\ row.reviewer \in Nat /\ row # None
    BY NoneIsNoAccount DEF Proof
  <1>5. PICK t \in Nat : t = row.tokens
    BY <1>4
  <1>6. /\ s # None /\ s.bounties = Cardinality(ProofsOf(w))
        /\ s.earned = Total(TokensOf(proofs, w), Bounties) /\ RowBooks(s)
    BY <1>2, <1>3, Zenon DEF Books
  <1>7. PICK n : n = Credited(s, t)
    OBVIOUS
  <1>8. /\ n \in Stats /\ RowBooks(n) /\ n.bounties = s.bounties + 1 /\ n.earned = s.earned + t
    BY <1>1, <1>6, <1>7, CreditedRow, Zenon
  <1>9. n # None
    BY <1>8, NoneIsNoStats
  <1>10. stats' = [stats EXCEPT ![w] = n]
    BY <1>2, <1>3, <1>5, <1>7, Zenon
  <1>11. /\ stats' \in [Users -> Stats \cup {None}] /\ stats'[w] = n
         /\ \A u \in Users : u # w => stats'[u] = stats[u]
    BY <1>1, <1>8, <1>10, ZenonT(60)
  <1>12. PICK q : q = proofs'
    OBVIOUS
  <1>13. /\ q \in [Bounties -> Proof \cup {None}] /\ q[b] = row
         /\ \A c \in Bounties : c # b => q[c] = proofs[c]
    BY <1>12
  <1>14. PICK p \in [Bounties -> Proof \cup {None}] : p = proofs
    OBVIOUS
  <1>15. /\ \A u \in Users :
              /\ Total(TokensOf(p, u), Bounties) \in Nat
              /\ u # row.operator =>
                   Total(TokensOf(q, u), Bounties) = Total(TokensOf(p, u), Bounties)
              /\ u = row.operator =>
                   Total(TokensOf(q, u), Bounties) = Total(TokensOf(p, u), Bounties) + row.tokens
         /\ Total(PaidIn(p), Bounties) \in Nat
         /\ Total(PaidIn(q), Bounties) = Total(PaidIn(p), Bounties) + (row.tokens + row.reviewer)
    BY <1>13, <1>14, OneProofMore
  <1>16. /\ \A u \in Users :
              /\ u # row.operator => Cardinality(ProofsOf(u)') = Cardinality(ProofsOf(u))
              /\ u = row.operator => Cardinality(ProofsOf(u)') = Cardinality(ProofsOf(u)) + 1
         /\ Cardinality(Proven') = Cardinality(Proven) + 1
    BY OneProofCounted
  <1>17. ASSUME NEW u \in Users, stats'[u] # None
         PROVE  /\ stats'[u].bounties = Cardinality(ProofsOf(u)')
                /\ stats'[u].earned = Total(TokensOf(proofs', u), Bounties)
                /\ RowBooks(stats'[u])
    <2>1. CASE u = w
      <3>1. Cardinality(ProofsOf(u)') = Cardinality(ProofsOf(u)) + 1
        BY <1>2, <1>16, <2>1, Zenon
      <3>2. Total(TokensOf(proofs', u), Bounties) = Total(TokensOf(proofs, u), Bounties) + t
        BY <1>2, <1>5, <1>12, <1>14, <1>15, <2>1, Zenon
      <3>3. QED
        BY <1>6, <1>8, <1>11, <2>1, <3>1, <3>2, Zenon
    <2>2. CASE u # w
      <3>1. Cardinality(ProofsOf(u)') = Cardinality(ProofsOf(u))
        BY <1>2, <1>16, <2>2, Zenon
      <3>2. Total(TokensOf(proofs', u), Bounties) = Total(TokensOf(proofs, u), Bounties)
        BY <1>2, <1>12, <1>14, <1>15, <2>2, Zenon
      <3>3. stats'[u] = stats[u] /\ stats[u] # None
        BY <1>11, <1>17, <2>2, Zenon
      <3>4. /\ stats[u].bounties = Cardinality(ProofsOf(u))
            /\ stats[u].earned = Total(TokensOf(proofs, u), Bounties)
            /\ RowBooks(stats[u])
        BY <3>3, Zenon DEF Books
      <3>5. QED
        BY <3>1, <3>2, <3>3, <3>4, Zenon
    <2>3. QED
      BY <2>1, <2>2
  <1>18. config.bounties = Cardinality(Proven) /\ config.distributed = Total(PaidIn(proofs), Bounties)
    BY DEF Books
  <1>19. config'.bounties = Cardinality(Proven') /\ config'.distributed = Total(PaidIn(proofs'), Bounties)
    BY <1>12, <1>14, <1>15, <1>16, <1>18, Zenon
  <1>20. Books'
    BY <1>17, <1>19, Zenon DEF Books
  <1>21. OperatorsAreKnown'
    <2>1. SUFFICES ASSUME NEW c \in Bounties, proofs'[c] # None
                   PROVE  stats'[proofs'[c].operator] # None
      BY Zenon DEF OperatorsAreKnown
    <2>2. CASE c = b
      BY <1>2, <1>9, <1>11, <1>12, <1>13, <2>2, Zenon
    <2>3. CASE c # b
      <3>1. proofs'[c] = proofs[c] /\ proofs[c] # None
        BY <1>12, <1>13, <2>1, <2>3, Zenon
      <3>2. stats[proofs[c].operator] # None
        BY <3>1, Zenon DEF OperatorsAreKnown
      <3>3. proofs[c].operator \in Users
        BY <3>1 DEF Proof
      <3>4. QED
        BY <1>9, <1>11, <3>1, <3>2, <3>3, Zenon
    <2>4. QED
      BY <2>2, <2>3
  <1>22. AccountsTypeOK'
    BY <1>1, <1>11 DEF AccountsTypeOK
  <1>23. QED
    BY <1>12, <1>13, <1>20, <1>21, <1>22, Zenon

\* At the start nothing is escrowed, burned or proven.
LEMMA EscrowStarts == EscrowInit => EscrowInv
  <1> SUFFICES ASSUME EscrowInit PROVE EscrowInv
    OBVIOUS
  <1>1. /\ AccountsInit /\ balance = Endowment /\ burned = [m \in Mints |-> 0]
        /\ escrow = [b \in Bounties |-> None] /\ proofs = [b \in Bounties |-> None]
    BY DEF EscrowInit
  <1>2. /\ now = 0 /\ metrics = None /\ stats = [u \in Users |-> None]
        /\ config = [ mint |-> FirstMint, recipients |-> FALSE, rate |-> DefaultRate,
                      distributed |-> 0, bounties |-> 0 ]
    BY <1>1 DEF AccountsInit
  <1>3. AccountsTypeOK
    <2>1. FirstMint \in Mints /\ DefaultRate \in Nat /\ 0 \in Times
      BY AccountsAssumption, ChainAssumption DEF Times
    <2>2. config \in Config
      BY <1>2, <2>1 DEF Config
    <2>3. QED
      BY <1>2, <2>1, <2>2 DEF AccountsTypeOK
  <1>4. EscrowTypeOK
    BY <1>1, <1>3, EscrowAssumption DEF EscrowTypeOK
  <1>5. Conserved
    <2>1. SUFFICES ASSUME NEW m \in Mints
                   PROVE  TotalHeld(Endowment[m]) = TotalHeld(balance[m]) + burned[m]
                                                      + Total(InMint(escrow, m), Bounties)
      BY Zenon DEF Conserved
    <2>2. \A b \in Bounties : InMint(escrow, m)[b] = 0
      BY <1>1 DEF InMint
    <2>3. Total(InMint(escrow, m), Bounties) = 0
      BY <2>2, TotalOfZeros, Zenon
    <2>4. PICK held \in [Holders -> Nat] : held = Endowment[m]
      BY EscrowAssumption
    <2>5. \A h \in Holders : held[h] \in Nat
      OBVIOUS
    <2>6. TotalHeld(held) \in Nat
      BY <2>5, HoldersAreFinite, TotalType DEF TotalHeld
    <2>7. burned[m] = 0 /\ balance[m] = held
      BY <1>1, <2>4
    <2>8. QED
      BY <2>3, <2>4, <2>6, <2>7
  <1>6. PaidAreEmpty /\ OperatorsAreKnown
    BY <1>1 DEF PaidAreEmpty, OperatorsAreKnown
  <1>7. Books
    <2>1. Proven = {} /\ Cardinality(Proven) = 0
      <3>1. Proven = {}
        BY <1>1 DEF Proven
      <3>2. QED
        BY <3>1, FS_EmptySet
    <2>2. \A b \in Bounties : PaidIn(proofs)[b] = 0
      BY <1>1 DEF PaidIn
    <2>3. Total(PaidIn(proofs), Bounties) = 0
      BY <2>2, TotalOfZeros, Zenon
    <2>4. \A u \in Users : stats[u] = None
      BY <1>2
    <2>5. config.bounties = 0 /\ config.distributed = 0
      BY <1>2
    <2>6. QED
      BY <2>1, <2>3, <2>4, <2>5 DEF Books
  <1>8. QED
    BY <1>4, <1>5, <1>6, <1>7 DEF EscrowInv

\* What a step that pays no proof leaves of the books.
LEMMA BooksStay ==
  ASSUME Books, OperatorsAreKnown, proofs' = proofs, stats' = stats,
         config'.bounties = config.bounties, config'.distributed = config.distributed
  PROVE  Books' /\ OperatorsAreKnown'
  <1>1. Proven' = Proven /\ \A u \in Users : ProofsOf(u)' = ProofsOf(u)
    BY DEF Proven, ProofsOf
  <1>2. Books'
    <2>1. /\ \A u \in Users :
               stats[u] # None =>
                 /\ stats[u].bounties = Cardinality(ProofsOf(u))
                 /\ stats[u].earned = Total(TokensOf(proofs, u), Bounties)
                 /\ RowBooks(stats[u])
          /\ config.bounties = Cardinality(Proven)
          /\ config.distributed = Total(PaidIn(proofs), Bounties)
      BY Zenon DEF Books
    <2>2. /\ \A u \in Users :
               stats'[u] # None =>
                 /\ stats'[u].bounties = Cardinality(ProofsOf(u)')
                 /\ stats'[u].earned = Total(TokensOf(proofs', u), Bounties)
                 /\ RowBooks(stats'[u])
          /\ config'.bounties = Cardinality(Proven')
          /\ config'.distributed = Total(PaidIn(proofs'), Bounties)
      BY <1>1, <2>1, Zenon
    <2>3. QED
      BY <2>2, Zenon DEF Books
  <1>3. OperatorsAreKnown'
    BY Zenon DEF OperatorsAreKnown
  <1>4. QED
    BY <1>2, <1>3

\* What of the escrows a step changes that leaves them alone.
LEMMA EscrowsStay ==
  ASSUME escrow' = escrow, proofs' = proofs, PaidAreEmpty
  PROVE  /\ PaidAreEmpty'
         /\ \A m : Total(InMint(escrow', m), Bounties) = Total(InMint(escrow, m), Bounties)
  BY Zenon DEF PaidAreEmpty

\* What the poster gives is in escrow.
LEMMA CreationKeeps ==
  ASSUME EscrowInv, NEW b \in Bounties, NEW poster \in Users, NEW amount \in Rewards,
         create_commercial_bounty(b, poster, amount)
  PROVE  EscrowInv'
  <1>1. /\ AccountsTypeOK /\ balance \in [Mints -> [Holders -> Nat]] /\ burned \in [Mints -> Nat]
        /\ escrow \in [Bounties -> Escrow \cup {None}] /\ proofs \in [Bounties -> Proof \cup {None}]
        /\ Conserved /\ PaidAreEmpty /\ OperatorsAreKnown /\ Books
    BY DEF EscrowInv, EscrowTypeOK
  <1>2. PICK mint \in Mints : mint = config.mint
    BY <1>1 DEF AccountsTypeOK, Config
  <1>3. /\ escrow[b] = None /\ balance[mint][poster] >= amount
        /\ escrow' = [escrow EXCEPT ![b] = [mint |-> mint, amount |-> amount]]
        /\ balance' = [balance EXCEPT ![mint][poster] = @ - amount]
        /\ UNCHANGED <<accountVars, burned, proofs>>
    BY <1>2 DEF create_commercial_bounty, Held
  <1>4. amount \in Nat /\ poster \in Holders
    BY EscrowAssumption, HoldersAreFinite
  <1>5. PICK held \in [Holders -> Nat] : held = balance[mint]
    BY <1>1
  <1>6. PICK new : new = [held EXCEPT ![poster] = held[poster] - amount]
    OBVIOUS
  <1>7. /\ new \in [Holders -> Nat] /\ TotalHeld(held) \in Nat
        /\ TotalHeld(new) = TotalHeld(held) - amount
    <2>1. held[poster] \in Nat /\ held[poster] - amount \in Nat
      BY <1>3, <1>4, <1>5
    <2>2. /\ new \in [Holders -> Nat] /\ new[poster] = held[poster] - amount
          /\ \A h \in Holders : h # poster => new[h] = held[h]
      BY <1>4, <1>6, <2>1
    <2>3. TotalHeld(held) \in Nat
      BY <1>4, <2>2, HeldChanges, Zenon
    <2>4. TotalHeld(new) = TotalHeld(held) - held[poster] + new[poster]
      BY <1>4, <2>2, HeldChanges, Zenon
    <2>5. QED
      BY <1>4, <2>1, <2>2, <2>3, <2>4
  <1>8. balance' = [balance EXCEPT ![mint] = new]
    BY <1>1, <1>3, <1>5, <1>6
  <1>9. PICK row \in Escrow : row = [mint |-> mint, amount |-> amount]
    BY <1>4 DEF Escrow
  <1>10. PICK e \in [Bounties -> Escrow \cup {None}] : e = escrow
    BY <1>1
  <1>11. PICK d : d = escrow'
    OBVIOUS
  <1>12. /\ d \in [Bounties -> Escrow \cup {None}] /\ d[b] = row
         /\ \A c \in Bounties : c # b => d[c] = e[c]
    BY <1>3, <1>9, <1>10, <1>11
  <1>13. e[b] = None /\ row.mint = mint /\ row.amount = amount
    BY <1>3, <1>9, <1>10
  <1>14. /\ \A m \in Mints : /\ Total(InMint(e, m), Bounties) \in Nat
                             /\ m # row.mint =>
                                  Total(InMint(d, m), Bounties) = Total(InMint(e, m), Bounties)
         /\ Total(InMint(d, row.mint), Bounties)
              = Total(InMint(e, row.mint), Bounties) - 0 + row.amount
    BY <1>12, <1>13, EscrowChanges
  <1>15. /\ \A m \in Mints : m # mint => Total(InMint(escrow', m), Bounties) = Total(InMint(escrow, m), Bounties)
         /\ Total(InMint(escrow, mint), Bounties) \in Nat
         /\ Total(InMint(escrow', mint), Bounties) = Total(InMint(escrow, mint), Bounties) - 0 + amount
    BY <1>10, <1>11, <1>13, <1>14, Zenon
  <1>16. PICK burnt \in Nat : burnt = burned[mint]
    BY <1>1
  <1>17. burned' = [burned EXCEPT ![mint] = burnt]
    BY <1>1, <1>3, <1>16
  <1>18. TotalHeld(new) + burnt + Total(InMint(escrow', mint), Bounties)
           = TotalHeld(balance[mint]) + burned[mint] + Total(InMint(escrow, mint), Bounties)
    BY <1>4, <1>5, <1>7, <1>15, <1>16
  <1>19. balance' \in [Mints -> [Holders -> Nat]] /\ burned' \in [Mints -> Nat] /\ Conserved'
    BY <1>1, <1>7, <1>8, <1>15, <1>17, <1>18, SupplyStays
  <1>20. Books' /\ OperatorsAreKnown'
    BY <1>1, <1>3, BooksStay DEF accountVars
  <1>21. PaidAreEmpty'
    <2>1. SUFFICES ASSUME NEW c \in Bounties, proofs'[c] # None, proofs'[c].source = "Commercial"
                   PROVE  escrow'[c] # None /\ escrow'[c].amount = 0
      BY Zenon DEF PaidAreEmpty
    <2>2. escrow[c] # None /\ escrow[c].amount = 0
      BY <1>1, <1>3, <2>1, Zenon DEF PaidAreEmpty
    <2>3. c # b
      BY <1>3, <2>2
    <2>4. QED
      BY <1>10, <1>11, <1>12, <2>2, <2>3, Zenon
  <1>22. AccountsTypeOK'
    BY <1>1, <1>3 DEF AccountsTypeOK, accountVars
  <1>23. QED
    BY <1>1, <1>3, <1>11, <1>12, <1>19, <1>20, <1>21, <1>22, Zenon DEF EscrowInv, EscrowTypeOK

\* What was in escrow is with whoever signs.
LEMMA RefundKeeps ==
  ASSUME EscrowInv, NEW b \in Bounties, NEW poster \in Users, refund_escrow(b, poster)
  PROVE  EscrowInv'
  <1>1. /\ AccountsTypeOK /\ balance \in [Mints -> [Holders -> Nat]] /\ burned \in [Mints -> Nat]
        /\ escrow \in [Bounties -> Escrow \cup {None}] /\ proofs \in [Bounties -> Proof \cup {None}]
        /\ Conserved /\ PaidAreEmpty /\ OperatorsAreKnown /\ Books
    BY DEF EscrowInv, EscrowTypeOK
  <1>2. PICK mint \in Mints : mint = config.mint
    BY <1>1 DEF AccountsTypeOK, Config
  <1>3. /\ escrow[b] # None /\ escrow[b].mint = mint
        /\ escrow' = [escrow EXCEPT ![b].amount = 0]
        /\ balance' = [balance EXCEPT ![mint][poster] = @ + escrow[b].amount]
        /\ UNCHANGED <<accountVars, burned, proofs>>
    BY <1>2 DEF refund_escrow, Funded
  <1>4. PICK old \in Escrow : old = escrow[b]
    BY <1>1, <1>3
  <1>5. PICK amount \in Nat : amount = old.amount
    BY DEF Escrow
  <1>6. PICK held \in [Holders -> Nat] : held = balance[mint]
    BY <1>1
  <1>7. poster \in Holders
    BY HoldersAreFinite
  <1>8. PICK new : new = [held EXCEPT ![poster] = held[poster] + amount]
    OBVIOUS
  <1>9. /\ new \in [Holders -> Nat] /\ TotalHeld(held) \in Nat
        /\ TotalHeld(new) = TotalHeld(held) + amount
    <2>1. held[poster] \in Nat /\ held[poster] + amount \in Nat
      BY <1>7
    <2>2. /\ new \in [Holders -> Nat] /\ new[poster] = held[poster] + amount
          /\ \A h \in Holders : h # poster => new[h] = held[h]
      BY <1>7, <1>8, <2>1
    <2>3. TotalHeld(held) \in Nat
      BY <1>7, <2>2, HeldChanges, Zenon
    <2>4. TotalHeld(new) = TotalHeld(held) - held[poster] + new[poster]
      BY <1>7, <2>2, HeldChanges, Zenon
    <2>5. QED
      BY <2>1, <2>2, <2>3, <2>4
  <1>10. balance' = [balance EXCEPT ![mint] = new]
    BY <1>1, <1>3, <1>4, <1>5, <1>6, <1>8
  <1>11. PICK row \in Escrow : row = [mint |-> mint, amount |-> 0]
    BY DEF Escrow
  <1>12. escrow' = [escrow EXCEPT ![b] = row]
    <2>1. [old EXCEPT !.amount = 0] = row
      BY <1>3, <1>4, <1>11 DEF Escrow
    <2>2. QED
      BY <1>1, <1>3, <1>4, <2>1
  <1>13. PICK e \in [Bounties -> Escrow \cup {None}] : e = escrow
    BY <1>1
  <1>14. PICK d : d = escrow'
    OBVIOUS
  <1>15. /\ d \in [Bounties -> Escrow \cup {None}] /\ d[b] = row
         /\ \A c \in Bounties : c # b => d[c] = e[c]
    BY <1>12, <1>13, <1>14
  <1>16. /\ e[b] # None /\ e[b].mint = row.mint /\ e[b].amount = amount
         /\ row.mint = mint /\ row.amount = 0
    BY <1>3, <1>4, <1>5, <1>11, <1>13
  <1>17. /\ \A m \in Mints : /\ Total(InMint(e, m), Bounties) \in Nat
                             /\ m # row.mint =>
                                  Total(InMint(d, m), Bounties) = Total(InMint(e, m), Bounties)
         /\ Total(InMint(d, row.mint), Bounties)
              = Total(InMint(e, row.mint), Bounties) - amount + row.amount
    BY <1>15, <1>16, EscrowChanges
  <1>18. /\ \A m \in Mints : m # mint => Total(InMint(escrow', m), Bounties) = Total(InMint(escrow, m), Bounties)
         /\ Total(InMint(escrow, mint), Bounties) \in Nat
         /\ Total(InMint(escrow', mint), Bounties) = Total(InMint(escrow, mint), Bounties) - amount + 0
    BY <1>13, <1>14, <1>16, <1>17, Zenon
  <1>19. PICK burnt \in Nat : burnt = burned[mint]
    BY <1>1
  <1>20. burned' = [burned EXCEPT ![mint] = burnt]
    BY <1>1, <1>3, <1>19
  <1>21. TotalHeld(new) + burnt + Total(InMint(escrow', mint), Bounties)
           = TotalHeld(balance[mint]) + burned[mint] + Total(InMint(escrow, mint), Bounties)
    BY <1>6, <1>9, <1>18, <1>19
  <1>22. balance' \in [Mints -> [Holders -> Nat]] /\ burned' \in [Mints -> Nat] /\ Conserved'
    BY <1>1, <1>9, <1>10, <1>18, <1>20, <1>21, SupplyStays
  <1>23. Books' /\ OperatorsAreKnown'
    BY <1>1, <1>3, BooksStay DEF accountVars
  <1>24. PaidAreEmpty'
    <2>1. SUFFICES ASSUME NEW c \in Bounties, proofs'[c] # None, proofs'[c].source = "Commercial"
                   PROVE  escrow'[c] # None /\ escrow'[c].amount = 0
      BY Zenon DEF PaidAreEmpty
    <2>2. escrow[c] # None /\ escrow[c].amount = 0
      BY <1>1, <1>3, <2>1, Zenon DEF PaidAreEmpty
    <2>3. CASE c # b
      BY <1>13, <1>14, <1>15, <2>2, <2>3, Zenon
    <2>4. CASE c = b
      BY <1>14, <1>15, <1>16, <2>4, NoneIsNoAccount
    <2>5. QED
      BY <2>3, <2>4
  <1>25. AccountsTypeOK'
    BY <1>1, <1>3 DEF AccountsTypeOK, accountVars
  <1>26. QED
    BY <1>1, <1>3, <1>14, <1>15, <1>22, <1>23, <1>24, <1>25, Zenon DEF EscrowInv, EscrowTypeOK

\* The counters of the configuration.
Counted(old, new, tokens) ==
  /\ old \in Config /\ tokens \in Nat
  /\ new = [old EXCEPT !.distributed = tokens, !.bounties = old.bounties + 1]

\* One bounty more, and the tokens given.
LEMMA ConfigCounts ==
  \A old, new, t : Counted(old, new, t) =>
      new \in Config /\ new.bounties = old.bounties + 1 /\ new.distributed = t
  <1>1. SUFFICES ASSUME NEW old \in Config, NEW new, NEW t \in Nat,
                        new = [old EXCEPT !.distributed = t, !.bounties = old.bounties + 1]
                 PROVE  new \in Config /\ new.bounties = old.bounties + 1 /\ new.distributed = t
    BY DEF Counted
  <1>2. PICK r : r = [old EXCEPT !.distributed = t]
    OBVIOUS
  <1>3. r \in Config /\ r.bounties = old.bounties /\ r.distributed = t /\ old.bounties \in Nat
    BY <1>2 DEF Config
  <1>4. new = [r EXCEPT !.bounties = old.bounties + 1]
    BY <1>1, <1>2 DEF Config
  <1>5. QED
    BY <1>3, <1>4 DEF Config

\* A release splits the escrow without a remainder and books the worker's part.
LEMMA ReleaseKeeps ==
  ASSUME EscrowInv, NEW b \in Bounties, NEW operator \in Workers, NEW reviewer \in Users,
         release_escrow(b, operator, reviewer)
  PROVE  EscrowInv'
  <1>1. /\ AccountsTypeOK /\ balance \in [Mints -> [Holders -> Nat]] /\ burned \in [Mints -> Nat]
        /\ escrow \in [Bounties -> Escrow \cup {None}] /\ proofs \in [Bounties -> Proof \cup {None}]
        /\ Conserved /\ PaidAreEmpty /\ OperatorsAreKnown /\ Books
    BY DEF EscrowInv, EscrowTypeOK
  <1>2. /\ config \in Config /\ now \in Times /\ stats \in [Users -> Stats \cup {None}]
        /\ metrics \in Metrics \cup {None}
    BY <1>1 DEF AccountsTypeOK
  <1>3. PICK mint \in Mints : mint = config.mint
    BY <1>2 DEF Config
  <1>4. /\ escrow[b] # None /\ escrow[b].mint = mint /\ proofs[b] = None /\ stats[operator] # None
    BY <1>3, Zenon DEF release_escrow, Releasable, Funded
  <1>5. PICK old \in Escrow : old = escrow[b]
    BY <1>1, <1>4
  <1>6. PICK amount \in Nat : amount = old.amount
    BY DEF Escrow
  <1>7. amount = escrow[b].amount
    BY <1>5, <1>6
  <1>8. PICK fee : fee = Fee(amount)
    OBVIOUS
  <1>9. /\ fee.total \in Nat /\ fee.total <= amount
        /\ fee.holders \in Nat /\ fee.burn \in Nat /\ fee.labs \in Nat
        /\ fee.total = fee.holders + fee.burn + fee.labs
    BY <1>8, FeeParts, Zenon
  <1>10. PICK net \in Nat : net = amount - fee.total
    BY <1>9
  <1>11. PICK review : review = PartOf(net, ReviewerPart)
    OBVIOUS
  <1>12. review \in Nat /\ review <= net
    <2>1. ReviewerPart \in 0 .. Whole
      BY EscrowAssumption
    <2>2. QED
      BY <1>11, <2>1, PartFits, Zenon
  <1>13. PICK earned \in Nat : earned = net - review
    BY <1>12
  <1>14. amount = earned + review + fee.holders + fee.labs + fee.burn
    BY <1>9, <1>10, <1>12, <1>13
  <1>15. PICK paid : paid = PaidOut(amount, fee, operator, earned, reviewer, review)
    OBVIOUS
  <1>16. /\ escrow' = [escrow EXCEPT ![b].amount = paid.left]
         /\ balance' = [balance EXCEPT ![mint] = paid.held]
         /\ burned' = [burned EXCEPT ![mint] = @ + fee.burn]
         /\ stats' = [stats EXCEPT ![operator] = Credited(@, earned)]
         /\ config' = [config EXCEPT !.distributed = @ + amount - fee.total, !.bounties = @ + 1]
         /\ proofs' = [proofs EXCEPT ![b] = [ source |-> "Commercial", operator |-> operator,
                         tokens |-> earned, reviewer |-> review, fee |-> fee.total ]]
         /\ UNCHANGED <<now, metrics>>
    BY <1>3, <1>7, <1>8, <1>10, <1>11, <1>13, <1>15, Zenon DEF release_escrow
  <1>17. operator \in Users /\ operator \in Holders /\ reviewer \in Holders
    BY EscrowAssumption, HoldersAreFinite
  <1>18. PICK held \in [Holders -> Nat] : held = Held
    BY <1>1, <1>3 DEF Held
  <1>19. held = balance[mint]
    BY <1>3, <1>18 DEF Held
  <1>20. PICK new : new = paid.held
    OBVIOUS
  <1>21. /\ new \in [Holders -> Nat] /\ paid.left = 0 /\ TotalHeld(held) \in Nat
         /\ TotalHeld(new) = TotalHeld(held) + amount - fee.burn
    <2>1. Held \in [Holders -> Nat]
      BY <1>18
    <2>2. /\ PaidOut(amount, fee, operator, earned, reviewer, review).held \in [Holders -> Nat]
          /\ PaidOut(amount, fee, operator, earned, reviewer, review).left = 0
          /\ TotalHeld(Held) \in Nat
          /\ TotalHeld(PaidOut(amount, fee, operator, earned, reviewer, review).held)
               = TotalHeld(Held) + amount - fee.burn
      <3>1. PaidInFull(amount, fee, operator, earned, reviewer, review)
        BY <1>9, <1>12, <1>14, <1>17 DEF PaidInFull
      <3>2. QED
        BY <2>1, <3>1, NothingIsLeft, Zenon
    <2>3. QED
      BY <1>15, <1>18, <1>20, <2>2, Zenon
  <1>22. PICK kept \in Escrow : kept = [mint |-> mint, amount |-> 0]
    BY DEF Escrow
  <1>23. escrow' = [escrow EXCEPT ![b] = kept]
    <2>1. [old EXCEPT !.amount = 0] = kept
      BY <1>4, <1>5, <1>22 DEF Escrow
    <2>2. QED
      BY <1>1, <1>5, <1>16, <1>21, <2>1
  <1>24. PICK e \in [Bounties -> Escrow \cup {None}] : e = escrow
    BY <1>1
  <1>25. PICK d : d = escrow'
    OBVIOUS
  <1>26. /\ d \in [Bounties -> Escrow \cup {None}] /\ d[b] = kept
         /\ \A c \in Bounties : c # b => d[c] = e[c]
    BY <1>23, <1>24, <1>25
  <1>27. /\ e[b] # None /\ e[b].mint = kept.mint /\ e[b].amount = amount
         /\ kept.mint = mint /\ kept.amount = 0
    BY <1>4, <1>7, <1>22, <1>24
  <1>28. /\ \A m \in Mints : /\ Total(InMint(e, m), Bounties) \in Nat
                             /\ m # kept.mint =>
                                  Total(InMint(d, m), Bounties) = Total(InMint(e, m), Bounties)
         /\ Total(InMint(d, kept.mint), Bounties)
              = Total(InMint(e, kept.mint), Bounties) - amount + kept.amount
    BY <1>26, <1>27, EscrowChanges
  <1>29. /\ \A m \in Mints : m # mint => Total(InMint(escrow', m), Bounties) = Total(InMint(escrow, m), Bounties)
         /\ Total(InMint(escrow, mint), Bounties) \in Nat
         /\ Total(InMint(escrow', mint), Bounties) = Total(InMint(escrow, mint), Bounties) - amount + 0
    BY <1>24, <1>25, <1>27, <1>28, Zenon
  <1>30. burned[mint] \in Nat
    BY <1>1
  <1>31. PICK burnt \in Nat : burnt = burned[mint] + fee.burn
    BY <1>9, <1>30
  <1>32. burned' = [burned EXCEPT ![mint] = burnt] /\ balance' = [balance EXCEPT ![mint] = new]
    BY <1>16, <1>20, <1>31
  <1>33. TotalHeld(new) + burnt + Total(InMint(escrow', mint), Bounties)
           = TotalHeld(balance[mint]) + burned[mint] + Total(InMint(escrow, mint), Bounties)
    BY <1>9, <1>19, <1>21, <1>29, <1>30, <1>31
  <1>34. balance' \in [Mints -> [Holders -> Nat]] /\ burned' \in [Mints -> Nat] /\ Conserved'
    BY <1>1, <1>21, <1>29, <1>32, <1>33, SupplyStays
  <1>35. PICK row \in Proof : row = [ source |-> "Commercial", operator |-> operator,
                         tokens |-> earned, reviewer |-> review, fee |-> fee.total ]
    BY <1>9, <1>12, <1>17 DEF Proof
  <1>36. row.operator = operator /\ row.tokens = earned /\ row.reviewer = review
    BY <1>35
  <1>37. /\ config' \in Config /\ config'.bounties = config.bounties + 1
         /\ config'.distributed = config.distributed + (row.tokens + row.reviewer)
    <2>1. config.distributed \in Nat /\ config.bounties \in Nat
      BY <1>2 DEF Config
    <2>2. config.distributed + amount - fee.total = config.distributed + (row.tokens + row.reviewer)
      BY <1>9, <1>10, <1>12, <1>13, <1>36, <2>1
    <2>3. config.distributed + amount - fee.total \in Nat
      BY <1>9, <2>1
    <2>4. PICK t \in Nat : t = config.distributed + amount - fee.total
      BY <2>3
    <2>5. config' = [config EXCEPT !.distributed = t, !.bounties = config.bounties + 1]
      BY <1>16, <2>4
    <2>6. /\ config' \in Config /\ config'.bounties = config.bounties + 1 /\ config'.distributed = t
      <3>1. Counted(config, config', t)
        BY <1>2, <2>5, Zenon DEF Counted
      <3>2. QED
        BY <3>1, ConfigCounts, Zenon
    <2>7. QED
      BY <2>2, <2>4, <2>6, Zenon
  <1>38. /\ stats[row.operator] # None /\ proofs' = [proofs EXCEPT ![b] = row]
         /\ stats' = [stats EXCEPT ![row.operator] = Credited(stats[row.operator], row.tokens)]
    BY <1>4, <1>16, <1>35, <1>36, Zenon
  <1>39. /\ AccountsTypeOK' /\ proofs' \in [Bounties -> Proof \cup {None}]
         /\ OperatorsAreKnown' /\ Books'
    BY <1>1, <1>4, <1>16, <1>37, <1>38, ProofIsBooked, ZenonT(60)
  <1>40. PaidAreEmpty'
    <2>1. SUFFICES ASSUME NEW c \in Bounties, proofs'[c] # None, proofs'[c].source = "Commercial"
                   PROVE  escrow'[c] # None /\ escrow'[c].amount = 0
      BY Zenon DEF PaidAreEmpty
    <2>2. CASE c = b
      BY <1>25, <1>26, <1>27, <2>2, NoneIsNoAccount
    <2>3. CASE c # b
      <3>1. proofs'[c] = proofs[c]
        BY <1>1, <1>38, <2>3
      <3>2. escrow[c] # None /\ escrow[c].amount = 0
        BY <1>1, <2>1, <3>1, Zenon DEF PaidAreEmpty
      <3>3. QED
        BY <1>24, <1>25, <1>26, <2>3, <3>2, Zenon
    <2>4. QED
      BY <2>2, <2>3
  <1>41. QED
    BY <1>25, <1>26, <1>34, <1>39, <1>40, Zenon DEF EscrowInv, EscrowTypeOK

\* A transfer, for whoever knows only that it is one.
Transfer(held, new, from, to, amount) ==
  /\ held \in [Holders -> Nat] /\ from \in Holders /\ to \in Holders /\ from # to
  /\ amount \in Nat /\ held[from] >= amount
  /\ new = Moved(held, from, to, amount)

\* It changes who holds the tokens and no total.
LEMMA TransferHolds ==
  \A held, new, from, to, amount : Transfer(held, new, from, to, amount) =>
    /\ new \in [Holders -> Nat] /\ new[from] = held[from] - amount
    /\ TotalHeld(new) = TotalHeld(held) /\ TotalHeld(held) \in Nat
  <1>1. SUFFICES ASSUME NEW held, NEW new, NEW from, NEW to, NEW amount,
                        Transfer(held, new, from, to, amount)
                 PROVE  /\ new \in [Holders -> Nat] /\ new[from] = held[from] - amount
                        /\ TotalHeld(new) = TotalHeld(held) /\ TotalHeld(held) \in Nat
    BY Zenon
  <1>2. /\ held \in [Holders -> Nat] /\ from \in Holders /\ to \in Holders /\ from # to
        /\ amount \in Nat /\ held[from] >= amount
        /\ new = Moved(held, from, to, amount)
    BY <1>1, Zenon DEF Transfer
  <1>3. /\ Moved(held, from, to, amount) \in [Holders -> Nat]
        /\ Moved(held, from, to, amount)[from] = held[from] - amount
        /\ TotalHeld(Moved(held, from, to, amount)) = TotalHeld(held)
    BY <1>2, MovedHolds
  <1>4. TotalHeld(held) \in Nat
    <2>1. \A h \in Holders : held[h] \in Nat
      BY <1>2
    <2>2. QED
      BY <2>1, HoldersAreFinite, TotalType DEF TotalHeld
  <1>5. QED
    BY <1>2, <1>3, <1>4, Zenon

\* The treasury pays the worker and the reviewer what the proof records.
LEMMA SubmissionKeeps ==
  ASSUME EscrowInv, NEW b \in Bounties, NEW operator \in Workers, NEW reviewer \in Users,
         NEW tokens \in Payouts, submit_bounty_proof(b, operator, reviewer, tokens)
  PROVE  EscrowInv'
  <1>1. /\ AccountsTypeOK /\ balance \in [Mints -> [Holders -> Nat]] /\ burned \in [Mints -> Nat]
        /\ escrow \in [Bounties -> Escrow \cup {None}] /\ proofs \in [Bounties -> Proof \cup {None}]
        /\ Conserved /\ PaidAreEmpty /\ OperatorsAreKnown /\ Books
    BY DEF EscrowInv, EscrowTypeOK
  <1>2. /\ config \in Config /\ now \in Times /\ stats \in [Users -> Stats \cup {None}]
        /\ metrics \in Metrics \cup {None}
    BY <1>1 DEF AccountsTypeOK
  <1>3. PICK mint \in Mints : mint = config.mint
    BY <1>2 DEF Config
  <1>4. PICK paid \in Nat : paid = tokens
    BY EscrowAssumption
  <1>5. PICK review : review = PartOf(paid, ReviewerPart)
    OBVIOUS
  <1>6. review \in Nat /\ review <= paid
    <2>1. ReviewerPart \in 0 .. Whole
      BY EscrowAssumption
    <2>2. QED
      BY <1>5, <2>1, PartFits, Zenon
  <1>7. PICK earned \in Nat : earned = paid - review
    BY <1>6
  <1>8. PICK treasury \in Holders : treasury = "treasury"
    BY EscrowAssumption, HoldersAreFinite
  <1>9. PICK held \in [Holders -> Nat] : held = balance[mint]
    BY <1>1
  <1>10. PICK half : half = Moved(held, treasury, operator, earned)
    OBVIOUS
  <1>11. PICK new : new = Moved(half, treasury, reviewer, review)
    OBVIOUS
  <1>12. /\ proofs[b] = None /\ stats[operator] # None /\ held[treasury] >= paid
         /\ balance' = [balance EXCEPT ![mint] =
              Moved(Moved(@, "treasury", operator, earned), "treasury", reviewer, review)]
         /\ stats' = [stats EXCEPT ![operator] = Credited(@, earned)]
         /\ config' = [config EXCEPT !.distributed = @ + paid, !.bounties = @ + 1]
         /\ proofs' = [proofs EXCEPT ![b] = [ source |-> "Treasury", operator |-> operator,
                     tokens |-> earned, reviewer |-> review, fee |-> 0 ]]
         /\ UNCHANGED <<now, metrics, burned, escrow>>
    BY <1>3, <1>4, <1>5, <1>7, <1>8, <1>9, Zenon DEF submit_bounty_proof, Held
  <1>13. balance' = [balance EXCEPT ![mint] = new]
    BY <1>1, <1>8, <1>9, <1>10, <1>11, <1>12, Zenon
  <1>14. /\ operator \in Users /\ operator \in Holders /\ reviewer \in Holders
         /\ operator # treasury /\ reviewer # treasury
    BY <1>8, EscrowAssumption, ChainAssumption, HoldersAreFinite
  <1>15. Transfer(held, half, treasury, operator, earned)
    <2>1. held[treasury] >= earned
      <3>1. held[treasury] \in Nat
        OBVIOUS
      <3>2. QED
        BY <1>6, <1>7, <1>12, <3>1
    <2>2. QED
      BY <1>10, <1>14, <2>1, Zenon DEF Transfer
  <1>16. /\ half \in [Holders -> Nat] /\ half[treasury] = held[treasury] - earned
         /\ TotalHeld(half) = TotalHeld(held) /\ TotalHeld(held) \in Nat
    BY <1>15, TransferHolds, Zenon
  <1>17. Transfer(half, new, treasury, reviewer, review)
    <2>1. half[treasury] >= review
      <3>1. held[treasury] \in Nat
        OBVIOUS
      <3>2. QED
        BY <1>6, <1>7, <1>12, <1>16, <3>1
    <2>2. QED
      BY <1>6, <1>11, <1>14, <1>16, <2>1, Zenon DEF Transfer
  <1>18. new \in [Holders -> Nat] /\ TotalHeld(new) = TotalHeld(half)
    BY <1>17, TransferHolds, Zenon
  <1>19. PaidAreEmpty' /\ \A m : Total(InMint(escrow', m), Bounties) = Total(InMint(escrow, m), Bounties)
    <2>1. \A m : Total(InMint(escrow', m), Bounties) = Total(InMint(escrow, m), Bounties)
      BY <1>12, Zenon
    <2>2. SUFFICES ASSUME NEW c \in Bounties, proofs'[c] # None, proofs'[c].source = "Commercial"
                   PROVE  escrow'[c] # None /\ escrow'[c].amount = 0
      BY <2>1, Zenon DEF PaidAreEmpty
    <2>3. c # b
      <3>1. proofs'[b].source = "Treasury"
        BY <1>1, <1>12
      <3>2. QED
        BY <2>2, <3>1
    <2>4. proofs'[c] = proofs[c]
      BY <1>1, <1>12, <2>3
    <2>5. QED
      BY <1>1, <1>12, <2>2, <2>4, Zenon DEF PaidAreEmpty
  <1>20. PICK burnt \in Nat : burnt = burned[mint]
    BY <1>1
  <1>21. burned' = [burned EXCEPT ![mint] = burnt]
    BY <1>1, <1>12, <1>20
  <1>22. TotalHeld(new) + burnt + Total(InMint(escrow', mint), Bounties)
           = TotalHeld(balance[mint]) + burned[mint] + Total(InMint(escrow, mint), Bounties)
    BY <1>9, <1>16, <1>18, <1>19, <1>20, Zenon
  <1>23. balance' \in [Mints -> [Holders -> Nat]] /\ burned' \in [Mints -> Nat] /\ Conserved'
    BY <1>1, <1>13, <1>18, <1>19, <1>21, <1>22, SupplyStays
  <1>24. PICK row \in Proof : row = [ source |-> "Treasury", operator |-> operator,
                         tokens |-> earned, reviewer |-> review, fee |-> 0 ]
    BY <1>6, <1>14 DEF Proof
  <1>25. row.operator = operator /\ row.tokens = earned /\ row.reviewer = review
    BY <1>24
  <1>26. /\ config' \in Config /\ config'.bounties = config.bounties + 1
         /\ config'.distributed = config.distributed + (row.tokens + row.reviewer)
    <2>1. config.distributed \in Nat /\ config.bounties \in Nat
      BY <1>2 DEF Config
    <2>2. config.distributed + paid = config.distributed + (row.tokens + row.reviewer)
      BY <1>6, <1>7, <1>25, <2>1
    <2>3. PICK t \in Nat : t = config.distributed + paid
      BY <2>1
    <2>4. config' = [config EXCEPT !.distributed = t, !.bounties = config.bounties + 1]
      BY <1>12, <2>3
    <2>5. /\ config' \in Config /\ config'.bounties = config.bounties + 1 /\ config'.distributed = t
      <3>1. Counted(config, config', t)
        BY <1>2, <2>4, Zenon DEF Counted
      <3>2. QED
        BY <3>1, ConfigCounts, Zenon
    <2>6. QED
      BY <2>2, <2>3, <2>5, Zenon
  <1>27. /\ stats[row.operator] # None /\ proofs' = [proofs EXCEPT ![b] = row]
         /\ stats' = [stats EXCEPT ![row.operator] = Credited(stats[row.operator], row.tokens)]
    BY <1>12, <1>24, <1>25, Zenon
  <1>28. /\ AccountsTypeOK' /\ proofs' \in [Bounties -> Proof \cup {None}]
         /\ OperatorsAreKnown' /\ Books'
    BY <1>1, <1>12, <1>26, <1>27, ProofIsBooked
  <1>29. escrow' \in [Bounties -> Escrow \cup {None}]
    BY <1>1, <1>12
  <1>30. QED
    BY <1>19, <1>23, <1>28, <1>29, Zenon DEF EscrowInv, EscrowTypeOK

\* The books after a step that only writes the row of an operator.
LEMMA RowChanges ==
  ASSUME AccountsTypeOK, Books, OperatorsAreKnown, proofs' = proofs, UNCHANGED <<now, config, metrics>>,
         NEW w \in Users, NEW n \in Stats, stats' = [stats EXCEPT ![w] = n], RowBooks(n),
         n.bounties = Cardinality(ProofsOf(w)), n.earned = Total(TokensOf(proofs, w), Bounties)
  PROVE  AccountsTypeOK' /\ Books' /\ OperatorsAreKnown'
  <1>1. Proven' = Proven /\ \A u \in Users : ProofsOf(u)' = ProofsOf(u)
    BY DEF Proven, ProofsOf
  <1>2. /\ now \in Times /\ stats \in [Users -> Stats \cup {None}] /\ config \in Config
        /\ metrics \in Metrics \cup {None}
    BY DEF AccountsTypeOK
  <1>3. n # None
    BY NoneIsNoStats
  <1>4. /\ stats' \in [Users -> Stats \cup {None}] /\ stats'[w] = n
        /\ \A u \in Users : u # w => stats'[u] = stats[u]
    BY <1>2
  <1>5. AccountsTypeOK'
    BY <1>2, <1>4 DEF AccountsTypeOK
  <1>6. ASSUME NEW u \in Users, stats'[u] # None
        PROVE  /\ stats'[u].bounties = Cardinality(ProofsOf(u)')
               /\ stats'[u].earned = Total(TokensOf(proofs', u), Bounties)
               /\ RowBooks(stats'[u])
    <2>1. CASE u = w
      BY <1>1, <1>4, <2>1, Zenon
    <2>2. CASE u # w
      BY <1>1, <1>4, <1>6, <2>2, Zenon DEF Books
    <2>3. QED
      BY <2>1, <2>2
  <1>7. Books'
    <2>1. /\ config'.bounties = Cardinality(Proven')
          /\ config'.distributed = Total(PaidIn(proofs'), Bounties)
      BY <1>1, Zenon DEF Books
    <2>2. QED
      BY <1>6, <2>1, Zenon DEF Books
  <1>8. OperatorsAreKnown'
    <2>1. SUFFICES ASSUME NEW c \in Bounties, proofs'[c] # None
                   PROVE  stats'[proofs'[c].operator] # None
      BY Zenon DEF OperatorsAreKnown
    <2>2. stats[proofs[c].operator] # None
      BY <2>1, Zenon DEF OperatorsAreKnown
    <2>3. PICK u : u = proofs[c].operator
      OBVIOUS
    <2>4. stats'[u] # None
      <3>1. stats[u] # None
        BY <2>2, <2>3, Zenon
      <3>2. CASE u = w
        BY <1>3, <1>4, <3>2, Zenon
      <3>3. CASE u # w
        <4>1. stats'[u] = stats[u]
          BY <1>2, <3>3
        <4>2. QED
          BY <3>1, <4>1, Zenon
      <3>4. QED
        BY <3>2, <3>3
    <2>5. QED
      BY <2>3, <2>4, Zenon
  <1>9. QED
    BY <1>5, <1>7, <1>8

\* An operator without statistics is named by no proof.
LEMMA PreparationKeeps ==
  ASSUME EscrowInv, NEW operator \in Workers, prepare_operator(operator),
         UNCHANGED <<balance, burned, escrow, proofs>>
  PROVE  EscrowInv'
  <1>1. /\ AccountsTypeOK /\ balance \in [Mints -> [Holders -> Nat]] /\ burned \in [Mints -> Nat]
        /\ escrow \in [Bounties -> Escrow \cup {None}] /\ proofs \in [Bounties -> Proof \cup {None}]
        /\ Conserved /\ PaidAreEmpty /\ OperatorsAreKnown /\ Books
    BY DEF EscrowInv, EscrowTypeOK
  <1>2. /\ now \in Times /\ stats \in [Users -> Stats \cup {None}]
    BY <1>1 DEF AccountsTypeOK
  <1>3. PICK w \in Users : w = operator
    BY EscrowAssumption
  <1>4. /\ stats' = [stats EXCEPT ![w] = IF @ = None THEN NewStats ELSE @]
        /\ UNCHANGED <<now, config, metrics>>
    BY <1>3 DEF prepare_operator
  <1>5. AccountsTypeOK' /\ Books' /\ OperatorsAreKnown'
    <2>1. CASE stats[w] # None
      <3>1. stats' = stats
        BY <1>2, <1>4, <2>1
      <3>2. config'.bounties = config.bounties /\ config'.distributed = config.distributed
        BY <1>4, Zenon
      <3>3. Books' /\ OperatorsAreKnown'
        BY <1>1, <3>1, <3>2, BooksStay
      <3>4. AccountsTypeOK'
        BY <1>1, <1>4, <3>1 DEF AccountsTypeOK
      <3>5. QED
        BY <3>3, <3>4
    <2>2. CASE stats[w] = None
      <3>1. PICK n : n = NewStats
        OBVIOUS
      <3>2. stats' = [stats EXCEPT ![w] = n]
        BY <1>2, <1>4, <2>2, <3>1
      <3>3. n \in Stats
        BY <1>2, <3>1 DEF NewStats, Stats
      <3>4. /\ n.bounties = 0 /\ n.earned = 0 /\ n.original = 0 /\ n.decayable = 0
            /\ n.decayed = 0 /\ n.burned = 0 /\ n.recycled = 0
        BY <3>1 DEF NewStats
      <3>5. RowBooks(n)
        <4>1. FloorPart \in 0 .. Whole
          BY EscrowAssumption
        <4>2. PartOf(0, FloorPart) \in Nat /\ PartOf(0, FloorPart) <= 0
          BY <4>1, PartFits
        <4>3. DecayFloor(n) = PartOf(0, FloorPart)
          BY <3>4 DEF DecayFloor
        <4>4. 0 >= DecayFloor(n)
          BY <4>2, <4>3
        <4>5. 0 = 0 + 0
          OBVIOUS
        <4>6. QED
          BY <3>4, <4>4, <4>5, Zenon DEF RowBooks
      <3>6. \A b \in Bounties : proofs[b] # None => proofs[b].operator # w
        BY <1>1, <2>2, Zenon DEF OperatorsAreKnown
      <3>7. ProofsOf(w) = {}
        BY <3>6 DEF ProofsOf
      <3>8. \A b \in Bounties : TokensOf(proofs, w)[b] = 0
        BY <3>6 DEF TokensOf
      <3>9. Total(TokensOf(proofs, w), Bounties) = 0
        BY <3>8, TotalOfZeros, Zenon
      <3>10. Cardinality(ProofsOf(w)) = 0
        BY <3>7, FS_EmptySet
      <3>11. n.bounties = Cardinality(ProofsOf(w)) /\ n.earned = Total(TokensOf(proofs, w), Bounties)
        BY <3>4, <3>9, <3>10, Zenon
      <3>12. QED
        BY <1>1, <1>4, <3>2, <3>3, <3>5, <3>11, RowChanges
    <2>3. QED
      BY <2>1, <2>2
  <1>6. PaidAreEmpty' /\ Conserved'
    BY <1>1, Zenon DEF PaidAreEmpty, Conserved
  <1>7. QED
    BY <1>1, <1>5, <1>6, Zenon DEF EscrowInv, EscrowTypeOK

\* The row of an operator that decays.
DecayedTo(row, amount, burn, new) ==
  /\ row \in Stats /\ RowBooks(row) /\ now \in Times
  /\ amount \in Nat /\ burn \in Nat /\ burn <= amount /\ amount <= row.decayable
  /\ row.decayable - amount >= DecayFloor(row)
  /\ new = [row EXCEPT !.decayable = @ - amount, !.decayed = @ + amount, !.burned = @ + burn,
                       !.recycled = @ + (amount - burn), !.decay = now]

\* It stays above the floor.
LEMMA DecayedRow ==
  \A row, amount, burn, new : DecayedTo(row, amount, burn, new) =>
    new \in Stats /\ RowBooks(new) /\ new.bounties = row.bounties /\ new.earned = row.earned
  <1>1. SUFFICES ASSUME NEW row, NEW amount, NEW burn, NEW new, DecayedTo(row, amount, burn, new)
                 PROVE  /\ new \in Stats /\ RowBooks(new)
                        /\ new.bounties = row.bounties /\ new.earned = row.earned
    BY Zenon
  <1>2. /\ row \in Stats /\ RowBooks(row) /\ now \in Times
        /\ amount \in Nat /\ burn \in Nat /\ burn <= amount /\ amount <= row.decayable
        /\ row.decayable - amount >= DecayFloor(row)
        /\ new = [row EXCEPT !.decayable = @ - amount, !.decayed = @ + amount, !.burned = @ + burn,
                             !.recycled = @ + (amount - burn), !.decay = now]
    BY <1>1, Zenon DEF DecayedTo
  <1>3. /\ row.original = row.earned /\ row.original = row.decayable + row.decayed
        /\ row.decayed = row.burned + row.recycled
    BY <1>2, Zenon DEF RowBooks
  <1>4. /\ row.decayable \in Nat /\ row.decayed \in Nat /\ row.burned \in Nat
        /\ row.recycled \in Nat /\ row.original \in Nat
    BY <1>2 DEF Stats
  <1>5. PICK r1 : r1 = [row EXCEPT !.decayable = row.decayable - amount]
    OBVIOUS
  <1>6. /\ r1 \in Stats /\ r1.decayable = row.decayable - amount /\ r1.bounties = row.bounties
        /\ r1.earned = row.earned /\ r1.original = row.original /\ r1.decayed = row.decayed
        /\ r1.burned = row.burned /\ r1.recycled = row.recycled
    BY <1>2, <1>4, <1>5 DEF Stats
  <1>7. PICK r2 : r2 = [r1 EXCEPT !.decayed = row.decayed + amount]
    OBVIOUS
  <1>8. /\ r2 \in Stats /\ r2.decayable = row.decayable - amount /\ r2.bounties = row.bounties
        /\ r2.earned = row.earned /\ r2.original = row.original /\ r2.decayed = row.decayed + amount
        /\ r2.burned = row.burned /\ r2.recycled = row.recycled
    BY <1>2, <1>4, <1>6, <1>7 DEF Stats
  <1>9. PICK r3 : r3 = [r2 EXCEPT !.burned = row.burned + burn]
    OBVIOUS
  <1>10. /\ r3 \in Stats /\ r3.decayable = row.decayable - amount /\ r3.bounties = row.bounties
         /\ r3.earned = row.earned /\ r3.original = row.original /\ r3.decayed = row.decayed + amount
         /\ r3.burned = row.burned + burn /\ r3.recycled = row.recycled
    BY <1>2, <1>4, <1>8, <1>9 DEF Stats
  <1>11. PICK r4 : r4 = [r3 EXCEPT !.recycled = row.recycled + (amount - burn)]
    OBVIOUS
  <1>12. /\ r4 \in Stats /\ r4.decayable = row.decayable - amount /\ r4.bounties = row.bounties
         /\ r4.earned = row.earned /\ r4.original = row.original /\ r4.decayed = row.decayed + amount
         /\ r4.burned = row.burned + burn /\ r4.recycled = row.recycled + (amount - burn)
    BY <1>2, <1>4, <1>10, <1>11 DEF Stats
  <1>13. PICK r5 : r5 = [r4 EXCEPT !.decay = now]
    OBVIOUS
  <1>14. /\ r5 \in Stats /\ r5.decayable = row.decayable - amount /\ r5.bounties = row.bounties
         /\ r5.earned = row.earned /\ r5.original = row.original /\ r5.decayed = row.decayed + amount
         /\ r5.burned = row.burned + burn /\ r5.recycled = row.recycled + (amount - burn)
    BY <1>2, <1>12, <1>13 DEF Stats
  <1>15. new = r5
    BY <1>2, <1>5, <1>7, <1>9, <1>11, <1>13 DEF Stats
  <1>16. RowBooks(r5)
    <2>1. r5.original = r5.earned
      BY <1>3, <1>14, Zenon
    <2>2. r5.original = r5.decayable + r5.decayed
      BY <1>2, <1>3, <1>4, <1>14
    <2>3. r5.decayed = r5.burned + r5.recycled
      BY <1>2, <1>3, <1>4, <1>14
    <2>4. DecayFloor(r5) = DecayFloor(row)
      BY <1>14, Zenon DEF DecayFloor
    <2>5. r5.decayable >= DecayFloor(r5)
      BY <1>2, <1>14, <2>4, Zenon
    <2>6. QED
      BY <2>1, <2>2, <2>3, <2>5, Zenon DEF RowBooks
  <1>17. QED
    BY <1>14, <1>15, <1>16, Zenon

\* Decay takes from the operator what the treasury gets and what is burned.
LEMMA DecayKeeps ==
  ASSUME EscrowInv, NEW operator \in Workers, apply_decay(operator)
  PROVE  EscrowInv'
  <1>1. /\ AccountsTypeOK /\ balance \in [Mints -> [Holders -> Nat]] /\ burned \in [Mints -> Nat]
        /\ escrow \in [Bounties -> Escrow \cup {None}] /\ proofs \in [Bounties -> Proof \cup {None}]
        /\ Conserved /\ PaidAreEmpty /\ OperatorsAreKnown /\ Books
    BY DEF EscrowInv, EscrowTypeOK
  <1>2. /\ config \in Config /\ now \in Times /\ stats \in [Users -> Stats \cup {None}]
        /\ metrics \in Metrics \cup {None} /\ config.rate \in Nat
    BY <1>1 DEF AccountsTypeOK, Config
  <1>3. PICK mint \in Mints : mint = config.mint
    BY <1>2 DEF Config
  <1>4. PICK w \in Users : w = operator
    BY EscrowAssumption
  <1>5. stats[w] # None
    BY <1>4, Zenon DEF apply_decay, Decayable
  <1>6. PICK row \in Stats : row = stats[w]
    BY <1>2, <1>5
  <1>7. /\ row.bounties = Cardinality(ProofsOf(w)) /\ RowBooks(row)
        /\ row.earned = Total(TokensOf(proofs, w), Bounties)
    BY <1>1, <1>5, <1>6, Zenon DEF Books
  <1>8. row.original = row.decayable + row.decayed
    BY <1>7, Zenon DEF RowBooks
  <1>9. PICK amount : amount = DecayAmount(row)
    OBVIOUS
  <1>10. PICK burn : burn = PartOf(amount, DecayBurnPart)
    OBVIOUS
  <1>11. PICK held \in [Holders -> Nat] : held = balance[mint]
    BY <1>1
  <1>12. PICK treasury \in Holders : treasury = "treasury"
    BY EscrowAssumption, HoldersAreFinite
  <1>13. PICK half : half = Moved(held, w, treasury, amount - burn)
    OBVIOUS
  <1>14. PICK new : new = [half EXCEPT ![w] = @ - burn]
    OBVIOUS
  <1>15. PICK n : n = [row EXCEPT !.decayable = @ - amount, !.decayed = @ + amount,
                         !.burned = @ + burn, !.recycled = @ + (amount - burn), !.decay = now]
    OBVIOUS
  <1>16. /\ row.original - row.decayed > DecayFloor(row)
         /\ DecayDue(row) > 0 /\ held[w] >= amount
         /\ balance' = [balance EXCEPT ![mint] = new]
         /\ burned' = [burned EXCEPT ![mint] = @ + burn]
         /\ stats' = [stats EXCEPT ![w] = n]
         /\ UNCHANGED <<now, config, metrics, escrow, proofs>>
    BY <1>3, <1>4, <1>6, <1>9, <1>10, <1>11, <1>12, <1>13, <1>14, <1>15, Zenon
       DEF apply_decay, Decayable, Held
  <1>17. row.decayable > DecayFloor(row)
    <2>1. row.decayable \in Nat /\ row.decayed \in Nat
      BY DEF Stats
    <2>2. row.original - row.decayed = row.decayable
      BY <1>8, <2>1
    <2>3. QED
      BY <1>16, <2>2, Zenon
  <1>18. /\ amount \in Nat /\ amount <= row.decayable /\ row.decayable - amount >= DecayFloor(row)
    <2>1. DecayDue(row) > 0
      BY <1>16
    <2>2. /\ DecayAmount(row) \in Nat /\ DecayAmount(row) <= row.decayable
          /\ row.decayable - DecayAmount(row) >= DecayFloor(row)
      BY <1>2, <1>8, <1>17, <2>1, DecayStops
    <2>3. QED
      BY <1>9, <2>2, Zenon
  <1>19. burn \in Nat /\ burn <= amount
    <2>1. DecayBurnPart \in 0 .. Whole
      BY EscrowAssumption
    <2>2. QED
      BY <1>10, <1>18, <2>1, PartFits, Zenon
  <1>20. w \in Holders /\ w # treasury
    BY <1>12, EscrowAssumption, ChainAssumption, HoldersAreFinite
  <1>21. PICK back \in Nat : back = amount - burn
    BY <1>18, <1>19
  <1>22. held[w] \in Nat
    BY <1>20
  <1>23. Transfer(held, half, w, treasury, back)
    <2>1. held[w] >= back
      BY <1>16, <1>18, <1>19, <1>21, <1>22
    <2>2. QED
      BY <1>13, <1>20, <1>21, <2>1, Zenon DEF Transfer
  <1>24. /\ half \in [Holders -> Nat] /\ half[w] = held[w] - back
         /\ TotalHeld(half) = TotalHeld(held) /\ TotalHeld(held) \in Nat
    BY <1>23, TransferHolds, Zenon
  <1>25. half[w] - burn \in Nat
    BY <1>16, <1>18, <1>19, <1>21, <1>22, <1>24
  <1>26. /\ new \in [Holders -> Nat] /\ new[w] = half[w] - burn
         /\ \A h \in Holders : h # w => new[h] = half[h]
    BY <1>14, <1>20, <1>24, <1>25
  <1>27. TotalHeld(new) = TotalHeld(half) - half[w] + new[w]
    BY <1>20, <1>24, <1>26, HeldChanges, Zenon
  <1>28. TotalHeld(new) = TotalHeld(held) - burn
    BY <1>18, <1>19, <1>21, <1>22, <1>24, <1>26, <1>27
  <1>29. PaidAreEmpty' /\ \A m : Total(InMint(escrow', m), Bounties) = Total(InMint(escrow, m), Bounties)
    BY <1>1, <1>16, EscrowsStay
  <1>30. burned[mint] \in Nat
    BY <1>1
  <1>31. PICK burnt \in Nat : burnt = burned[mint] + burn
    BY <1>19, <1>30
  <1>32. burned' = [burned EXCEPT ![mint] = burnt]
    BY <1>16, <1>31
  <1>33. TotalHeld(new) + burnt + Total(InMint(escrow', mint), Bounties)
           = TotalHeld(balance[mint]) + burned[mint] + Total(InMint(escrow, mint), Bounties)
    <2>1. TotalHeld(new) + burnt = TotalHeld(balance[mint]) + burned[mint]
      BY <1>11, <1>19, <1>24, <1>28, <1>30, <1>31
    <2>2. QED
      BY <1>29, <2>1, Zenon
  <1>34. balance' \in [Mints -> [Holders -> Nat]] /\ burned' \in [Mints -> Nat] /\ Conserved'
    BY <1>1, <1>16, <1>26, <1>29, <1>32, <1>33, SupplyStays
  <1>35. DecayedTo(row, amount, burn, n)
    BY <1>2, <1>7, <1>15, <1>18, <1>19, Zenon DEF DecayedTo
  <1>36. n \in Stats /\ RowBooks(n) /\ n.bounties = row.bounties /\ n.earned = row.earned
    BY <1>35, DecayedRow, Zenon
  <1>37. n.bounties = Cardinality(ProofsOf(w)) /\ n.earned = Total(TokensOf(proofs, w), Bounties)
    BY <1>7, <1>36, Zenon
  <1>38. AccountsTypeOK' /\ Books' /\ OperatorsAreKnown'
    BY <1>1, <1>16, <1>36, <1>37, RowChanges
  <1>39. /\ escrow' \in [Bounties -> Escrow \cup {None}]
         /\ proofs' \in [Bounties -> Proof \cup {None}]
    BY <1>1, <1>16
  <1>40. QED
    BY <1>29, <1>34, <1>38, <1>39, Zenon DEF EscrowInv, EscrowTypeOK

\* Administration, metrics and time, and a step of nothing at all.
LEMMA IdleKeeps ==
  ASSUME EscrowInv, administer \/ wait \/ UNCHANGED accountVars,
         UNCHANGED <<balance, burned, escrow, proofs>>
  PROVE  EscrowInv'
  <1>1. /\ AccountsTypeOK /\ balance \in [Mints -> [Holders -> Nat]] /\ burned \in [Mints -> Nat]
        /\ escrow \in [Bounties -> Escrow \cup {None}] /\ proofs \in [Bounties -> Proof \cup {None}]
        /\ Conserved /\ PaidAreEmpty /\ OperatorsAreKnown /\ Books
    BY DEF EscrowInv, EscrowTypeOK
  <1>2. /\ AccountsTypeOK' /\ stats' = stats
        /\ config'.bounties = config.bounties /\ config'.distributed = config.distributed
    <2>1. CASE administer \/ wait
      BY <1>1, <2>1, AdministrationKeeps
    <2>2. CASE UNCHANGED accountVars
      BY <1>1, <2>2 DEF accountVars, AccountsTypeOK
    <2>3. QED
      BY <2>1, <2>2
  <1>3. Books' /\ OperatorsAreKnown'
    BY <1>1, <1>2, BooksStay
  <1>4. PaidAreEmpty' /\ Conserved'
    BY <1>1, Zenon DEF PaidAreEmpty, Conserved
  <1>5. QED
    BY <1>1, <1>2, <1>3, <1>4, Zenon DEF EscrowInv, EscrowTypeOK

\* Every step.
LEMMA EscrowSteps == EscrowInv /\ [EscrowNext]_escrowVars => EscrowInv'
  <1> SUFFICES ASSUME EscrowInv, [EscrowNext]_escrowVars PROVE EscrowInv'
    OBVIOUS
  <1>1. ASSUME NEW b \in Bounties, NEW u \in Users, NEW amount \in Rewards,
               create_commercial_bounty(b, u, amount)
        PROVE  EscrowInv'
    BY <1>1, CreationKeeps
  <1>2. ASSUME NEW b \in Bounties, NEW u \in Users, refund_escrow(b, u)
        PROVE  EscrowInv'
    BY <1>2, RefundKeeps
  <1>3. ASSUME NEW b \in Bounties, NEW operator \in Workers, NEW reviewer \in Users,
               release_escrow(b, operator, reviewer)
        PROVE  EscrowInv'
    BY <1>3, ReleaseKeeps
  <1>4. ASSUME NEW b \in Bounties, NEW operator \in Workers, NEW reviewer \in Users,
               NEW tokens \in Payouts, submit_bounty_proof(b, operator, reviewer, tokens)
        PROVE  EscrowInv'
    BY <1>4, SubmissionKeeps
  <1>5. ASSUME NEW operator \in Workers, apply_decay(operator)
        PROVE  EscrowInv'
    BY <1>5, DecayKeeps
  <1>6. ASSUME NEW operator \in Workers, prepare_operator(operator),
               UNCHANGED <<balance, burned, escrow, proofs>>
        PROVE  EscrowInv'
    BY <1>6, PreparationKeeps
  <1>7. ASSUME administer \/ wait, UNCHANGED <<balance, burned, escrow, proofs>>
        PROVE  EscrowInv'
    BY <1>7, IdleKeeps
  <1>8. ASSUME UNCHANGED escrowVars
        PROVE  EscrowInv'
    BY <1>8, IdleKeeps, Zenon DEF escrowVars
  <1>9. QED
    BY <1>1, <1>2, <1>3, <1>4, <1>5, <1>6, <1>7, <1>8, Zenon DEF EscrowNext

\* The ledger of tokens and the books of operators hold together, in every reachable state.
THEOREM EscrowInvariant == EscrowSpec => []EscrowInv
  BY EscrowStarts, EscrowSteps, PTL DEF EscrowSpec

\* Whatever is escrowed, released, refunded, paid, decayed or burned, in any order and across
\* any migrations of the mint, the tokens of each mint are all there, and a released escrow is
\* empty (TokensAreConserved), for any endowments, amounts and parts.
THEOREM TokensConserved == EscrowSpec => [](EscrowTypeOK /\ TokensAreConserved)
  <1>1. EscrowInv => EscrowTypeOK /\ TokensAreConserved
    <2>1. SUFFICES ASSUME EscrowInv PROVE EscrowTypeOK /\ TokensAreConserved
      OBVIOUS
    <2>2. EscrowTypeOK /\ Conserved /\ PaidAreEmpty
      BY <2>1, Zenon DEF EscrowInv
    <2>3. ASSUME NEW m \in Mints
          PROVE  TotalHeld(Endowment[m]) =
                   TotalHeld(balance[m]) + burned[m]
                     + Total([b \in EscrowedIn(m) |-> escrow[b].amount], EscrowedIn(m))
      BY <2>2, EscrowedTotal, Zenon DEF Conserved
    <2>4. QED
      BY <2>2, <2>3, Zenon DEF TokensAreConserved, PaidAreEmpty
  <1>2. QED
    BY <1>1, EscrowInvariant, PTL

\* The statistics of every operator are those of its proofs, decay splits them without a
\* remainder and stops at the floor, and the program's counters are those of all proofs
\* (OperatorBooks), for any number of operators and bounties and any rates.
THEOREM OperatorBooksBalance == EscrowSpec => []OperatorBooks
  <1>1. EscrowInv => OperatorBooks
    <2>1. SUFFICES ASSUME EscrowInv PROVE OperatorBooks
      OBVIOUS
    <2>2. Books
      BY <2>1, Zenon DEF EscrowInv
    <2>3. ASSUME NEW u \in Users, stats[u] # None
          PROVE  /\ stats[u].bounties = Cardinality(ProofsOf(u))
                 /\ stats[u].earned = Total([b \in ProofsOf(u) |-> proofs[b].tokens], ProofsOf(u))
                 /\ stats[u].original = stats[u].earned
                 /\ stats[u].original = stats[u].decayable + stats[u].decayed
                 /\ stats[u].decayed = stats[u].burned + stats[u].recycled
                 /\ stats[u].decayable >= DecayFloor(stats[u])
      BY <2>2, <2>3, ProofTotals, Zenon DEF Books, RowBooks
    <2>4. /\ config.bounties = Cardinality(Proven)
          /\ config.distributed =
               Total([b \in Proven |-> proofs[b].tokens + proofs[b].reviewer], Proven)
      BY <2>2, ProofTotals, Zenon DEF Books
    <2>5. QED
      BY <2>3, <2>4, Zenon DEF OperatorBooks
  <1>2. QED
    BY <1>1, EscrowInvariant, PTL
=============================================================================
