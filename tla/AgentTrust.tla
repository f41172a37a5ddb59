------------------------------ MODULE AgentTrust ------------------------------
(***************************************************************************)
(* Trust in agents, on chain (amos-bounty/src/instructions/trust.rs, and   *)
(* the check of submit_bounty_proof): an agent registers at level 1, the   *)
(* oracle reports completions and rejections, anybody may raise an agent   *)
(* whose record allows it, and the oracle may set the level of an agent    *)
(* that has completed nothing.  A level is never taken back by a           *)
(* rejection.                                                              *)
(***************************************************************************)
EXTENDS Chain

CONSTANTS
  Agents,
  MinCompletions,  \* TRUST_LEVEL_n_MIN_COMPLETIONS, for the levels after the first
  MinReputation,   \* TRUST_LEVEL_n_MIN_REPUTATION, in parts of Whole
  MaxPoints,       \* TRUST_LEVEL_MAX_POINTS
  Requests,        \* points an agent may ask for
  MaxReports       \* bound of the model: reports about one agent

Levels == DOMAIN MaxPoints
TopLevel == CHOOSE l \in Levels : \A k \in Levels : k <= l

ASSUME TrustAssumption ==
  /\ TopLevel \in Nat \ {0} /\ Levels = 1 .. TopLevel
  /\ MaxPoints \in [Levels -> Nat]
  /\ \A k, l \in Levels : k <= l => MaxPoints[k] <= MaxPoints[l]
  /\ MinCompletions \in [2 .. TopLevel -> Nat] /\ MinReputation \in [2 .. TopLevel -> Nat]
  /\ Requests \subseteq Nat \ {0} /\ MaxReports \in Nat

VARIABLES
  trust,        \* AgentTrustRecord of each agent, None until it registers
  bootstrapped  \* history: the highest level the oracle has set

trustVars == <<trust, bootstrapped>>

TrustRecord == [ level       : Levels,
                 completions : Nat,
                 rejections  : Nat,
                 reputation  : 0 .. Whole,
                 largest     : Nat ]  \* the largest base_points of its proofs

TrustTypeOK ==
  /\ trust \in [Agents -> TrustRecord \cup {None}]
  /\ bootstrapped \in [Agents -> Levels]

TrustInit ==
  /\ trust = [a \in Agents |-> None]
  /\ bootstrapped = [a \in Agents |-> 1]

calculate_reputation_by_rejections(completions, rejections) ==
  (completions * Whole) \div Most(rejections, 1)

calculate_reputation(completions, rejections) ==
  IF completions + rejections = 0 THEN 0
  ELSE (completions * Whole) \div (completions + rejections)

register_agent_trust(a) ==
  /\ trust[a] = None
  /\ trust' = [trust EXCEPT ![a] = [level |-> 1, completions |-> 0, rejections |-> 0,
                                    reputation |-> 0, largest |-> 0]]
  /\ UNCHANGED bootstrapped

record_agent_completion(a, approved) ==
  LET completions == trust[a].completions + (IF approved THEN 1 ELSE 0)
      rejections  == trust[a].rejections + (IF approved THEN 0 ELSE 1)
  IN /\ trust[a] # None
     /\ trust[a].completions + trust[a].rejections < MaxReports
     /\ trust' = [trust EXCEPT ![a] =
          [@ EXCEPT !.completions = completions, !.rejections = rejections,
                    !.reputation = calculate_reputation(completions, rejections)]]
     /\ UNCHANGED bootstrapped

can_upgrade_to_level_on_reputation(level, row) ==
  level + 1 \in Levels /\ row.reputation >= MinReputation[level + 1]

can_upgrade_to_level(level, row) ==
  /\ level + 1 \in Levels
  /\ row.completions >= MinCompletions[level + 1]
  /\ row.reputation >= MinReputation[level + 1]

\* Permissionless, one level at a time.
upgrade_trust_level(a) ==
  /\ trust[a] # None
  /\ can_upgrade_to_level(trust[a].level, trust[a])
  /\ trust' = [trust EXCEPT ![a].level = @ + 1]
  /\ UNCHANGED bootstrapped

\* Up or down, again and again, as long as nothing was completed; rejections do not count.
bootstrap_agent_trust(a, level) ==
  /\ trust[a] # None
  /\ trust[a].completions = 0
  /\ trust' = [trust EXCEPT ![a].level = level]
  /\ bootstrapped' = [bootstrapped EXCEPT ![a] = Most(@, level)]

\* submit_bounty_proof for an agent: the level bounds the points of one bounty.
submit_agent_proof(a, points) ==
  /\ trust[a] # None
  /\ points <= MaxPoints[trust[a].level]
  /\ trust' = [trust EXCEPT ![a].largest = Most(@, points)]
  /\ UNCHANGED bootstrapped

TrustNext ==
  \E a \in Agents :
    \/ register_agent_trust(a)
    \/ \E approved \in BOOLEAN : record_agent_completion(a, approved)
    \/ upgrade_trust_level(a)
    \/ \E level \in Levels : bootstrap_agent_trust(a, level)
    \/ \E points \in Requests : submit_agent_proof(a, points)

TrustSpec == TrustInit /\ [][TrustNext]_trustVars

-----------------------------------------------------------------------------
\* Properties.

\* Points of an agent that nobody vouched for rest on its record: a bounty larger than the
\* level the oracle granted needs the completions of the level that allows it, however the
\* reports, the upgrades and the bootstraps were ordered.
PointsAreEarned ==
  \A a \in Agents : trust[a] # None =>
    \A level \in 2 .. TopLevel :
      trust[a].largest > MaxPoints[level - 1] =>
        \/ bootstrapped[a] >= level
        \/ trust[a].completions >= MinCompletions[level]
=============================================================================
