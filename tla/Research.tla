------------------------------- MODULE Research -------------------------------
(***************************************************************************)
(* Research proposals of amos-governance (research.rs): the authority      *)
(* approves one and pays a part of its stipend, the oracle reports the     *)
(* milestones in order, and the authority graduates it with a bonus.       *)
(*                                                                         *)
(* The account has a fixed size and the length of a milestone's text is    *)
(* not limited: a completed milestone takes 40 bytes more, so a proposal   *)
(* may have no room to complete all of its milestones.                     *)
(***************************************************************************)
EXTENDS Governance

CONSTANTS
  Studies,         \* research proposal ids
  Stipend,         \* what each asks for
  MilestoneCounts, \* numbers of milestones, 0 included
  Completable      \* how many completed milestones an account may have room for

ASSUME ResearchAssumption ==
  /\ Studies \subseteq STRING
  /\ Stipend \in Nat /\ MilestoneCounts \subseteq Nat /\ Completable \subseteq Nat

VARIABLE study   \* ResearchProposal of each id, None until it is submitted

researchVars == <<governanceVars, study>>

ResearchProposal ==
  [ status    : {"Pending", "Active", "Completed", "Graduated"},   \* never Rejected
    milestone : UNION {[1 .. n -> BOOLEAN] : n \in MilestoneCounts},   \* completed
    current   : Nat,                                               \* current_milestone
    room      : Completable ]

ASSUME NoneIsNoStudy == None \notin ResearchProposal

ResearchTypeOK ==
  /\ GovernanceTypeOK
  /\ study \in [Studies -> ResearchProposal \cup {None}]

ResearchInit == GovernanceInit /\ study = [s \in Studies |-> None]

StudyIs(s, status) == study[s] # None /\ study[s].status = status
Milestones(s) == DOMAIN study[s].milestone

submit_research_proposal(s, n, room) ==
  /\ params # None
  /\ study[s] = None
  /\ study' = [study EXCEPT ![s] =
       [ status |-> "Pending", milestone |-> [i \in 1 .. n |-> FALSE], current |-> 0,
         room |-> room ]]
  /\ UNCHANGED governanceVars

approve_research(s) ==
  /\ StudyIs(s, "Pending")
  /\ Pays(s, "Stipend", PartOf(Stipend, params.stipend))
  /\ study' = [study EXCEPT ![s].status = "Active"]
  /\ UNCHANGED <<now, params>>

report_research_milestone_any_order(s, i) ==
  LET done == study[s].current + 1 IN
  /\ StudyIs(s, "Active")
  /\ i \in Milestones(s)
  /\ ~study[s].milestone[i]
  /\ done <= study[s].room
  /\ study' = [study EXCEPT ![s] =
       [ status |-> IF done >= Cardinality(Milestones(s)) THEN "Completed" ELSE "Active",
         milestone |-> [study[s].milestone EXCEPT ![i] = TRUE], current |-> done,
         room |-> study[s].room ]]
  /\ UNCHANGED governanceVars

\* The next milestone, and the research is complete with the last one.  A proposal without
\* milestones is never complete.
report_research_milestone(s, i) ==
  LET done == study[s].current + 1 IN
  /\ StudyIs(s, "Active")
  /\ i \in Milestones(s) /\ i = done
  /\ ~study[s].milestone[i]
  /\ done <= study[s].room
  /\ study' = [study EXCEPT ![s] =
       [ status |-> IF done >= Cardinality(Milestones(s)) THEN "Completed" ELSE "Active",
         milestone |-> [study[s].milestone EXCEPT ![i] = TRUE], current |-> done,
         room |-> study[s].room ]]
  /\ UNCHANGED governanceVars

graduate_research(s) ==
  /\ StudyIs(s, "Completed")
  /\ \A i \in Milestones(s) : study[s].milestone[i]
  /\ Pays(s, "Bonus", PartOf(Stipend, params.success))
  /\ study' = [study EXCEPT ![s].status = "Graduated"]
  /\ UNCHANGED <<now, params>>

ResearchNext ==
  \/ \E s \in Studies :
       \/ \E n \in MilestoneCounts, room \in Completable : submit_research_proposal(s, n, room)
       \/ approve_research(s)
       \/ \E i \in 1 .. Max(MilestoneCounts) : report_research_milestone(s, i)
       \/ graduate_research(s)
  \/ govern /\ UNCHANGED study

ResearchSpec == ResearchInit /\ [][ResearchNext]_researchVars

-----------------------------------------------------------------------------
\* Properties.

\* The bonus is paid once, after the stipend, and only for research whose milestones were all
\* reported, one after the other and at least one.
BonusIsEarned ==
  \A s \in Studies : study[s] # None =>
    /\ \A i \in Milestones(s) : study[s].milestone[i] <=> i <= study[s].current
    /\ Cardinality(PaidFor(s, "Stipend")) = IF study[s].status = "Pending" THEN 0 ELSE 1
    /\ Cardinality(PaidFor(s, "Bonus")) = IF study[s].status = "Graduated" THEN 1 ELSE 0
    /\ PaidFor(s, "Bonus") # {} =>
         Milestones(s) # {} /\ \A i \in Milestones(s) : study[s].milestone[i]
=============================================================================
