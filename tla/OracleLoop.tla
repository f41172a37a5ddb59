------------------------------ MODULE OracleLoop ------------------------------
(***************************************************************************)
(* The oracle: intakes, escalations and the daemon that decides on them    *)
(* (amos-relay/src/routes/intakes.rs and escalations.rs, amos-oracle).     *)
(*                                                                         *)
(* One daemon polls the relay.  In a pass over the pending intakes, and    *)
(* then one over the work that waits for review, it asks a model for a     *)
(* verdict, writes the decision to the log, and carries it out by calls to *)
(* the relay that are not one transaction.  What the model answers is any  *)
(* answer; a verdict of refine is carried out like one of reject.  The     *)
(* council resolves escalations meanwhile.                                 *)
(*                                                                         *)
(* A call may fail, or succeed with its answer lost, and the daemon may    *)
(* die between two calls: each such fault is counted.                      *)
(*                                                                         *)
(* That there is one daemon, and no other client that commissions and      *)
(* escalates, is an assumption: OracleAgent is meant to be run several     *)
(* times (agent.rs), and nothing in the relay keeps two of them from       *)
(* commissioning one intake, or escalating one bounty, twice.              *)
(***************************************************************************)
EXTENDS Integers, Sequences, FiniteSets

CONSTANTS
  Nothing,
  Intakes,       \* submissions, oldest first: an interval of numbers
  Works,         \* bounties with verified work
  Limit,         \* LIMIT of the list of pending intakes
  MaxDecisions,  \* bound of the model
  MaxFaults      \* bound of the model

ASSUME OracleAssumption ==
  /\ Intakes \subseteq Nat /\ Works \subseteq Nat /\ Works \cap Intakes = {}
  /\ IsFiniteSet(Intakes) /\ IsFiniteSet(Works)
  /\ Nothing # "commission"
  /\ Limit \in Nat \ {0} /\ MaxDecisions \in Nat /\ MaxFaults \in Nat

VARIABLES
  intake,      \* oracle_intakes, Nothing before it is created
  made,        \* how many bounties were created for an intake
  work,        \* status of a bounty under review, and its oracle_review_escalation_id
  decisions,   \* the decisions of the daemon, in order
  escalation,  \* oracle_escalations, in order
  daemon,      \* where the daemon is in its pass
  faults

oracleVars == <<intake, made, work, decisions, escalation, daemon, faults>>

IntakeVerdicts == {"commission", "reject", "escalate"}
ReviewVerdicts == {"approve", "reject", "revise", "escalate"}

Intake == [ status   : {"pending", "evaluated"},
            verdict  : IntakeVerdicts \cup {Nothing},
            decision : Nat,   \* decision_id, 0 for none
            bounty   : Nat ]  \* commissioned_bounty_id, 0 for none

Work == [ status : {"submitted", "revision", "approved", "rejected"},
          link   : Nat ]

Decision == [ subject : Intakes \cup Works,
              verdict : IntakeVerdicts \cup ReviewVerdicts,
              logged  : BOOLEAN ]  \* its row is in oracle_decisions

Escalation == [ decision : Nat, status : {"pending", "resolved"} ]

Daemon == [ pass   : {"intakes", "reviews"},
            queue  : Seq(Intakes \cup Works),
            step   : {"evaluate", "dispatch", "record"},
            bounty : Nat ]  \* commissioned_bounty_id of the decision at hand

ASSUME NothingIsNoIntake == Nothing \notin Intake

OracleTypeOK ==
  /\ intake \in [Intakes -> Intake \cup {Nothing}] /\ made \in [Intakes -> Nat]
  /\ work \in [Works -> Work]
  /\ decisions \in Seq(Decision) /\ Len(decisions) <= MaxDecisions
  /\ escalation \in Seq(Escalation)
  /\ daemon \in Daemon /\ faults \in 0 .. MaxFaults

OracleInit ==
  /\ intake = [i \in Intakes |-> Nothing] /\ made = [i \in Intakes |-> 0]
  /\ work = [w \in Works |-> [status |-> "submitted", link |-> 0]]
  /\ decisions = <<>> /\ escalation = <<>>
  /\ daemon = [pass |-> "reviews", queue |-> <<>>, step |-> "evaluate", bounty |-> 0]
  /\ faults = 0

-----------------------------------------------------------------------------
\* Intakes.

create_intake(i) ==
  /\ intake[i] = Nothing
  /\ \A j \in Intakes : j < i => intake[j] # Nothing
  /\ intake' = [intake EXCEPT ![i] =
       [status |-> "pending", verdict |-> Nothing, decision |-> 0, bounty |-> 0]]
  /\ UNCHANGED <<made, work, decisions, escalation, daemon, faults>>

Pending == {i \in Intakes : intake[i] # Nothing /\ intake[i].status = "pending"}

\* The oldest first, and not more than Limit.
Oldest(S) == {i \in S : Cardinality({j \in S : j < i}) < Limit}

\* The list of S, oldest first: there is one.
InOrder(S) == {s \in [1 .. Cardinality(S) -> S] : \A j, k \in DOMAIN s : j < k => s[j] < s[k]}

AtHand == Head(daemon.queue)
LastDecision == decisions[Len(decisions)]

Doing(pass, step) == daemon.pass = pass /\ daemon.queue # <<>> /\ daemon.step = step

\* On to the next of the list.
Done == [pass |-> daemon.pass, queue |-> Tail(daemon.queue), step |-> "evaluate", bounty |-> 0]

\* On to a step of what is at hand.
AtStep(step, bounty) ==
  [pass |-> daemon.pass, queue |-> daemon.queue, step |-> step, bounty |-> bounty]

\* A fault, within the bound.
Fault == faults < MaxFaults /\ faults' = faults + 1

\* tick, up to the list of intakes, which is read once; if the list cannot be read the pass
\* is empty.
list_pending_intakes ==
  /\ daemon.pass = "reviews" /\ daemon.queue = <<>>
  /\ \E read \in InOrder(Oldest(Pending)) \cup {<<>>} :
       daemon' = [pass |-> "intakes", queue |-> read, step |-> "evaluate", bounty |-> 0]
  /\ UNCHANGED <<intake, made, work, decisions, escalation, faults>>

\* A commission that is not within the daemon's own authority, for its confidence, its points
\* or its category, becomes an escalation.
apply_intake_guards(verdict, authorized) ==
  IF verdict = "commission" /\ ~authorized THEN "escalate" ELSE verdict

\* The decision, and its row in the log; a row that cannot be written is not an error.
Decide(subject, verdict) ==
  /\ Len(decisions) < MaxDecisions
  /\ \E logged \in BOOLEAN :
       /\ decisions' = Append(decisions, [subject |-> subject, verdict |-> verdict,
                                          logged |-> logged])
       /\ IF logged THEN UNCHANGED faults ELSE Fault

\* intake::evaluate: the model fails or answers nonsense, or there is a decision.
evaluate_intake ==
  /\ Doing("intakes", "evaluate")
  /\ \/ daemon' = Done /\ UNCHANGED <<decisions, faults>>
     \/ /\ \E verdict \in IntakeVerdicts, authorized \in BOOLEAN :
             Decide(AtHand, apply_intake_guards(verdict, authorized))
        /\ daemon' = AtStep("dispatch", 0)
  /\ UNCHANGED <<intake, made, work, escalation>>

\* A bounty is posted for a commission.
create_bounty ==
  /\ Doing("intakes", "dispatch") /\ LastDecision.verdict = "commission"
  /\ \/ /\ made' = [made EXCEPT ![AtHand] = @ + 1]
        /\ \/ daemon' = AtStep("record", made'[AtHand])
              /\ UNCHANGED faults
           \/ daemon' = Done /\ Fault
     \/ daemon' = Done /\ Fault /\ UNCHANGED made
  /\ UNCHANGED <<intake, work, decisions, escalation>>

\* Nothing to do for a rejection but to record it.
reject_intake ==
  /\ Doing("intakes", "dispatch") /\ LastDecision.verdict = "reject"
  /\ daemon' = AtStep("record", 0)
  /\ UNCHANGED <<intake, made, work, decisions, escalation, faults>>

\* The row of an escalation; work under review is linked to it in the same transaction.
create_escalation ==
  /\ escalation' = Append(escalation, [decision |-> Len(decisions), status |-> "pending"])
  /\ work' = [w \in Works |->
       IF w = AtHand THEN [work[w] EXCEPT !.link = Len(escalation')] ELSE work[w]]

\* Refused if the decision is not in the log.
escalate_intake ==
  /\ Doing("intakes", "dispatch") /\ LastDecision.verdict = "escalate"
  /\ \/ /\ LastDecision.logged /\ create_escalation
        /\ \/ daemon' = AtStep("record", 0) /\ UNCHANGED faults
           \/ daemon' = Done /\ Fault
     \/ /\ daemon' = Done /\ UNCHANGED <<escalation, work>>
        /\ IF LastDecision.logged THEN Fault ELSE UNCHANGED faults
  /\ UNCHANGED <<intake, made, decisions>>

\* The row of the intake, if it is pending; it refers to the row of the decision.
record_evaluation(i) ==
  intake' = IF intake[i].status = "pending" /\ LastDecision.logged
            THEN [intake EXCEPT ![i] =
                    [status |-> "evaluated", verdict |-> LastDecision.verdict,
                     decision |-> Len(decisions), bounty |-> daemon.bounty]]
            ELSE intake

\* The last call of an intake's dispatch; nothing is done about its failure.
record_intake_evaluation ==
  /\ Doing("intakes", "record")
  /\ \/ record_evaluation(AtHand) /\ UNCHANGED faults
     \/ UNCHANGED intake /\ Fault
  /\ daemon' = Done
  /\ UNCHANGED <<made, work, decisions, escalation>>

-----------------------------------------------------------------------------
\* Reviews.

PendingReviews_escalated_too == {w \in Works : work[w].status = "submitted"}

\* /pending-review: submitted work that waits for no escalation.
PendingReviews == {w \in Works : work[w].status = "submitted" /\ work[w].link = 0}

list_pending_reviews ==
  /\ daemon.pass = "intakes" /\ daemon.queue = <<>>
  /\ \E read \in InOrder(PendingReviews) \cup {<<>>} :
       daemon' = [pass |-> "reviews", queue |-> read, step |-> "evaluate", bounty |-> 0]
  /\ UNCHANGED <<intake, made, work, decisions, escalation, faults>>

\* An approval needs confidence.
apply_review_guards(verdict, confident) ==
  IF verdict = "approve" /\ ~confident THEN "escalate" ELSE verdict

evaluate_review ==
  /\ Doing("reviews", "evaluate")
  /\ \/ daemon' = Done /\ UNCHANGED <<decisions, faults>>
     \/ /\ \E verdict \in ReviewVerdicts, confident \in BOOLEAN :
             Decide(AtHand, apply_review_guards(verdict, confident))
        /\ daemon' = AtStep("dispatch", 0)
  /\ UNCHANGED <<intake, made, work, escalation>>

\* approve, reject and request_revision of the relay, on submitted work only; none of them
\* looks at the link.
Review(w, verdict) ==
  /\ work[w].status = "submitted"
  /\ work' = [work EXCEPT ![w].status =
       CASE verdict = "approve" -> "approved"
         [] verdict = "reject"  -> "rejected"
         [] verdict = "revise"  -> "revision"]

\* One call; what it did not do comes back with the next tick.
dispatch_review_decision ==
  /\ Doing("reviews", "dispatch")
  /\ \/ /\ LastDecision.verdict # "escalate" /\ Review(AtHand, LastDecision.verdict)
        /\ UNCHANGED <<escalation, faults>>
     \/ /\ LastDecision.verdict = "escalate" /\ LastDecision.logged /\ create_escalation
        /\ UNCHANGED faults
     \/ UNCHANGED <<work, escalation, faults>>
  /\ daemon' = Done
  /\ UNCHANGED <<intake, made, decisions>>

\* A human reviewer, and the worker's next submission after a revision.
review_by_hand(w) ==
  /\ \E verdict \in ReviewVerdicts \ {"escalate"} : Review(w, verdict)
  /\ UNCHANGED <<intake, made, decisions, escalation, daemon, faults>>

submit_again(w) ==
  /\ work[w].status = "revision"
  /\ work' = [work EXCEPT ![w].status = "submitted"]
  /\ UNCHANGED <<intake, made, decisions, escalation, daemon, faults>>

-----------------------------------------------------------------------------
\* The council, and the death of the daemon.

\* The intake that recorded this decision; no row, if the daemon has not recorded it yet.
link_intake_to_bounty(d, verdict, bounty) ==
  intake' = [i \in Intakes |->
    IF intake[i] # Nothing /\ intake[i].decision = d
    THEN [intake[i] EXCEPT !.verdict = verdict, !.bounty = bounty] ELSE intake[i]]

\* A bounty from the council's specification or the daemon's draft.
create_bounty_from_spec(i) == made' = [made EXCEPT ![i] = @ + 1]

\* On work under review, the verdict is left for somebody to carry out; on an intake, verdicts
\* other than these are only noted.
Dispatched(e, verdict) ==
  LET d == escalation[e].decision
      subject == decisions[d].subject
  IN \/ /\ subject \in Works
        /\ work' = [w \in Works |->
             IF work[w].link = e THEN [work[w] EXCEPT !.link = 0] ELSE work[w]]
        /\ UNCHANGED <<intake, made>>
     \/ /\ subject \in Intakes /\ verdict = "commission"
        /\ create_bounty_from_spec(subject)
        /\ link_intake_to_bounty(d, verdict, made'[subject])
        /\ UNCHANGED work
     \/ /\ subject \in Intakes /\ verdict = "reject"
        /\ link_intake_to_bounty(d, verdict, 0)
        /\ UNCHANGED <<made, work>>
     \/ /\ subject \in Intakes /\ verdict \notin {"commission", "reject"}
        /\ UNCHANGED <<intake, made, work>>

resolve_escalation_twice(e, verdict) ==
  /\ escalation' = [escalation EXCEPT ![e].status = "resolved"]
  /\ Dispatched(e, verdict)
  /\ UNCHANGED <<decisions, daemon, faults>>

\* One transaction.
resolve_escalation(e, verdict) ==
  /\ escalation[e].status = "pending"
  /\ escalation' = [escalation EXCEPT ![e].status = "resolved"]
  /\ Dispatched(e, verdict)
  /\ UNCHANGED <<decisions, daemon, faults>>

\* Started again, it reads its lists anew.
restart ==
  /\ daemon.queue # <<>>
  /\ Fault
  /\ daemon' = [pass |-> "reviews", queue |-> <<>>, step |-> "evaluate", bounty |-> 0]
  /\ UNCHANGED <<intake, made, work, decisions, escalation>>

OracleNext ==
  \/ \E i \in Intakes : create_intake(i)
  \/ list_pending_intakes \/ evaluate_intake
  \/ create_bounty \/ reject_intake \/ escalate_intake \/ record_intake_evaluation
  \/ list_pending_reviews \/ evaluate_review \/ dispatch_review_decision
  \/ \E w \in Works : review_by_hand(w) \/ submit_again(w)
  \/ \E e \in DOMAIN escalation, verdict \in {"commission", "reject", "other"} :
       resolve_escalation(e, verdict)
  \/ restart

OracleSpec == OracleInit /\ [][OracleNext]_oracleVars

-----------------------------------------------------------------------------
\* Properties.

\* An intake becomes one bounty, and one more for every fault at most, although each tick
\* evaluates it afresh until its evaluation is recorded and the council may decide on it in
\* between; what was recorded as commissioned has its bounty, and nothing else has one.
CommissionedOnce ==
  \A i \in Intakes :
    /\ made[i] <= 1 + faults
    /\ intake[i] # Nothing =>
         /\ intake[i].bounty <= made[i]
         /\ intake[i].verdict = "commission" <=> intake[i].bounty # 0

\* Work that is kept from the oracle waits for an escalation of its own which the council can
\* still resolve, otherwise nobody would ever look at it again; and no other escalation about
\* it is open, although the daemon decides on lists that may be old and may die at any step.
LinkIsPending ==
  /\ \A w \in Works : work[w].link # 0 =>
       /\ work[w].link \in DOMAIN escalation
       /\ escalation[work[w].link].status = "pending"
  /\ \A e \in DOMAIN escalation, w \in Works :
       escalation[e].status = "pending" /\ decisions[escalation[e].decision].subject = w <=>
         work[w].link = e
=============================================================================
