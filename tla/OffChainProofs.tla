---------------------------- MODULE OffChainProofs ----------------------------
(***************************************************************************)
(* What does not hang together by accounts: the two programs that work     *)
(* with a model, and the arithmetic of the token.                          *)
(*                                                                         *)
(* What holds of the oracle's decisions for any number of intakes and of   *)
(* works, any limit of the lists and any number of faults: the work that   *)
(* is kept from the one oracle waits for an open escalation, and an intake *)
(* becomes one bounty and one more for every fault at most.  What holds of *)
(* the agent's conversations for whatever history, any number of turns and *)
(* compaction at any of them: its own calls have their results and its own *)
(* results their calls.  What holds of holdings, curves and quotes for any *)
(* amounts, days and rates: decay stops at the floor, a budget does not    *)
(* rise, and what is promised is within what is paid.                      *)
(***************************************************************************)
EXTENDS OracleLoop, AgentLoop, TokenMath, FiniteSetTheorems, SequenceTheorems, TLAPS

-----------------------------------------------------------------------------
(* Escalations and links. *)

\* The list of a pass names nothing twice, and what it names is still to be done: only the
\* daemon itself evaluates an intake or links work to an escalation.
QueueIsFresh ==
  /\ \A j, k \in DOMAIN daemon.queue : daemon.queue[j] = daemon.queue[k] => j = k
  /\ \A k \in DOMAIN daemon.queue :
       /\ daemon.pass = "intakes" => daemon.queue[k] \in Pending
       /\ daemon.pass = "reviews" => daemon.queue[k] \in Works /\ work[daemon.queue[k]].link = 0

\* Past its evaluation, what is at hand is what was decided last.
HandIsDecided ==
  /\ daemon.queue = <<>> => daemon.step = "evaluate"
  /\ daemon.step = "record" => daemon.pass = "intakes"
  /\ daemon.step # "evaluate" =>
       /\ Len(decisions) # 0 /\ LastDecision.subject = AtHand
       /\ daemon.pass = "intakes" => LastDecision.verdict \in IntakeVerdicts
       /\ daemon.pass = "reviews" => LastDecision.verdict \in ReviewVerdicts

\* Escalations and evaluations are of decisions, and an evaluation of its own.
RefersToDecisions ==
  /\ \A e \in DOMAIN escalation : escalation[e].decision \in DOMAIN decisions
  /\ \A i \in Intakes : intake[i] # Nothing /\ intake[i].decision # 0 =>
       /\ intake[i].decision \in DOMAIN decisions
       /\ decisions[intake[i].decision].subject = i

LinkInv ==
  OracleTypeOK /\ QueueIsFresh /\ HandIsDecided /\ RefersToDecisions /\ LinkIsPending

LEMMA OracleInvInit == OracleInit => LinkInv
  <1> SUFFICES ASSUME OracleInit PROVE LinkInv
    OBVIOUS
  <1>1. OracleTypeOK
    BY OracleAssumption DEF OracleInit, OracleTypeOK, Work, Decision, Escalation, Daemon
  <1>2. QueueIsFresh /\ HandIsDecided
    BY DEF OracleInit, QueueIsFresh, HandIsDecided
  <1>3. RefersToDecisions /\ LinkIsPending
    BY DEF OracleInit, RefersToDecisions, LinkIsPending
  <1>4. QED
    BY <1>1, <1>2, <1>3 DEF LinkInv

\* What is read of a finite set is a list of its members that names none twice.
LEMMA ListedInOrder ==
  ASSUME NEW S \in SUBSET Nat, IsFiniteSet(S), NEW read \in InOrder(S) \cup {<<>>}
  PROVE  /\ read \in Seq(S)
         /\ \A k \in DOMAIN read : read[k] \in S
         /\ \A j, k \in DOMAIN read : read[j] = read[k] => j = k
  <1>1. Cardinality(S) \in Nat
    BY FS_CardinalityType
  <1>2. CASE read = <<>>
    <2>1. Len(read) = 0 /\ read \in Seq(S)
      BY <1>2
    <2>2. DOMAIN read = {}
      BY <2>1
    <2>3. QED
      BY <2>1, <2>2
  <1>3. CASE read \in InOrder(S)
    <2>1. /\ read \in [1 .. Cardinality(S) -> S]
          /\ \A j, k \in DOMAIN read : j < k => read[j] < read[k]
      BY <1>3 DEF InOrder
    <2>2. read \in Seq(S)
      BY <1>1, <2>1
    <2>3. ASSUME NEW j \in DOMAIN read, NEW k \in DOMAIN read, read[j] = read[k]
          PROVE  j = k
      <3>0. j \in 1 .. Cardinality(S) /\ k \in 1 .. Cardinality(S)
        BY <2>1
      <3>1. j \in Nat /\ k \in Nat /\ read[j] \in Nat /\ read[k] \in Nat
        <4>1. read[j] \in S /\ read[k] \in S
          BY <2>1, <3>0
        <4>2. read[j] \in Nat /\ read[k] \in Nat
          BY <4>1
        <4>3. j \in Nat /\ k \in Nat
          BY <1>1, <3>0
        <4>4. QED
          BY <4>2, <4>3
      <3>2. ~(j < k) /\ ~(k < j)
        BY <2>1, <2>3, <3>1
      <3>3. QED
        BY <3>1, <3>2
    <2>4. QED
      BY <2>1, <2>2, <2>3
  <1>4. QED
    BY <1>2, <1>3

\* What is at hand heads the list.
LEMMA AtHandType ==
  ASSUME OracleTypeOK, QueueIsFresh, daemon.queue # <<>>
  PROVE  /\ AtHand = daemon.queue[1] /\ 1 \in DOMAIN daemon.queue
         /\ AtHand \in Intakes \cup Works
         /\ daemon.pass = "intakes" => AtHand \in Intakes /\ AtHand \in Pending
         /\ daemon.pass = "reviews" => AtHand \in Works /\ work[AtHand].link = 0
  <1>1. daemon.queue \in Seq(Intakes \cup Works) /\ daemon.pass \in {"intakes", "reviews"}
    BY DEF OracleTypeOK, Daemon
  <1>2. AtHand = daemon.queue[1] /\ 1 \in DOMAIN daemon.queue
    BY <1>1 DEF AtHand
  <1>3. QED
    BY <1>1, <1>2 DEF QueueIsFresh, Pending

\* The daemon goes on to the next of its list: what remains of it is as fresh as it was.
LEMMA NextOfList ==
  ASSUME OracleTypeOK, QueueIsFresh, daemon.queue # <<>>, daemon' = Done,
         \A i \in Intakes : i \in Pending /\ i # AtHand => i \in Pending',
         \A w \in Works : work[w].link = 0 /\ w # AtHand => work'[w].link = 0
  PROVE  /\ daemon' \in Daemon /\ daemon'.step = "evaluate" /\ daemon'.bounty = 0
         /\ daemon'.pass = daemon.pass
         /\ QueueIsFresh' /\ HandIsDecided'
  <1> DEFINE q == daemon.queue
  <1>1. q \in Seq(Intakes \cup Works) /\ daemon.pass \in {"intakes", "reviews"}
    BY DEF OracleTypeOK, Daemon
  <1>2. /\ daemon'.pass = daemon.pass /\ daemon'.queue = Tail(q)
        /\ daemon'.step = "evaluate" /\ daemon'.bounty = 0
    BY DEF Done
  <1>3. Tail(q) \in Seq(Intakes \cup Works) /\ \A k \in DOMAIN Tail(q) :
          k \in Nat /\ k + 1 \in DOMAIN q /\ k + 1 # 1 /\ Tail(q)[k] = q[k + 1]
    BY <1>1
  <1>4. daemon' \in Daemon
    BY <1>1, <1>3 DEF Done, Daemon
  <1>5. AtHand = q[1] /\ 1 \in DOMAIN q
    BY AtHandType
  <1>6. \A j, k \in DOMAIN daemon'.queue : daemon'.queue[j] = daemon'.queue[k] => j = k
    <2> SUFFICES ASSUME NEW j \in DOMAIN Tail(q), NEW k \in DOMAIN Tail(q),
                        Tail(q)[j] = Tail(q)[k]
                 PROVE  j = k
      BY <1>2
    <2>1. j + 1 = k + 1
      BY <1>3 DEF QueueIsFresh
    <2>2. QED
      BY <1>3, <2>1
  <1>7. ASSUME NEW k \in DOMAIN Tail(q)
        PROVE  /\ daemon.pass = "intakes" => Tail(q)[k] \in Pending'
               /\ daemon.pass = "reviews" => Tail(q)[k] \in Works /\ work'[Tail(q)[k]].link = 0
    <2>1. Tail(q)[k] # AtHand
      BY <1>3, <1>5 DEF QueueIsFresh
    <2>2. /\ daemon.pass = "intakes" => Tail(q)[k] \in Pending
          /\ daemon.pass = "reviews" => Tail(q)[k] \in Works /\ work[Tail(q)[k]].link = 0
      BY <1>3 DEF QueueIsFresh
    <2>3. QED
      BY <2>1, <2>2 DEF Pending
  <1>8. QueueIsFresh'
    BY <1>2, <1>6, <1>7 DEF QueueIsFresh
  <1>9. QED
    BY <1>2, <1>4, <1>8 DEF HandIsDecided

\* The daemon stays where it is, while nothing that is still to be done is taken from it.
LEMMA SameList ==
  ASSUME OracleTypeOK, QueueIsFresh, daemon'.pass = daemon.pass, daemon'.queue = daemon.queue,
         \A i \in Intakes : i \in Pending => i \in Pending',
         \A w \in Works : work[w].link = 0 => work'[w].link = 0
  PROVE  QueueIsFresh'
  BY DEF QueueIsFresh, Pending

-----------------------------------------------------------------------------
(* The steps of the daemon. *)

\* A decision is added at the end of the log.
LEMMA DecideEffect ==
  ASSUME OracleTypeOK, NEW subject \in Intakes \cup Works,
         NEW verdict \in IntakeVerdicts \cup ReviewVerdicts, Decide(subject, verdict)
  PROVE  /\ decisions' \in Seq(Decision) /\ Len(decisions') <= MaxDecisions
         /\ Len(decisions') = Len(decisions) + 1 /\ Len(decisions) \in Nat
         /\ DOMAIN decisions = 1 .. Len(decisions) /\ DOMAIN decisions' = 1 .. Len(decisions')
         /\ \A d \in DOMAIN decisions : decisions'[d] = decisions[d]
         /\ LastDecision'.subject = subject /\ LastDecision'.verdict = verdict
         /\ LastDecision'.logged \in BOOLEAN
         /\ LastDecision'.logged => faults' = faults
         /\ ~LastDecision'.logged => faults' = faults + 1
         /\ faults' \in 0 .. MaxFaults
  <1>1. PICK logged \in BOOLEAN :
          /\ decisions' = Append(decisions, [subject |-> subject, verdict |-> verdict,
                                            logged |-> logged])
          /\ IF logged THEN UNCHANGED faults ELSE Fault
    BY DEF Decide
  <1>2. PICK new : new = [subject |-> subject, verdict |-> verdict, logged |-> logged]
    OBVIOUS
  <1>3. new \in Decision
    BY <1>2 DEF Decision
  <1>4. decisions \in Seq(Decision) /\ Len(decisions) < MaxDecisions /\ MaxDecisions \in Nat
    BY OracleAssumption DEF OracleTypeOK, Decide
  <1>5. decisions' = Append(decisions, new)
    BY <1>1, <1>2
  <1>6. /\ decisions' \in Seq(Decision) /\ Len(decisions') = Len(decisions) + 1
        /\ Len(decisions) \in Nat
        /\ DOMAIN decisions = 1 .. Len(decisions) /\ DOMAIN decisions' = 1 .. Len(decisions')
        /\ \A d \in DOMAIN decisions : decisions'[d] = decisions[d]
        /\ decisions'[Len(decisions')] = new
    BY <1>3, <1>4, <1>5
  <1>7. LastDecision' = new
    BY <1>6 DEF LastDecision
  <1>8. /\ LastDecision'.subject = subject /\ LastDecision'.verdict = verdict
        /\ LastDecision'.logged = logged
    BY <1>2, <1>7
  <1>9. /\ logged => faults' = faults
        /\ ~logged => faults' = faults + 1 /\ faults < MaxFaults
    BY <1>1 DEF Fault
  <1>10. faults' \in 0 .. MaxFaults
    BY <1>9, OracleAssumption DEF OracleTypeOK
  <1>11. QED
    BY <1>4, <1>6, <1>8, <1>9, <1>10

\* A decision that is added disturbs nothing that refers to one.
LEMMA MoreDecisions ==
  ASSUME OracleTypeOK, RefersToDecisions, LinkIsPending, UNCHANGED <<intake, work, escalation>>,
         DOMAIN decisions \subseteq DOMAIN decisions',
         \A d \in DOMAIN decisions : decisions'[d] = decisions[d]
  PROVE  RefersToDecisions' /\ LinkIsPending'
  <1>1. RefersToDecisions'
    BY DEF RefersToDecisions
  <1>2. LinkIsPending'
    BY DEF RefersToDecisions, LinkIsPending
  <1>3. QED
    BY <1>1, <1>2

\* What does not touch escalations, links or what the rows refer to.
LEMMA SameLinks ==
  ASSUME RefersToDecisions, LinkIsPending, UNCHANGED <<decisions, escalation>>,
         \A w \in Works : work'[w].link = work[w].link,
         \A i \in Intakes : intake'[i] # Nothing /\ intake'[i].decision # 0 =>
           \/ intake[i] # Nothing /\ intake[i].decision = intake'[i].decision
           \/ intake'[i].decision \in DOMAIN decisions /\ decisions[intake'[i].decision].subject = i
  PROVE  RefersToDecisions' /\ LinkIsPending'
  <1>1. RefersToDecisions'
    BY DEF RefersToDecisions
  <1>2. LinkIsPending'
    BY DEF LinkIsPending
  <1>3. QED
    BY <1>1, <1>2

\* The daemon moves from one step to another with the same thing at hand.
LEMMA NextStep ==
  ASSUME OracleTypeOK, QueueIsFresh, daemon.queue # <<>>,
         NEW step \in {"dispatch", "record"}, NEW bounty \in Nat,
         daemon' = AtStep(step, bounty),
         UNCHANGED <<intake, work>>
  PROVE  /\ daemon' \in Daemon /\ daemon'.pass = daemon.pass /\ daemon'.queue = daemon.queue
         /\ daemon'.step = step /\ daemon'.bounty = bounty
         /\ AtHand' = AtHand /\ QueueIsFresh'
  <1>1. daemon \in Daemon
    BY DEF OracleTypeOK
  <1>2. /\ daemon'.pass = daemon.pass /\ daemon'.queue = daemon.queue
        /\ daemon'.step = step /\ daemon'.bounty = bounty
    BY DEF AtStep
  <1>3. daemon' \in Daemon
    BY <1>1 DEF AtStep, Daemon
  <1>4. QueueIsFresh'
    BY <1>2, SameList DEF Pending
  <1>5. QED
    BY <1>2, <1>3, <1>4 DEF AtHand

\* A new escalation is about what is at hand, which nothing else keeps from the oracle.
LEMMA create_escalationEffect ==
  ASSUME LinkInv, daemon.queue # <<>>, daemon.step # "evaluate", create_escalation,
         UNCHANGED <<intake, decisions>>
  PROVE  /\ escalation' \in Seq(Escalation) /\ work' \in [Works -> Work]
         /\ Len(escalation) \in Nat /\ DOMAIN escalation = 1 .. Len(escalation)
         /\ DOMAIN escalation' = 1 .. Len(escalation) + 1
         /\ \A e \in DOMAIN escalation : escalation'[e] = escalation[e]
         /\ LET new == escalation'[Len(escalation) + 1] IN
              new.decision = Len(decisions) /\ new.status = "pending"
         /\ \A w \in Works : w # AtHand => work'[w] = work[w]
         /\ RefersToDecisions' /\ LinkIsPending'
  <1> DEFINE n == Len(escalation) + 1
  <1>1. /\ escalation \in Seq(Escalation) /\ work \in [Works -> Work]
        /\ decisions \in Seq(Decision)
    BY DEF LinkInv, OracleTypeOK
  <1>2. PICK new : new = [decision |-> Len(decisions), status |-> "pending"]
    OBVIOUS
  <1>3. /\ Len(decisions) \in Nat /\ DOMAIN decisions = 1 .. Len(decisions)
        /\ Len(decisions) \in DOMAIN decisions
    BY <1>1 DEF LinkInv, HandIsDecided
  <1>4. new \in Escalation /\ new.decision = Len(decisions) /\ new.status = "pending"
    BY <1>2, <1>3 DEF Escalation
  <1>5. escalation' = Append(escalation, new)
    BY <1>2 DEF create_escalation
  <1>6. /\ escalation' \in Seq(Escalation) /\ Len(escalation) \in Nat
        /\ DOMAIN escalation = 1 .. Len(escalation) /\ DOMAIN escalation' = 1 .. n
        /\ Len(escalation') = n
        /\ \A e \in DOMAIN escalation : escalation'[e] = escalation[e]
        /\ escalation'[n] = new
    BY <1>1, <1>4, <1>5
  <1>7. \A w \in Works : w # AtHand => work'[w] = work[w]
    BY DEF create_escalation
  <1>8. ASSUME NEW w \in Works, w = AtHand
        PROVE  work'[w] \in Work /\ work'[w].link = n
    <2>1. work'[w] = [work[w] EXCEPT !.link = n]
      BY <1>6, <1>8 DEF create_escalation
    <2>2. work[w] \in Work
      BY <1>1
    <2>3. n \in Nat
      BY <1>6
    <2> HIDE DEF n
    <2>4. QED
      BY <2>1, <2>2, <2>3 DEF Work
  <1>9. work' \in [Works -> Work]
    <2>1. \A w \in Works : work'[w] \in Work
      BY <1>1, <1>7, <1>8
    <2>2. work' = [w \in Works |-> work'[w]]
      BY DEF create_escalation
    <2>3. QED
      BY <2>1, <2>2
  <1>10. RefersToDecisions'
    <2>1. \A e \in DOMAIN escalation' : escalation'[e].decision \in DOMAIN decisions
      BY <1>3, <1>4, <1>6 DEF LinkInv, RefersToDecisions
    <2>2. QED
      BY <2>1 DEF LinkInv, RefersToDecisions
  <1>11. /\ LastDecision.subject = AtHand
         /\ AtHand \in Works => work[AtHand].link = 0
    <2>1. /\ AtHand \in Intakes => AtHand \notin Works
          /\ daemon.pass \in {"intakes", "reviews"}
      BY OracleAssumption DEF LinkInv, OracleTypeOK, Daemon
    <2>2. QED
      BY <2>1, AtHandType DEF LinkInv, HandIsDecided
  <1>12. LinkIsPending'
    <2>1. ASSUME NEW w \in Works, work'[w].link # 0
          PROVE  /\ work'[w].link \in DOMAIN escalation'
                 /\ escalation'[work'[w].link].status = "pending"
      <3>1. CASE w = AtHand
        BY <1>4, <1>6, <1>8, <3>1
      <3>2. CASE w # AtHand
        BY <1>6, <1>7, <2>1, <3>2 DEF LinkInv, LinkIsPending
      <3>3. QED
        BY <3>1, <3>2
    <2>2. ASSUME NEW e \in DOMAIN escalation', NEW w \in Works
          PROVE  (/\ escalation'[e].status = "pending"
                  /\ decisions[escalation'[e].decision].subject = w) <=> work'[w].link = e
      <3>1. CASE e = n
        <4>1. /\ escalation'[e].status = "pending"
              /\ decisions[escalation'[e].decision].subject = AtHand
          BY <1>4, <1>6, <1>11, <3>1 DEF LastDecision
        <4>2. CASE w = AtHand
          BY <1>8, <3>1, <4>1, <4>2
        <4>3. CASE w # AtHand
          <5>1. work[w].link # n
            BY <1>6 DEF LinkInv, LinkIsPending
          <5>2. QED
            BY <1>7, <3>1, <4>1, <4>3, <5>1
        <4>4. QED
          BY <4>2, <4>3
      <3>2. CASE e # n
        <4>1. e \in DOMAIN escalation /\ escalation'[e] = escalation[e] /\ e # 0
          BY <1>6, <3>2
        <4>2. (/\ escalation[e].status = "pending"
               /\ decisions[escalation[e].decision].subject = w) <=> work[w].link = e
          BY <4>1 DEF LinkInv, LinkIsPending
        <4>3. CASE w = AtHand
          BY <1>8, <1>11, <3>2, <4>1, <4>2, <4>3
        <4>4. CASE w # AtHand
          BY <1>7, <4>1, <4>2, <4>4
        <4>5. QED
          BY <4>3, <4>4
      <3>3. QED
        BY <3>1, <3>2
    <2>3. QED
      BY <2>1, <2>2 DEF LinkIsPending
  <1>13. QED
    BY <1>4, <1>6, <1>7, <1>9, <1>10, <1>12

\* A step about work that is under review, which leaves its link as it is.
LEMMA ReviewEffect ==
  ASSUME OracleTypeOK, NEW w \in Works, NEW status \in {"submitted", "revision", "approved", "rejected"},
         work' = [work EXCEPT ![w].status = status]
  PROVE  work' \in [Works -> Work] /\ \A v \in Works : work'[v].link = work[v].link
  <1>1. work \in [Works -> Work]
    BY DEF OracleTypeOK
  <1>2. PICK row : row = [work[w] EXCEPT !.status = status]
    OBVIOUS
  <1>3. row \in Work /\ row.link = work[w].link
    BY <1>1, <1>2 DEF Work
  <1>4. work' = [work EXCEPT ![w] = row]
    BY <1>2
  <1>5. QED
    BY <1>1, <1>3, <1>4

LEMMA ReviewedWork ==
  ASSUME OracleTypeOK, NEW w \in Works, NEW verdict \in ReviewVerdicts \ {"escalate"},
         Review(w, verdict)
  PROVE  work' \in [Works -> Work] /\ \A v \in Works : work'[v].link = work[v].link
  <1>1. PICK status : status = CASE verdict = "approve" -> "approved"
                                 [] verdict = "reject"  -> "rejected"
                                 [] verdict = "revise"  -> "revision"
    OBVIOUS
  <1>2. status \in {"submitted", "revision", "approved", "rejected"}
    BY <1>1 DEF ReviewVerdicts
  <1>3. work' = [work EXCEPT ![w].status = status]
    BY <1>1 DEF Review
  <1>4. QED
    BY <1>2, <1>3, ReviewEffect

\* Steps of others than the daemon, which leave all links as they are.
LEMMA OthersStep ==
  ASSUME LinkInv, UNCHANGED <<made, decisions, escalation, daemon, faults>>,
         intake' \in [Intakes -> Intake \cup {Nothing}], work' \in [Works -> Work],
         \A w \in Works : work'[w].link = work[w].link,
         \A i \in Intakes : intake'[i] # intake[i] =>
           intake'[i] # Nothing /\ intake'[i].status = "pending" /\ intake'[i].decision = 0
  PROVE  LinkInv'
  <1>1. OracleTypeOK'
    BY DEF LinkInv, OracleTypeOK
  <1>2. RefersToDecisions' /\ LinkIsPending'
    BY SameLinks DEF LinkInv
  <1>3. QueueIsFresh'
    BY SameList DEF LinkInv, Pending
  <1>4. HandIsDecided'
    BY DEF LinkInv, HandIsDecided, LastDecision, AtHand
  <1>5. QED
    BY <1>1, <1>2, <1>3, <1>4 DEF LinkInv

LEMMA create_intakeLinks ==
  ASSUME LinkInv, NEW i \in Intakes, create_intake(i)
  PROVE  LinkInv'
  <1>1. PICK row : row = [status |-> "pending", verdict |-> Nothing, decision |-> 0, bounty |-> 0]
    OBVIOUS
  <1>2. row \in Intake /\ row.status = "pending" /\ row.decision = 0 /\ row # Nothing
    BY <1>1, NothingIsNoIntake DEF Intake
  <1>3. /\ intake' = [intake EXCEPT ![i] = row]
        /\ UNCHANGED <<made, work, decisions, escalation, daemon, faults>>
    BY <1>1 DEF create_intake
  <1>4. intake \in [Intakes -> Intake \cup {Nothing}] /\ work \in [Works -> Work]
    BY DEF LinkInv, OracleTypeOK
  <1>5. /\ intake' \in [Intakes -> Intake \cup {Nothing}]
        /\ \A j \in Intakes : intake'[j] # intake[j] => intake'[j] = row
    BY <1>2, <1>3, <1>4
  <1>6. QED
    BY <1>2, <1>3, <1>4, <1>5, OthersStep

\* A list of what is to be done is read.
LEMMA ListEffect ==
  ASSUME LinkInv, NEW pass \in {"intakes", "reviews"}, NEW S \in SUBSET (Intakes \cup Works),
         pass = "intakes" => S \subseteq Pending,
         pass = "reviews" => S \subseteq Works /\ \A w \in S : work[w].link = 0,
         NEW read \in InOrder(S) \cup {<<>>},
         daemon' = [pass |-> pass, queue |-> read, step |-> "evaluate", bounty |-> 0],
         UNCHANGED <<intake, made, work, decisions, escalation, faults>>
  PROVE  LinkInv'
  <1>1. S \in SUBSET Nat /\ IsFiniteSet(S)
    <2>1. IsFiniteSet(Intakes \cup Works)
      BY OracleAssumption, FS_Union
    <2>2. QED
      BY <2>1, FS_Subset, OracleAssumption
  <1>2. /\ read \in Seq(S) /\ \A k \in DOMAIN read : read[k] \in S
        /\ \A j, k \in DOMAIN read : read[j] = read[k] => j = k
    BY <1>1, ListedInOrder
  <1>3. read \in Seq(Intakes \cup Works)
    BY <1>2
  <1>4. /\ daemon'.pass = pass /\ daemon'.queue = read
        /\ daemon'.step = "evaluate" /\ daemon'.bounty = 0
    OBVIOUS
  <1>5. daemon' \in Daemon
    BY <1>3 DEF Daemon
  <1>6. OracleTypeOK'
    BY <1>5 DEF LinkInv, OracleTypeOK
  <1>7. QueueIsFresh'
    BY <1>2, <1>4 DEF QueueIsFresh, Pending
  <1>8. HandIsDecided'
    BY <1>4 DEF HandIsDecided
  <1>9. RefersToDecisions' /\ LinkIsPending'
    BY SameLinks DEF LinkInv
  <1>10. QED
    BY <1>6, <1>7, <1>8, <1>9 DEF LinkInv

LEMMA list_pending_intakesLinks ==
  ASSUME LinkInv, list_pending_intakes
  PROVE  LinkInv'
  <1>1. Oldest(Pending) \subseteq Pending /\ Pending \subseteq Intakes
    BY DEF Oldest, Pending
  <1>2. PICK read \in InOrder(Oldest(Pending)) \cup {<<>>} :
          daemon' = [pass |-> "intakes", queue |-> read, step |-> "evaluate", bounty |-> 0]
    BY DEF list_pending_intakes
  <1>3. PICK S : S = Oldest(Pending)
    OBVIOUS
  <1>4. QED
    BY <1>1, <1>2, <1>3, ListEffect DEF list_pending_intakes

LEMMA list_pending_reviewsLinks ==
  ASSUME LinkInv, list_pending_reviews
  PROVE  LinkInv'
  <1>1. PendingReviews \subseteq Works /\ \A w \in PendingReviews : work[w].link = 0
    BY DEF PendingReviews
  <1>2. PICK read \in InOrder(PendingReviews) \cup {<<>>} :
          daemon' = [pass |-> "reviews", queue |-> read, step |-> "evaluate", bounty |-> 0]
    BY DEF list_pending_reviews
  <1>3. PICK S : S = PendingReviews
    OBVIOUS
  <1>4. QED
    BY <1>1, <1>2, <1>3, ListEffect DEF list_pending_reviews

\* The daemon goes on to the next of its list and leaves escalations and decisions alone.
LEMMA GoesOn ==
  ASSUME LinkInv, daemon.queue # <<>>, daemon' = Done, UNCHANGED <<decisions, escalation>>,
         intake' \in [Intakes -> Intake \cup {Nothing}], made' \in [Intakes -> Nat],
         work' \in [Works -> Work], faults' \in 0 .. MaxFaults,
         \A w \in Works : work'[w].link = work[w].link,
         \A i \in Intakes : intake'[i] # intake[i] =>
           /\ i = AtHand
           /\ intake'[i].decision \in DOMAIN decisions
           /\ decisions[intake'[i].decision].subject = i
  PROVE  LinkInv'
  <1>1. /\ daemon' \in Daemon /\ QueueIsFresh' /\ HandIsDecided'
    BY NextOfList DEF LinkInv, Pending
  <1>2. RefersToDecisions' /\ LinkIsPending'
    BY SameLinks DEF LinkInv
  <1>3. OracleTypeOK'
    BY <1>1 DEF LinkInv, OracleTypeOK
  <1>4. QED
    BY <1>1, <1>2, <1>3 DEF LinkInv

\* There is a decision, on what is at hand.
LEMMA DecidesLinks ==
  ASSUME LinkInv, daemon.queue # <<>>,
         NEW verdict \in IntakeVerdicts \cup ReviewVerdicts,
         daemon.pass = "intakes" => verdict \in IntakeVerdicts,
         daemon.pass = "reviews" => verdict \in ReviewVerdicts,
         Decide(AtHand, verdict), daemon' = AtStep("dispatch", 0),
         UNCHANGED <<intake, made, work, escalation>>
  PROVE  LinkInv'
  <1>1. AtHand \in Intakes \cup Works
    BY AtHandType DEF LinkInv
  <1>2. PICK subject : subject = AtHand
    OBVIOUS
  <1>3. /\ decisions' \in Seq(Decision) /\ Len(decisions') <= MaxDecisions
        /\ Len(decisions') = Len(decisions) + 1 /\ Len(decisions) \in Nat
        /\ DOMAIN decisions = 1 .. Len(decisions) /\ DOMAIN decisions' = 1 .. Len(decisions')
        /\ \A d \in DOMAIN decisions : decisions'[d] = decisions[d]
        /\ LastDecision'.subject = subject /\ LastDecision'.verdict = verdict
        /\ faults' \in 0 .. MaxFaults
    BY <1>1, <1>2, DecideEffect DEF LinkInv
  <1>4. RefersToDecisions' /\ LinkIsPending'
    <2>1. DOMAIN decisions \subseteq DOMAIN decisions'
      BY <1>3
    <2>2. QED
      BY <1>3, <2>1, MoreDecisions DEF LinkInv
  <1>5. /\ daemon' \in Daemon /\ daemon'.pass = daemon.pass /\ daemon'.queue = daemon.queue
        /\ daemon'.step = "dispatch" /\ AtHand' = AtHand /\ QueueIsFresh'
    BY NextStep DEF LinkInv
  <1>6. HandIsDecided'
    BY <1>2, <1>3, <1>5 DEF HandIsDecided
  <1>7. OracleTypeOK'
    BY <1>3, <1>5 DEF LinkInv, OracleTypeOK
  <1>8. QED
    BY <1>4, <1>5, <1>6, <1>7 DEF LinkInv

LEMMA evaluate_intakeLinks ==
  ASSUME LinkInv, evaluate_intake
  PROVE  LinkInv'
  <1>1. /\ daemon.pass = "intakes" /\ daemon.queue # <<>>
        /\ UNCHANGED <<intake, made, work, escalation>>
    BY DEF evaluate_intake, Doing
  <1>2. CASE daemon' = Done /\ UNCHANGED <<decisions, faults>>
    BY <1>1, <1>2, GoesOn DEF LinkInv, OracleTypeOK
  <1>3. ASSUME NEW answer \in IntakeVerdicts, NEW authorized \in BOOLEAN,
               Decide(AtHand, apply_intake_guards(answer, authorized)),
               daemon' = AtStep("dispatch", 0)
        PROVE  LinkInv'
    <2>1. PICK verdict : verdict = apply_intake_guards(answer, authorized)
      OBVIOUS
    <2>2. verdict \in IntakeVerdicts
      BY <2>1 DEF apply_intake_guards, IntakeVerdicts
    <2>3. QED
      BY <1>1, <1>3, <2>1, <2>2, DecidesLinks
  <1>4. QED
    BY <1>2, <1>3 DEF evaluate_intake

LEMMA evaluate_reviewLinks ==
  ASSUME LinkInv, evaluate_review
  PROVE  LinkInv'
  <1>1. /\ daemon.pass = "reviews" /\ daemon.queue # <<>>
        /\ UNCHANGED <<intake, made, work, escalation>>
    BY DEF evaluate_review, Doing
  <1>2. CASE daemon' = Done /\ UNCHANGED <<decisions, faults>>
    BY <1>1, <1>2, GoesOn DEF LinkInv, OracleTypeOK
  <1>3. ASSUME NEW answer \in ReviewVerdicts, NEW confident \in BOOLEAN,
               Decide(AtHand, apply_review_guards(answer, confident)),
               daemon' = AtStep("dispatch", 0)
        PROVE  LinkInv'
    <2>1. PICK verdict : verdict = apply_review_guards(answer, confident)
      OBVIOUS
    <2>2. verdict \in ReviewVerdicts
      BY <2>1 DEF apply_review_guards, ReviewVerdicts
    <2>3. QED
      BY <1>1, <1>3, <2>1, <2>2, DecidesLinks
  <1>4. QED
    BY <1>2, <1>3 DEF evaluate_review

\* A fault is counted within its bound.
LEMMA FaultType ==
  ASSUME OracleTypeOK
  PROVE  /\ Fault => faults' = faults + 1 /\ faults' \in 0 .. MaxFaults
         /\ UNCHANGED faults => faults' \in 0 .. MaxFaults
         /\ faults \in Nat
  BY OracleAssumption DEF OracleTypeOK, Fault

\* The dispatch of an intake is done, but for its record.
LEMMA ToRecord ==
  ASSUME LinkInv, Doing("intakes", "dispatch"), NEW bounty \in Nat,
         daemon' = AtStep("record", bounty), UNCHANGED <<intake, decisions, faults>>,
         made' \in [Intakes -> Nat],
         UNCHANGED <<work, escalation>>
  PROVE  LinkInv'
  <1>1. daemon.pass = "intakes" /\ daemon.queue # <<>> /\ daemon.step = "dispatch"
    BY DEF Doing
  <1>2. /\ daemon' \in Daemon /\ daemon'.pass = daemon.pass /\ daemon'.queue = daemon.queue
        /\ daemon'.step = "record" /\ AtHand' = AtHand /\ QueueIsFresh'
    BY <1>1, NextStep DEF LinkInv
  <1>3. HandIsDecided'
    BY <1>1, <1>2 DEF LinkInv, HandIsDecided, LastDecision
  <1>4. RefersToDecisions' /\ LinkIsPending'
    BY SameLinks DEF LinkInv
  <1>5. OracleTypeOK'
    BY <1>2 DEF LinkInv, OracleTypeOK
  <1>6. QED
    BY <1>2, <1>3, <1>4, <1>5 DEF LinkInv

LEMMA create_bountyLinks ==
  ASSUME LinkInv, create_bounty
  PROVE  LinkInv'
  <1>1. /\ Doing("intakes", "dispatch") /\ daemon.queue # <<>>
        /\ UNCHANGED <<intake, work, decisions, escalation>>
    BY DEF create_bounty, Doing
  <1>2. AtHand \in Intakes
    BY <1>1, AtHandType DEF LinkInv, Doing
  <1>3. made \in [Intakes -> Nat]
    BY DEF LinkInv, OracleTypeOK
  <1>4. CASE made' = [made EXCEPT ![AtHand] = @ + 1]
    <2>1. made' \in [Intakes -> Nat] /\ made'[AtHand] \in Nat
      BY <1>2, <1>3, <1>4
    <2>2. CASE daemon' = AtStep("record", made'[AtHand]) /\ UNCHANGED faults
      <3>1. PICK bounty : bounty = made'[AtHand]
        OBVIOUS
      <3>2. QED
        BY <1>1, <2>1, <2>2, <3>1, ToRecord
    <2>3. CASE daemon' = Done /\ Fault
      BY <1>1, <2>1, <2>3, GoesOn, FaultType DEF LinkInv, OracleTypeOK
    <2>4. QED
      BY <1>4, <2>1, <2>2, <2>3, <1>1 DEF create_bounty
  <1>5. CASE daemon' = Done /\ Fault /\ UNCHANGED made
    BY <1>1, <1>5, GoesOn, FaultType DEF LinkInv, OracleTypeOK
  <1>6. QED
    BY <1>4, <1>5 DEF create_bounty

LEMMA reject_intakeLinks ==
  ASSUME LinkInv, reject_intake
  PROVE  LinkInv'
  BY ToRecord DEF LinkInv, OracleTypeOK, reject_intake

\* An escalation is created and the daemon goes on to the next of its list.
LEMMA EscalatesAndGoesOn ==
  ASSUME LinkInv, daemon.queue # <<>>, daemon.step # "evaluate", create_escalation,
         daemon' = Done, UNCHANGED <<intake, made, decisions>>, faults' \in 0 .. MaxFaults
  PROVE  LinkInv'
  <1>1. /\ escalation' \in Seq(Escalation) /\ work' \in [Works -> Work]
        /\ \A w \in Works : w # AtHand => work'[w] = work[w]
        /\ RefersToDecisions' /\ LinkIsPending'
    BY create_escalationEffect
  <1>2. /\ daemon' \in Daemon /\ QueueIsFresh' /\ HandIsDecided'
    BY <1>1, NextOfList DEF LinkInv, Pending
  <1>3. OracleTypeOK'
    BY <1>1, <1>2 DEF LinkInv, OracleTypeOK
  <1>4. QED
    BY <1>1, <1>2, <1>3 DEF LinkInv

LEMMA escalate_intakeLinks ==
  ASSUME LinkInv, escalate_intake
  PROVE  LinkInv'
  <1>1. /\ Doing("intakes", "dispatch") /\ UNCHANGED <<intake, made, decisions>>
        /\ daemon.pass = "intakes" /\ daemon.queue # <<>> /\ daemon.step = "dispatch"
    BY DEF escalate_intake, Doing
  <1>2. CASE create_escalation /\ daemon' = AtStep("record", 0) /\ UNCHANGED faults
    <2>1. /\ escalation' \in Seq(Escalation) /\ work' \in [Works -> Work]
          /\ \A w \in Works : w # AtHand => work'[w] = work[w]
          /\ RefersToDecisions' /\ LinkIsPending'
      BY <1>1, <1>2, create_escalationEffect
    <2>2. AtHand \notin Works
      BY <1>1, AtHandType, OracleAssumption DEF LinkInv
    <2>3. work \in [Works -> Work]
      BY DEF LinkInv, OracleTypeOK
    <2>4. work' = work
      BY <2>1, <2>2, <2>3
    <2>5. /\ daemon' \in Daemon /\ daemon'.pass = daemon.pass /\ daemon'.queue = daemon.queue
          /\ daemon'.step = "record" /\ AtHand' = AtHand /\ QueueIsFresh'
      BY <1>1, <1>2, <2>4, NextStep DEF LinkInv
    <2>6. HandIsDecided'
      BY <1>1, <2>5 DEF LinkInv, HandIsDecided, LastDecision
    <2>7. OracleTypeOK'
      BY <1>1, <1>2, <2>1, <2>5 DEF LinkInv, OracleTypeOK
    <2>8. QED
      BY <2>1, <2>5, <2>6, <2>7 DEF LinkInv
  <1>3. CASE create_escalation /\ daemon' = Done /\ Fault
    BY <1>1, <1>3, EscalatesAndGoesOn, FaultType DEF LinkInv
  <1>4. CASE daemon' = Done /\ UNCHANGED <<escalation, work>> /\ (Fault \/ UNCHANGED faults)
    BY <1>1, <1>4, GoesOn, FaultType DEF LinkInv, OracleTypeOK
  <1>5. QED
    BY <1>2, <1>3, <1>4 DEF escalate_intake

\* What is recorded for an intake.
LEMMA record_evaluationEffect ==
  ASSUME LinkInv, Doing("intakes", "record"), record_evaluation(AtHand)
  PROVE  /\ AtHand \in Intakes /\ intake[AtHand] # Nothing
         /\ intake' \in [Intakes -> Intake \cup {Nothing}]
         /\ \A i \in Intakes : i # AtHand => intake'[i] = intake[i]
         /\ ~LastDecision.logged => intake' = intake
         /\ LastDecision.logged =>
              /\ intake'[AtHand] # Nothing /\ intake'[AtHand].status = "evaluated"
              /\ intake'[AtHand].verdict = LastDecision.verdict
              /\ intake'[AtHand].bounty = daemon.bounty
              /\ intake'[AtHand].decision = Len(decisions)
              /\ Len(decisions) \in DOMAIN decisions
              /\ decisions[Len(decisions)].subject = AtHand
  <1>1. /\ AtHand \in Intakes /\ AtHand \in Pending
        /\ daemon.step = "record" /\ daemon.pass = "intakes"
    BY AtHandType DEF LinkInv, Doing
  <1>2. /\ intake[AtHand] # Nothing /\ intake[AtHand].status = "pending"
        /\ intake \in [Intakes -> Intake \cup {Nothing}]
    BY <1>1 DEF Pending, LinkInv, OracleTypeOK
  <1>3. /\ Len(decisions) \in Nat /\ Len(decisions) \in DOMAIN decisions
        /\ LastDecision.subject = AtHand /\ LastDecision.verdict \in IntakeVerdicts
    <2>1. decisions \in Seq(Decision) /\ Len(decisions) # 0
      BY <1>1 DEF LinkInv, OracleTypeOK, HandIsDecided
    <2>2. QED
      BY <1>1, <2>1 DEF LinkInv, HandIsDecided
  <1>4. daemon.bounty \in Nat
    BY DEF LinkInv, OracleTypeOK, Daemon
  <1>5. CASE ~LastDecision.logged
    <2>1. intake' = intake
      BY <1>5 DEF record_evaluation
    <2>2. QED
      BY <1>1, <1>2, <1>5, <2>1
  <1>6. CASE LastDecision.logged
    <2>1. PICK row : row = [status |-> "evaluated", verdict |-> LastDecision.verdict,
                            decision |-> Len(decisions), bounty |-> daemon.bounty]
      OBVIOUS
    <2>2. row \in Intake /\ row # Nothing
      BY <1>3, <1>4, <2>1, NothingIsNoIntake DEF Intake
    <2>3. intake' = [intake EXCEPT ![AtHand] = row]
      BY <1>2, <1>6, <2>1 DEF record_evaluation
    <2>4. /\ intake' \in [Intakes -> Intake \cup {Nothing}] /\ intake'[AtHand] = row
          /\ \A i \in Intakes : i # AtHand => intake'[i] = intake[i]
      BY <1>1, <1>2, <2>2, <2>3
    <2>5. QED
      BY <1>1, <1>2, <1>3, <1>6, <2>1, <2>2, <2>4 DEF LastDecision
  <1>7. QED
    BY <1>5, <1>6

LEMMA record_intake_evaluationLinks ==
  ASSUME LinkInv, record_intake_evaluation
  PROVE  LinkInv'
  <1>1. /\ Doing("intakes", "record") /\ daemon.queue # <<>> /\ daemon' = Done
        /\ UNCHANGED <<made, work, decisions, escalation>>
    BY DEF record_intake_evaluation, Doing
  <1>2. CASE record_evaluation(AtHand) /\ UNCHANGED faults
    <2>1. /\ intake' \in [Intakes -> Intake \cup {Nothing}]
          /\ \A i \in Intakes : i # AtHand => intake'[i] = intake[i]
          /\ intake'[AtHand] # intake[AtHand] =>
               /\ intake'[AtHand].decision = Len(decisions)
               /\ Len(decisions) \in DOMAIN decisions
               /\ decisions[Len(decisions)].subject = AtHand
      BY <1>1, <1>2, record_evaluationEffect
    <2>2. QED
      BY <1>1, <1>2, <2>1, GoesOn, FaultType DEF LinkInv, OracleTypeOK
  <1>3. CASE UNCHANGED intake /\ Fault
    BY <1>1, <1>3, GoesOn, FaultType DEF LinkInv, OracleTypeOK
  <1>4. QED
    BY <1>2, <1>3 DEF record_intake_evaluation

LEMMA dispatch_review_decisionLinks ==
  ASSUME LinkInv, dispatch_review_decision
  PROVE  LinkInv'
  <1>1. /\ daemon.pass = "reviews" /\ daemon.queue # <<>> /\ daemon.step = "dispatch"
        /\ daemon' = Done /\ UNCHANGED <<intake, made, decisions>>
    BY DEF dispatch_review_decision, Doing
  <1>2. CASE LastDecision.verdict # "escalate" /\ Review(AtHand, LastDecision.verdict)
             /\ UNCHANGED <<escalation, faults>>
    <2>1. AtHand \in Works
      BY <1>1, AtHandType DEF LinkInv
    <2>2. PICK w, verdict : w = AtHand /\ verdict = LastDecision.verdict
      OBVIOUS
    <2>3. verdict \in ReviewVerdicts \ {"escalate"}
      BY <1>1, <1>2, <2>2 DEF LinkInv, HandIsDecided
    <2>4. work' \in [Works -> Work] /\ \A v \in Works : work'[v].link = work[v].link
      BY <1>2, <2>1, <2>2, <2>3, ReviewedWork DEF LinkInv
    <2>5. QED
      BY <1>1, <1>2, <2>4, GoesOn, FaultType DEF LinkInv, OracleTypeOK
  <1>3. CASE create_escalation /\ UNCHANGED faults
    BY <1>1, <1>3, EscalatesAndGoesOn, FaultType DEF LinkInv
  <1>4. CASE UNCHANGED <<work, escalation, faults>>
    BY <1>1, <1>4, GoesOn, FaultType DEF LinkInv, OracleTypeOK
  <1>5. QED
    BY <1>2, <1>3, <1>4 DEF dispatch_review_decision

LEMMA review_by_handLinks ==
  ASSUME LinkInv, NEW w \in Works, review_by_hand(w)
  PROVE  LinkInv'
  <1>1. PICK verdict \in ReviewVerdicts \ {"escalate"} : Review(w, verdict)
    BY DEF review_by_hand
  <1>2. work' \in [Works -> Work] /\ \A v \in Works : work'[v].link = work[v].link
    BY <1>1, ReviewedWork DEF LinkInv
  <1>3. QED
    BY <1>2, OthersStep DEF LinkInv, OracleTypeOK, review_by_hand

LEMMA submit_againLinks ==
  ASSUME LinkInv, NEW w \in Works, submit_again(w)
  PROVE  LinkInv'
  <1>1. work' \in [Works -> Work] /\ \A v \in Works : work'[v].link = work[v].link
    BY ReviewEffect DEF LinkInv, submit_again
  <1>2. QED
    BY <1>1, OthersStep DEF LinkInv, OracleTypeOK, submit_again

\* What the council's verdict does to the intake that recorded the decision.
LEMMA link_intake_to_bountyEffect ==
  ASSUME OracleTypeOK, NEW d, NEW verdict \in IntakeVerdicts, NEW bounty \in Nat,
         link_intake_to_bounty(d, verdict, bounty)
  PROVE  /\ intake' \in [Intakes -> Intake \cup {Nothing}]
         /\ \A i \in Intakes : intake[i] = Nothing \/ intake[i].decision # d => intake'[i] = intake[i]
         /\ \A i \in Intakes : intake[i] # Nothing /\ intake[i].decision = d =>
              /\ intake'[i] # Nothing
              /\ intake'[i].status = intake[i].status /\ intake'[i].decision = d
              /\ intake'[i].verdict = verdict /\ intake'[i].bounty = bounty
  <1>1. intake \in [Intakes -> Intake \cup {Nothing}]
    BY DEF OracleTypeOK
  <1>2. ASSUME NEW i \in Intakes, intake[i] # Nothing, intake[i].decision = d
        PROVE  /\ intake'[i] \in Intake /\ intake'[i] # Nothing
               /\ intake'[i].status = intake[i].status /\ intake'[i].decision = d
               /\ intake'[i].verdict = verdict /\ intake'[i].bounty = bounty
    <2>1. PICK row, mid : row = intake[i] /\ mid = [row EXCEPT !.verdict = verdict]
      OBVIOUS
    <2>2. row \in Intake
      BY <1>1, <1>2, <2>1
    <2>3. mid \in Intake /\ mid.status = row.status /\ mid.decision = row.decision
          /\ mid.verdict = verdict
      BY <2>1, <2>2 DEF Intake
    <2>4. intake'[i] = [mid EXCEPT !.bounty = bounty]
      <3>1. intake'[i] = [intake[i] EXCEPT !.verdict = verdict, !.bounty = bounty]
        BY <1>2, Zenon DEF link_intake_to_bounty
      <3>2. [row EXCEPT !.verdict = verdict, !.bounty = bounty] = [mid EXCEPT !.bounty = bounty]
        BY <2>1
      <3>3. QED
        BY <2>1, <3>1, <3>2
    <2>5. PICK new : new = [mid EXCEPT !.bounty = bounty]
      OBVIOUS
    <2>6. /\ new \in Intake /\ new.status = mid.status /\ new.decision = mid.decision
          /\ new.verdict = verdict /\ new.bounty = bounty
      BY <2>3, <2>5 DEF Intake
    <2>7. intake'[i] = new /\ intake[i] = row
      BY <2>1, <2>4, <2>5
    <2>8. new # Nothing
      BY <2>6, NothingIsNoIntake
    <2>9. QED
      BY <1>2, <2>3, <2>6, <2>7, <2>8
  <1>3. \A i \in Intakes : intake[i] = Nothing \/ intake[i].decision # d => intake'[i] = intake[i]
    BY DEF link_intake_to_bounty
  <1>4. \A i \in Intakes : intake'[i] \in Intake \cup {Nothing}
    BY <1>1, <1>2, <1>3
  <1>5. intake' = [i \in Intakes |-> intake'[i]]
    BY DEF link_intake_to_bounty
  <1>6. intake' \in [Intakes -> Intake \cup {Nothing}]
    BY <1>4, <1>5
  <1>7. QED
    BY <1>2, <1>3, <1>6

\* The row of an escalation that is resolved.
LEMMA ResolvedRow ==
  ASSUME OracleTypeOK, NEW e \in DOMAIN escalation,
         escalation' = [escalation EXCEPT ![e].status = "resolved"]
  PROVE  /\ escalation' \in Seq(Escalation) /\ DOMAIN escalation' = DOMAIN escalation
         /\ escalation'[e].status = "resolved"
         /\ \A f \in DOMAIN escalation : /\ escalation'[f].decision = escalation[f].decision
                                        /\ f # e => escalation'[f] = escalation[f]
  <1>1. escalation \in Seq(Escalation)
    BY DEF OracleTypeOK
  <1>2. PICK row : row = [escalation[e] EXCEPT !.status = "resolved"]
    OBVIOUS
  <1>3. escalation[e] \in Escalation
    BY <1>1
  <1>4. row \in Escalation /\ row.status = "resolved" /\ row.decision = escalation[e].decision
    BY <1>2, <1>3 DEF Escalation
  <1>5. escalation' = [escalation EXCEPT ![e] = row]
    BY <1>2
  <1>6. QED
    BY <1>1, <1>4, <1>5

\* The council resolves an escalation: the work it kept from the oracle, and no other, is
\* given back to it.
LEMMA ResolvedLinks ==
  ASSUME LinkInv, NEW e \in DOMAIN escalation, escalation[e].status = "pending",
         escalation' = [escalation EXCEPT ![e].status = "resolved"],
         UNCHANGED <<decisions, daemon, faults>>,
         intake' \in [Intakes -> Intake \cup {Nothing}], made' \in [Intakes -> Nat],
         work' \in [Works -> Work],
         \A i \in Intakes : intake'[i] # intake[i] =>
           /\ intake[i] # Nothing /\ intake'[i] # Nothing
           /\ intake'[i].status = intake[i].status /\ intake'[i].decision = intake[i].decision,
         \A w \in Works : work[w].link = e => work'[w].link = 0,
         \A w \in Works : work[w].link # e => work'[w].link = work[w].link
  PROVE  LinkInv'
  <1>1. /\ escalation' \in Seq(Escalation) /\ DOMAIN escalation' = DOMAIN escalation
        /\ escalation'[e].status = "resolved"
        /\ \A f \in DOMAIN escalation : /\ escalation'[f].decision = escalation[f].decision
                                       /\ f # e => escalation'[f] = escalation[f]
    BY ResolvedRow DEF LinkInv
  <1>2. \A f \in DOMAIN escalation : f # 0
    BY DEF LinkInv, OracleTypeOK
  <1>3. OracleTypeOK'
    BY <1>1 DEF LinkInv, OracleTypeOK
  <1>4. QueueIsFresh'
    <2>1. \A i \in Intakes : i \in Pending => i \in Pending'
      BY DEF Pending
    <2>2. \A w \in Works : work[w].link = 0 => work'[w].link = 0
      BY <1>2
    <2>3. QED
      BY <2>1, <2>2, SameList DEF LinkInv
  <1>5. HandIsDecided'
    BY DEF LinkInv, HandIsDecided, LastDecision, AtHand
  <1>6. RefersToDecisions'
    BY <1>1 DEF LinkInv, RefersToDecisions
  <1>7. LinkIsPending'
    <2>1. ASSUME NEW w \in Works, work'[w].link # 0
          PROVE  /\ work'[w].link \in DOMAIN escalation'
                 /\ escalation'[work'[w].link].status = "pending"
      <3>1. work'[w].link = work[w].link /\ work[w].link # e
        BY <2>1
      <3>2. QED
        BY <1>1, <2>1, <3>1 DEF LinkInv, LinkIsPending
    <2>2. ASSUME NEW f \in DOMAIN escalation', NEW w \in Works
          PROVE  (/\ escalation'[f].status = "pending"
                  /\ decisions[escalation'[f].decision].subject = w) <=> work'[w].link = f
      <3>1. (/\ escalation[f].status = "pending"
             /\ decisions[escalation[f].decision].subject = w) <=> work[w].link = f
        BY <1>1 DEF LinkInv, LinkIsPending
      <3>2. CASE f = e
        <4>1. escalation'[f].status # "pending"
          BY <1>1, <3>2
        <4>2. work'[w].link # f
          BY <1>2, <3>2
        <4>3. QED
          BY <4>1, <4>2
      <3>3. CASE f # e
        <4>1. escalation'[f] = escalation[f] /\ f # 0
          BY <1>1, <1>2, <3>3
        <4>2. work'[w].link = f <=> work[w].link = f
          BY <3>3, <4>1
        <4>3. QED
          BY <3>1, <4>1, <4>2
      <3>4. QED
        BY <3>2, <3>3
    <2>3. QED
      BY <2>1, <2>2 DEF LinkIsPending
  <1>8. QED
    BY <1>3, <1>4, <1>5, <1>6, <1>7 DEF LinkInv

\* An escalation about an intake keeps no work from the oracle.
LEMMA EscalatedIntake ==
  ASSUME LinkInv, NEW e \in DOMAIN escalation,
         decisions[escalation[e].decision].subject \in Intakes
  PROVE  \A w \in Works : work[w].link # e
  BY OracleAssumption DEF LinkInv, LinkIsPending

LEMMA resolve_escalationLinks ==
  ASSUME LinkInv, NEW e \in DOMAIN escalation, NEW verdict \in {"commission", "reject", "other"},
         resolve_escalation(e, verdict)
  PROVE  LinkInv'
  <1> DEFINE subject == decisions[escalation[e].decision].subject
  <1>1. /\ escalation[e].status = "pending"
        /\ escalation' = [escalation EXCEPT ![e].status = "resolved"]
        /\ UNCHANGED <<decisions, daemon, faults>>
    BY DEF resolve_escalation
  <1>2. /\ intake \in [Intakes -> Intake \cup {Nothing}] /\ made \in [Intakes -> Nat]
        /\ work \in [Works -> Work] /\ OracleTypeOK
    BY DEF LinkInv, OracleTypeOK
  <1>3. CASE /\ work' = [w \in Works |->
                  IF work[w].link = e THEN [work[w] EXCEPT !.link = 0] ELSE work[w]]
             /\ UNCHANGED <<intake, made>>
    <2>1. \A w \in Works : work[w].link # e => work'[w] = work[w]
      BY <1>3
    <2>2. ASSUME NEW w \in Works, work[w].link = e
          PROVE  work'[w] \in Work /\ work'[w].link = 0
      <3>1. work'[w] = [work[w] EXCEPT !.link = 0] /\ work[w] \in Work
        BY <1>2, <1>3, <2>2
      <3>2. QED
        BY <3>1 DEF Work
    <2>3. \A w \in Works : work'[w] \in Work
      BY <1>2, <2>1, <2>2
    <2>4. work' = [w \in Works |-> work'[w]]
      BY <1>3
    <2>5. work' \in [Works -> Work]
      BY <2>3, <2>4
    <2>6. QED
      BY <1>1, <1>2, <1>3, <2>1, <2>2, <2>5, ResolvedLinks
  <1>4. CASE subject \in Intakes /\ UNCHANGED work
             /\ made' \in [Intakes -> Nat]
             /\ \/ UNCHANGED intake
                \/ \E bounty \in Nat, v \in IntakeVerdicts :
                     link_intake_to_bounty(escalation[e].decision, v, bounty)
    <2>1. \A w \in Works : work[w].link # e
      BY <1>4, EscalatedIntake
    <2>2. CASE UNCHANGED intake
      BY <1>1, <1>2, <1>4, <2>1, <2>2, ResolvedLinks
    <2>3. ASSUME NEW bounty \in Nat, NEW v \in IntakeVerdicts,
                 link_intake_to_bounty(escalation[e].decision, v, bounty)
          PROVE  LinkInv'
      <3>1. PICK d : d = escalation[e].decision
        OBVIOUS
      <3>2. /\ intake' \in [Intakes -> Intake \cup {Nothing}]
            /\ \A i \in Intakes : intake[i] = Nothing \/ intake[i].decision # d => intake'[i] = intake[i]
            /\ \A i \in Intakes : intake[i] # Nothing /\ intake[i].decision = d =>
                 /\ intake'[i] # Nothing
                 /\ intake'[i].status = intake[i].status /\ intake'[i].decision = d
        BY <1>2, <2>3, <3>1, link_intake_to_bountyEffect, ZenonT(60)
      <3>3. QED
        BY <1>1, <1>2, <1>4, <2>1, <3>2, ResolvedLinks
    <2>4. QED
      BY <1>4, <2>2, <2>3
  <1>5. CASE subject \in Intakes /\ verdict = "commission" /\ create_bounty_from_spec(subject)
             /\ link_intake_to_bounty(escalation[e].decision, verdict, made'[subject])
             /\ UNCHANGED work
    <2>1. made' \in [Intakes -> Nat] /\ made'[subject] \in Nat
      BY <1>2, <1>5 DEF create_bounty_from_spec
    <2>2. verdict \in IntakeVerdicts
      BY <1>5 DEF IntakeVerdicts
    <2>3. QED
      BY <1>4, <1>5, <2>1, <2>2
  <1>6. CASE subject \in Intakes /\ verdict = "reject"
             /\ link_intake_to_bounty(escalation[e].decision, verdict, 0)
             /\ UNCHANGED <<made, work>>
    <2>1. verdict \in IntakeVerdicts /\ 0 \in Nat
      BY <1>6 DEF IntakeVerdicts
    <2>2. QED
      BY <1>2, <1>4, <1>6, <2>1
  <1>7. CASE subject \in Intakes /\ UNCHANGED <<intake, made, work>>
    BY <1>2, <1>4, <1>7
  <1>8. QED
    BY <1>3, <1>5, <1>6, <1>7 DEF resolve_escalation, Dispatched

LEMMA restartLinks ==
  ASSUME LinkInv, restart
  PROVE  LinkInv'
  <1>1. /\ daemon'.pass = "reviews" /\ daemon'.queue = <<>>
        /\ daemon'.step = "evaluate" /\ daemon'.bounty = 0
        /\ Fault /\ UNCHANGED <<intake, made, work, decisions, escalation>>
    BY DEF restart
  <1>2. daemon' \in Daemon
    BY DEF restart, Daemon
  <1>3. OracleTypeOK'
    BY <1>1, <1>2, FaultType DEF LinkInv, OracleTypeOK
  <1>4. QueueIsFresh' /\ HandIsDecided'
    BY <1>1 DEF QueueIsFresh, HandIsDecided
  <1>5. RefersToDecisions' /\ LinkIsPending'
    BY <1>1, SameLinks DEF LinkInv
  <1>6. QED
    BY <1>3, <1>4, <1>5 DEF LinkInv

LEMMA LinkInvNext == LinkInv /\ [OracleNext]_oracleVars => LinkInv'
  <1> SUFFICES ASSUME LinkInv, [OracleNext]_oracleVars PROVE LinkInv'
    OBVIOUS
  <1>1. ASSUME NEW i \in Intakes, create_intake(i) PROVE LinkInv'
    BY <1>1, create_intakeLinks
  <1>2. CASE list_pending_intakes \/ evaluate_intake
    BY <1>2, list_pending_intakesLinks, evaluate_intakeLinks
  <1>3. CASE create_bounty \/ reject_intake \/ escalate_intake \/ record_intake_evaluation
    BY <1>3, create_bountyLinks, reject_intakeLinks, escalate_intakeLinks,
       record_intake_evaluationLinks
  <1>4. CASE list_pending_reviews \/ evaluate_review \/ dispatch_review_decision
    BY <1>4, list_pending_reviewsLinks, evaluate_reviewLinks, dispatch_review_decisionLinks
  <1>5. ASSUME NEW w \in Works, review_by_hand(w) \/ submit_again(w) PROVE LinkInv'
    BY <1>5, review_by_handLinks, submit_againLinks
  <1>6. ASSUME NEW e \in DOMAIN escalation, NEW verdict \in {"commission", "reject", "other"},
               resolve_escalation(e, verdict)
        PROVE  LinkInv'
    BY <1>6, resolve_escalationLinks
  <1>7. CASE restart
    BY <1>7, restartLinks
  <1>8. CASE UNCHANGED oracleVars
    <2>1. UNCHANGED <<intake, made, work, decisions, escalation, daemon, faults>>
      BY <1>8 DEF oracleVars
    <2>2. QED
      BY <2>1, OthersStep DEF LinkInv, OracleTypeOK
  <1>9. QED
    BY <1>1, <1>2, <1>3, <1>4, <1>5, <1>6, <1>7, <1>8 DEF OracleNext

\* Work that is kept from the oracle waits for an escalation of its own that is open, and no
\* other escalation about it is open (the link that create_escalation and resolve_escalation
\* of the relay write, and the daemon's list of reviews, which may be old).
THEOREM KeptWorkIsEscalated == OracleSpec => [](OracleTypeOK /\ LinkIsPending)
  <1>1. LinkInv => OracleTypeOK /\ LinkIsPending
    BY DEF LinkInv
  <1>2. QED
    BY <1>1, OracleInvInit, LinkInvNext, PTL DEF OracleSpec

-----------------------------------------------------------------------------
(* One bounty for an intake. *)

\* The escalations by which the council may still commission a bounty for an intake.
Open(i) == {e \in DOMAIN escalation : /\ escalation[e].status = "pending"
                                     /\ decisions[escalation[e].decision].subject = i}

Evaluated(i) == intake[i] # Nothing /\ intake[i].status = "evaluated"

InHand(i) == daemon.pass = "intakes" /\ daemon.queue # <<>> /\ AtHand = i

\* The bounties that were made for an intake and those that the council may still make are one
\* more than the faults at most, and not even that before an evaluation is recorded, or about
\* to be; a decision that could not be logged has cost a fault that is still to be used.
Chances ==
  \A i \in Intakes :
    LET n == made[i] + Cardinality(Open(i)) IN
    /\ n <= faults + 1
    /\ ~Evaluated(i) /\ ~(InHand(i) /\ daemon.step = "record" /\ LastDecision.logged) => n <= faults
    /\ InHand(i) /\ daemon.step = "dispatch" /\ ~LastDecision.logged => n + 1 <= faults

\* The daemon records the bounty it made for a commission, and no other.
HandBounty ==
  /\ daemon.step # "record" => daemon.bounty = 0
  /\ daemon.step = "record" =>
       /\ daemon.bounty <= made[AtHand]
       /\ LastDecision.verdict = "commission" <=> daemon.bounty # 0

RecordedBounty ==
  \A i \in Intakes : intake[i] # Nothing =>
    /\ intake[i].bounty <= made[i]
    /\ intake[i].verdict = "commission" <=> intake[i].bounty # 0

MadeInv == Chances /\ HandBounty /\ RecordedBounty

LEMMA OpenIsFinite ==
  ASSUME OracleTypeOK, NEW i \in Intakes
  PROVE  /\ IsFiniteSet(Open(i)) /\ Cardinality(Open(i)) \in Nat
         /\ made[i] \in Nat /\ faults \in Nat
  <1>1. escalation \in Seq(Escalation)
    BY DEF OracleTypeOK
  <1>2. DOMAIN escalation = 1 .. Len(escalation) /\ Len(escalation) \in Nat
    BY <1>1
  <1>3. IsFiniteSet(DOMAIN escalation)
    BY <1>2, FS_Interval
  <1>4. Open(i) \subseteq DOMAIN escalation
    BY DEF Open
  <1>5. IsFiniteSet(Open(i)) /\ Cardinality(Open(i)) \in Nat
    BY <1>3, <1>4, FS_Subset, FS_CardinalityType
  <1>6. QED
    BY <1>5, OracleAssumption DEF OracleTypeOK

LEMMA MadeInvInit == OracleInit => MadeInv
  <1> SUFFICES ASSUME OracleInit PROVE MadeInv
    OBVIOUS
  <1>1. \A i \in Intakes : Open(i) = {}
    BY DEF OracleInit, Open
  <1>2. Chances
    <2>1. \A i \in Intakes : made[i] = 0 /\ Cardinality(Open(i)) = 0
      BY <1>1, FS_EmptySet DEF OracleInit
    <2>2. faults = 0 /\ daemon.step = "evaluate"
      BY DEF OracleInit
    <2>3. QED
      BY <2>1, <2>2 DEF Chances
  <1>3. QED
    BY <1>2 DEF OracleInit, MadeInv, HandBounty, RecordedBounty

\* No escalation is created or resolved, and the decisions they are of stay.
LEMMA SameOpen ==
  ASSUME RefersToDecisions, UNCHANGED escalation,
         \A d \in DOMAIN decisions : decisions'[d] = decisions[d]
  PROVE  \A i \in Intakes : Open(i)' = Open(i)
  BY DEF Open, RefersToDecisions

\* The daemon has nothing at hand that is decided on.
LEMMA BeforeDecision ==
  ASSUME daemon'.step = "evaluate", daemon'.bounty = 0, RecordedBounty',
         \A i \in Intakes :
           /\ made'[i] + Cardinality(Open(i)') <= faults' + 1
           /\ ~Evaluated(i)' => made'[i] + Cardinality(Open(i)') <= faults'
  PROVE  MadeInv'
  <1>1. Chances'
    BY DEF Chances
  <1>2. HandBounty'
    BY DEF HandBounty
  <1>3. QED
    BY <1>1, <1>2 DEF MadeInv

\* No chance is created or used.
LEMMA SameChances ==
  ASSUME LinkInv, MadeInv, daemon'.step = "evaluate", daemon'.bounty = 0,
         UNCHANGED <<intake, made, escalation, faults>>,
         \A d \in DOMAIN decisions : decisions'[d] = decisions[d],
         daemon.step # "record"
  PROVE  MadeInv'
  <1>1. \A i \in Intakes : Open(i)' = Open(i)
    BY SameOpen DEF LinkInv
  <1>2. ASSUME NEW i \in Intakes
        PROVE  /\ made'[i] + Cardinality(Open(i)') <= faults' + 1
               /\ ~Evaluated(i)' => made'[i] + Cardinality(Open(i)') <= faults'
    BY <1>1 DEF MadeInv, Chances, Evaluated
  <1>3. RecordedBounty'
    BY DEF MadeInv, RecordedBounty
  <1>4. QED
    BY <1>2, <1>3, BeforeDecision

LEMMA create_intakeMade ==
  ASSUME LinkInv, MadeInv, NEW i \in Intakes, create_intake(i)
  PROVE  MadeInv'
  <1>1. PICK row : row = [status |-> "pending", verdict |-> Nothing, decision |-> 0, bounty |-> 0]
    OBVIOUS
  <1>2. /\ row.status = "pending" /\ row.verdict # "commission" /\ row.bounty = 0
    BY <1>1, OracleAssumption
  <1>3. /\ intake' = [intake EXCEPT ![i] = row] /\ intake[i] = Nothing
        /\ UNCHANGED <<made, work, decisions, escalation, daemon, faults>>
    BY <1>1 DEF create_intake
  <1>4. intake \in [Intakes -> Intake \cup {Nothing}] /\ made \in [Intakes -> Nat]
    BY DEF LinkInv, OracleTypeOK
  <1>5. \A j \in Intakes : (j = i => intake'[j] = row) /\ (j # i => intake'[j] = intake[j])
    BY <1>3, <1>4
  <1>6. \A j \in Intakes : Open(j)' = Open(j) /\ (Evaluated(j)' <=> Evaluated(j)) /\ (InHand(j)' <=> InHand(j))
    BY <1>2, <1>3, <1>5 DEF Open, Evaluated, InHand, AtHand
  <1>7. Chances'
    BY <1>3, <1>6 DEF MadeInv, Chances, LastDecision
  <1>8. HandBounty'
    BY <1>3 DEF MadeInv, HandBounty, LastDecision, AtHand
  <1>9. RecordedBounty'
    BY <1>2, <1>3, <1>4, <1>5 DEF MadeInv, RecordedBounty
  <1>10. QED
    BY <1>7, <1>8, <1>9 DEF MadeInv

LEMMA listMade ==
  ASSUME LinkInv, MadeInv, list_pending_intakes \/ list_pending_reviews
  PROVE  MadeInv'
  <1>1. /\ daemon'.step = "evaluate" /\ daemon'.bounty = 0 /\ daemon.queue = <<>>
        /\ UNCHANGED <<intake, made, work, decisions, escalation, faults>>
    BY DEF list_pending_intakes, list_pending_reviews
  <1>2. daemon.step # "record"
    BY <1>1 DEF LinkInv, HandIsDecided
  <1>3. QED
    BY <1>1, <1>2, SameChances

\* Whatever the step, work under review is not an intake, and nothing is recorded but what the
\* daemon or the council says of the intake.
LEMMA othersMade ==
  ASSUME LinkInv, MadeInv, UNCHANGED <<intake, made, decisions, escalation, daemon, faults>>
  PROVE  MadeInv'
  <1>1. \A i \in Intakes : Open(i)' = Open(i) /\ (Evaluated(i)' <=> Evaluated(i)) /\ (InHand(i)' <=> InHand(i))
    BY DEF Open, Evaluated, InHand, AtHand
  <1>2. Chances'
    BY <1>1 DEF MadeInv, Chances, LastDecision
  <1>3. QED
    BY <1>2 DEF MadeInv, HandBounty, RecordedBounty, LastDecision, AtHand

\* A decision that cannot be logged costs a fault.
LEMMA decideMade ==
  ASSUME LinkInv, MadeInv, daemon.queue # <<>>, daemon.step = "evaluate",
         NEW verdict \in IntakeVerdicts \cup ReviewVerdicts,
         Decide(AtHand, verdict), daemon' = AtStep("dispatch", 0),
         UNCHANGED <<intake, made, work, escalation>>
  PROVE  MadeInv'
  <1>1. AtHand \in Intakes \cup Works
    BY AtHandType DEF LinkInv
  <1>2. PICK subject : subject = AtHand
    OBVIOUS
  <1>3. /\ \A d \in DOMAIN decisions : decisions'[d] = decisions[d]
        /\ LastDecision'.logged \in BOOLEAN
        /\ LastDecision'.logged => faults' = faults
        /\ ~LastDecision'.logged => faults' = faults + 1
    BY <1>1, <1>2, DecideEffect DEF LinkInv
  <1>4. /\ daemon'.pass = daemon.pass /\ daemon'.queue = daemon.queue
        /\ daemon'.step = "dispatch" /\ daemon'.bounty = 0
    BY DEF AtStep
  <1>5. \A i \in Intakes : Open(i)' = Open(i) /\ (Evaluated(i)' <=> Evaluated(i))
    BY <1>3, SameOpen DEF LinkInv, Evaluated
  <1>6. ASSUME NEW i \in Intakes
        PROVE  LET n == made'[i] + Cardinality(Open(i)') IN
               /\ n <= faults' + 1
               /\ ~Evaluated(i)' => n <= faults'
               /\ InHand(i)' /\ ~LastDecision'.logged => n + 1 <= faults'
    <2>1. /\ Cardinality(Open(i)) \in Nat /\ made[i] \in Nat /\ faults \in Nat
      BY OpenIsFinite DEF LinkInv
    <2>2. /\ made[i] + Cardinality(Open(i)) <= faults + 1
          /\ ~Evaluated(i) => made[i] + Cardinality(Open(i)) <= faults
      BY DEF MadeInv, Chances
    <2>3. faults' \in Nat /\ faults <= faults'
      BY <1>3, <2>1
    <2>4. InHand(i)' => ~Evaluated(i)
      <3>1. InHand(i)' => InHand(i)
        BY <1>4 DEF InHand, AtHand
      <3>2. InHand(i) => i \in Pending
        BY AtHandType DEF LinkInv, InHand
      <3>3. QED
        BY <3>1, <3>2 DEF Pending, Evaluated
    <2>5. made'[i] = made[i] /\ Cardinality(Open(i)') = Cardinality(Open(i))
      BY <1>5
    <2>6. PICK n : n = made[i] + Cardinality(Open(i))
      OBVIOUS
    <2>7. n \in Nat /\ n <= faults + 1 /\ (~Evaluated(i) => n <= faults)
      BY <2>1, <2>2, <2>6
    <2>8. n <= faults' + 1 /\ (~Evaluated(i) => n <= faults')
      BY <2>1, <2>3, <2>7
    <2>9. InHand(i)' /\ ~LastDecision'.logged => n + 1 <= faults'
      BY <1>3, <2>1, <2>4, <2>7
    <2>10. QED
      BY <1>5, <2>5, <2>6, <2>8, <2>9
  <1>7. Chances'
    BY <1>4, <1>6 DEF Chances
  <1>8. HandBounty' /\ RecordedBounty'
    BY <1>4 DEF MadeInv, HandBounty, RecordedBounty
  <1>9. QED
    BY <1>7, <1>8 DEF MadeInv

LEMMA evaluateMade ==
  ASSUME LinkInv, MadeInv, evaluate_intake \/ evaluate_review
  PROVE  MadeInv'
  <1>1. /\ daemon.queue # <<>> /\ daemon.step = "evaluate"
        /\ UNCHANGED <<intake, made, work, escalation>>
    BY DEF evaluate_intake, evaluate_review, Doing
  <1>2. CASE daemon' = Done /\ UNCHANGED <<decisions, faults>>
    <2>1. daemon'.step = "evaluate" /\ daemon'.bounty = 0
      BY <1>2 DEF Done
    <2>2. QED
      BY <1>1, <1>2, <2>1, SameChances
  <1>3. ASSUME NEW answer \in IntakeVerdicts, NEW authorized \in BOOLEAN,
               Decide(AtHand, apply_intake_guards(answer, authorized)),
               daemon' = AtStep("dispatch", 0)
        PROVE  MadeInv'
    <2>1. PICK verdict : verdict = apply_intake_guards(answer, authorized)
      OBVIOUS
    <2>2. verdict \in IntakeVerdicts
      BY <2>1 DEF apply_intake_guards, IntakeVerdicts
    <2>3. QED
      BY <1>1, <1>3, <2>1, <2>2, decideMade
  <1>4. ASSUME NEW answer \in ReviewVerdicts, NEW confident \in BOOLEAN,
               Decide(AtHand, apply_review_guards(answer, confident)),
               daemon' = AtStep("dispatch", 0)
        PROVE  MadeInv'
    <2>1. PICK verdict : verdict = apply_review_guards(answer, confident)
      OBVIOUS
    <2>2. verdict \in ReviewVerdicts
      BY <2>1 DEF apply_review_guards, ReviewVerdicts
    <2>3. QED
      BY <1>1, <1>4, <2>1, <2>2, decideMade
  <1>5. QED
    BY <1>2, <1>3, <1>4 DEF evaluate_intake, evaluate_review

\* A pending intake at hand is not evaluated yet, and no other has a decision under way.
LEMMA OnlyAtHand ==
  ASSUME LinkInv, MadeInv, NEW i \in Intakes
  PROVE  /\ made[i] + Cardinality(Open(i)) <= faults + 1
         /\ InHand(i) => ~Evaluated(i)
         /\ ~Evaluated(i) /\ ~InHand(i) => made[i] + Cardinality(Open(i)) <= faults
         /\ InHand(i) /\ daemon.step # "record" => made[i] + Cardinality(Open(i)) <= faults
         /\ Cardinality(Open(i)) \in Nat /\ made[i] \in Nat /\ faults \in Nat
  <1>1. InHand(i) => ~Evaluated(i)
    BY AtHandType DEF LinkInv, InHand, Pending, Evaluated
  <1>2. QED
    BY <1>1, OpenIsFinite DEF LinkInv, MadeInv, Chances

LEMMA create_bountyMade ==
  ASSUME LinkInv, MadeInv, create_bounty
  PROVE  MadeInv'
  <1>1. /\ daemon.pass = "intakes" /\ daemon.queue # <<>> /\ daemon.step = "dispatch"
        /\ LastDecision.verdict = "commission"
        /\ UNCHANGED <<intake, work, decisions, escalation>>
    BY DEF create_bounty, Doing
  <1>2. AtHand \in Intakes /\ InHand(AtHand)
    BY <1>1, AtHandType DEF LinkInv, InHand
  <1>3. made \in [Intakes -> Nat] /\ faults \in Nat
    BY FaultType DEF LinkInv, OracleTypeOK
  <1>4. \A i \in Intakes : Open(i)' = Open(i) /\ (Evaluated(i)' <=> Evaluated(i))
    BY <1>1, SameOpen DEF LinkInv, Evaluated
  <1>5. CASE daemon' = Done /\ Fault /\ UNCHANGED made
    <2>1. faults' = faults + 1 /\ daemon'.step = "evaluate" /\ daemon'.bounty = 0
      BY <1>5 DEF Fault, Done
    <2>2. ASSUME NEW i \in Intakes
          PROVE  /\ made'[i] + Cardinality(Open(i)') <= faults' + 1
                 /\ ~Evaluated(i)' => made'[i] + Cardinality(Open(i)') <= faults'
      <3>1. made'[i] = made[i] /\ Cardinality(Open(i)') = Cardinality(Open(i))
        BY <1>4, <1>5
      <3>2. QED
        BY <2>1, <3>1, OnlyAtHand
    <2>3. RecordedBounty'
      BY <1>1, <1>5 DEF MadeInv, RecordedBounty
    <2>4. QED
      BY <2>1, <2>2, <2>3, BeforeDecision
  <1>6. CASE made' = [made EXCEPT ![AtHand] = @ + 1]
    <2>1. /\ made'[AtHand] = made[AtHand] + 1
          /\ \A i \in Intakes : i # AtHand => made'[i] = made[i]
          /\ \A i \in Intakes : made[i] <= made'[i] /\ made[i] \in Nat /\ made'[i] \in Nat
      BY <1>2, <1>3, <1>6
    <2>2. RecordedBounty'
      <3>1. ASSUME NEW i \in Intakes, intake[i] # Nothing
            PROVE  intake[i].bounty <= made'[i]
        <4>1. intake[i].bounty \in Nat /\ intake[i].bounty <= made[i]
          BY <3>1 DEF LinkInv, OracleTypeOK, Intake, MadeInv, RecordedBounty
        <4>2. QED
          BY <2>1, <4>1
      <3>2. QED
        BY <1>1, <3>1 DEF MadeInv, RecordedBounty
    <2>3. CASE daemon' = Done /\ Fault
      <3>1. faults' = faults + 1 /\ daemon'.step = "evaluate" /\ daemon'.bounty = 0
        BY <2>3 DEF Fault, Done
      <3>2. ASSUME NEW i \in Intakes
            PROVE  /\ made'[i] + Cardinality(Open(i)') <= faults' + 1
                   /\ ~Evaluated(i)' => made'[i] + Cardinality(Open(i)') <= faults'
        <4>1. Cardinality(Open(i)') = Cardinality(Open(i))
          BY <1>4
        <4>2. CASE i = AtHand
          BY <1>1, <1>2, <2>1, <3>1, <4>1, <4>2, OnlyAtHand
        <4>3. CASE i # AtHand
          <5>1. made'[i] = made[i]
            BY <2>1, <4>3
          <5>2. QED
            BY <1>4, <3>1, <4>1, <5>1, OnlyAtHand
        <4>4. QED
          BY <4>2, <4>3
      <3>3. QED
        BY <2>2, <3>1, <3>2, BeforeDecision
    <2>4. CASE daemon' = AtStep("record", made'[AtHand]) /\ UNCHANGED faults
      <3>1. /\ daemon'.pass = daemon.pass /\ daemon'.queue = daemon.queue
            /\ daemon'.step = "record" /\ daemon'.bounty = made'[AtHand]
            /\ AtHand' = AtHand /\ LastDecision' = LastDecision
        BY <1>1, <2>4 DEF AtStep, AtHand, LastDecision
      <3>2. HandBounty'
        <4>1. daemon'.bounty <= made'[AtHand] /\ daemon'.bounty # 0
          BY <1>2, <1>3, <2>1, <3>1
        <4>2. QED
          BY <1>1, <3>1, <4>1 DEF HandBounty
      <3>3. ASSUME NEW i \in Intakes
            PROVE  LET n == made'[i] + Cardinality(Open(i)') IN
                   /\ n <= faults' + 1
                   /\ ~Evaluated(i)' /\ ~(InHand(i)' /\ LastDecision'.logged) => n <= faults'
        <4>1. /\ Cardinality(Open(i)') = Cardinality(Open(i)) /\ faults' = faults
              /\ InHand(i)' <=> InHand(i)
          BY <1>4, <2>4, <3>1 DEF InHand
        <4>2. CASE i = AtHand
          <5>1. ~LastDecision.logged => made[i] + Cardinality(Open(i)) + 1 <= faults
            BY <1>1, <1>2, <4>2 DEF MadeInv, Chances
          <5>2. made[i] + Cardinality(Open(i)) <= faults
            BY <1>1, <1>2, <4>2, OnlyAtHand
          <5>3. QED
            BY <1>2, <2>1, <3>1, <4>1, <4>2, <5>1, <5>2, OnlyAtHand
        <4>3. CASE i # AtHand
          <5>1. made'[i] = made[i] /\ ~InHand(i)
            BY <2>1, <4>3 DEF InHand
          <5>2. QED
            BY <1>4, <4>1, <5>1, OnlyAtHand
        <4>4. QED
          BY <4>2, <4>3
      <3>4. Chances'
        BY <3>1, <3>3 DEF Chances
      <3>5. QED
        BY <2>2, <3>2, <3>4 DEF MadeInv
    <2>5. QED
      BY <1>6, <2>1, <2>3, <2>4, <1>1 DEF create_bounty
  <1>7. QED
    BY <1>5, <1>6 DEF create_bounty

LEMMA reject_intakeMade ==
  ASSUME LinkInv, MadeInv, reject_intake
  PROVE  MadeInv'
  <1>1. /\ daemon.pass = "intakes" /\ daemon.queue # <<>> /\ daemon.step = "dispatch"
        /\ LastDecision.verdict = "reject" /\ daemon' = AtStep("record", 0)
        /\ UNCHANGED <<intake, made, work, decisions, escalation, faults>>
    BY DEF reject_intake, Doing
  <1>2. /\ daemon'.pass = daemon.pass /\ daemon'.queue = daemon.queue
        /\ daemon'.step = "record" /\ daemon'.bounty = 0
        /\ AtHand' = AtHand /\ LastDecision' = LastDecision
    BY <1>1 DEF AtStep, AtHand, LastDecision
  <1>3. AtHand \in Intakes /\ made[AtHand] \in Nat
    BY <1>1, AtHandType DEF LinkInv, OracleTypeOK
  <1>4. HandBounty'
    BY <1>1, <1>2, <1>3 DEF HandBounty
  <1>5. ASSUME NEW i \in Intakes
        PROVE  LET n == made'[i] + Cardinality(Open(i)') IN
               /\ n <= faults' + 1
               /\ ~Evaluated(i)' => n <= faults'
    <2>1. /\ Open(i)' = Open(i) /\ (Evaluated(i)' <=> Evaluated(i))
          /\ made'[i] = made[i] /\ faults' = faults
      BY <1>1, SameOpen DEF LinkInv, Evaluated
    <2>2. QED
      BY <1>1, <2>1, OnlyAtHand
  <1>6. Chances'
    BY <1>2, <1>5 DEF Chances
  <1>7. RecordedBounty'
    BY <1>1 DEF MadeInv, RecordedBounty
  <1>8. QED
    BY <1>4, <1>6, <1>7 DEF MadeInv

\* An escalation of what is at hand is one chance more for it.
LEMMA OneMoreOpen ==
  ASSUME LinkInv, daemon.queue # <<>>, daemon.step # "evaluate", create_escalation,
         UNCHANGED <<intake, decisions>>, NEW i \in Intakes
  PROVE  /\ i = AtHand => Cardinality(Open(i)') = Cardinality(Open(i)) + 1
         /\ i # AtHand => Open(i)' = Open(i)
  <1> DEFINE n == Len(escalation) + 1
  <1>1. /\ Len(escalation) \in Nat /\ DOMAIN escalation = 1 .. Len(escalation)
        /\ DOMAIN escalation' = 1 .. n
        /\ \A e \in DOMAIN escalation : escalation'[e] = escalation[e]
        /\ escalation'[n].decision = Len(decisions) /\ escalation'[n].status = "pending"
    BY create_escalationEffect
  <1>2. decisions[Len(decisions)].subject = AtHand
    BY DEF LinkInv, HandIsDecided, LastDecision
  <1>3. /\ DOMAIN escalation' = DOMAIN escalation \cup {n} /\ n \notin DOMAIN escalation
    BY <1>1
  <1> HIDE DEF n
  <1>4. CASE i = AtHand
    <2>1. Open(i)' = Open(i) \cup {n} /\ n \notin Open(i)
      BY <1>1, <1>2, <1>3, <1>4 DEF Open
    <2>2. QED
      BY <1>4, <2>1, OpenIsFinite, FS_AddElement DEF LinkInv
  <1>5. CASE i # AtHand
    BY <1>1, <1>2, <1>3, <1>5 DEF Open
  <1>6. QED
    BY <1>4, <1>5

LEMMA escalate_intakeMade ==
  ASSUME LinkInv, MadeInv, escalate_intake
  PROVE  MadeInv'
  <1>1. /\ daemon.pass = "intakes" /\ daemon.queue # <<>> /\ daemon.step = "dispatch"
        /\ LastDecision.verdict = "escalate" /\ UNCHANGED <<intake, made, decisions>>
    BY DEF escalate_intake, Doing
  <1>2. AtHand \in Intakes /\ InHand(AtHand) /\ made[AtHand] \in Nat /\ faults \in Nat
    BY <1>1, AtHandType, FaultType DEF LinkInv, InHand, OracleTypeOK
  <1>3. \A i \in Intakes : (Evaluated(i)' <=> Evaluated(i)) /\ made'[i] = made[i]
    BY <1>1 DEF Evaluated
  <1>4. RecordedBounty'
    BY <1>1 DEF MadeInv, RecordedBounty
  <1>5. CASE /\ LastDecision.logged /\ create_escalation
             /\ daemon' = AtStep("record", 0) /\ UNCHANGED faults
    <2>1. /\ daemon'.pass = daemon.pass /\ daemon'.queue = daemon.queue
          /\ daemon'.step = "record" /\ daemon'.bounty = 0
          /\ AtHand' = AtHand /\ LastDecision' = LastDecision
      BY <1>1, <1>5 DEF AtStep, AtHand, LastDecision
    <2>2. HandBounty'
      BY <1>1, <1>2, <2>1 DEF HandBounty
    <2>3. ASSUME NEW i \in Intakes
          PROVE  LET n == made'[i] + Cardinality(Open(i)') IN
                 /\ n <= faults' + 1
                 /\ ~Evaluated(i)' /\ ~(InHand(i)' /\ LastDecision'.logged) => n <= faults'
      <3>1. CASE i = AtHand
        <4>1. Cardinality(Open(i)') = Cardinality(Open(i)) + 1
          BY <1>1, <1>5, <3>1, OneMoreOpen
        <4>2. InHand(i)' /\ LastDecision'.logged
          BY <1>2, <1>5, <2>1, <3>1 DEF InHand
        <4>3. QED
          BY <1>1, <1>2, <1>3, <1>5, <3>1, <4>1, <4>2, OnlyAtHand
      <3>2. CASE i # AtHand
        <4>1. Open(i)' = Open(i) /\ ~InHand(i)
          BY <1>1, <1>5, <3>2, OneMoreOpen DEF InHand
        <4>2. QED
          BY <1>3, <1>5, <4>1, OnlyAtHand
      <3>3. QED
        BY <3>1, <3>2
    <2>4. Chances'
      BY <2>1, <2>3 DEF Chances
    <2>5. QED
      BY <1>4, <2>2, <2>4 DEF MadeInv
  <1>6. CASE create_escalation /\ daemon' = Done /\ Fault
    <2>1. faults' = faults + 1 /\ daemon'.step = "evaluate" /\ daemon'.bounty = 0
      BY <1>6 DEF Fault, Done
    <2>2. ASSUME NEW i \in Intakes
          PROVE  /\ made'[i] + Cardinality(Open(i)') <= faults' + 1
                 /\ ~Evaluated(i)' => made'[i] + Cardinality(Open(i)') <= faults'
      <3>1. CASE i = AtHand
        <4>1. Cardinality(Open(i)') = Cardinality(Open(i)) + 1
          BY <1>1, <1>6, <3>1, OneMoreOpen
        <4>2. QED
          BY <1>1, <1>2, <1>3, <2>1, <3>1, <4>1, OnlyAtHand
      <3>2. CASE i # AtHand
        <4>1. Open(i)' = Open(i)
          BY <1>1, <1>6, <3>2, OneMoreOpen
        <4>2. QED
          BY <1>3, <2>1, <4>1, OnlyAtHand
      <3>3. QED
        BY <3>1, <3>2
    <2>3. QED
      BY <1>4, <2>1, <2>2, BeforeDecision
  <1>7. CASE daemon' = Done /\ UNCHANGED <<escalation, work>> /\ (Fault \/ UNCHANGED faults)
    <2>1. /\ faults' = faults \/ faults' = faults + 1
          /\ daemon'.step = "evaluate" /\ daemon'.bounty = 0
      BY <1>7 DEF Fault, Done
    <2>2. ASSUME NEW i \in Intakes
          PROVE  /\ made'[i] + Cardinality(Open(i)') <= faults' + 1
                 /\ ~Evaluated(i)' => made'[i] + Cardinality(Open(i)') <= faults'
      <3>1. Open(i)' = Open(i)
        BY <1>1, <1>7, SameOpen DEF LinkInv
      <3>2. /\ made[i] + Cardinality(Open(i)) <= faults + 1
            /\ ~Evaluated(i) => made[i] + Cardinality(Open(i)) <= faults
        BY <1>1, OnlyAtHand
      <3>3. QED
        BY <1>3, <2>1, <3>1, <3>2, OnlyAtHand
    <2>3. QED
      BY <1>4, <2>1, <2>2, BeforeDecision
  <1>8. QED
    BY <1>5, <1>6, <1>7 DEF escalate_intake

LEMMA record_intake_evaluationMade ==
  ASSUME LinkInv, MadeInv, record_intake_evaluation
  PROVE  MadeInv'
  <1>1. /\ Doing("intakes", "record") /\ daemon.pass = "intakes" /\ daemon.queue # <<>>
        /\ daemon.step = "record" /\ daemon' = Done
        /\ UNCHANGED <<made, work, decisions, escalation>>
    BY DEF record_intake_evaluation, Doing
  <1>2. daemon'.step = "evaluate" /\ daemon'.bounty = 0
    BY <1>1 DEF Done
  <1>3. \A i \in Intakes : Open(i)' = Open(i) /\ made'[i] = made[i]
    BY <1>1, SameOpen DEF LinkInv
  <1>4. CASE record_evaluation(AtHand) /\ UNCHANGED faults
    <2>1. /\ AtHand \in Intakes /\ intake[AtHand] # Nothing
          /\ \A i \in Intakes : i # AtHand => intake'[i] = intake[i]
          /\ ~LastDecision.logged => intake' = intake
          /\ LastDecision.logged =>
               /\ intake'[AtHand] # Nothing /\ intake'[AtHand].status = "evaluated"
               /\ intake'[AtHand].verdict = LastDecision.verdict
               /\ intake'[AtHand].bounty = daemon.bounty
      BY <1>1, <1>4, record_evaluationEffect
    <2>2. RecordedBounty'
      <3>1. CASE ~LastDecision.logged
        BY <1>1, <2>1, <3>1 DEF MadeInv, RecordedBounty
      <3>2. CASE LastDecision.logged
        <4>1. /\ daemon.bounty <= made[AtHand]
              /\ LastDecision.verdict = "commission" <=> daemon.bounty # 0
          BY <1>1 DEF MadeInv, HandBounty
        <4>2. QED
          BY <1>1, <2>1, <3>2, <4>1 DEF MadeInv, RecordedBounty
      <3>3. QED
        BY <3>1, <3>2
    <2>3. ASSUME NEW i \in Intakes
          PROVE  /\ made'[i] + Cardinality(Open(i)') <= faults' + 1
                 /\ ~Evaluated(i)' => made'[i] + Cardinality(Open(i)') <= faults'
      <3>1. made[i] + Cardinality(Open(i)) <= faults + 1
        BY OnlyAtHand
      <3>2. CASE i = AtHand
        <4>1. CASE LastDecision.logged
          BY <1>3, <1>4, <2>1, <3>1, <3>2, <4>1 DEF Evaluated
        <4>2. CASE ~LastDecision.logged
          <5>1. Evaluated(i)' <=> Evaluated(i)
            BY <2>1, <4>2 DEF Evaluated
          <5>2. ~Evaluated(i) => made[i] + Cardinality(Open(i)) <= faults
            BY <4>2 DEF MadeInv, Chances
          <5>3. QED
            BY <1>3, <1>4, <3>1, <5>1, <5>2
        <4>3. QED
          BY <4>1, <4>2
      <3>3. CASE i # AtHand
        <4>1. (Evaluated(i)' <=> Evaluated(i)) /\ ~InHand(i)
          BY <2>1, <3>3 DEF Evaluated, InHand
        <4>2. QED
          BY <1>3, <1>4, <3>1, <4>1, OnlyAtHand
      <3>4. QED
        BY <3>2, <3>3
    <2>4. QED
      BY <1>2, <2>2, <2>3, BeforeDecision
  <1>5. CASE UNCHANGED intake /\ Fault
    <2>1. faults' = faults + 1
      BY <1>5 DEF Fault
    <2>2. ASSUME NEW i \in Intakes
          PROVE  /\ made'[i] + Cardinality(Open(i)') <= faults' + 1
                 /\ ~Evaluated(i)' => made'[i] + Cardinality(Open(i)') <= faults'
      BY <1>3, <2>1, OnlyAtHand
    <2>3. RecordedBounty'
      BY <1>1, <1>5 DEF MadeInv, RecordedBounty
    <2>4. QED
      BY <1>2, <2>2, <2>3, BeforeDecision
  <1>6. QED
    BY <1>4, <1>5 DEF record_intake_evaluation

LEMMA dispatch_review_decisionMade ==
  ASSUME LinkInv, MadeInv, dispatch_review_decision
  PROVE  MadeInv'
  <1>1. /\ daemon.pass = "reviews" /\ daemon.queue # <<>> /\ daemon.step = "dispatch"
        /\ daemon' = Done /\ UNCHANGED <<intake, made, decisions, faults>>
        /\ create_escalation \/ UNCHANGED escalation
    BY DEF dispatch_review_decision, Doing
  <1>2. daemon'.step = "evaluate" /\ daemon'.bounty = 0
    BY <1>1 DEF Done
  <1>3. AtHand \notin Intakes
    BY <1>1, AtHandType, OracleAssumption DEF LinkInv
  <1>4. ASSUME NEW i \in Intakes
        PROVE  /\ made'[i] + Cardinality(Open(i)') <= faults' + 1
               /\ ~Evaluated(i)' => made'[i] + Cardinality(Open(i)') <= faults'
    <2>1. Open(i)' = Open(i)
      <3>1. CASE create_escalation
        BY <1>1, <1>3, <3>1, OneMoreOpen
      <3>2. CASE UNCHANGED escalation
        BY <1>1, <3>2, SameOpen DEF LinkInv
      <3>3. QED
        BY <1>1, <3>1, <3>2
    <2>2. (Evaluated(i)' <=> Evaluated(i)) /\ ~InHand(i)
      BY <1>1 DEF Evaluated, InHand
    <2>3. QED
      BY <1>1, <2>1, <2>2, OnlyAtHand
  <1>5. RecordedBounty'
    BY <1>1 DEF MadeInv, RecordedBounty
  <1>6. QED
    BY <1>2, <1>4, <1>5, BeforeDecision

\* An escalation that is resolved is one chance less for its intake, and the bounty that may
\* come of it takes its place.
LEMMA OneLessOpen ==
  ASSUME LinkInv, NEW e \in DOMAIN escalation, escalation[e].status = "pending",
         escalation' = [escalation EXCEPT ![e].status = "resolved"], UNCHANGED decisions,
         NEW i \in Intakes
  PROVE  /\ decisions[escalation[e].decision].subject = i =>
              Cardinality(Open(i)') = Cardinality(Open(i)) - 1
         /\ decisions[escalation[e].decision].subject # i => Open(i)' = Open(i)
  <1>1. /\ DOMAIN escalation' = DOMAIN escalation /\ escalation'[e].status = "resolved"
        /\ \A f \in DOMAIN escalation : /\ escalation'[f].decision = escalation[f].decision
                                       /\ f # e => escalation'[f] = escalation[f]
    BY ResolvedRow DEF LinkInv
  <1>2. CASE decisions[escalation[e].decision].subject = i
    <2>1. Open(i)' = Open(i) \ {e} /\ e \in Open(i)
      BY <1>1, <1>2 DEF Open
    <2>2. QED
      BY <1>2, <2>1, OpenIsFinite, FS_RemoveElement, ZenonT(60) DEF LinkInv
  <1>3. CASE decisions[escalation[e].decision].subject # i
    BY <1>1, <1>3 DEF Open
  <1>4. QED
    BY <1>2, <1>3

\* What the council makes is within the chances.
LEMMA ResolvedMade ==
  ASSUME LinkInv, MadeInv, NEW e \in DOMAIN escalation, escalation[e].status = "pending",
         escalation' = [escalation EXCEPT ![e].status = "resolved"],
         UNCHANGED <<decisions, daemon, faults>>,
         \A i \in Intakes : made'[i] \in Nat /\ made[i] <= made'[i],
         \A i \in Intakes : decisions[escalation[e].decision].subject = i => made'[i] <= made[i] + 1,
         \A i \in Intakes : decisions[escalation[e].decision].subject # i => made'[i] = made[i],
         \A i \in Intakes : Evaluated(i)' <=> Evaluated(i),
         RecordedBounty'
  PROVE  MadeInv'
  <1>1. \A i \in Intakes : InHand(i)' <=> InHand(i)
    BY DEF InHand, AtHand
  <1>2. LastDecision' = LastDecision /\ AtHand' = AtHand
    BY DEF LastDecision, AtHand
  <1>3. ASSUME NEW i \in Intakes
        PROVE  LET n == made'[i] + Cardinality(Open(i)') IN
               /\ n <= faults' + 1
               /\ ~Evaluated(i)' /\ ~(InHand(i)' /\ daemon'.step = "record" /\ LastDecision'.logged)
                    => n <= faults'
               /\ InHand(i)' /\ daemon'.step = "dispatch" /\ ~LastDecision'.logged => n + 1 <= faults'
    <2>1. /\ Cardinality(Open(i)) \in Nat /\ made[i] \in Nat /\ made'[i] \in Nat /\ faults \in Nat
      BY OnlyAtHand
    <2>2. made'[i] + Cardinality(Open(i)') <= made[i] + Cardinality(Open(i))
          /\ Cardinality(Open(i)') \in Int
      <3>1. CASE decisions[escalation[e].decision].subject = i
        <4>1. Cardinality(Open(i)') = Cardinality(Open(i)) - 1
          BY <3>1, OneLessOpen
        <4>2. made'[i] <= made[i] + 1
          BY <3>1
        <4>3. QED
          BY <2>1, <4>1, <4>2
      <3>2. CASE decisions[escalation[e].decision].subject # i
        <4>1. Open(i)' = Open(i)
          BY <3>2, OneLessOpen
        <4>2. made'[i] = made[i]
          BY <3>2
        <4>3. QED
          BY <2>1, <4>1, <4>2
      <3>3. QED
        BY <3>1, <3>2
    <2>3. PICK n, m : n = made'[i] + Cardinality(Open(i)') /\ m = made[i] + Cardinality(Open(i))
      OBVIOUS
    <2>4. n \in Int /\ m \in Int /\ n <= m
      BY <2>1, <2>2, <2>3
    <2>5. /\ m <= faults + 1
          /\ ~Evaluated(i) /\ ~(InHand(i) /\ daemon.step = "record" /\ LastDecision.logged) => m <= faults
          /\ InHand(i) /\ daemon.step = "dispatch" /\ ~LastDecision.logged => m + 1 <= faults
      BY <2>3 DEF MadeInv, Chances
    <2>6. /\ n <= faults + 1
          /\ ~Evaluated(i) /\ ~(InHand(i) /\ daemon.step = "record" /\ LastDecision.logged) => n <= faults
          /\ InHand(i) /\ daemon.step = "dispatch" /\ ~LastDecision.logged => n + 1 <= faults
      BY <2>1, <2>4, <2>5
    <2>7. QED
      BY <1>1, <1>2, <2>3, <2>6
  <1>4. Chances'
    BY <1>3 DEF Chances
  <1>5. HandBounty'
    <2>1. ASSUME daemon.step = "record"
          PROVE  daemon.bounty <= made'[AtHand]
      <3>1. AtHand \in Intakes /\ daemon.bounty <= made[AtHand] /\ daemon.bounty \in Nat
        BY <2>1, AtHandType DEF LinkInv, HandIsDecided, MadeInv, HandBounty, OracleTypeOK, Daemon
      <3>2. made[AtHand] \in Nat
        BY <3>1, OnlyAtHand
      <3>3. QED
        BY <3>1, <3>2
    <2>2. QED
      BY <1>2, <2>1 DEF MadeInv, HandBounty
  <1>6. QED
    BY <1>4, <1>5 DEF MadeInv

LEMMA resolve_escalationMade ==
  ASSUME LinkInv, MadeInv, NEW e \in DOMAIN escalation,
         NEW verdict \in {"commission", "reject", "other"}, resolve_escalation(e, verdict)
  PROVE  MadeInv'
  <1> DEFINE d == escalation[e].decision
             subject == decisions[d].subject
  <1>1. /\ escalation[e].status = "pending"
        /\ escalation' = [escalation EXCEPT ![e].status = "resolved"]
        /\ UNCHANGED <<decisions, daemon, faults>>
    BY DEF resolve_escalation
  <1>2. /\ made \in [Intakes -> Nat] /\ OracleTypeOK
        /\ intake \in [Intakes -> Intake \cup {Nothing}]
    BY DEF LinkInv, OracleTypeOK
  <1>3. d # 0 /\ d \in DOMAIN decisions
    BY DEF LinkInv, OracleTypeOK, RefersToDecisions
  <1>4. CASE UNCHANGED <<intake, made>>
    <2>1. RecordedBounty' /\ \A i \in Intakes : (Evaluated(i)' <=> Evaluated(i)) /\ made'[i] = made[i]
      BY <1>4 DEF MadeInv, RecordedBounty, Evaluated
    <2>2. \A i \in Intakes : made'[i] \in Nat /\ made[i] <= made'[i] /\ made'[i] <= made[i] + 1
      BY <1>2, <2>1
    <2>3. QED
      BY <1>1, <2>1, <2>2, ResolvedMade
  <1>5. ASSUME subject \in Intakes, NEW v \in IntakeVerdicts, NEW bounty \in Nat,
               v = "commission" <=> bounty # 0,
               \A i \in Intakes : made'[i] \in Nat /\ made[i] <= made'[i],
               made'[subject] <= made[subject] + 1, bounty <= made'[subject],
               \A i \in Intakes : i # subject => made'[i] = made[i],
               link_intake_to_bounty(d, v, bounty)
        PROVE  MadeInv'
    <2>1. PICK c : c = d
      OBVIOUS
    <2>2. /\ \A i \in Intakes : intake[i] = Nothing \/ intake[i].decision # c => intake'[i] = intake[i]
          /\ \A i \in Intakes : intake[i] # Nothing /\ intake[i].decision = c =>
               /\ intake'[i] # Nothing /\ intake'[i].status = intake[i].status
               /\ intake'[i].verdict = v /\ intake'[i].bounty = bounty
      <3>1. link_intake_to_bounty(c, v, bounty)
        BY <1>5, <2>1
      <3>2. QED
        BY <1>2, <3>1, link_intake_to_bountyEffect
    <2>3. \A i \in Intakes : Evaluated(i)' <=> Evaluated(i)
      BY <2>2 DEF Evaluated
    <2>4. ASSUME NEW i \in Intakes, intake'[i] # Nothing
          PROVE  /\ intake'[i].bounty <= made'[i]
                 /\ intake'[i].verdict = "commission" <=> intake'[i].bounty # 0
      <3>1. CASE intake[i] # Nothing /\ intake[i].decision = c
        <4>1. i = subject
          BY <1>3, <2>1, <3>1 DEF LinkInv, RefersToDecisions
        <4>2. QED
          BY <1>5, <2>2, <3>1, <4>1
      <3>2. CASE intake[i] = Nothing \/ intake[i].decision # c
        <4>1. intake'[i] = intake[i]
          BY <2>2, <3>2
        <4>2. /\ intake[i].bounty \in Nat /\ intake[i].bounty <= made[i] /\ made[i] \in Nat
              /\ intake[i].verdict = "commission" <=> intake[i].bounty # 0
          BY <1>2, <2>4, <4>1 DEF Intake, MadeInv, RecordedBounty
        <4>3. QED
          BY <1>5, <4>1, <4>2
      <3>3. QED
        BY <3>1, <3>2
    <2>5. RecordedBounty'
      BY <2>4 DEF RecordedBounty
    <2>6. QED
      BY <1>1, <1>5, <2>3, <2>5, ResolvedMade
  <1>6. CASE subject \in Intakes /\ verdict = "commission" /\ create_bounty_from_spec(subject)
             /\ link_intake_to_bounty(d, verdict, made'[subject])
    <2>1. made' = [made EXCEPT ![subject] = made[subject] + 1]
      BY <1>6 DEF create_bounty_from_spec
    <2>2. /\ made'[subject] = made[subject] + 1 /\ made[subject] \in Nat
          /\ \A i \in Intakes : made'[i] \in Nat /\ made[i] <= made'[i]
          /\ \A i \in Intakes : i # subject => made'[i] = made[i]
      BY <1>2, <1>6, <2>1
    <2>3. PICK b : b = made'[subject]
      OBVIOUS
    <2>4. b \in Nat /\ b # 0 /\ b <= made'[subject] /\ verdict \in IntakeVerdicts
          /\ made'[subject] <= made[subject] + 1
      BY <1>6, <2>2, <2>3 DEF IntakeVerdicts
    <2>5. QED
      BY <1>5, <1>6, <2>2, <2>3, <2>4
  <1>7. CASE subject \in Intakes /\ verdict = "reject" /\ link_intake_to_bounty(d, verdict, 0)
             /\ UNCHANGED made
    <2>1. /\ verdict \in IntakeVerdicts /\ 0 \in Nat /\ verdict # "commission"
          /\ \A i \in Intakes : made'[i] \in Nat /\ made[i] <= made'[i] /\ made'[i] = made[i]
          /\ made'[subject] <= made[subject] + 1 /\ 0 <= made'[subject]
      BY <1>2, <1>7 DEF IntakeVerdicts
    <2>2. QED
      BY <1>5, <1>7, <2>1
  <1>8. QED
    BY <1>4, <1>6, <1>7 DEF resolve_escalation, Dispatched

LEMMA restartMade ==
  ASSUME LinkInv, MadeInv, restart
  PROVE  MadeInv'
  <1>1. /\ daemon'.step = "evaluate" /\ daemon'.bounty = 0 /\ faults' = faults + 1
        /\ UNCHANGED <<intake, made, work, decisions, escalation>>
    BY DEF restart, Fault
  <1>2. ASSUME NEW i \in Intakes
        PROVE  /\ made'[i] + Cardinality(Open(i)') <= faults' + 1
               /\ ~Evaluated(i)' => made'[i] + Cardinality(Open(i)') <= faults'
    <2>1. Open(i)' = Open(i)
      BY <1>1 DEF Open
    <2>2. QED
      BY <1>1, <2>1, OnlyAtHand
  <1>3. RecordedBounty'
    BY <1>1 DEF MadeInv, RecordedBounty
  <1>4. QED
    BY <1>1, <1>2, <1>3, BeforeDecision

LEMMA MadeInvNext == LinkInv /\ MadeInv /\ [OracleNext]_oracleVars => MadeInv'
  <1> SUFFICES ASSUME LinkInv, MadeInv, [OracleNext]_oracleVars PROVE MadeInv'
    OBVIOUS
  <1>1. ASSUME NEW i \in Intakes, create_intake(i) PROVE MadeInv'
    BY <1>1, create_intakeMade
  <1>2. CASE list_pending_intakes \/ list_pending_reviews
    BY <1>2, listMade
  <1>3. CASE evaluate_intake \/ evaluate_review
    BY <1>3, evaluateMade
  <1>4. CASE create_bounty \/ reject_intake \/ escalate_intake \/ record_intake_evaluation
    BY <1>4, create_bountyMade, reject_intakeMade, escalate_intakeMade,
       record_intake_evaluationMade
  <1>5. CASE dispatch_review_decision
    BY <1>5, dispatch_review_decisionMade
  <1>6. ASSUME NEW w \in Works, review_by_hand(w) \/ submit_again(w) PROVE MadeInv'
    BY <1>6, othersMade DEF review_by_hand, submit_again
  <1>7. ASSUME NEW e \in DOMAIN escalation, NEW verdict \in {"commission", "reject", "other"},
               resolve_escalation(e, verdict)
        PROVE  MadeInv'
    BY <1>7, resolve_escalationMade
  <1>8. CASE restart
    BY <1>8, restartMade
  <1>9. CASE UNCHANGED oracleVars
    BY <1>9, othersMade DEF oracleVars
  <1>10. QED
    BY <1>1, <1>2, <1>3, <1>4, <1>5, <1>6, <1>7, <1>8, <1>9 DEF OracleNext

\* An intake becomes one bounty, and one more for every fault at most, and what was recorded as
\* commissioned has its bounty (the daemon's calls to the relay, which are not one transaction,
\* and the council's resolutions).
THEOREM IntakesAreCommissionedOnce == OracleSpec => []CommissionedOnce
  <1>1. LinkInv /\ MadeInv => CommissionedOnce
    <2> SUFFICES ASSUME LinkInv, MadeInv PROVE CommissionedOnce
      OBVIOUS
    <2>1. \A i \in Intakes : made[i] <= 1 + faults
      BY OnlyAtHand
    <2>2. QED
      BY <2>1 DEF CommissionedOnce, MadeInv, RecordedBounty
  <1>2. QED
    BY <1>1, OracleInvInit, LinkInvNext, MadeInvInit, MadeInvNext, PTL DEF OracleSpec

-----------------------------------------------------------------------------
(* The conversations of the agent. *)

\* Calls stand an odd number of messages before the end, with their results next, and
\* results an even number, with their calls before them.
Paired(m, o) ==
  \A k \in 1 .. Len(m) :
    /\ Kept(m[k].uses, o) => (Len(m) - k) % 2 = 1 /\ m[k + 1].results = m[k].uses
    /\ Kept(m[k].results, o) =>
         (Len(m) - k) % 2 = 0 /\ k > 1 /\ m[k - 1].uses = m[k].results

\* Before a turn and with the model, the conversation is paired; while tools run, it is but
\* for the calls that end it.
AgentInv ==
  /\ AgentTypeOK
  /\ phase \in {"turn", "model"} => Paired(messages, orderly)
  /\ phase = "model" => turn # 0
  /\ phase \in {"tools", "harness"} =>
       /\ turn # 0 /\ calls # <<>>
       /\ \E m \in Seq(Message) : Paired(m, orderly) /\ messages = Append(m, Calling(turn))

\* The windows that compaction leaves are of an even number of messages.
EvenWindows == \A s \in Sessions : s.preserve % 2 = 0

LEMMA MessageTypes ==
  /\ MaxIterations \in Nat /\ \A o \in BOOLEAN : ~Kept(0, o)
  /\ Text("user") \in Message /\ Text("assistant") \in Message
  /\ \A role : Text(role).uses = 0 /\ Text(role).results = 0
  /\ \A t \in 1 .. MaxIterations :
       /\ Calling(t) \in Message /\ Calling(t).uses = t /\ Calling(t).results = 0
       /\ Answering(t) \in Message /\ Answering(t).uses = 0 /\ Answering(t).results = t
  BY AgentAssumption DEF Text, Calling, Answering, Message, Kept

\* A paired conversation followed by calls and their results is paired.
LEMMA TurnIsPaired ==
  ASSUME NEW o \in BOOLEAN, NEW m \in Seq(Message), Paired(m, o), NEW t \in 1 .. MaxIterations
  PROVE  Paired(Append(Append(m, Calling(t)), Answering(t)), o)
  <1>1. PICK a : a = Calling(t)
    OBVIOUS
  <1>2. PICK b : b = Answering(t)
    OBVIOUS
  <1>3. /\ a \in Message /\ a.uses = t /\ a.results = 0
        /\ b \in Message /\ b.uses = 0 /\ b.results = t
    BY <1>1, <1>2, MessageTypes
  <1>4. PICK n \in Nat : n = Len(m)
    OBVIOUS
  <1>5. PICK d : d = Append(Append(m, a), b)
    OBVIOUS
  <1>6. /\ Len(d) = n + 2 /\ d[n + 1] = a /\ d[n + 2] = b
        /\ \A k \in 1 .. n : d[k] = m[k]
    BY <1>3, <1>4, <1>5
  <1>7. ASSUME NEW k \in 1 .. n + 2
        PROVE  /\ Kept(d[k].uses, o) => (n + 2 - k) % 2 = 1 /\ d[k + 1].results = d[k].uses
               /\ Kept(d[k].results, o) =>
                    (n + 2 - k) % 2 = 0 /\ k > 1 /\ d[k - 1].uses = d[k].results
    <2>1. CASE k = n + 2
      <3>1. d[k] = b /\ d[k - 1] = a /\ k > 1 /\ (n + 2 - k) % 2 = 0
        BY <1>6, <2>1
      <3>2. ~Kept(0, o)
        BY MessageTypes
      <3>3. QED
        BY <1>3, <3>1, <3>2, Zenon
    <2>2. CASE k = n + 1
      <3>1. d[k] = a /\ d[k + 1] = b /\ (n + 2 - k) % 2 = 1
        BY <1>6, <2>2
      <3>2. ~Kept(0, o)
        BY MessageTypes
      <3>3. QED
        BY <1>3, <3>1, <3>2, Zenon
    <2>3. CASE k \in 1 .. n
      <3>1. (n + 2 - k) % 2 = (n - k) % 2
        BY <2>3
      <3>2. /\ Kept(m[k].uses, o) => (n - k) % 2 = 1 /\ m[k + 1].results = m[k].uses
            /\ Kept(m[k].results, o) => (n - k) % 2 = 0 /\ k > 1 /\ m[k - 1].uses = m[k].results
        BY <1>4, <2>3 DEF Paired
      <3>3. Kept(m[k].uses, o) => k + 1 \in 1 .. n
        BY <2>3, <3>2, SMTT(60)
      <3>4. Kept(m[k].results, o) => k - 1 \in 1 .. n
        BY <2>3, <3>2
      <3>5. QED
        BY <1>6, <2>3, <3>1, <3>2, <3>3, <3>4
    <2>4. QED
      BY <2>1, <2>2, <2>3
  <1>8. QED
    BY <1>1, <1>2, <1>5, <1>6, <1>7 DEF Paired

\* Compaction to an even number of messages never parts results from their calls.
LEMMA CompactIsPaired ==
  ASSUME NEW o \in BOOLEAN, NEW m \in Seq(Message), Paired(m, o), NEW p \in Nat, p % 2 = 0
  PROVE  compact(m, p) \in Seq(Message) /\ Paired(compact(m, p), o)
  <1>1. CASE Len(m) <= p + 1
    BY <1>1 DEF compact
  <1>2. CASE Len(m) > p + 1
    <2>1. PICK n \in Nat : n = Len(m)
      OBVIOUS
    <2>2. PICK e : e = SubSeq(m, n - p + 1, n)
      OBVIOUS
    <2>3. /\ e \in Seq(Message) /\ Len(e) = p
          /\ \A i \in 1 .. p : e[i] = m[n - p + i]
      <3>1. n - p + 1 \in Int /\ n \in Int /\ \A i \in n - p + 1 .. n : m[i] \in Message
        BY <1>2, <2>1
      <3>2. /\ e \in Seq(Message)
            /\ Len(e) = IF n - p + 1 <= n THEN n - (n - p + 1) + 1 ELSE 0
            /\ \A i \in 1 .. n - (n - p + 1) + 1 : e[i] = m[(n - p + 1) + i - 1]
        BY <2>2, <3>1, SubSeqProperties
      <3>3. QED
        BY <2>1, <3>2
    <2>4. PICK x \in Message : x = Text("user") /\ x.uses = 0 /\ x.results = 0
      BY MessageTypes
    <2>5. PICK d : d = <<x>> \o e
      OBVIOUS
    <2>6. /\ d \in Seq(Message) /\ Len(d) = p + 1 /\ d[1] = x
          /\ \A j \in 2 .. p + 1 : d[j] = m[n - p + j - 1]
      <3>1. /\ d \in Seq(Message) /\ Len(d) = p + 1 /\ d[1] = x
            /\ \A j \in 2 .. p + 1 : d[j] = e[j - 1]
        <4>1. PICK w : w = <<x>>
          OBVIOUS
        <4>2. w \in Seq(Message) /\ Len(w) = 1 /\ w[1] = x
          BY <2>4, <4>1
        <4>3. /\ w \o e \in Seq(Message) /\ Len(w \o e) = Len(w) + Len(e)
              /\ \A i \in 1 .. Len(w) + Len(e) :
                   (w \o e)[i] = IF i <= Len(w) THEN w[i] ELSE e[i - Len(w)]
          BY <2>3, <4>2, ConcatProperties, ZenonT(60)
        <4>4. d = w \o e
          BY <2>5, <4>1
        <4>5. /\ d \in Seq(Message) /\ Len(d) = 1 + p
              /\ \A i \in 1 .. 1 + p : d[i] = IF i <= 1 THEN w[i] ELSE e[i - 1]
          BY <2>3, <4>2, <4>3, <4>4
        <4>6. QED
          BY <4>2, <4>5
      <3>2. ASSUME NEW j \in 2 .. p + 1 PROVE d[j] = m[n - p + j - 1]
        <4>1. d[j] = e[j - 1] /\ j - 1 \in 1 .. p
          BY <3>1
        <4>2. n - p + (j - 1) = n - p + j - 1
          BY <2>1
        <4>3. QED
          BY <2>3, <4>1, <4>2
      <3>3. QED
        BY <3>1, <3>2
    <2>7. ASSUME NEW j \in 1 .. p + 1
          PROVE  /\ Kept(d[j].uses, o) => (p + 1 - j) % 2 = 1 /\ d[j + 1].results = d[j].uses
                 /\ Kept(d[j].results, o) =>
                      (p + 1 - j) % 2 = 0 /\ j > 1 /\ d[j - 1].uses = d[j].results
      <3>1. CASE j = 1
        <4>1. d[j] = x
          BY <2>6, <3>1
        <4>2. d[j].uses = 0 /\ d[j].results = 0
          BY <2>4, <4>1
        <4>3. ~Kept(0, o)
          BY MessageTypes
        <4>4. QED
          BY <4>2, <4>3, Zenon
      <3>2. CASE j \in 2 .. p + 1
        <4>1. PICK k \in 1 .. n : k = n - p + j - 1
          <5>1. n > p + 1 /\ j \in Nat /\ j >= 2 /\ j <= p + 1
            BY <1>2, <2>1, <3>2
          <5>2. n - p + j - 1 \in 1 .. n
            BY <5>1
          <5>3. QED
            BY <5>2
        <4>2. d[j] = m[k] /\ n - k = p + 1 - j
          BY <2>1, <2>6, <3>2, <4>1
        <4>3. /\ Kept(m[k].uses, o) => (n - k) % 2 = 1 /\ m[k + 1].results = m[k].uses
              /\ Kept(m[k].results, o) => (n - k) % 2 = 0 /\ k > 1 /\ m[k - 1].uses = m[k].results
          BY <2>1 DEF Paired
        <4>4. ASSUME Kept(m[k].uses, o) PROVE d[j + 1] = m[k + 1]
          <5>1. j # p + 1
            <6>1. (n - k) % 2 = 1
              BY <4>3, <4>4, Zenon
            <6>2. n - k # 0
              BY <6>1
            <6>3. QED
              BY <4>2, <6>2
          <5>2. j + 1 \in 2 .. p + 1 /\ n - p + (j + 1) - 1 = k + 1
            <6>1. j \in Int /\ j >= 2 /\ j <= p + 1 /\ p \in Nat
              BY <3>2
            <6>2. j + 1 \in 2 .. p + 1
              BY <5>1, <6>1
            <6>3. n - p + (j + 1) - 1 = k + 1
              BY <4>1, <6>1
            <6>4. QED
              BY <6>2, <6>3
          <5>3. d[j + 1] = m[n - p + (j + 1) - 1]
            BY <2>6, <5>2, Zenon
          <5>4. QED
            BY <5>2, <5>3, Zenon
        <4>5. ASSUME Kept(m[k].results, o) PROVE d[j - 1] = m[k - 1]
          <5>1. j # 2
            <6>1. (n - k) % 2 = 0 /\ n - k = p + 1 - j
              BY <4>2, <4>3, <4>5, Zenon
            <6>2. (p - 1) % 2 = 1
              OBVIOUS
            <6>3. QED
              BY <6>1, <6>2
          <5>2. j - 1 \in 2 .. p + 1 /\ n - p + (j - 1) - 1 = k - 1
            <6>1. j \in Int /\ j >= 2 /\ j <= p + 1 /\ p \in Nat
              BY <3>2
            <6>2. j - 1 \in 2 .. p + 1
              BY <5>1, <6>1
            <6>3. n - p + (j - 1) - 1 = k - 1
              BY <4>1, <6>1
            <6>4. QED
              BY <6>2, <6>3
          <5>3. d[j - 1] = m[n - p + (j - 1) - 1]
            BY <2>6, <5>2, Zenon
          <5>4. QED
            BY <5>2, <5>3, Zenon
        <4>6. j > 1
          BY <3>2
        <4>7. QED
          BY <4>2, <4>3, <4>4, <4>5, <4>6, ZenonT(60)
      <3>3. QED
        BY <3>1, <3>2
    <2>8. compact(m, p) = d
      <3>1. ~(Len(m) <= p + 1)
        BY <1>2, <2>1
      <3>2. d = <<Text("user")>> \o SubSeq(m, Len(m) - p + 1, Len(m))
        BY <2>1, <2>2, <2>4, <2>5, Zenon
      <3>3. QED
        BY <3>1, <3>2, Zenon DEF compact
    <2>9. Paired(d, o)
      <3>1. Len(d) = p + 1
        BY <2>6
      <3>2. QED
        BY <2>7, <3>1 DEF Paired
    <2>10. QED
      BY <2>6, <2>8, <2>9, Zenon
  <1>3. QED
    BY <1>1, <1>2

\* A history that was cut is one of earlier messages still.
LEMMA WindowIsEarlier ==
  ASSUME NEW h \in Seq(Earlier)
  PROVE  window_history(h) \in Seq(Earlier)
  <1>1. Text("user") \in Earlier
    BY MessageTypes DEF Earlier
  <1>2. CASE Len(h) <= 40
    BY <1>2 DEF window_history
  <1>3. CASE Len(h) > 40
    <2>1. SubSeq(h, 1, 2) \in Seq(Earlier)
      <3>1. \A i \in 1 .. 2 : h[i] \in Earlier
        BY <1>3
      <3>2. QED
        BY <3>1, SubSeqProperties
    <2>2. SubSeq(h, Len(h) - 19, Len(h)) \in Seq(Earlier)
      <3>1. /\ Len(h) - 19 \in Int /\ Len(h) \in Int
            /\ \A i \in Len(h) - 19 .. Len(h) : h[i] \in Earlier
        BY <1>3
      <3>2. QED
        BY <3>1, SubSeqProperties
    <2>3. <<Text("user")>> \in Seq(Earlier)
      BY <1>1
    <2>4. QED
      BY <1>3, <2>1, <2>2, <2>3 DEF window_history
  <1>4. QED
    BY <1>2, <1>3

\* Of earlier messages nothing is promised if the history was not orderly.
LEMMA EarlierIsPaired ==
  ASSUME NEW m \in Seq(Earlier)
  PROVE  m \in Seq(Message) /\ Paired(m, FALSE)
  <1>1. \A k \in 1 .. Len(m) : m[k] \in Message /\ m[k].uses <= 0 /\ m[k].results <= 0
    BY DEF Earlier
  <1>2. \A k \in 1 .. Len(m) : m[k].uses \in Int /\ m[k].results \in Int
    BY <1>1 DEF Message
  <1>3. \A k \in 1 .. Len(m) : ~Kept(m[k].uses, FALSE) /\ ~Kept(m[k].results, FALSE)
    BY <1>1, <1>2 DEF Kept
  <1>4. m \in Seq(Message)
    BY <1>1
  <1>5. QED
    BY <1>3, <1>4 DEF Paired

\* An orderly history with the user's message is paired.
LEMMA OrderlyIsPaired ==
  ASSUME NEW o \in BOOLEAN, NEW h \in Seq(Earlier), Orderly(h), NEW x \in Message,
         x.uses = 0, x.results = 0
  PROVE  Append(h, x) \in Seq(Message) /\ Paired(Append(h, x), o)
  <1>1. PICK n \in Nat : n = Len(h)
    OBVIOUS
  <1>2. PICK m : m = Append(h, x)
    OBVIOUS
  <1>3. h \in Seq(Message)
    BY DEF Earlier
  <1>4. /\ m \in Seq(Message) /\ Len(m) = n + 1 /\ m[n + 1] = x
        /\ \A k \in 1 .. n : m[k] = h[k] /\ h[k] \in Message
    BY <1>1, <1>2, <1>3
  <1>5. ASSUME NEW k \in 1 .. n + 1
        PROVE  /\ Kept(m[k].uses, o) => (n + 1 - k) % 2 = 1 /\ m[k + 1].results = m[k].uses
               /\ Kept(m[k].results, o) =>
                    (n + 1 - k) % 2 = 0 /\ k > 1 /\ m[k - 1].uses = m[k].results
    <2>1. CASE k = n + 1
      BY <1>4, <2>1, MessageTypes
    <2>2. CASE k \in 1 .. n
      <3>1. /\ h[k].role = IF (n - k) % 2 = 0 THEN "assistant" ELSE "user"
            /\ h[k].uses # 0 =>
                 h[k].role = "assistant" /\ k < n /\ h[k + 1].results = h[k].uses
            /\ h[k].results # 0 =>
                 h[k].role = "user" /\ k > 1 /\ h[k - 1].uses = h[k].results
        BY <1>1, <2>2 DEF Orderly
      <3>2. h[k].role = "assistant" => (n + 1 - k) % 2 = 1
        <4>1. h[k].role = "assistant" => (n - k) % 2 = 0
          BY <3>1
        <4>2. (n - k) % 2 = 0 => (n + 1 - k) % 2 = 1
          BY <2>2
        <4>3. QED
          BY <4>1, <4>2
      <3>3. h[k].role = "user" => (n + 1 - k) % 2 = 0
        <4>1. h[k].role = "user" => (n - k) % 2 # 0
          BY <3>1
        <4>2. (n - k) % 2 # 0 => (n + 1 - k) % 2 = 0
          BY <2>2
        <4>3. QED
          BY <4>1, <4>2
      <3>4. k < n => k + 1 \in 1 .. n
        BY <2>2
      <3>5. k > 1 => k - 1 \in 1 .. n
        BY <2>2
      <3>6. (h[k].uses = 0 => ~Kept(h[k].uses, o)) /\ (h[k].results = 0 => ~Kept(h[k].results, o))
        BY MessageTypes
      <3>7. m[k] = h[k]
        BY <1>4, <2>2
      <3>8. /\ k < n => m[k + 1] = h[k + 1]
            /\ k > 1 => m[k - 1] = h[k - 1]
        BY <1>4, <3>4, <3>5
      <3>9. QED
        BY <3>1, <3>2, <3>3, <3>6, <3>7, <3>8, ZenonT(60)
    <2>3. QED
      BY <2>1, <2>2
  <1>6. Paired(m, o)
    BY <1>4, <1>5 DEF Paired
  <1>7. QED
    BY <1>2, <1>4, <1>6, Zenon

LEMMA AgentInvInit == AgentInit => AgentInv
  <1> SUFFICES ASSUME AgentInit PROVE AgentInv
    OBVIOUS
  <1>1. PICK h \in Histories, recalled \in {<<>>, <<Text("user")>>} :
          /\ messages = window_history(h) \o recalled \o <<Text("user")>>
          /\ orderly = (Orderly(h) /\ recalled = <<>>)
    BY DEF AgentInit
  <1>2. h \in Seq(Earlier)
    BY AgentAssumption
  <1>3. PICK w \in Seq(Earlier) : w = window_history(h)
    BY <1>2, WindowIsEarlier
  <1>4. PICK x \in Earlier : x = Text("user") /\ x \in Message /\ x.uses = 0 /\ x.results = 0
    BY MessageTypes DEF Earlier
  <1>5. messages \in Seq(Message) /\ Paired(messages, orderly)
    <2>1. CASE orderly = TRUE
      <3>1. Orderly(h) /\ recalled = <<>>
        BY <1>1, <2>1
      <3>2. w = h
        BY <1>3, <3>1 DEF Orderly, window_history
      <3>3. messages = Append(h, x)
        BY <1>1, <1>2, <1>3, <1>4, <3>1, <3>2
      <3>4. Append(h, x) \in Seq(Message) /\ Paired(Append(h, x), TRUE)
        BY <1>2, <1>4, <3>1, OrderlyIsPaired
      <3>5. QED
        BY <2>1, <3>3, <3>4, Zenon
    <2>2. CASE orderly = FALSE
      <3>1. CASE recalled = <<>>
        <4>1. messages = Append(w, x)
          BY <1>1, <1>3, <1>4, <3>1
        <4>2. messages \in Seq(Earlier)
          BY <1>3, <1>4, <4>1
        <4>3. QED
          BY <2>2, <4>2, EarlierIsPaired
      <3>2. CASE recalled = <<Text("user")>>
        <4>1. messages = Append(Append(w, x), x)
          BY <1>1, <1>3, <1>4, <3>2
        <4>2. messages \in Seq(Earlier)
          BY <1>3, <1>4, <4>1
        <4>3. QED
          BY <2>2, <4>2, EarlierIsPaired
      <3>3. QED
        BY <1>1, <3>1, <3>2
    <2>3. QED
      BY <1>1, <2>1, <2>2
  <1>6. orderly \in BOOLEAN
    BY <1>1
  <1>7. AgentTypeOK
    BY <1>5, <1>6, AgentAssumption DEF AgentTypeOK, AgentInit
  <1>8. QED
    BY <1>5, <1>7 DEF AgentInv, AgentInit

\* A result: the conversation is paired again when it was the last.
LEMMA ResultInv ==
  ASSUME AgentInv, phase \in {"tools", "harness"}, Result,
         UNCHANGED <<session, turn, limited, orderly>>
  PROVE  AgentInv'
  <1>1. PICK m \in Seq(Message) : Paired(m, orderly) /\ messages = Append(m, Calling(turn))
    BY DEF AgentInv
  <1>2. /\ turn \in 1 .. MaxIterations /\ calls \in Seq(Tools) /\ calls # <<>>
        /\ session \in Sessions /\ limited \in 0 .. 3 /\ messages \in Seq(Message)
        /\ orderly \in BOOLEAN
    BY AgentAssumption DEF AgentInv, AgentTypeOK
  <1>3. calls' \in Seq(Tools) /\ Len(calls') = Len(calls) - 1 /\ sent' = 0
    BY <1>2, HeadTailProperties DEF Result
  <1>4. CASE Len(calls) = 1
    <2>1. messages' = Append(messages, Answering(turn)) /\ phase' = "turn"
      BY <1>4 DEF Result
    <2>2. messages' \in Seq(Message)
      BY <1>2, <2>1, MessageTypes
    <2>3. Paired(messages', orderly')
      BY <1>1, <1>2, <2>1, TurnIsPaired
    <2>4. AgentTypeOK'
      BY <1>2, <1>3, <2>1, <2>2 DEF AgentTypeOK, AgentInv
    <2>5. QED
      BY <2>1, <2>3, <2>4 DEF AgentInv
  <1>5. CASE Len(calls) # 1
    <2>1. messages' = messages /\ phase' = "tools"
      BY <1>5 DEF Result
    <2>2. calls' # <<>>
      BY <1>2, <1>3, <1>5
    <2>3. AgentTypeOK'
      BY <1>2, <1>3, <2>1 DEF AgentTypeOK, AgentInv
    <2>4. \E k \in Seq(Message) : Paired(k, orderly') /\ messages' = Append(k, Calling(turn'))
      BY <1>1, <2>1
    <2>5. QED
      BY <1>2, <2>1, <2>2, <2>3, <2>4 DEF AgentInv
  <1>6. QED
    BY <1>4, <1>5

LEMMA begin_turnInv ==
  ASSUME EvenWindows, AgentInv, begin_turn PROVE AgentInv'
  <1>1. /\ messages \in Seq(Message) /\ Paired(messages, orderly) /\ session \in Sessions
        /\ turn \in 0 .. MaxIterations /\ calls \in Seq(Tools) /\ sent \in 0 .. 3
        /\ orderly \in BOOLEAN /\ orderly' = orderly
    BY DEF AgentInv, AgentTypeOK, begin_turn
  <1>2. PICK p \in Nat : p = session.preserve /\ p % 2 = 0
    BY <1>1, AgentAssumption DEF EvenWindows
  <1>3. CASE /\ turn < MaxIterations
             /\ turn' = turn + 1 /\ phase' = "model"
             /\ messages' \in {messages, compact(messages, session.preserve)}
    <2>1. messages' \in Seq(Message) /\ Paired(messages', orderly')
      BY <1>1, <1>2, <1>3, CompactIsPaired
    <2>2. turn' \in 1 .. MaxIterations
      BY <1>1, <1>3, AgentAssumption
    <2>3. AgentTypeOK'
      BY <1>1, <1>3, <2>1, <2>2 DEF AgentTypeOK, begin_turn
    <2>4. QED
      BY <1>3, <2>1, <2>2, <2>3 DEF AgentInv
  <1>4. CASE turn = MaxIterations /\ phase' = "completed" /\ UNCHANGED <<turn, messages>>
    <2>1. AgentTypeOK'
      BY <1>1, <1>4 DEF AgentTypeOK, begin_turn
    <2>2. QED
      BY <1>4, <2>1 DEF AgentInv
  <1>5. QED
    BY <1>3, <1>4 DEF begin_turn

LEMMA converseInv ==
  ASSUME AgentInv, converse PROVE AgentInv'
  <1>1. /\ messages \in Seq(Message) /\ Paired(messages, orderly) /\ session \in Sessions
        /\ turn \in 1 .. MaxIterations /\ calls \in Seq(Tools) /\ sent \in 0 .. 3
        /\ limited \in 0 .. 3 /\ phase = "model" /\ UNCHANGED <<session, turn, sent, orderly>>
        /\ orderly \in BOOLEAN
    BY AgentAssumption DEF AgentInv, AgentTypeOK, converse
  <1>2. CASE \E n \in 1 .. MaxCalls : \E wanted \in [1 .. n -> Tools] :
               /\ messages' = Append(messages, Calling(turn))
               /\ calls' = wanted /\ phase' = "tools" /\ UNCHANGED limited
    <2>1. PICK n \in 1 .. MaxCalls : \E wanted \in [1 .. n -> Tools] : calls' = wanted
      BY <1>2
    <2>2. calls' \in Seq(Tools) /\ calls' # <<>>
      <3>1. n \in Nat /\ n >= 1
        BY AgentAssumption
      <3>2. calls' \in [1 .. n -> Tools]
        BY <2>1
      <3>3. calls' \in Seq(Tools) /\ Len(calls') = n
        BY <3>1, <3>2
      <3>4. QED
        BY <3>1, <3>3
    <2>3. messages' \in Seq(Message)
      BY <1>1, <1>2, MessageTypes
    <2>4. AgentTypeOK'
      BY <1>1, <1>2, <2>2, <2>3 DEF AgentTypeOK
    <2>5. \E m \in Seq(Message) : Paired(m, orderly) /\ messages' = Append(m, Calling(turn'))
      BY <1>1, <1>2
    <2>6. QED
      BY <1>1, <1>2, <2>2, <2>4, <2>5 DEF AgentInv
  <1>3. CASE /\ messages' = Append(messages, Text("assistant"))
             /\ phase' = "completed" /\ UNCHANGED <<calls, limited>>
    <2>1. messages' \in Seq(Message)
      BY <1>1, <1>3, MessageTypes
    <2>2. AgentTypeOK'
      BY <1>1, <1>3, <2>1 DEF AgentTypeOK
    <2>3. QED
      BY <1>3, <2>2 DEF AgentInv
  <1>4. CASE limited < 3 /\ limited' = limited + 1 /\ UNCHANGED <<messages, calls, phase>>
    <2>1. AgentTypeOK'
      BY <1>1, <1>4 DEF AgentTypeOK
    <2>2. QED
      BY <1>1, <1>4, <2>1 DEF AgentInv
  <1>5. CASE phase' = "failed" /\ UNCHANGED <<messages, calls, limited>>
    <2>1. AgentTypeOK'
      BY <1>1, <1>5 DEF AgentTypeOK
    <2>2. QED
      BY <1>5, <2>1 DEF AgentInv
  <1>6. QED
    BY <1>2, <1>3, <1>4, <1>5 DEF converse

\* On its way to the harness: nothing of the conversation changes.
LEMMA HarnessInv ==
  ASSUME AgentInv, phase \in {"tools", "harness"}, phase' = "harness", sent' \in 0 .. 3,
         UNCHANGED <<session, messages, turn, calls, limited, orderly>>
  PROVE  AgentInv'
  <1>1. AgentTypeOK'
    BY DEF AgentInv, AgentTypeOK
  <1>2. PICK m \in Seq(Message) : Paired(m, orderly) /\ messages = Append(m, Calling(turn))
    BY DEF AgentInv
  <1>3. \E k \in Seq(Message) : Paired(k, orderly') /\ messages' = Append(k, Calling(turn'))
    BY <1>2
  <1>4. QED
    BY <1>1, <1>3 DEF AgentInv

LEMMA AgentInvStep == EvenWindows /\ AgentInv /\ [AgentNext]_agentVars => AgentInv'
  <1> SUFFICES ASSUME EvenWindows, AgentInv, [AgentNext]_agentVars PROVE AgentInv'
    OBVIOUS
  <1>1. CASE begin_turn
    BY <1>1, begin_turnInv
  <1>2. CASE converse
    BY <1>2, converseInv
  <1>3. CASE refuse_tool
    BY <1>3, ResultInv DEF refuse_tool
  <1>4. CASE run_local_tool
    BY <1>4, ResultInv DEF run_local_tool
  <1>5. CASE execute_tool
    <2>1. sent' \in 0 .. 3
      BY <1>5 DEF execute_tool, AgentInv, AgentTypeOK
    <2>2. QED
      BY <1>5, <2>1, HarnessInv DEF execute_tool
  <1>6. CASE send_request
    <2>1. CASE sent < 3 /\ sent' = sent + 1 /\ UNCHANGED <<messages, calls, phase>>
      <3>1. sent' \in 0 .. 3
        BY <2>1 DEF AgentInv, AgentTypeOK
      <3>2. QED
        BY <1>6, <2>1, <3>1, HarnessInv DEF send_request
    <2>2. CASE Result
      BY <1>6, <2>2, ResultInv DEF send_request
    <2>3. QED
      BY <1>6, <2>1, <2>2 DEF send_request
  <1>7. CASE UNCHANGED agentVars
    BY <1>7 DEF AgentInv, AgentTypeOK, agentVars
  <1>8. QED
    BY <1>1, <1>2, <1>3, <1>4, <1>5, <1>6, <1>7 DEF AgentNext

LEMMA PairedIsAnswered == AgentInv => AgentTypeOK /\ CallsAreAnswered
  <1> SUFFICES ASSUME AgentInv, phase = "model", NEW k \in DOMAIN messages
               PROVE  /\ Kept(messages[k].uses, orderly) =>
                           k < Len(messages) /\ messages[k + 1].results = messages[k].uses
                      /\ Kept(messages[k].results, orderly) =>
                           k > 1 /\ messages[k - 1].uses = messages[k].results
    BY DEF AgentInv, CallsAreAnswered
  <1>1. PICK n \in Nat : n = Len(messages) /\ DOMAIN messages = 1 .. n
    BY DEF AgentInv, AgentTypeOK
  <1>2. /\ Kept(messages[k].uses, orderly) => (n - k) % 2 = 1 /\ messages[k + 1].results = messages[k].uses
        /\ Kept(messages[k].results, orderly) => k > 1 /\ messages[k - 1].uses = messages[k].results
    BY <1>1 DEF AgentInv, Paired
  <1>3. (n - k) % 2 = 1 => k < n
    BY <1>1
  <1>4. QED
    BY <1>1, <1>2, <1>3

\* When the windows are even, as six is, every conversation that is sent to the model pairs
\* this conversation's calls with their results, whatever history it began with and wherever
\* that was cut; and it pairs the history's too, if the history was orderly and nothing was put
\* between it and the message: for any number of turns and of calls, and compaction at any turn
\* (run_agent_loop with window_history, maybe_compact and compact).
THEOREM CallsStayAnswered ==
  ASSUME EvenWindows
  PROVE  AgentSpec => [](AgentTypeOK /\ CallsAreAnswered)
  <1>1. AgentInv /\ [AgentNext]_agentVars => AgentInv'
    BY AgentInvStep
  <1>2. QED
    BY <1>1, AgentInvInit, PairedIsAnswered, PTL DEF AgentSpec

-----------------------------------------------------------------------------
(* Greater, smaller and quotients. *)

LEMMA MaxOfTwo ==
  ASSUME NEW a \in Int, NEW b \in Int
  PROVE  Max({a, b}) \in {a, b} /\ Max({a, b}) >= a /\ Max({a, b}) >= b
  <1>1. \E x \in {a, b} : \A y \in {a, b} : x >= y
    <2>1. CASE a >= b
      BY <2>1
    <2>2. CASE b >= a
      BY <2>2
    <2>3. QED
      BY <2>1, <2>2
  <1>2. Max({a, b}) \in {a, b} /\ \A y \in {a, b} : Max({a, b}) >= y
    BY <1>1, Zenon DEF Max
  <1>3. QED
    BY <1>2

LEMMA MinOfTwo ==
  ASSUME NEW a \in Int, NEW b \in Int
  PROVE  Min({a, b}) \in {a, b} /\ Min({a, b}) <= a /\ Min({a, b}) <= b
  <1>1. \E x \in {a, b} : \A y \in {a, b} : x <= y
    <2>1. CASE a <= b
      BY <2>1
    <2>2. CASE b <= a
      BY <2>2
    <2>3. QED
      BY <2>1, <2>2
  <1>2. Min({a, b}) \in {a, b} /\ \A y \in {a, b} : Min({a, b}) <= y
    BY <1>1, Zenon DEF Min
  <1>3. QED
    BY <1>2

\* Products grow with what they are of.
LEMMA ProductGrows ==
  ASSUME NEW a \in Nat, NEW u \in Nat, NEW v \in Nat, u <= v
  PROVE  a * u \in Nat /\ a * v \in Nat /\ a * u <= a * v
  <1>1. PICK d \in Nat : v = u + d
    <2>1. v - u \in Nat /\ v = u + (v - u)
      OBVIOUS
    <2>2. QED
      BY <2>1
  <1>2. a * (u + d) = a * u + a * d /\ a * d \in Nat /\ a * u \in Nat
    OBVIOUS
  <1>3. QED
    BY <1>1, <1>2

\* What a quotient is.
LEMMA QuotientIs ==
  ASSUME NEW x \in Nat, NEW d \in Nat, d > 0
  PROVE  /\ x \div d \in Nat
         /\ d * (x \div d) <= x /\ x < d * (x \div d) + d
  <1>1. PICK q : q = x \div d
    OBVIOUS
  <1>2. q \in Nat /\ d * q <= x /\ x < d * q + d
    BY <1>1
  <1>3. QED
    BY <1>1, <1>2

\* What is less than one more multiple of the divisor has no greater quotient.
LEMMA QuotientAtMost ==
  ASSUME NEW x \in Nat, NEW d \in Nat, d > 0, NEW n \in Nat, x < d * n + d
  PROVE  x \div d <= n
  <1>1. PICK q \in Nat : q = x \div d
    BY QuotientIs
  <1>2. d * q <= x
    BY <1>1, QuotientIs
  <1>3. SUFFICES ASSUME q >= n + 1 PROVE FALSE
    BY <1>1
  <1>4. n + 1 \in Nat /\ d * (n + 1) = d * n + d /\ d * n \in Nat /\ d * q \in Nat
    OBVIOUS
  <1>5. d * (n + 1) <= d * q
    BY <1>3, <1>4, ProductGrows
  <1>6. QED
    BY <1>2, <1>4, <1>5

\* A multiple of the divisor that is not greater bounds the quotient from below.
LEMMA QuotientAtLeast ==
  ASSUME NEW x \in Nat, NEW d \in Nat, d > 0, NEW n \in Nat, d * n <= x
  PROVE  n <= x \div d
  <1>1. PICK q \in Nat : q = x \div d
    BY QuotientIs
  <1>2. x < d * q + d
    BY <1>1, QuotientIs
  <1>3. SUFFICES ASSUME n >= q + 1 PROVE FALSE
    BY <1>1
  <1>4. q + 1 \in Nat /\ d * (q + 1) = d * q + d /\ d * n \in Nat /\ d * q \in Nat
    OBVIOUS
  <1>5. d * (q + 1) <= d * n
    BY <1>3, <1>4, ProductGrows
  <1>6. QED
    BY <1>2, <1>4, <1>5

\* Quotients grow with what they are of.
LEMMA QuotientGrows ==
  ASSUME NEW x \in Nat, NEW y \in Nat, x <= y, NEW d \in Nat, d > 0
  PROVE  x \div d \in Nat /\ y \div d \in Nat /\ x \div d <= y \div d
  <1>1. PICK p \in Nat : p = x \div d
    BY QuotientIs
  <1>2. d * p <= y /\ y \div d \in Nat
    <2>1. d * p <= x /\ d * p \in Nat
      BY <1>1, QuotientIs
    <2>2. QED
      BY <2>1, QuotientIs
  <1>3. p <= y \div d
    BY <1>2, QuotientAtLeast
  <1>4. QED
    BY <1>1, <1>2, <1>3

\* And fall with what they are by.
LEMMA QuotientFalls ==
  ASSUME NEW x \in Nat, NEW d \in Nat, d > 0, NEW e \in Nat, d <= e
  PROVE  x \div d \in Nat /\ x \div e \in Nat /\ x \div e <= x \div d
  <1>1. PICK p \in Nat : p = x \div e
    BY QuotientIs
  <1>2. d * p <= x
    <2>1. e * p <= x /\ e * p \in Nat
      BY <1>1, QuotientIs
    <2>2. p * d <= p * e /\ p * d = d * p /\ p * e = e * p /\ p * d \in Nat
      BY ProductGrows
    <2>3. QED
      BY <2>1, <2>2
  <1>3. p <= x \div d
    BY <1>2, QuotientAtLeast
  <1>4. QED
    BY <1>1, <1>3, QuotientIs

LEMMA BpsIs == BPS \in Nat /\ BPS = 10000 /\ BPS > 0
  BY DEF BPS

\* A share in bps of an amount, and what is left when one of two shares is larger.
LEMMA ShareFits ==
  ASSUME NEW a \in Nat, NEW s \in 0 .. BPS
  PROVE  (a * s) \div BPS \in Nat /\ (a * s) \div BPS <= a
  <1>1. PICK x \in Nat : x = a * s
    OBVIOUS
  <1>2. x <= a * BPS
    BY <1>1, BpsIs, ProductGrows
  <1>3. x \div BPS \in Nat /\ x \div BPS <= a
    BY <1>2, BpsIs
  <1>4. QED
    BY <1>1, <1>3

LEMMA ShareLeft ==
  ASSUME NEW a \in Nat, NEW s \in 0 .. BPS, NEW t \in 0 .. BPS, s <= t
  PROVE  /\ (a * (BPS - s)) \div BPS \in Nat /\ (a * (BPS - t)) \div BPS \in Nat
         /\ (a * (BPS - t)) \div BPS <= (a * (BPS - s)) \div BPS
  <1>1. PICK e : e = BPS - s
    OBVIOUS
  <1>2. PICK f : f = BPS - t
    OBVIOUS
  <1>3. e \in Nat /\ f \in Nat /\ f <= e
    BY <1>1, <1>2, BpsIs, SMTT(60)
  <1>4. PICK x : x = a * e
    OBVIOUS
  <1>5. PICK y : y = a * f
    OBVIOUS
  <1>6. x \in Nat /\ y \in Nat /\ y <= x
    BY <1>3, <1>4, <1>5, ProductGrows
  <1> BPS \in Nat /\ BPS > 0
    BY BpsIs, SMT
  <1>7. x \div BPS \in Nat /\ y \div BPS \in Nat /\ y \div BPS <= x \div BPS
    BY <1>6, QuotientGrows, ZenonT(60)
  <1>8. QED
    BY <1>1, <1>2, <1>4, <1>5, <1>7

-----------------------------------------------------------------------------
\* The rules of a tenure.
LEMMA TenureRules ==
  ASSUME NEW days \in Nat
  PROVE  /\ tenure_floor_bps(days) \in 0 .. BPS
         /\ days >= 365 => tenure_floor_bps(days) >= tenure_floor_bps(365)
         /\ tenure_reduction_bps(days) \in 0 .. BPS
         /\ tenure_floor_bps(365) \in 0 .. BPS
  <1>1. PICK y \in Nat : y = days \div 365
    OBVIOUS
  <1>2. days >= 365 => y >= 1
    BY <1>1
  <1>3. PICK i : i = IF y <= 1 THEN y + 1 ELSE IF y <= 4 THEN 3 ELSE 4
    OBVIOUS
  <1>4. i \in {1, 2, 3, 4} /\ (i = 1 => y = 0)
    BY <1>3
  <1> DEFINE floors == <<500, 1000, 1500, 2500>>
             reductions == <<0, 2000, 4000, 7000>>
  <1>7. tenure_floor_bps(days) = floors[i] /\ tenure_reduction_bps(days) = reductions[i]
    BY <1>1, <1>3 DEF tenure_floor_bps, tenure_reduction_bps, ByTenure
  <1>8. tenure_floor_bps(365) = 1000
    <2>1. 365 \div 365 = 1
      OBVIOUS
    <2>2. QED
      BY <2>1 DEF tenure_floor_bps, ByTenure
  <1>9. /\ floors[1] = 500 /\ floors[2] = 1000 /\ floors[3] = 1500 /\ floors[4] = 2500
        /\ reductions[1] = 0 /\ reductions[2] = 2000 /\ reductions[3] = 4000
        /\ reductions[4] = 7000
    OBVIOUS
  <1> HIDE DEF floors, reductions
  <1>10. \A k \in {2, 3, 4} : floors[k] >= 1000
    BY <1>9
  <1>11. days >= 365 => i \in {2, 3, 4}
    BY <1>2, <1>4
  <1>12. tenure_floor_bps(days) \in 0 .. BPS /\ tenure_reduction_bps(days) \in 0 .. BPS
    <2>1. \A k \in {1, 2, 3, 4} : floors[k] \in 0 .. BPS
      BY <1>9, BpsIs, SMTT(60)
    <2>2. \A k \in {1, 2, 3, 4} : reductions[k] \in 0 .. BPS
      BY <1>9, BpsIs, SMTT(60)
    <2>3. i \in {1, 2, 3, 4}
      BY <1>4
    <2>4. QED
      BY <1>7, <2>1, <2>2, <2>3, ZenonT(60)
  <1>13. days >= 365 => tenure_floor_bps(days) >= 1000
    BY <1>7, <1>10, <1>11
  <1>14. tenure_floor_bps(365) \in 0 .. BPS
    BY <1>8, BpsIs, SMTT(60)
  <1>15. days >= 365 => tenure_floor_bps(days) >= tenure_floor_bps(365)
    BY <1>8, <1>13, SMTT(60)
  <1>16. QED
    BY <1>12, <1>14, <1>15, Zenon

LEMMA VaultRules ==
  ASSUME NEW t \in 0 .. 4, NEW u \in 0 .. 4, t <= u
  PROVE  /\ vault_reduction_bps(t) \in 0 .. BPS /\ vault_reduction_bps(u) \in 0 .. BPS
         /\ vault_reduction_bps(t) <= vault_reduction_bps(u)
  <1>1. /\ vault_reduction_bps(0) = 0 /\ vault_reduction_bps(1) = 2000
        /\ vault_reduction_bps(2) = 5000 /\ vault_reduction_bps(3) = 8000
        /\ vault_reduction_bps(4) = 9500
    BY DEF vault_reduction_bps
  <1>2. t \in {0, 1, 2, 3, 4} /\ u \in {0, 1, 2, 3, 4}
    OBVIOUS
  <1>3. QED
    BY <1>1, <1>2, BpsIs

\* A higher tier decays at a rate that is not higher.
LEMMA RateFalls ==
  ASSUME NEW rate \in Nat, NEW days \in Nat, NEW t \in 0 .. 4, NEW u \in 0 .. 4, t <= u
  PROVE  /\ effective_annual_rate_bps(rate, days, t) \in Nat
         /\ effective_annual_rate_bps(rate, days, u) \in Nat
         /\ effective_annual_rate_bps(rate, days, u) <= effective_annual_rate_bps(rate, days, t)
  <1> DEFINE r == tenure_reduction_bps(days)
             a == (rate * (BPS - r)) \div BPS
             v == vault_reduction_bps(t)
             w == vault_reduction_bps(u)
             x == (a * (BPS - v)) \div BPS
             y == (a * (BPS - w)) \div BPS
  <1>1. /\ effective_annual_rate_bps(rate, days, t) = Max({x, 200})
        /\ effective_annual_rate_bps(rate, days, u) = Max({y, 200})
    BY Zenon DEF effective_annual_rate_bps
  <1>2. r \in 0 .. BPS
    BY TenureRules
  <1>3. v \in 0 .. BPS /\ w \in 0 .. BPS /\ v <= w
    BY VaultRules
  <1>4. a \in Nat
    <2> HIDE DEF r
    <2>1. BPS - r \in 0 .. BPS
      BY <1>2, BpsIs
    <2>2. QED
      BY <2>1, ShareFits
  <1> HIDE DEF a, v, w
  <1>5. x \in Nat /\ y \in Nat /\ y <= x
    BY <1>3, <1>4, ShareLeft
  <1> HIDE DEF x, y
  <1>6. /\ Max({x, 200}) \in {x, 200} /\ Max({x, 200}) >= x /\ Max({x, 200}) >= 200
        /\ Max({y, 200}) \in {y, 200}
    BY <1>5, MaxOfTwo
  <1>7. QED
    BY <1>1, <1>5, <1>6

LEMMA DailyGrows ==
  ASSUME NEW x \in Nat, NEW y \in Nat, x <= y
  PROVE  /\ annual_to_daily_rate_bps(x) \in Nat /\ annual_to_daily_rate_bps(y) \in Nat
         /\ annual_to_daily_rate_bps(x) <= annual_to_daily_rate_bps(y)
  <1> DEFINE S == {358, 704, 1037, 1358, 1668, 1967, 2255}
             A == {r \in S : x > r}
             B == {r \in S : y > r}
  <1>1. IsFiniteSet(S)
    <2>1. S \subseteq 1 .. 3000
      OBVIOUS
    <2>2. IsFiniteSet(1 .. 3000)
      <3>1. PICK n \in Nat : n = 3000
        OBVIOUS
      <3>2. IsFiniteSet(1 .. n)
        BY FS_Interval
      <3>3. QED
        BY <3>1, <3>2
    <2>3. QED
      BY <2>1, <2>2, FS_Subset
  <1>2. A \subseteq B /\ B \subseteq S
    OBVIOUS
  <1>3. annual_to_daily_rate_bps(x) = 1 + Cardinality(A) /\ annual_to_daily_rate_bps(y) = 1 + Cardinality(B)
    BY Zenon DEF annual_to_daily_rate_bps
  <1> HIDE DEF S, A, B
  <1>4. IsFiniteSet(B)
    BY <1>1, <1>2, FS_Subset
  <1>5. IsFiniteSet(A) /\ Cardinality(A) <= Cardinality(B)
    BY <1>2, <1>4, FS_Subset
  <1>6. Cardinality(A) \in Nat /\ Cardinality(B) \in Nat
    BY <1>4, <1>5, FS_CardinalityType
  <1>7. QED
    BY <1>3, <1>5, <1>6

-----------------------------------------------------------------------------
(* Decay stops at the floor. *)

FirstFloor(original) == (original * tenure_floor_bps(365)) \div BPS

HoldingInv ==
  /\ MathTypeOK
  /\ holding.tenure < 365 => holding.current = holding.original
  /\ holding.current >= FirstFloor(holding.original)
  /\ holding.current + holding.burned + holding.recycled = holding.original

LEMMA HoldingType ==
  ASSUME NEW h \in Holding
  PROVE  /\ h.tenure \in Nat /\ h.current \in Nat /\ h.original \in Nat /\ h.burned \in Nat
         /\ h.recycled \in Nat /\ h.tier \in 0 .. 4 /\ h.tier \in Tiers
         /\ h.original \in Originals
  <1>1. /\ h.tenure \in Nat /\ h.current \in Nat /\ h.original \in Originals /\ h.burned \in Nat
        /\ h.recycled \in Nat /\ h.tier \in Tiers
    BY DEF Holding
  <1>2. Originals \subseteq Nat /\ Tiers \subseteq 0 .. 4
    BY MathAssumption, SMTT(60)
  <1>3. QED
    BY <1>1, <1>2

\* The floor of any tenure from the second year on is not below the first one's.
LEMMA FloorRises ==
  ASSUME NEW h \in Holding
  PROVE  /\ Floor(h) \in Nat /\ FirstFloor(h.original) \in Nat
         /\ Floor(h) <= h.original /\ FirstFloor(h.original) <= h.original
         /\ h.tenure >= 365 => FirstFloor(h.original) <= Floor(h)
  <1> DEFINE f == tenure_floor_bps(h.tenure)
             g == tenure_floor_bps(365)
             x == h.original * f
             y == h.original * g
  <1>1. h.tenure \in Nat /\ h.original \in Nat
    BY HoldingType
  <1>2. f \in 0 .. BPS /\ g \in 0 .. BPS /\ (h.tenure >= 365 => f >= g)
    BY <1>1, TenureRules
  <1>3. Floor(h) = x \div BPS /\ FirstFloor(h.original) = y \div BPS
    BY Zenon DEF Floor, FirstFloor
  <1> HIDE DEF f, g
  <1>4. f \in Nat /\ g \in Nat
    BY <1>2, BpsIs, SMTT(60)
  <1>5. x \in Nat /\ y \in Nat /\ (g <= f => y <= x)
    BY <1>1, <1>4, ProductGrows
  <1>6. x \div BPS \in Nat /\ x \div BPS <= h.original /\ y \div BPS \in Nat /\ y \div BPS <= h.original
    BY <1>1, <1>2, ShareFits
  <1> HIDE DEF x, y
  <1>7. y <= x => y \div BPS <= x \div BPS
    BY <1>5, BpsIs, QuotientGrows
  <1>8. QED
    BY <1>2, <1>3, <1>4, <1>5, <1>6, <1>7

DailyRate(h, rate) ==
  annual_to_daily_rate_bps(effective_annual_rate_bps(rate, h.tenure, h.tier))
Due(h, rate) == Max({(h.current * DailyRate(h, rate)) \div BPS, 1})

\* What a day takes leaves the floor, or what there is when that is less.
LEMMA DecayKeepsFloor ==
  ASSUME NEW h \in Holding, NEW rate \in Nat
  PROVE  /\ DailyRate(h, rate) \in Nat /\ Due(h, rate) \in Nat
         /\ Decayed(h, rate) = IF h.tenure < 365 \/ h.current <= Floor(h) THEN 0
                               ELSE Min({Due(h, rate), h.current - Floor(h)})
         /\ Decayed(h, rate) \in Nat
         /\ h.tenure < 365 \/ h.current <= Floor(h) => Decayed(h, rate) = 0
         /\ h.tenure >= 365 /\ h.current > Floor(h) => Decayed(h, rate) <= h.current - Floor(h)
  <1>1. h.tenure \in Nat /\ h.tier \in 0 .. 4 /\ h.current \in Nat /\ Floor(h) \in Nat
    BY HoldingType, FloorRises
  <1>2. DailyRate(h, rate) \in Nat
    <2>1. h.tier <= h.tier
      BY <1>1
    <2>2. PICK x \in Nat : x = effective_annual_rate_bps(rate, h.tenure, h.tier)
      BY <1>1, <2>1, RateFalls
    <2>3. annual_to_daily_rate_bps(x) \in Nat
      BY DailyGrows
    <2>4. QED
      BY <2>2, <2>3 DEF DailyRate
  <1>3. Due(h, rate) \in Nat
    <2> DEFINE x == h.current * DailyRate(h, rate)
    <2>1. x \in Nat
      BY <1>1, <1>2
    <2> HIDE DEF x
    <2>2. PICK p \in Nat : p = x \div BPS
      BY <2>1, BpsIs, QuotientIs
    <2>3. Max({p, 1}) \in {p, 1}
      BY MaxOfTwo
    <2>4. Due(h, rate) = Max({p, 1})
      BY <2>2 DEF Due, x
    <2>5. QED
      BY <2>3, <2>4
  <1>4. Decayed(h, rate) = IF h.tenure < 365 \/ h.current <= Floor(h) THEN 0
                           ELSE Min({Due(h, rate), h.current - Floor(h)})
    BY Zenon DEF Decayed, Due, DailyRate
  <1>5. CASE h.tenure < 365 \/ h.current <= Floor(h)
    BY <1>1, <1>2, <1>3, <1>4, <1>5
  <1>6. CASE ~(h.tenure < 365 \/ h.current <= Floor(h))
    <2>1. PICK left \in Nat : left = h.current - Floor(h)
      BY <1>1, <1>6
    <2>2. /\ Min({Due(h, rate), left}) \in {Due(h, rate), left}
          /\ Min({Due(h, rate), left}) <= left
      BY <1>3, <2>1, MinOfTwo
    <2>3. Decayed(h, rate) = Min({Due(h, rate), left})
      BY <1>4, <1>6, <2>1
    <2>4. QED
      BY <1>1, <1>2, <1>3, <1>4, <1>6, <2>1, <2>2, <2>3
  <1>7. QED
    BY <1>5, <1>6

\* A higher tier loses no more.
LEMMA TierProtects ==
  ASSUME NEW h \in Holding, NEW rate \in Nat, NEW tier \in Tiers, tier >= h.tier
  PROVE  Decayed([h EXCEPT !.tier = tier], rate) <= Decayed(h, rate)
  <1> DEFINE k == [h EXCEPT !.tier = tier]
  <1>1. /\ k \in Holding /\ k.tier = tier /\ k.tenure = h.tenure /\ k.current = h.current
        /\ k.original = h.original
    BY DEF Holding
  <1>2. Floor(k) = Floor(h)
    BY <1>1 DEF Floor
  <1> HIDE DEF k
  <1>3. /\ h.tenure \in Nat /\ h.tier \in 0 .. 4 /\ k.tier \in 0 .. 4 /\ h.current \in Nat
        /\ Floor(h) \in Nat /\ h.tier <= k.tier
    BY <1>1, HoldingType, FloorRises
  <1>4. DailyRate(k, rate) <= DailyRate(h, rate)
    <2> DEFINE x == effective_annual_rate_bps(rate, h.tenure, h.tier)
               y == effective_annual_rate_bps(rate, h.tenure, k.tier)
    <2>1. x \in Nat /\ y \in Nat /\ y <= x
      BY <1>3, RateFalls
    <2>2. DailyRate(h, rate) = annual_to_daily_rate_bps(x) /\ DailyRate(k, rate) = annual_to_daily_rate_bps(y)
      BY <1>1 DEF DailyRate
    <2> HIDE DEF x, y
    <2>3. QED
      BY <2>1, <2>2, DailyGrows
  <1>5. Due(k, rate) <= Due(h, rate)
    <2> DEFINE x == h.current * DailyRate(h, rate)
               y == h.current * DailyRate(k, rate)
    <2>1. DailyRate(h, rate) \in Nat /\ DailyRate(k, rate) \in Nat
      BY <1>1, DecayKeepsFloor
    <2>2. x \in Nat /\ y \in Nat /\ y <= x
      BY <1>3, <1>4, <2>1, ProductGrows
    <2>3. Due(h, rate) = Max({x \div BPS, 1}) /\ Due(k, rate) = Max({y \div BPS, 1})
      BY <1>1 DEF Due
    <2> HIDE DEF x, y
    <2>4. PICK p \in Nat : p = x \div BPS
      BY <2>2, BpsIs, QuotientIs
    <2>5. PICK q \in Nat : q = y \div BPS
      BY <2>2, BpsIs, QuotientIs
    <2>6. q <= p
      BY <2>2, <2>4, <2>5, BpsIs, QuotientGrows
    <2>7. Max({p, 1}) >= p /\ Max({p, 1}) >= 1 /\ Max({p, 1}) \in {p, 1} /\ Max({q, 1}) \in {q, 1}
      <3>1. p \in Int /\ q \in Int /\ 1 \in Int
        OBVIOUS
      <3>2. Max({p, 1}) >= p /\ Max({p, 1}) >= 1 /\ Max({p, 1}) \in {p, 1}
        BY <3>1, MaxOfTwo, Zenon
      <3>3. Max({q, 1}) \in {q, 1}
        BY <3>1, MaxOfTwo, Zenon
      <3>4. QED
        BY <3>2, <3>3
    <2>8. Due(h, rate) = Max({p, 1}) /\ Due(k, rate) = Max({q, 1})
      BY <2>3, <2>4, <2>5
    <2>9. QED
      BY <2>6, <2>7, <2>8
  <1>6. Due(h, rate) \in Nat /\ Due(k, rate) \in Nat
    BY <1>1, DecayKeepsFloor
  <1>7. CASE h.tenure < 365 \/ h.current <= Floor(h)
    <2>1. Decayed(k, rate) = 0 /\ Decayed(h, rate) = 0
      BY <1>1, <1>2, <1>7, DecayKeepsFloor, ZenonT(60)
    <2>2. QED
      BY <2>1 DEF k
  <1>8. CASE ~(h.tenure < 365 \/ h.current <= Floor(h))
    <2>1. PICK left \in Nat : left = h.current - Floor(h)
      BY <1>3, <1>8
    <2>2. Decayed(h, rate) = Min({Due(h, rate), left}) /\ Decayed(k, rate) = Min({Due(k, rate), left})
      BY <1>1, <1>2, <1>8, <2>1, DecayKeepsFloor
    <2>3. PICK p \in Nat : p = Due(h, rate)
      BY <1>6
    <2>4. PICK q \in Nat : q = Due(k, rate)
      BY <1>6
    <2>5. /\ Min({p, left}) \in {p, left} /\ Min({q, left}) \in {q, left}
          /\ Min({q, left}) <= left /\ Min({q, left}) <= q
      <3>1. p \in Int /\ q \in Int /\ left \in Int
        BY <2>1, <2>3, <2>4
      <3>2. Min({p, left}) \in {p, left}
        BY <3>1, MinOfTwo, Zenon
      <3>3. Min({q, left}) \in {q, left} /\ Min({q, left}) <= left /\ Min({q, left}) <= q
        BY <3>1, MinOfTwo, Zenon
      <3>4. QED
        BY <3>2, <3>3
    <2>6. Decayed(h, rate) = Min({p, left}) /\ Decayed(k, rate) = Min({q, left}) /\ q <= p
      BY <1>5, <2>2, <2>3, <2>4
    <2>7. Decayed(k, rate) <= Decayed(h, rate)
      BY <2>5, <2>6
    <2>8. QED
      BY <2>7 DEF k
  <1>9. QED
    BY <1>7, <1>8

LEMMA HoldingInvInit == MathInit => HoldingInv
  <1> SUFFICES ASSUME MathInit PROVE HoldingInv
    OBVIOUS
  <1>1. PICK original \in Originals, tier \in Tiers : holding = FirstHolding(original, tier)
    BY SMTT(60) DEF MathInit
  <1>2. holding \in Holding
    BY <1>1, MathAssumption, SMTT(60) DEF FirstHolding, Holding
  <1>3. curve \in [day : CurveDays, k : Nat, midpoint : Nat]
    <2>1. PICK d \in CurveDays, c \in Curvatures : curve = [day |-> d, k |-> c[1], midpoint |-> c[2]]
      BY DEF MathInit
    <2>2. PICK k : k = c[1]
      OBVIOUS
    <2>3. PICK midpoint : midpoint = c[2]
      BY SMTT(60)
    <2>4. k \in 20 .. 200 /\ midpoint \in 730 .. 3650
      BY <2>2, <2>3, MathAssumption, SMTT(60)
    <2>5. curve = [day |-> d, k |-> k, midpoint |-> midpoint]
      BY <2>1, <2>2, <2>3
    <2>6. k \in Nat /\ midpoint \in Nat
      BY <2>4
    <2>7. QED
      BY <2>5, <2>6
  <1>4. MathTypeOK
    BY <1>2, <1>3, MathAssumption DEF MathInit, MathTypeOK
  <1>5. FirstFloor(original) <= original
    <2>1. holding.original = original
      BY <1>1 DEF FirstHolding
    <2>2. QED
      BY <1>2, <2>1, FloorRises
  <1>6. original \in Nat
    BY MathAssumption, SMTT(60)
  <1>7. QED
    BY <1>1, <1>4, <1>5, <1>6 DEF HoldingInv, FirstHolding

LEMMA apply_daily_decayHolds ==
  ASSUME HoldingInv, NEW rate \in AnnualRates, NEW days \in Tenures, apply_daily_decay(rate, days)
  PROVE  HoldingInv'
  <1> DEFINE h == [holding EXCEPT !.tenure = @ + days]
             taken == Decayed(h, rate)
             burn == (taken * 1000) \div BPS
  <1>1. holding \in Holding /\ rate \in Nat /\ days \in Nat
    BY MathAssumption, SMTT(60) DEF HoldingInv, MathTypeOK
  <1>2. /\ h \in Holding /\ h.tenure = holding.tenure + days /\ h.current = holding.current
        /\ h.original = holding.original /\ h.burned = holding.burned /\ h.recycled = holding.recycled
        /\ h.tier = holding.tier
    BY <1>1 DEF Holding
  <1>3. holding' = [h EXCEPT !.current = @ - taken, !.burned = @ + burn,
                             !.recycled = @ + (taken - burn)]
    BY Zenon DEF apply_daily_decay
  <1>4. jobs' \in 0 .. MaxJobs /\ curve' = curve /\ quote' = quote
    BY MathAssumption DEF apply_daily_decay, HoldingInv, MathTypeOK
  <1> HIDE DEF h
  <1>5. /\ taken \in Nat
        /\ h.tenure < 365 \/ h.current <= Floor(h) => taken = 0
        /\ h.tenure >= 365 /\ h.current > Floor(h) => taken <= h.current - Floor(h)
    BY <1>1, <1>2, DecayKeepsFloor
  <1>6. /\ Floor(h) \in Nat /\ FirstFloor(h.original) \in Nat
        /\ h.tenure >= 365 => FirstFloor(h.original) <= Floor(h)
    BY <1>2, FloorRises
  <1> HIDE DEF taken
  <1>7. burn \in Nat /\ burn <= taken
    <2>1. PICK s \in 0 .. BPS : s = 1000
      BY BpsIs
    <2>2. (taken * s) \div BPS \in Nat /\ (taken * s) \div BPS <= taken
      BY <1>5, ShareFits
    <2>3. QED
      BY <2>1, <2>2
  <1> HIDE DEF burn
  <1>8. /\ h.tenure \in Nat /\ h.current \in Nat /\ h.burned \in Nat /\ h.recycled \in Nat
        /\ holding.tenure \in Nat
    BY <1>1, <1>2, HoldingType
  <1>9. taken <= h.current
    BY <1>5, <1>6, <1>8
  <1>10. /\ holding'.current = h.current - taken /\ holding'.burned = h.burned + burn
         /\ holding'.recycled = h.recycled + (taken - burn) /\ holding'.tenure = h.tenure
         /\ holding'.original = h.original
    BY <1>2, <1>3 DEF Holding
  <1>11. holding' \in Holding
    <2>1. h.current - taken \in Nat /\ h.burned + burn \in Nat /\ h.recycled + (taken - burn) \in Nat
      BY <1>5, <1>7, <1>8, <1>9
    <2>2. QED
      BY <1>2, <1>3, <2>1 DEF Holding
  <1>12. holding'.tenure < 365 => holding'.current = holding'.original
    <2>1. h.tenure < 365 => holding.tenure < 365
      BY <1>1, <1>2, <1>8
    <2>2. holding.tenure < 365 => holding.current = holding.original
      BY DEF HoldingInv
    <2>3. QED
      BY <1>2, <1>5, <1>8, <1>10, <2>1, <2>2
  <1>13. holding'.current >= FirstFloor(h.original)
    <2>1. h.current >= FirstFloor(h.original)
      BY <1>2 DEF HoldingInv
    <2>2. QED
      BY <1>5, <1>6, <1>8, <1>10, <2>1
  <1>14. holding'.current + holding'.burned + holding'.recycled = holding'.original
    <2>1. h.current + h.burned + h.recycled = h.original
      BY <1>2 DEF HoldingInv
    <2>2. QED
      BY <1>5, <1>7, <1>8, <1>10, <2>1
  <1>15. MathTypeOK'
    BY <1>4, <1>11 DEF MathTypeOK, HoldingInv
  <1>16. FirstFloor(holding'.original) = FirstFloor(h.original)
    BY <1>10
  <1>17. QED
    BY <1>12, <1>13, <1>14, <1>15, <1>16 DEF HoldingInv, FirstFloor, tenure_floor_bps, ByTenure

LEMMA HoldingInvNext == HoldingInv /\ [MathNext]_mathVars => HoldingInv'
  <1> SUFFICES ASSUME HoldingInv, [MathNext]_mathVars PROVE HoldingInv'
    OBVIOUS
  <1>1. CASE dawns
    <2>1. curve \in [day : CurveDays, k : Nat, midpoint : Nat]
      BY DEF HoldingInv, MathTypeOK
    <2>2. curve' \in [day : CurveDays, k : Nat, midpoint : Nat]
      BY <1>1, <2>1 DEF dawns
    <2>3. holding' = holding /\ jobs' = jobs /\ quote' = quote
      BY <1>1 DEF dawns
    <2>4. QED
      BY <2>2, <2>3 DEF HoldingInv, MathTypeOK, FirstFloor
  <1>2. CASE \E rate \in AnnualRates, days \in Tenures : apply_daily_decay(rate, days)
    BY <1>2, apply_daily_decayHolds
  <1>3. CASE UNCHANGED mathVars
    BY <1>3 DEF mathVars, HoldingInv, MathTypeOK, FirstFloor
  <1>4. QED
    BY <1>1, <1>2, <1>3 DEF MathNext

LEMMA HoldingInvKeeps == HoldingInv => HoldingKeepsFloor
  <1> SUFFICES ASSUME HoldingInv PROVE HoldingKeepsFloor
    OBVIOUS
  <1>1. holding \in Holding
    BY DEF HoldingInv, MathTypeOK
  <1>2. ASSUME NEW rate \in AnnualRates
        PROVE  /\ holding.current - Decayed(holding, rate) >= Min({holding.current, Floor(holding)})
               /\ \A tier \in Tiers : tier >= holding.tier =>
                    Decayed([holding EXCEPT !.tier = tier], rate) <= Decayed(holding, rate)
    <2>1. rate \in Nat
      BY MathAssumption
    <2>2. \A tier \in Tiers : tier >= holding.tier =>
            Decayed([holding EXCEPT !.tier = tier], rate) <= Decayed(holding, rate)
      BY <1>1, <2>1, TierProtects
    <2>3. holding.current \in Nat /\ holding.tenure \in Nat /\ Floor(holding) \in Nat
      BY <1>1, HoldingType, FloorRises
    <2>4. /\ Min({holding.current, Floor(holding)}) <= holding.current
          /\ Min({holding.current, Floor(holding)}) <= Floor(holding)
          /\ Min({holding.current, Floor(holding)}) \in {holding.current, Floor(holding)}
      <3>1. PICK a \in Nat : a = holding.current
        BY <2>3
      <3>2. PICK b \in Nat : b = Floor(holding)
        BY <2>3
      <3>3. Min({a, b}) \in {a, b} /\ Min({a, b}) <= a /\ Min({a, b}) <= b
        BY MinOfTwo
      <3>4. QED
        BY <3>1, <3>2, <3>3
    <2>5. /\ Decayed(holding, rate) \in Nat
          /\ holding.tenure < 365 \/ holding.current <= Floor(holding) => Decayed(holding, rate) = 0
          /\ holding.tenure >= 365 /\ holding.current > Floor(holding) =>
               Decayed(holding, rate) <= holding.current - Floor(holding)
      BY <1>1, <2>1, DecayKeepsFloor, ZenonT(60)
    <2>6. QED
      BY <2>2, <2>3, <2>4, <2>5
  <1>3. QED
    BY <1>2 DEF HoldingInv, HoldingKeepsFloor, FirstFloor

THEOREM HoldingsKeepTheirFloor == MathSpec => [](MathTypeOK /\ HoldingKeepsFloor)
  <1>1. HoldingInv => MathTypeOK /\ HoldingKeepsFloor
    BY HoldingInvKeeps DEF HoldingInv
  <1>2. QED
    BY <1>1, HoldingInvInit, HoldingInvNext, PTL DEF MathSpec

-----------------------------------------------------------------------------
(* The powers of the curves. *)

\* e^(n / 10) of the table.
Tenths(n) == EXP_LOOKUP[n + 1]
Highest == Tenths(60)

\* The powers that are interpolated, in hundredths.
Tabulated == 0 .. 599

\* The entries of the table rise, from 10000.
LEMMA TableRises ==
  ASSUME NEW m \in 0 .. 60, NEW n \in 0 .. 60, m <= n
  PROVE  Tenths(m) \in Nat /\ Tenths(n) \in Nat /\ Tenths(m) <= Tenths(n)
  <1>1. \A i, j \in 1 .. 61 : i <= j => EXP_LOOKUP[i] <= EXP_LOOKUP[j]
    BY SMTT(60) DEF EXP_LOOKUP
  <1>2. \A i \in 1 .. 61 : EXP_LOOKUP[i] \in Nat
    BY SMTT(60) DEF EXP_LOOKUP
  <1>3. PICK i \in 1 .. 61 : i = m + 1
    BY SMT
  <1>4. PICK j \in 1 .. 61 : j = n + 1
    BY SMT
  <1>5. i <= j
    BY <1>3, <1>4, SMT
  <1>6. EXP_LOOKUP[i] \in Nat /\ EXP_LOOKUP[j] \in Nat /\ EXP_LOOKUP[i] <= EXP_LOOKUP[j]
    BY <1>1, <1>2, <1>5, Zenon
  <1>7. QED
    BY <1>3, <1>4, <1>6, Zenon DEF Tenths

LEMMA TableEnds == Tenths(0) = 10000 /\ Highest = 4034288
  <1>1. EXP_LOOKUP[1] = 10000
    BY SMTT(60) DEF EXP_LOOKUP
  <1>2. EXP_LOOKUP[61] = 4034288
    BY SMTT(60) DEF EXP_LOOKUP
  <1>3. 0 + 1 = 1 /\ 60 + 1 = 61
    BY SMT
  <1>4. QED
    BY <1>1, <1>2, <1>3, SMT DEF Tenths, Highest

\* Between two entries.
LEMMA InterpolatedBetween ==
  ASSUME NEW h \in Tabulated
  PROVE  \E i \in 0 .. 59, r \in 0 .. 9, a \in Nat, b \in Nat :
           /\ h = 10 * i + r
           /\ a = Tenths(i) /\ b = Tenths(i + 1) /\ a <= b
           /\ Interpolated(h) = a + ((b - a) * r) \div 10
           /\ Interpolated(h) \in Nat /\ a <= Interpolated(h) /\ Interpolated(h) <= b
  <1>1. PICK i \in 0 .. 59 : i = h \div 10
    BY SMT DEF Tabulated
  <1>2. PICK r \in 0 .. 9 : r = h % 10
    BY SMT DEF Tabulated
  <1>3. h = 10 * i + r
    BY <1>1, <1>2, SMT DEF Tabulated
  <1>4. PICK j \in 0 .. 60 : j = i + 1
    BY SMT
  <1>5. Tenths(i) \in Nat /\ Tenths(j) \in Nat /\ Tenths(i) <= Tenths(j)
    <2>1. i \in 0 .. 60 /\ i <= j
      BY <1>4, SMT
    <2>2. QED
      BY <2>1, TableRises, Zenon
  <1>6. i + 2 = j + 1 /\ ~(i >= 60)
    BY <1>4, SMT
  <1>7. Interpolated(h) = Tenths(i) + ((Tenths(j) - Tenths(i)) * r) \div 10
    BY <1>1, <1>2, <1>6, Zenon DEF Interpolated, Tenths
  <1>8. PICK a \in Nat : a = Tenths(i)
    BY <1>5
  <1>9. PICK b \in Nat : b = Tenths(j)
    BY <1>5
  <1>10. PICK s \in Nat : s = b - a
    BY <1>5, <1>8, <1>9, SMT
  <1>11. s * r \in Nat /\ s * r <= s * 10
    BY SMT
  <1>12. (s * r) \div 10 \in Nat /\ (s * r) \div 10 <= s
    BY <1>11, SMT
  <1>13. Interpolated(h) = a + ((b - a) * r) \div 10
    BY <1>7, <1>8, <1>9, Zenon
  <1>14. Interpolated(h) = a + (s * r) \div 10
    BY <1>10, <1>13, Zenon
  <1>15. Interpolated(h) \in Nat /\ a <= Interpolated(h) /\ Interpolated(h) <= b /\ a <= b
    BY <1>10, <1>12, <1>14, SMT
  <1>16. a = Tenths(i) /\ b = Tenths(i + 1)
    BY <1>4, <1>8, <1>9, Zenon
  <1>17. QED
    BY <1>3, <1>13, <1>15, <1>16, Zenon

LEMMA InterpolatedRises ==
  ASSUME NEW g \in Tabulated, NEW h \in Tabulated, g <= h
  PROVE  /\ Interpolated(g) \in Nat /\ Interpolated(h) \in Nat
         /\ Tenths(0) <= Interpolated(g)
         /\ Interpolated(g) <= Interpolated(h)
         /\ Interpolated(h) <= Highest
  <1>1. PICK i \in 0 .. 59, r \in 0 .. 9, a \in Nat, b \in Nat :
           /\ g = 10 * i + r
           /\ a = Tenths(i) /\ b = Tenths(i + 1) /\ a <= b
           /\ Interpolated(g) = a + ((b - a) * r) \div 10
           /\ Interpolated(g) \in Nat /\ a <= Interpolated(g) /\ Interpolated(g) <= b
    BY InterpolatedBetween, Zenon
  <1>2. PICK j \in 0 .. 59, t \in 0 .. 9, c \in Nat, d \in Nat :
           /\ h = 10 * j + t
           /\ c = Tenths(j) /\ d = Tenths(j + 1) /\ c <= d
           /\ Interpolated(h) = c + ((d - c) * t) \div 10
           /\ Interpolated(h) \in Nat /\ c <= Interpolated(h) /\ Interpolated(h) <= d
    BY InterpolatedBetween, Zenon
  <1>3. /\ i \in 0 .. 60 /\ i + 1 \in 0 .. 60 /\ j \in 0 .. 60 /\ j + 1 \in 0 .. 60
        /\ 0 \in 0 .. 60 /\ 60 \in 0 .. 60 /\ j + 1 <= 60 /\ 0 <= i
    BY SMT
  <1>4. /\ Tenths(0) \in Nat /\ Tenths(0) <= Tenths(i)
        /\ Highest \in Nat /\ Tenths(j + 1) <= Highest
    <2>1. Tenths(0) \in Nat /\ Tenths(0) <= Tenths(i)
      BY <1>3, TableRises, Zenon
    <2>2. PICK last \in 0 .. 60 : last = 60
      BY SMT
    <2>3. j + 1 <= last
      BY <1>3, <2>2, SMT
    <2>4. Tenths(last) \in Nat /\ Tenths(j + 1) <= Tenths(last)
      BY <1>3, <2>3, TableRises, Zenon
    <2>5. QED
      BY <2>1, <2>2, <2>4, Zenon DEF Highest
  <1>5. Tenths(0) <= Interpolated(g) /\ Interpolated(h) <= Highest
    <2>1. Tenths(0) <= a /\ a <= Interpolated(g) /\ Interpolated(g) \in Nat
      BY <1>1, <1>4, Zenon
    <2>2. d <= Highest /\ Interpolated(h) <= d /\ Interpolated(h) \in Nat
      BY <1>2, <1>4, Zenon
    <2>3. Tenths(0) <= Interpolated(g)
      BY <1>4, <2>1, SMT
    <2>4. Interpolated(h) <= Highest
      BY <1>4, <2>2, SMT
    <2>5. QED
      BY <2>3, <2>4
  <1>6. CASE i = j
    <2>1. r <= t /\ a = c /\ b = d
      BY <1>1, <1>2, <1>6, SMT
    <2>2. PICK s \in Nat : s = b - a
      BY <1>1, SMT
    <2>3. PICK x \in Nat : x = s * r
      BY SMT
    <2>4. PICK y \in Nat : y = s * t
      BY SMT
    <2>5. x <= y
      BY <2>1, <2>3, <2>4, ProductGrows
    <2>6. x \div 10 \in Nat /\ y \div 10 \in Nat /\ x \div 10 <= y \div 10
      BY <2>5, SMT
    <2>7. Interpolated(g) = a + x \div 10 /\ Interpolated(h) = a + y \div 10
      BY <1>1, <1>2, <2>1, <2>2, <2>3, <2>4, Zenon
    <2>8. QED
      BY <1>1, <1>2, <1>5, <2>6, <2>7, SMT
  <1>7. CASE i < j
    <2>1. i + 1 <= j
      BY <1>7, SMT
    <2>2. b <= c
      BY <1>1, <1>2, <1>3, <2>1, TableRises, Zenon
    <2>3. QED
      BY <1>1, <1>2, <1>5, <2>2, SMT
  <1>8. i <= j
    BY <1>1, <1>2, SMT DEF Tabulated
  <1>9. QED
    BY <1>6, <1>7, <1>8, SMT

\* The power of a reciprocal.
Reciprocal(p) == 100000000 \div p

LEMMA ReciprocalFalls ==
  ASSUME NEW p \in Nat, NEW q \in Nat, 10000 <= p, p <= q, q <= 4034288
  PROVE  /\ Reciprocal(p) \in Nat /\ Reciprocal(q) \in Nat /\ Reciprocal(q) <= Reciprocal(p)
         /\ Reciprocal(p) <= 10000 /\ Reciprocal(q) >= 1
  <1>1. PICK c \in Nat : c = 100000000
    BY SMT
  <1>2. p > 0 /\ q > 0
    BY SMT
  <1>3. c \div p \in Nat /\ c \div q \in Nat /\ c \div q <= c \div p
    BY <1>2, QuotientFalls, SMT
  <1>4. c \div p <= 10000
    <2>1. PICK n \in Nat : n = 10000
      BY SMT
    <2>2. p * n \in Nat /\ p * n >= 10000 * n
      BY <2>1, SMT
    <2>3. c < p * n + p
      BY <1>1, <1>2, <2>1, <2>2, SMT
    <2>4. c \div p <= n
      BY <1>2, <2>3, QuotientAtMost, SMT
    <2>5. QED
      BY <2>1, <2>4, SMT
  <1>5. c \div q >= 1
    <2>1. q * 1 <= c
      BY <1>1, SMT
    <2>2. PICK n \in Nat : n = 1
      BY SMT
    <2>3. n <= c \div q
      BY <1>2, <2>1, <2>2, QuotientAtLeast, SMT
    <2>4. QED
      BY <1>3, <2>2, <2>3, SMT
  <1>6. Reciprocal(p) = c \div p /\ Reciprocal(q) = c \div q
    BY <1>1, SMT DEF Reciprocal
  <1>7. QED
    BY <1>3, <1>4, <1>5, <1>6, SMT

LEMMA PowerIs ==
  ASSUME NEW x \in Int
  PROVE  /\ x >= 600 => exp_scaled(x) = Highest
         /\ x <= -600 => exp_scaled(x) = 1
         /\ -600 < x /\ x < 0 => exp_scaled(x) = Reciprocal(Interpolated(-x))
         /\ 0 <= x /\ x < 600 => exp_scaled(x) = Interpolated(x)
  <1>1. exp_scaled(x) = IF x >= 600 THEN Highest
                        ELSE IF x <= -600 THEN 1
                        ELSE IF x < 0 THEN Reciprocal(Interpolated(-x)) ELSE Interpolated(x)
    BY SMT DEF exp_scaled, Tenths, Highest, Reciprocal
  <1>2. QED
    BY <1>1, SMT

LEMMA PowerRises ==
  ASSUME NEW x \in Int, NEW y \in Int, x <= y
  PROVE  /\ exp_scaled(x) \in Nat /\ exp_scaled(y) \in Nat
         /\ 1 <= exp_scaled(x) /\ exp_scaled(x) <= exp_scaled(y)
  <1> DEFINE Of(z) == /\ exp_scaled(z) \in Nat /\ 1 <= exp_scaled(z)
                      /\ z < 0 => exp_scaled(z) <= 10000
                      /\ z >= 0 => 10000 <= exp_scaled(z)
                      /\ exp_scaled(z) <= Highest
  <1>1. Tenths(0) = 10000 /\ Highest = 4034288
    BY TableEnds, SMT
  <1>2. ASSUME NEW z \in Int PROVE Of(z)
    <2>1. CASE z >= 600
      BY <1>1, <2>1, PowerIs, SMT
    <2>2. CASE z <= -600
      BY <1>1, <2>2, PowerIs, SMT
    <2>3. CASE -600 < z /\ z < 0
      <3>1. PICK h \in Tabulated : h = -z
        BY <2>3, SMT DEF Tabulated
      <3>2. /\ Interpolated(h) \in Nat /\ Tenths(0) <= Interpolated(h)
            /\ Interpolated(h) <= Highest
        <4>1. h <= h
          BY SMT DEF Tabulated
        <4>2. QED
          BY <4>1, InterpolatedRises, Zenon
      <3>3. PICK p \in Nat : p = Interpolated(h)
        BY <3>2
      <3>4. Reciprocal(p) \in Nat /\ Reciprocal(p) <= 10000 /\ Reciprocal(p) >= 1
        BY <1>1, <3>2, <3>3, ReciprocalFalls, SMT
      <3>5. exp_scaled(z) = Reciprocal(p)
        BY <2>3, <3>1, <3>3, PowerIs, SMT
      <3>6. QED
        BY <1>1, <2>3, <3>4, <3>5, SMT
    <2>4. CASE 0 <= z /\ z < 600
      <3>1. z \in Tabulated
        BY <2>4, SMT DEF Tabulated
      <3>2. /\ Interpolated(z) \in Nat /\ Tenths(0) <= Interpolated(z)
            /\ Interpolated(z) <= Highest
        <4>1. z <= z
          BY SMT
        <4>2. QED
          BY <3>1, <4>1, InterpolatedRises, Zenon
      <3>3. exp_scaled(z) = Interpolated(z)
        BY <2>4, PowerIs, SMT
      <3>4. QED
        BY <1>1, <2>4, <3>2, <3>3, SMT
    <2>5. QED
      BY <2>1, <2>2, <2>3, <2>4, SMT
  <1>3. Of(x) /\ Of(y)
    BY <1>2
  <1>4. CASE x <= -600 \/ y >= 600
    BY <1>1, <1>3, <1>4, PowerIs, SMT
  <1>5. CASE x < 0 /\ y >= 0
    BY <1>3, <1>5, SMT
  <1>6. CASE -600 < x /\ y < 0
    <2>1. PICK g \in Tabulated : g = -y
      BY <1>6, SMT DEF Tabulated
    <2>2. PICK h \in Tabulated : h = -x
      BY <1>6, SMT DEF Tabulated
    <2>3. g <= h
      BY <2>1, <2>2, SMT
    <2>4. /\ Interpolated(g) \in Nat /\ Interpolated(h) \in Nat
          /\ Tenths(0) <= Interpolated(g) /\ Interpolated(g) <= Interpolated(h)
          /\ Interpolated(h) <= Highest
      BY <2>3, InterpolatedRises, Zenon
    <2>5. Reciprocal(Interpolated(h)) <= Reciprocal(Interpolated(g))
      BY <1>1, <2>4, ReciprocalFalls, SMT
    <2>6. exp_scaled(y) = Reciprocal(Interpolated(g))
      BY <1>6, <2>1, PowerIs, SMT
    <2>7. exp_scaled(x) = Reciprocal(Interpolated(h))
      BY <1>6, <2>2, PowerIs, SMT
    <2>8. QED
      BY <1>3, <2>5, <2>6, <2>7, SMT
  <1>7. CASE 0 <= x /\ y < 600
    <2>1. x \in Tabulated /\ y \in Tabulated
      BY <1>7, SMT DEF Tabulated
    <2>2. Interpolated(x) <= Interpolated(y)
      BY <2>1, InterpolatedRises, Zenon
    <2>3. exp_scaled(x) = Interpolated(x) /\ exp_scaled(y) = Interpolated(y)
      BY <1>7, PowerIs, SMT
    <2>4. QED
      BY <1>3, <2>2, <2>3, SMT
  <1>8. QED
    BY <1>4, <1>5, <1>6, <1>7, SMT

\* Signed division is odd and rises.
LEMMA OverRises ==
  ASSUME NEW a \in Int, NEW b \in Int, a <= b
  PROVE  /\ Over(a, 100) \in Int /\ Over(b, 100) \in Int /\ Over(a, 100) <= Over(b, 100)
         /\ Over(-a, 100) = -Over(a, 100)
  BY SMT DEF Over

\* What a curve makes of a power: the emission, and the share of the distance it has left.
EmissionAt(power) == 100 + ((16000 - 100) * BPS) \div (BPS + power)
ShareAt(power) == 100000000 \div (BPS + power)

LEMMA EmissionFalls ==
  ASSUME NEW p \in Nat, NEW q \in Nat, 1 <= p, p <= q
  PROVE  /\ EmissionAt(p) \in Nat /\ 100 <= EmissionAt(p) /\ EmissionAt(p) <= 16000
         /\ EmissionAt(q) \in Nat /\ EmissionAt(q) <= EmissionAt(p)
  <1>1. PICK c \in Nat : c = (16000 - 100) * BPS
    BY SMT DEF BPS
  <1>2. PICK x \in Nat : x = BPS + p
    BY SMT DEF BPS
  <1>3. PICK y \in Nat : y = BPS + q
    BY SMT DEF BPS
  <1>4. x <= y /\ x > 0 /\ y > 0 /\ x >= 10000
    BY <1>2, <1>3, SMT DEF BPS
  <1>5. c \div x \in Nat /\ c \div y \in Nat /\ c \div y <= c \div x
    BY <1>4, QuotientFalls
  <1>6. c \div x <= 15900
    <2>1. PICK n \in Nat : n = 15900
      BY SMT
    <2>2. x * n \in Nat /\ x * n >= 10000 * n
      BY <1>4, <2>1, SMT
    <2>3. c < x * n + x
      BY <1>1, <1>4, <2>1, <2>2, SMT DEF BPS
    <2>4. c \div x <= n
      BY <1>4, <2>3, QuotientAtMost
    <2>5. QED
      BY <2>1, <2>4, SMT
  <1>7. EmissionAt(p) = 100 + c \div x /\ EmissionAt(q) = 100 + c \div y
    BY <1>1, <1>2, <1>3, SMT DEF EmissionAt
  <1>8. PICK u \in Nat : u = c \div x
    BY <1>5
  <1>9. PICK v \in Nat : v = c \div y
    BY <1>5
  <1>10. v <= u /\ u <= 15900
    <2>1. v <= u
      BY <1>5, <1>8, <1>9, Zenon
    <2>2. u <= 15900
      BY <1>6, <1>8, SMT
    <2>3. QED
      BY <2>1, <2>2, SMT
  <1>11. EmissionAt(p) = 100 + u /\ EmissionAt(q) = 100 + v
    BY <1>7, <1>8, <1>9, Zenon
  <1>12. QED
    BY <1>10, <1>11, SMT

LEMMA ShareFalls ==
  ASSUME NEW p \in Nat, NEW q \in Nat, 1 <= p, p <= q
  PROVE  /\ ShareAt(p) \in Nat /\ ShareAt(p) <= 10000 /\ ShareAt(q) \in Nat
         /\ ShareAt(q) <= ShareAt(p)
  <1>1. PICK c \in Nat : c = 100000000
    BY SMT
  <1>2. PICK x \in Nat : x = BPS + p
    BY SMT DEF BPS
  <1>3. PICK y \in Nat : y = BPS + q
    BY SMT DEF BPS
  <1>4. x <= y /\ x > 0 /\ y > 0 /\ x >= 10000
    BY <1>2, <1>3, SMT DEF BPS
  <1>5. c \div x \in Nat /\ c \div y \in Nat /\ c \div y <= c \div x
    BY <1>4, QuotientFalls
  <1>6. c \div x <= 10000
    <2>1. PICK n \in Nat : n = 10000
      BY SMT
    <2>2. x * n \in Nat /\ x * n >= 10000 * n
      BY <1>4, <2>1, SMT
    <2>3. c < x * n + x
      BY <1>1, <1>4, <2>1, <2>2, SMT
    <2>4. c \div x <= n
      BY <1>4, <2>3, QuotientAtMost
    <2>5. QED
      BY <2>1, <2>4, SMT
  <1>7. ShareAt(p) = c \div x /\ ShareAt(q) = c \div y
    BY <1>1, <1>2, <1>3, SMT DEF ShareAt
  <1>8. PICK u \in Nat : u = c \div x
    BY <1>5
  <1>9. PICK v \in Nat : v = c \div y
    BY <1>5
  <1>10. v <= u /\ u <= 10000
    BY <1>5, <1>6, <1>8, <1>9, SMT
  <1>11. ShareAt(p) = u /\ ShareAt(q) = v
    BY <1>7, <1>8, <1>9, Zenon
  <1>12. QED
    BY <1>10, <1>11, SMT

LEMMA EmissionType ==
  ASSUME NEW p \in Nat
  PROVE  EmissionAt(p) \in Nat
  <1>1. PICK c \in Nat : c = (16000 - 100) * BPS
    BY SMT DEF BPS
  <1>2. PICK x \in Nat : x = BPS + p /\ x > 0
    BY SMT DEF BPS
  <1>3. c \div x \in Nat
    BY <1>2, QuotientIs, Zenon
  <1>4. EmissionAt(p) = 100 + c \div x
    BY <1>1, <1>2, SMT DEF EmissionAt
  <1>5. QED
    BY <1>3, <1>4, SMT

LEMMA AnyEmission ==
  ASSUME NEW x \in Int
  PROVE  EmissionAt(exp_scaled(x)) \in Int
  <1>1. PICK p : p = exp_scaled(x)
    OBVIOUS
  <1>2. p \in Nat /\ 1 <= p /\ p <= p
    <2>1. x <= x
      BY SMT
    <2>2. p \in Nat /\ 1 <= p
      BY <1>1, <2>1, PowerRises, Zenon
    <2>3. QED
      BY <2>2, SMT
  <1>3. EmissionAt(p) \in Nat
    BY <1>2, EmissionType, Zenon
  <1>4. EmissionAt(p) \in Int
    BY <1>3, SMT
  <1>5. QED
    BY <1>1, <1>4, Zenon

\* The emissions of a power and of its reciprocal add up, but for what is rounded.
LEMMA ReciprocalsMirror ==
  ASSUME NEW e \in Nat, 10000 <= e, e <= 4034288
  PROVE  EmissionAt(e) + EmissionAt(Reciprocal(e)) \in 16098 .. 16102
  <1>1. PICK q \in Nat : q = Reciprocal(e)
    BY ReciprocalFalls, SMT
  <1>2. e * q <= 100000000 /\ 100000000 < e * q + e
    <2>1. PICK c \in Nat : c = 100000000
      BY SMT
    <2>2. e * (c \div e) <= c /\ c < e * (c \div e) + e
      BY QuotientIs, SMT
    <2>3. q = c \div e
      BY <1>1, <2>1, SMT DEF Reciprocal
    <2>4. QED
      BY <2>1, <2>2, <2>3, SMT
  <1>3. PICK x \in Nat : x = 10000 + e
    BY SMT
  <1>4. PICK y \in Nat : y = 10000 + q
    BY SMT
  <1>5. PICK c \in Nat : c = 159000000
    BY SMT
  <1>6. PICK a \in Nat : a = c \div x
    BY <1>3, QuotientIs, SMT
  <1>7. PICK b \in Nat : b = c \div y
    BY <1>4, QuotientIs, SMT
  <1>8. EmissionAt(e) = 100 + a /\ EmissionAt(q) = 100 + b
    BY <1>3, <1>4, <1>5, <1>6, <1>7, SMT DEF EmissionAt, BPS
  <1>9. x * a <= c /\ c < x * a + x
    BY <1>3, <1>6, QuotientIs, SMT
  <1>10. y * b <= c /\ c < y * b + y
    BY <1>4, <1>7, QuotientIs, SMT
  <1>11. b <= 15900
    <2>1. y * b >= 10000 * b
      BY <1>4, SMT
    <2>2. QED
      BY <1>5, <1>10, <2>1, SMT
  \* Times e, the second quotient is one by x as well.
  <1>12. e * y <= 10000 * x /\ 10000 * x < e * y + e /\ e * y \in Nat
    <2>1. e * y = 10000 * e + e * q /\ e * q \in Nat
      BY <1>4, SMT
    <2>2. QED
      BY <1>2, <1>3, <2>1, SMT
  <1>13. x * b <= 15902 * e
    <2>1. e * (y * b) <= e * c
      <3>1. y * b \in Nat
        BY SMT
      <3>2. QED
        BY <1>10, <3>1, ProductGrows
    <2>2. b * (10000 * x) <= b * (e * y + e)
      BY <1>12, ProductGrows, SMT
    <2>3. b * (e * y + e) = e * (y * b) + e * b /\ b * (10000 * x) = 10000 * (x * b)
      BY SMT
    <2>4. e * b <= e * 15900
      BY <1>11, ProductGrows, SMT
    <2>5. PICK u \in Nat : u = x * b
      BY SMT
    <2>6. PICK v \in Nat : v = e * (y * b)
      BY SMT
    <2>7. PICK w \in Nat : w = e * b
      BY SMT
    <2>8. 10000 * u <= v + w
      BY <2>2, <2>3, <2>5, <2>6, <2>7, SMT
    <2>9. v <= 159000000 * e /\ w <= 15900 * e
      BY <1>5, <2>1, <2>4, <2>6, <2>7, SMT
    <2>10. QED
      BY <2>5, <2>8, <2>9, SMT
  <1>14. x * (b + 1) > 15900 * e
    <2>1. e * c < e * (y * b + y)
      BY <1>10, SMT
    <2>2. (b + 1) * (e * y) <= (b + 1) * (10000 * x)
      BY <1>12, ProductGrows, SMT
    <2>3. e * (y * b + y) = (b + 1) * (e * y) /\ (b + 1) * (10000 * x) = 10000 * (x * (b + 1))
      BY SMT
    <2>4. PICK u \in Nat : u = x * (b + 1)
      BY SMT
    <2>5. 159000000 * e < 10000 * u
      BY <1>5, <2>1, <2>2, <2>3, <2>4, SMT
    <2>6. QED
      BY <2>4, <2>5, SMT
  <1>15. PICK s \in Nat : s = a + b
    BY SMT
  <1>16. x * s <= c + 15902 * e /\ c + 15900 * e < x * s + 2 * x
    <2>1. x * s = x * a + x * b /\ x * (b + 1) = x * b + x /\ x * a \in Nat /\ x * b \in Nat
      BY <1>15, SMT
    <2>2. QED
      BY <1>9, <1>13, <1>14, <2>1, SMT
  <1>17. c + 15902 * e <= 15902 * x /\ c + 15900 * e = 15900 * x
    BY <1>3, <1>5, SMT
  <1>18. s <= 15902
    <2>1. SUFFICES ASSUME s >= 15903 PROVE FALSE
      BY SMT
    <2>2. x * s >= x * 15903
      BY <2>1, ProductGrows, SMT
    <2>3. QED
      BY <1>3, <1>16, <1>17, <2>2, SMT
  <1>19. s >= 15899
    <2>1. SUFFICES ASSUME s <= 15898 PROVE FALSE
      BY SMT
    <2>2. x * s <= x * 15898
      BY <2>1, ProductGrows, SMT
    <2>3. QED
      BY <1>3, <1>16, <1>17, <2>2, SMT
  <1>20. QED
    BY <1>1, <1>8, <1>15, <1>18, <1>19, SMT

LEMMA EmissionsMirror ==
  ASSUME NEW x \in Int
  PROVE  EmissionAt(exp_scaled(x)) + EmissionAt(exp_scaled(-x)) \in 16100 - 40 .. 16100 + 40
  <1> DEFINE Sum(z) == EmissionAt(exp_scaled(z)) + EmissionAt(exp_scaled(-z))
             Near(z) == Sum(z) \in 16060 .. 16140
  <1>1. Tenths(0) = 10000 /\ Highest = 4034288
    BY TableEnds, SMT
  <1>2. ASSUME NEW z \in Nat PROVE Near(z)
    <2>1. CASE z >= 600
      <3>1. exp_scaled(z) = 4034288 /\ exp_scaled(-z) = 1
        BY <1>1, <2>1, PowerIs, SMT DEF Highest
      <3>2. EmissionAt(4034288) = 139 /\ EmissionAt(1) = 15998
        BY SMT DEF EmissionAt, BPS
      <3>3. QED
        BY <3>1, <3>2, SMT
    <2>2. CASE z < 600
      <3>1. z \in Tabulated /\ z <= z
        BY <2>2, SMT DEF Tabulated
      <3>2. PICK e \in Nat : e = Interpolated(z)
        BY <3>1, InterpolatedRises, Zenon
      <3>3. 10000 <= e /\ e <= 4034288
        <4>1. Tenths(0) <= e /\ e <= Highest
          BY <3>1, <3>2, InterpolatedRises, Zenon
        <4>2. QED
          BY <1>1, <4>1, SMT
      <3>4. exp_scaled(z) = e
        BY <2>2, <3>2, PowerIs, SMT
      <3>5. exp_scaled(-z) = Reciprocal(e)
        <4>1. CASE z = 0
          <5>1. e = 10000
            <6>1. PICK i \in 0 .. 59, r \in 0 .. 9, a \in Nat, b \in Nat :
                    /\ z = 10 * i + r
                    /\ a = Tenths(i) /\ b = Tenths(i + 1) /\ a <= b
                    /\ Interpolated(z) = a + ((b - a) * r) \div 10
                    /\ Interpolated(z) \in Nat /\ a <= Interpolated(z) /\ Interpolated(z) <= b
              BY <3>1, InterpolatedBetween, Zenon
            <6>2. i = 0 /\ r = 0
              BY <4>1, <6>1, SMT
            <6>3. a = 10000
              BY <1>1, <6>1, <6>2, SMT
            <6>4. (b - a) * r = 0 /\ 0 \div 10 = 0
              BY <6>2, SMT
            <6>5. QED
              BY <3>2, <6>1, <6>3, <6>4, SMT
          <5>2. Reciprocal(10000) = 10000
            BY SMT DEF Reciprocal
          <5>3. PICK y \in Int : y = -z
            BY SMT
          <5>4. y = z
            <6>1. z <= 0 /\ z >= 0
              BY <4>1, SMT
            <6>2. y <= z /\ z <= y
              BY <5>3, <6>1, SMT
            <6>3. QED
              BY <6>2, SMT
          <5>5. exp_scaled(-z) = exp_scaled(z)
            BY <5>3, <5>4, Zenon
          <5>6. QED
            BY <3>4, <5>1, <5>2, <5>5, SMT
        <4>2. CASE z > 0
          <5>1. PICK y \in Int : y = -z
            BY SMT
          <5>2. -600 < y /\ y < 0 /\ -y = z
            BY <2>2, <4>2, <5>1, SMT
          <5>3. exp_scaled(y) = Reciprocal(Interpolated(-y))
            BY <5>2, PowerIs, SMT
          <5>4. QED
            BY <3>2, <5>1, <5>2, <5>3, ZenonT(60)
        <4>3. QED
          BY <4>1, <4>2, SMT
      <3>6. Sum(z) \in 16098 .. 16102
        BY <3>3, <3>4, <3>5, ReciprocalsMirror, SMT
      <3>7. QED
        BY <3>6, SMT
    <2>3. QED
      BY <2>1, <2>2, SMT
  <1>3. CASE x >= 0
    <2>1. Near(x)
      BY <1>2, <1>3
    <2>2. QED
      BY <2>1, SMT
  <1>4. CASE x < 0
    <2>1. PICK z \in Nat : z = -x
      BY <1>4, SMT
    <2>2. PICK w \in Int : w = -z
      BY SMT
    <2>3. w = x
      BY <2>1, <2>2, SMT
    <2>4. Near(z)
      BY <1>2
    <2>5. PICK p \in Int : p = EmissionAt(exp_scaled(x))
      BY AnyEmission, Zenon
    <2>6. z \in Int
      BY SMT
    <2>7. PICK q \in Int : q = EmissionAt(exp_scaled(z))
      BY <2>6, AnyEmission, Zenon
    <2>8. Sum(z) = q + p
      BY <2>2, <2>3, <2>5, <2>7, Zenon
    <2>9. EmissionAt(exp_scaled(x)) + EmissionAt(exp_scaled(-x)) = p + q
      BY <2>1, <2>5, <2>7, Zenon
    <2>10. QED
      BY <2>4, <2>8, <2>9, SMT
  <1>5. QED
    BY <1>3, <1>4, SMT

-----------------------------------------------------------------------------
(* The curves. *)

\* The curves in terms of their power.
Slope(t, k, midpoint) == Over(k * (t - midpoint), 100)
GrowthAt(power) == 300 + ((2000 - 300) * ShareAt(power)) \div BPS
DiscoveryAt(power) == 15000 + ((30000 - 15000) * ShareAt(power)) \div BPS

LEMMA CurvesAreOfPowers ==
  ASSUME NEW t, NEW k, NEW midpoint
  PROVE  /\ sigmoid_daily_emission(t, k, midpoint) = EmissionAt(exp_scaled(Slope(t, k, midpoint)))
         /\ sigmoid_growth_cap_bps(t) = GrowthAt(exp_scaled(Slope(t, 100, 540)))
         /\ discovery_multiplier_bps(t) = DiscoveryAt(exp_scaled(Over(-(50 * (t - 1825)), 100)))
  BY SMT DEF sigmoid_daily_emission, sigmoid_growth_cap_bps, discovery_multiplier_bps,
             EmissionAt, GrowthAt, DiscoveryAt, ShareAt, Slope

\* A day later the power is no less.
LEMMA SlopeRises ==
  ASSUME NEW t \in Int, NEW k \in Nat, NEW m \in Int
  PROVE  /\ Slope(t, k, m) \in Int /\ Slope(t + 1, k, m) \in Int
         /\ Slope(t, k, m) <= Slope(t + 1, k, m)
         /\ Slope(2 * m - t, k, m) = -Slope(t, k, m)
  <1>1. PICK x \in Int : x = k * (t - m)
    BY SMT
  <1>2. PICK y \in Int : y = k * ((t + 1) - m)
    BY SMT
  <1>3. PICK z \in Int : z = k * ((2 * m - t) - m)
    BY SMT
  <1>4. y = x + k /\ z = -x
    BY <1>1, <1>2, <1>3, SMT
  <1>5. x <= y
    BY <1>4, SMT
  <1>6. /\ Over(x, 100) \in Int /\ Over(y, 100) \in Int /\ Over(x, 100) <= Over(y, 100)
        /\ Over(-x, 100) = -Over(x, 100)
    BY <1>5, OverRises, Zenon
  <1>7. QED
    BY <1>1, <1>2, <1>3, <1>4, <1>6, Zenon DEF Slope

LEMMA GrowthFalls ==
  ASSUME NEW p \in Nat, NEW q \in Nat, 1 <= p, p <= q
  PROVE  /\ GrowthAt(p) \in Int /\ 300 <= GrowthAt(p) /\ GrowthAt(p) <= 2000
         /\ GrowthAt(q) \in Int /\ GrowthAt(q) <= GrowthAt(p)
         /\ DiscoveryAt(p) \in Int /\ 15000 <= DiscoveryAt(p) /\ DiscoveryAt(p) <= 30000
         /\ DiscoveryAt(q) \in Int /\ DiscoveryAt(q) <= DiscoveryAt(p)
  <1>1. PICK u \in Nat : u = ShareAt(p)
    BY ShareFalls, SMT
  <1>2. PICK v \in Nat : v = ShareAt(q)
    BY ShareFalls, SMT
  <1>3. v <= u /\ u <= 10000
    BY <1>1, <1>2, ShareFalls, SMT
  <1>4. /\ GrowthAt(p) = 300 + (1700 * u) \div 10000
        /\ GrowthAt(q) = 300 + (1700 * v) \div 10000
        /\ DiscoveryAt(p) = 15000 + (15000 * u) \div 10000
        /\ DiscoveryAt(q) = 15000 + (15000 * v) \div 10000
    BY <1>1, <1>2, SMT DEF GrowthAt, DiscoveryAt, BPS
  <1>5. QED
    BY <1>3, <1>4, SMT


\* CurvesOnlyFall at some day of some curve.
CurvesAt(d, k, m) ==
  /\ sigmoid_daily_emission(d, k, m) \in EmissionRange
  /\ sigmoid_daily_emission(d + 1, k, m) <= sigmoid_daily_emission(d, k, m)
  /\ sigmoid_growth_cap_bps(d) \in GrowthRange
  /\ sigmoid_growth_cap_bps(d + 1) <= sigmoid_growth_cap_bps(d)
  /\ discovery_multiplier_bps(d) \in DiscoveryRange
  /\ discovery_multiplier_bps(d + 1) >= discovery_multiplier_bps(d)
  /\ sigmoid_daily_emission(d, k, m) + sigmoid_daily_emission(2 * m - d, k, m)
       \in MirrorRange

LEMMA CurvesFall ==
  ASSUME NEW d \in Nat, NEW k \in Nat, NEW m \in Nat
  PROVE  CurvesAt(d, k, m)
  <1>1. d \in Int /\ m \in Int /\ d + 1 \in Int /\ 2 * m - d \in Int
    BY SMT
  <1>2. /\ sigmoid_daily_emission(d, k, m) \in EmissionRange
        /\ sigmoid_daily_emission(d + 1, k, m) <= sigmoid_daily_emission(d, k, m)
    <2>1. PICK p : p = exp_scaled(Slope(d, k, m))
      OBVIOUS
    <2>2. PICK q : q = exp_scaled(Slope(d + 1, k, m))
      OBVIOUS
    <2>3. p \in Nat /\ q \in Nat /\ 1 <= p /\ p <= q
      BY <1>1, <2>1, <2>2, SlopeRises, PowerRises, Zenon
    <2>4. /\ EmissionAt(p) \in Nat /\ 100 <= EmissionAt(p) /\ EmissionAt(p) <= 16000
          /\ EmissionAt(q) <= EmissionAt(p)
      BY <2>3, EmissionFalls, SMT
    <2>5. sigmoid_daily_emission(d, k, m) = EmissionAt(p) /\ sigmoid_daily_emission(d + 1, k, m) = EmissionAt(q)
      BY <2>1, <2>2, CurvesAreOfPowers, SMT
    <2>6. PICK e \in Nat : e = EmissionAt(p)
      BY <2>4
    <2>7. PICK f : f = EmissionAt(q)
      OBVIOUS
    <2>8. f <= e /\ e >= 100 /\ e <= 16000
      BY <2>4, <2>6, <2>7, SMT
    <2>9. sigmoid_daily_emission(d, k, m) = e /\ sigmoid_daily_emission(d + 1, k, m) = f
      BY <2>5, <2>6, <2>7, Zenon
    <2>10. e \in EmissionRange /\ f <= e
      BY <2>8, SMT DEF EmissionRange
    <2>11. QED
      BY <2>9, <2>10, Zenon
  <1>3. /\ sigmoid_growth_cap_bps(d) \in GrowthRange
        /\ sigmoid_growth_cap_bps(d + 1) <= sigmoid_growth_cap_bps(d)
    <2>1. PICK c \in Nat : c = 100
      BY SMT
    <2>2. PICK o \in Int : o = 540
      BY SMT
    <2>3. PICK p : p = exp_scaled(Slope(d, c, o))
      OBVIOUS
    <2>4. PICK q : q = exp_scaled(Slope(d + 1, c, o))
      OBVIOUS
    <2>5. p \in Nat /\ q \in Nat /\ 1 <= p /\ p <= q
      BY <1>1, <2>3, <2>4, SlopeRises, PowerRises, Zenon
    <2>6. /\ GrowthAt(p) \in Int /\ 300 <= GrowthAt(p) /\ GrowthAt(p) <= 2000
          /\ GrowthAt(q) \in Int /\ GrowthAt(q) <= GrowthAt(p)
      BY <2>5, GrowthFalls, SMT
    <2>7. sigmoid_growth_cap_bps(d) = GrowthAt(p) /\ sigmoid_growth_cap_bps(d + 1) = GrowthAt(q)
      BY <2>1, <2>2, <2>3, <2>4, CurvesAreOfPowers, SMT
    <2>8. PICK e \in Int : e = GrowthAt(p)
      BY <2>6
    <2>9. PICK f : f = GrowthAt(q)
      OBVIOUS
    <2>10. f <= e /\ 300 <= e /\ e <= 2000
      BY <2>6, <2>8, <2>9, SMT
    <2>11. sigmoid_growth_cap_bps(d) = e /\ sigmoid_growth_cap_bps(d + 1) = f
      BY <2>7, <2>8, <2>9, Zenon
    <2>12. e \in GrowthRange /\ f <= e
      BY <2>10, SMT DEF GrowthRange
    <2>13. QED
      BY <2>11, <2>12, Zenon
  <1>4. /\ discovery_multiplier_bps(d) \in DiscoveryRange
        /\ discovery_multiplier_bps(d + 1) >= discovery_multiplier_bps(d)
    <2>1. PICK x \in Int : x = -(50 * (d - 1825))
      BY SMT
    <2>2. PICK y \in Int : y = -(50 * ((d + 1) - 1825))
      BY SMT
    <2>3. y <= x
      BY <2>1, <2>2, SMT
    <2>4. PICK p : p = exp_scaled(Over(y, 100))
      OBVIOUS
    <2>5. PICK q : q = exp_scaled(Over(x, 100))
      OBVIOUS
    <2>6. p \in Nat /\ q \in Nat /\ 1 <= p /\ p <= q
      <3>1. Over(y, 100) \in Int /\ Over(x, 100) \in Int /\ Over(y, 100) <= Over(x, 100)
        BY <2>3, OverRises, SMT
      <3>2. QED
        BY <2>4, <2>5, <3>1, PowerRises, ZenonT(60)
    <2>7. /\ DiscoveryAt(p) \in Int /\ 15000 <= DiscoveryAt(p) /\ DiscoveryAt(p) <= 30000
          /\ DiscoveryAt(q) \in Int /\ DiscoveryAt(q) <= DiscoveryAt(p)
      BY <2>6, GrowthFalls, SMT
    <2>8. DiscoveryAt(q) \in Int /\ 15000 <= DiscoveryAt(q) /\ DiscoveryAt(q) <= 30000
      <3>1. 1 <= q /\ q <= q
        BY <2>6, SMT
      <3>2. QED
        BY <2>6, <3>1, GrowthFalls, SMT
    <2>9. discovery_multiplier_bps(d) = DiscoveryAt(q) /\ discovery_multiplier_bps(d + 1) = DiscoveryAt(p)
      BY <2>1, <2>2, <2>4, <2>5, CurvesAreOfPowers, SMT
    <2>10. PICK e \in Int : e = DiscoveryAt(q)
      BY <2>8
    <2>11. PICK f : f = DiscoveryAt(p)
      OBVIOUS
    <2>12. e <= f /\ 15000 <= e /\ e <= 30000
      BY <2>7, <2>8, <2>10, <2>11, SMT
    <2>13. discovery_multiplier_bps(d) = e /\ discovery_multiplier_bps(d + 1) = f
      BY <2>9, <2>10, <2>11, Zenon
    <2>14. e \in DiscoveryRange /\ f >= e
      BY <2>11, <2>12, SMT DEF DiscoveryRange
    <2>15. QED
      BY <2>13, <2>14, Zenon
  <1>5. sigmoid_daily_emission(d, k, m) + sigmoid_daily_emission(2 * m - d, k, m)
          \in MirrorRange
    <2>1. PICK x \in Int : x = Slope(d, k, m)
      BY <1>1, SlopeRises, Zenon
    <2>2. Slope(2 * m - d, k, m) = -x
      BY <1>1, <2>1, SlopeRises, ZenonT(60)
    <2>3. /\ sigmoid_daily_emission(d, k, m) = EmissionAt(exp_scaled(x))
          /\ sigmoid_daily_emission(2 * m - d, k, m) = EmissionAt(exp_scaled(-x))
      BY <2>1, <2>2, CurvesAreOfPowers, SMT
    <2>4. EmissionAt(exp_scaled(x)) + EmissionAt(exp_scaled(-x)) \in MirrorRange
      BY EmissionsMirror, SMT DEF MirrorRange
    <2>5. QED
      BY <2>3, <2>4, Zenon
  <1>6. QED
    BY <1>2, <1>3, <1>4, <1>5, Zenon DEF CurvesAt

LEMMA CurvesFallAll ==
  ASSUME NEW d \in Nat, NEW k \in Nat, NEW m \in Nat
  PROVE  /\ EmissionOnlyFalls(d, k, m) /\ GrowthCapOnlyFalls(d) /\ DiscoveryOnlyRises(d)
         /\ EmissionMirrored(d, k, m)
  <1>1. CurvesAt(d, k, m)
    BY CurvesFall, Zenon
  <1>2. EmissionOnlyFalls(d, k, m)
    <2>1. /\ sigmoid_daily_emission(d, k, m) \in EmissionRange
          /\ sigmoid_daily_emission(d + 1, k, m) <= sigmoid_daily_emission(d, k, m)
      BY <1>1, Zenon DEF CurvesAt
    <2>2. QED
      BY <2>1, ZenonT(60) DEF EmissionOnlyFalls
  <1>3. GrowthCapOnlyFalls(d)
    <2>1. sigmoid_growth_cap_bps(d) \in GrowthRange /\ sigmoid_growth_cap_bps(d + 1) <= sigmoid_growth_cap_bps(d)
      BY <1>1, ZenonT(60) DEF CurvesAt
    <2>2. QED
      BY <2>1, ZenonT(60) DEF GrowthCapOnlyFalls
  <1>4. DiscoveryOnlyRises(d)
    <2>1. /\ discovery_multiplier_bps(d) \in DiscoveryRange
          /\ discovery_multiplier_bps(d + 1) >= discovery_multiplier_bps(d)
      BY <1>1, Zenon DEF CurvesAt
    <2>2. QED
      BY <2>1, ZenonT(60) DEF DiscoveryOnlyRises
  <1>5. EmissionMirrored(d, k, m)
    <2>1. sigmoid_daily_emission(d, k, m) + sigmoid_daily_emission(2 * m - d, k, m) \in MirrorRange
      BY <1>1, Zenon DEF CurvesAt
    <2>2. QED
      BY <2>1, ZenonT(60) DEF EmissionMirrored
  <1>6. QED
    BY <1>2, <1>3, <1>4, <1>5, Zenon

THEOREM CurvesFallOnly == MathSpec => []CurvesOnlyFall
  <1>1. MathTypeOK => CurvesOnlyFall
    <2> SUFFICES ASSUME MathTypeOK PROVE CurvesOnlyFall
      OBVIOUS
    <2>1. curve.day \in Nat /\ curve.k \in Nat /\ curve.midpoint \in Nat
      <3>1. CurveDays \subseteq Nat
        BY MathAssumption, SMT
      <3>2. curve \in [day : CurveDays, k : Nat, midpoint : Nat]
        BY DEF MathTypeOK
      <3>3. curve.day \in CurveDays /\ curve.k \in Nat /\ curve.midpoint \in Nat
        BY <3>2
      <3>4. QED
        BY <3>1, <3>3
    <2>2. /\ EmissionOnlyFalls(curve.day, curve.k, curve.midpoint) /\ GrowthCapOnlyFalls(curve.day)
          /\ DiscoveryOnlyRises(curve.day)
          /\ EmissionMirrored(curve.day, curve.k, curve.midpoint)
      BY <2>1, CurvesFallAll, Zenon
    <2>3. QED
      BY <2>2, Zenon DEF CurvesOnlyFall
  <1>2. HoldingInv => MathTypeOK
    BY DEF HoldingInv
  <1>3. QED
    BY <1>1, <1>2, HoldingInvInit, HoldingInvNext, PTL DEF MathSpec

-----------------------------------------------------------------------------
(* Claims, rewards, awards, rates and fees. *)

\* The sum of two points, as the fold over their sequence computes it.
LEMMA SumOfTwo ==
  ASSUME NEW s \in Nat, NEW o \in Nat
  PROVE  FoldFunction(LAMBDA a, b : a + b, 0, <<s, o>>) = s + o
  <1> DEFINE p == <<s, o>>
  <1> DEFINE pick(T) == CHOOSE x \in T : TRUE
  <1> DEFINE Step(f, T) == IF T = {} THEN 0 ELSE p[pick(T)] + f[T \ {pick(T)}]
  <1> DEFINE G == [T \in SUBSET {1, 2} |-> (IF 1 \in T THEN s ELSE 0) + (IF 2 \in T THEN o ELSE 0)]
  <1> DEFINE f == CHOOSE g : g = [T \in SUBSET {1, 2} |-> Step(g, T)]
  <1>1. DOMAIN p = {1, 2} /\ p[1] = s /\ p[2] = o
    BY SMT
  <1> HIDE DEF p
  <1>2. \A T \in SUBSET {1, 2} : T # {} => pick(T) \in T
    BY Zenon
  <1>3. FoldFunction(LAMBDA a, b : a + b, 0, p) = f[{1, 2}]
    BY <1>1, Zenon DEF FoldFunction, FoldFunctionOnSet, MapThenFoldSet
  <1> HIDE DEF pick
  <1>4. \A T \in SUBSET {1, 2} : G[T] = Step(G, T)
    <2> SUFFICES ASSUME NEW T \in SUBSET {1, 2}, T # {} PROVE G[T] = p[pick(T)] + G[T \ {pick(T)}]
      <3>1. G[{}] = 0
        BY SMT
      <3> HIDE DEF G
      <3>2. QED
        BY <3>1, Zenon
    <2>1. PICK x : x = pick(T)
      OBVIOUS
    <2>2. x \in T /\ x \in {1, 2}
      BY <1>2, <2>1
    <2>3. G[T] = p[x] + G[T \ {x}]
      <3> DEFINE U == T \ {x}
      <3>1. U \in SUBSET {1, 2} /\ x \notin U /\ \A y : y # x => (y \in U <=> y \in T)
        OBVIOUS
      <3>2. G[U] = (IF 1 \in U THEN s ELSE 0) + (IF 2 \in U THEN o ELSE 0)
        BY <3>1
      <3>3. G[T] = (IF 1 \in T THEN s ELSE 0) + (IF 2 \in T THEN o ELSE 0)
        OBVIOUS
      <3> HIDE DEF U, G
      <3>4. CASE x = 1
        BY <1>1, <2>2, <3>1, <3>2, <3>3, <3>4, SMT DEF U
      <3>5. CASE x = 2
        BY <1>1, <2>2, <3>1, <3>2, <3>3, <3>5, SMT DEF U
      <3>6. QED
        BY <2>2, <3>4, <3>5
    <2>4. QED
      BY <2>1, <2>3, Zenon
  <1>5. G = [T \in SUBSET {1, 2} |-> Step(G, T)]
    BY <1>4, Zenon
  <1>6. f = [T \in SUBSET {1, 2} |-> Step(f, T)]
    BY <1>5, Zenon
  <1> HIDE DEF f
  <1>7. f[{}] = 0
    BY <1>6, Zenon
  <1>8. f[{1}] = s /\ f[{2}] = o
    <2>1. pick({1}) = 1 /\ pick({2}) = 2 /\ {1} \ {1} = {} /\ {2} \ {2} = {}
      BY <1>2
    <2>2. f[{1}] = Step(f, {1}) /\ f[{2}] = Step(f, {2})
      BY <1>6
    <2>3. f[{1}] = p[1] + f[{}] /\ f[{2}] = p[2] + f[{}]
      BY <2>1, <2>2, Zenon
    <2>4. QED
      BY <1>1, <1>7, <2>3, SMT
  <1>9. f[{1, 2}] = s + o
    <2>1. PICK x : x = pick({1, 2})
      OBVIOUS
    <2>2. x \in {1, 2}
      BY <1>2, <2>1
    <2>3. f[{1, 2}] = p[x] + f[{1, 2} \ {x}]
      BY <1>6, <2>1
    <2>4. {1, 2} \ {1} = {2} /\ {1, 2} \ {2} = {1}
      OBVIOUS
    <2>5. p[1] + f[{2}] = s + o /\ p[2] + f[{1}] = s + o
      BY <1>1, <1>8, SMT
    <2>6. QED
      BY <2>2, <2>3, <2>4, <2>5, Zenon
  <1>10. QED
    BY <1>3, <1>9, Zenon DEF p

\* What is not more, times the same, is not more.
LEMMA Cancels ==
  ASSUME NEW d \in Nat, d > 0, NEW x \in Nat, NEW y \in Nat, d * x <= d * y
  PROVE  x <= y
  <1>1. d * y \in Nat /\ d * y < d * y + d
    OBVIOUS
  <1>2. x <= (d * y) \div d
    BY <1>1, QuotientAtLeast
  <1>3. (d * y) \div d <= y
    BY <1>1, QuotientAtMost
  <1>4. PICK q : q = (d * y) \div d
    OBVIOUS
  <1>5. q \in Nat
    BY <1>1, <1>4, QuotientIs
  <1>6. QED
    BY <1>2, <1>3, <1>4, <1>5, SMT

\* Two parts of an amount, each rounded down, are the amount but for one.
LEMMA TwoParts ==
  ASSUME NEW s \in Nat, NEW o \in Nat, s + o > 0, NEW p \in Nat
  PROVE  /\ (s * p) \div (s + o) \in Nat /\ (o * p) \div (s + o) \in Nat
         /\ (s * p) \div (s + o) + (o * p) \div (s + o) <= p
         /\ p <= (s * p) \div (s + o) + (o * p) \div (s + o) + 1
  <1>1. PICK t \in Nat : t = s + o /\ t > 0
    OBVIOUS
  <1>2. PICK u \in Nat : u = s * p
    OBVIOUS
  <1>3. PICK v \in Nat : v = o * p
    OBVIOUS
  <1>4. PICK a \in Nat : a = u \div t
    BY <1>1, QuotientIs
  <1>5. PICK b \in Nat : b = v \div t
    BY <1>1, QuotientIs
  <1>6. t * a <= u /\ u < t * a + t /\ t * b <= v /\ v < t * b + t
    BY <1>1, <1>4, <1>5, QuotientIs
  <1>7. t * p = u + v
    BY <1>1, <1>2, <1>3, SMT
  <1>8. PICK n \in Nat : n = a + b
    OBVIOUS
  <1>9. t * n = t * a + t * b /\ t * (n + 2) = t * a + t * b + t + t
    BY <1>8, SMT
  <1>10. t * n \in Nat /\ t * p \in Nat /\ t * a \in Int /\ t * b \in Int /\ t * (n + 2) \in Nat
    BY SMT
  <1>11. t * n <= t * p
    BY <1>6, <1>7, <1>9, <1>10, SMT
  <1>12. t * p < t * (n + 2)
    BY <1>6, <1>7, <1>9, <1>10, SMT
  <1>13. n <= p
    BY <1>1, <1>11, Cancels
  <1>14. p + 1 <= n + 2
    <2>1. SUFFICES ASSUME n + 2 <= p PROVE FALSE
      BY SMT
    <2>2. n + 2 \in Nat
      BY SMT
    <2>3. t * (n + 2) <= t * p
      BY <2>1, <2>2, ProductGrows
    <2>4. QED
      BY <1>10, <1>12, <2>3, SMT
  <1>15. (s * p) \div (s + o) = a /\ (o * p) \div (s + o) = b
    BY <1>1, <1>2, <1>3, <1>4, <1>5, Zenon
  <1>16. QED
    BY <1>8, <1>13, <1>14, <1>15, SMT

\* The rewards of a day are its emission, but for one token that rounding leaves.
LEMMA RewardsOfDay ==
  ASSUME NEW s \in Nat, NEW o \in Nat, s + o > 0, NEW p \in Nat
  PROVE  RewardsAreWithin(s, o, p)
  <1> DEFINE rewards == calculate_daily_rewards(<<s, o>>, p)
  <1>1. rewards = [c \in DOMAIN <<s, o>> |-> calculate_token_reward(<<s, o>>[c], s + o, p)]
    BY SumOfTwo, Zenon DEF calculate_daily_rewards
  <1>2. DOMAIN <<s, o>> = {1, 2} /\ <<s, o>>[1] = s /\ <<s, o>>[2] = o
    BY SMT
  <1>3. /\ rewards[1] = calculate_token_reward(s, s + o, p)
        /\ rewards[2] = calculate_token_reward(o, s + o, p)
    <2>1. 1 \in DOMAIN <<s, o>> /\ 2 \in DOMAIN <<s, o>>
      BY <1>2
    <2>2. QED
      BY <1>1, <1>2, <2>1, Zenon
  <1> HIDE DEF rewards
  <1>4. PICK a \in Nat : a = (s * p) \div (s + o)
    BY TwoParts, Zenon
  <1>5. PICK b \in Nat : b = (o * p) \div (s + o)
    BY TwoParts, Zenon
  <1>6. a + b <= p /\ p <= a + b + 1
    BY <1>4, <1>5, TwoParts, Zenon
  <1>7. rewards[1] = a /\ rewards[2] = b
    BY <1>3, <1>4, <1>5, Zenon DEF calculate_token_reward
  <1>8. rewards[1] + rewards[2] \in p - 1 .. p
    BY <1>6, <1>7, SMT
  <1>9. QED
    BY <1>8 DEF RewardsAreWithin, rewards

\* A fee is split without a remainder, and Labs has its tenth.
LEMMA FeeOf ==
  ASSUME NEW amount \in Nat
  PROVE  FeeIsSplit(amount)
  <1>1. PICK x \in Nat : x = (amount * 300) \div BPS
    BY BpsIs, SMT
  <1>2. PICK h \in Nat : h = (x * 5000) \div BPS
    BY BpsIs, SMT
  <1>3. PICK b \in Nat : b = (x * 4000) \div BPS
    BY BpsIs, SMT
  <1>4. PICK l \in Nat : l = (x * 1000) \div BPS
    BY BpsIs, SMT
  <1>5. l <= x - h - b
    BY <1>2, <1>3, <1>4, BpsIs, SMT
  <1>6. calculate_fee(amount) = [holders |-> h, burn |-> b, labs |-> x - h - b]
    BY <1>1, <1>2, <1>3, SMT DEF calculate_fee, split_protocol_fee
  <1>7. QED
    BY <1>1, <1>4, <1>5, <1>6, SMT DEF FeeIsSplit

\* The sign of a signed quotient.
LEMMA OverSigns ==
  ASSUME NEW a \in Int, NEW b \in Nat, b > 0
  PROVE  /\ Over(a, b) \in Int
         /\ a >= 0 => Over(a, b) >= 0
         /\ a <= 0 => Over(a, b) <= 0
  <1>1. CASE a >= 0
    <2>1. PICK q \in Nat : q = a \div b
      BY <1>1, QuotientIs
    <2>2. Over(a, b) = q
      BY <1>1, <2>1 DEF Over
    <2>3. a <= 0 => q <= 0
      <3>1. SUFFICES ASSUME a = 0 PROVE q <= 0
        BY <1>1
      <3>2. b * q <= 0
        BY <1>1, <2>1, <3>1, QuotientIs
      <3>3. QED
        BY <3>1, <1>1, <2>1, QuotientAtMost, SMT
    <2>4. QED
      BY <2>1, <2>2, <2>3
  <1>2. CASE ~(a >= 0)
    <2>1. PICK n \in Nat : n = -a
      BY <1>2, SMT
    <2>2. PICK q \in Nat : q = n \div b
      BY QuotientIs
    <2>3. Over(a, b) = -q
      BY <1>2, <2>1, <2>2, Zenon DEF Over
    <2>4. QED
      BY <1>2, <2>3, SMT
  <1>3. QED
    BY <1>1, <1>2

\* The rate is within its bounds, above the base after a loss only, below it after a profit only.
LEMMA RateOf ==
  ASSUME NEW r \in Nat, NEW c \in Nat, c > 0
  PROVE  RateFollowsProfit(r, c)
  <1>1. PICK n \in Int : n = (r - c) * BPS
    BY BpsIs, SMT
  <1>2. /\ r > c => n >= 0
        /\ r < c => n <= 0
    BY <1>1, BpsIs, SMT
  <1>3. PICK ratio \in Int : ratio = Over(n, c)
    BY OverSigns, Zenon
  <1>4. /\ n >= 0 => ratio >= 0
        /\ n <= 0 => ratio <= 0
    BY <1>3, OverSigns, Zenon
  <1>5. PICK twenty \in Nat : twenty = 20 /\ twenty > 0
    BY SMT
  <1>6. PICK part \in Int : part = Over(ratio, twenty)
    BY <1>5, OverSigns, Zenon
  <1>7. /\ ratio >= 0 => part >= 0
        /\ ratio <= 0 => part <= 0
    BY <1>5, <1>6, OverSigns, Zenon
  <1>8. PICK raw \in Int : raw = 1000 - part
    BY SMT
  <1>9. PICK low \in Int : low = 200
    BY SMT
  <1>10. PICK high \in Int : high = 2500
    BY SMT
  <1>11. PICK m : m = Max({raw, low})
    OBVIOUS
  <1>12. m \in {raw, low} /\ m >= raw /\ m >= low
    BY <1>11, MaxOfTwo, Zenon
  <1>13. m \in Int
    BY <1>12
  <1>14. PICK rate : rate = Min({m, high})
    OBVIOUS
  <1>15. rate \in {m, high} /\ rate <= m /\ rate <= high
    BY <1>13, <1>14, MinOfTwo, Zenon
  <1>16. calculate_dynamic_decay_rate(r, c) = rate
    BY <1>1, <1>3, <1>5, <1>6, <1>8, <1>9, <1>10, <1>11, <1>14, SMT
    DEF calculate_dynamic_decay_rate
  <1>17. rate \in Int /\ 200 <= rate /\ rate <= 2500
    BY <1>9, <1>10, <1>12, <1>13, <1>15, SMT
  <1>18. r > c => rate <= 1000
    BY <1>2, <1>4, <1>7, <1>8, <1>9, <1>12, <1>13, <1>15, <1>17, SMT
  <1>19. r < c => rate >= 1000
    BY <1>2, <1>4, <1>7, <1>8, <1>10, <1>12, <1>13, <1>15, <1>17, SMT
  <1>20. QED
    BY <1>16, <1>17, <1>18, <1>19, SMT DEF RateFollowsProfit

\* The first bounty of a day takes the emission whole, and leaves nothing to the second.
LEMMA AwardsOf ==
  ASSUME NEW s \in Nat, s > 0, NEW o \in Nat, NEW p \in Nat
  PROVE  AwardsAreWithin(s, o, p)
  <1> DEFINE first  == calculate_bounty_award(s, 0, p, 0)
             second == calculate_bounty_award(o, s, p, first.total)
  <1>1. \A x \in Nat : Max({x, 0}) = x
    BY MaxOfTwo
  <1>2. (s * p) \div s = p
    <2>1. s * p \in Nat /\ s * p < s * p + s
      BY SMT
    <2>2. (s * p) \div s <= p /\ p <= (s * p) \div s /\ (s * p) \div s \in Nat
      BY <2>1, QuotientAtMost, QuotientAtLeast, QuotientIs
    <2>3. QED
      BY <2>2, SMT
  <1>3. first.total = p
    <2>1. 0 + s = s /\ p - 0 = p
      BY SMT
    <2>2. calculate_token_reward(s, 0 + s, Max({p - 0, 0})) = p
      BY <1>1, <1>2, <2>1, Zenon DEF calculate_token_reward
    <2>3. QED
      BY <2>2 DEF calculate_bounty_award
  <1>4. calculate_token_reward(o, s + o, Max({p - p, 0})) = 0
    <2>1. p - p = 0 /\ o * 0 = 0 /\ 0 \div (s + o) = 0
      BY SMT
    <2>2. Max({p - p, 0}) = 0
      BY <1>1, <2>1
    <2>3. QED
      BY <2>1, <2>2, Zenon DEF calculate_token_reward
  <1> HIDE DEF first
  <1>5. second.total = 0 /\ second.contributor = 0 - second.reviewer /\ second.reviewer = (0 * 500) \div BPS
    BY <1>3, <1>4, SMT DEF calculate_bounty_award
  <1>6. second.reviewer \in Int
    BY <1>5, BpsIs, SMT
  <1> HIDE DEF second
  <1>7. first.total + second.total <= p /\ second.contributor + second.reviewer = second.total
    BY <1>3, <1>5, <1>6, SMT
  <1>8. QED
    BY <1>7 DEF AwardsAreWithin, first, second

\* Products of what is not negative.
LEMMA ProductIsNat ==
  ASSUME NEW a \in Nat, NEW b \in Nat
  PROVE  a * b \in Nat
  BY SMT

\* A claim that is rounded twice is not above the one that is rounded once, and short of it by
\* no more than the pool's own quotient and one.
LEMMA ClaimOfTwo ==
  ASSUME NEW s \in Nat, NEW t \in Nat, t > 0, NEW p \in Nat,
         NEW d \in Nat, d > 1,
         NEW share \in Nat, share = (s * d) \div t,
         NEW claim \in Nat, claim = (p * share) \div d
  PROVE  /\ (s * p) \div t \in Nat /\ claim <= (s * p) \div t
         /\ (s * p) \div t <= claim + p \div d + 1
  <1>1. PICK u \in Nat : u = s * d
    BY ProductIsNat
  <1>2. PICK v \in Nat : v = p * share
    BY ProductIsNat
  <1>3. PICK w \in Nat : w = s * p
    BY ProductIsNat
  <1>4. PICK q \in Nat : q = p \div d
    BY QuotientIs
  <1>5. t * share <= u /\ u < t * share + t
    BY <1>1, QuotientIs
  <1>6. d * claim <= v /\ v < d * claim + d
    BY <1>2, QuotientIs
  <1>7. d * q <= p /\ p < d * q + d
    BY <1>4, QuotientIs
  <1>8. p * u = d * w /\ p * (t * share) = t * v /\ p * (t * share + t) = t * v + t * p
    BY <1>1, <1>2, <1>3, SMT
  <1>9. /\ t * share \in Nat /\ t * share + t \in Nat /\ d * claim \in Nat /\ d * q \in Nat
        /\ t * v \in Nat /\ d * w \in Nat /\ t * claim \in Nat /\ t * p \in Nat
    BY ProductIsNat, SMT
  <1>10. t * v <= d * w /\ d * w <= t * v + t * p
    <2>1. p * (t * share) <= p * u
      BY <1>5, <1>9, ProductGrows
    <2>2. p * u <= p * (t * share + t)
      <3>1. u <= t * share + t
        BY <1>5, <1>9, SMT
      <3>2. QED
        BY <1>9, <3>1, ProductGrows
    <2>3. QED
      BY <1>8, <2>1, <2>2, Zenon
  <1>11. claim <= w \div t
    <2>1. d * (t * claim) <= d * w
      <3>1. t * (d * claim) <= t * v
        BY <1>6, <1>9, ProductGrows
      <3>2. t * (d * claim) = d * (t * claim)
        BY SMT
      <3>3. t * (d * claim) \in Nat
        BY <1>9, ProductIsNat
      <3>4. QED
        BY <1>9, <1>10, <3>1, <3>2, <3>3, SMT
    <2>2. t * claim <= w
      BY <1>9, <2>1, Cancels
    <2>3. QED
      BY <2>2, QuotientAtLeast
  <1>12. w \div t <= claim + q + 1
    <2>1. PICK n \in Nat : n = claim + q + 1
      BY SMT
    <2>2. v + p + 2 <= d * (n + 1) /\ d * (n + 1) \in Nat
      <3>1. d * (n + 1) = d * claim + d + d * q + d
        BY <2>1, SMT
      <3>2. QED
        BY <1>6, <1>7, <1>9, <3>1, SMT
    <2>3. t * (v + p + 2) <= t * (d * (n + 1))
      <3>1. v + p + 2 \in Nat
        BY SMT
      <3>2. QED
        BY <2>2, <3>1, ProductGrows
    <2>4. t * (v + p + 2) = t * v + t * p + t + t /\ t * (d * (n + 1)) = d * (t * n + t)
      BY SMT
    <2>5. w < t * n + t
      <3>1. SUFFICES ASSUME t * n + t <= w PROVE FALSE
        BY SMT
      <3>2. t * n + t \in Nat /\ d * (t * n + t) \in Nat
        BY SMT
      <3>3. d * (t * n + t) <= d * w
        BY <3>1, <3>2, ProductGrows
      <3>4. QED
        BY <1>9, <1>10, <2>3, <2>4, <3>2, <3>3, SMT
    <2>6. QED
      BY <2>1, <2>5, QuotientAtMost
  <1>13. QED
    BY <1>3, <1>4, <1>11, <1>12, QuotientIs

\* Two holders' claims are within the pool, and close below what the chain pays.
LEMMA ClaimsOf ==
  ASSUME NEW s \in Nat, NEW o \in Nat, s + o > 0, NEW p \in Nat
  PROVE  ClaimsAreWithin(s, o, p)
  <1> BPS \in Nat /\ BPS > 1
    BY SMT DEF BPS
  <1>1. PICK t \in Nat : t = s + o /\ t > 0
    BY SMT
  <1>2. PICK share \in Nat : share = (s * BPS) \div t
    BY <1>1, ProductIsNat, QuotientIs
  <1>3. PICK rest \in Nat : rest = (o * BPS) \div t
    BY <1>1, ProductIsNat, QuotientIs
  <1>4. share + rest <= BPS
    BY <1>1, <1>2, <1>3, TwoParts, Zenon
  <1>5. PICK claim \in Nat : claim = (p * share) \div BPS
    BY ProductIsNat, QuotientIs
  <1>6. PICK other \in Nat : other = (p * rest) \div BPS
    BY ProductIsNat, QuotientIs
  <1>7. claim + other <= p
    <2>1. BPS * claim <= p * share /\ BPS * other <= p * rest
      BY <1>5, <1>6, ProductIsNat, QuotientIs
    <2>2. p * (share + rest) <= p * BPS
      <3>1. share + rest \in Nat
        BY SMT
      <3>2. QED
        BY <1>4, <3>1, ProductGrows
    <2>3. p * (share + rest) = p * share + p * rest /\ p * BPS = BPS * p
          /\ BPS * (claim + other) = BPS * claim + BPS * other
      BY SMT
    <2>4. BPS * (claim + other) <= BPS * p
      <3>1. BPS * claim \in Nat /\ BPS * other \in Nat /\ p * share \in Nat /\ p * rest \in Nat
            /\ p * BPS \in Nat
        BY ProductIsNat
      <3>2. QED
        BY <2>1, <2>2, <2>3, <3>1, SMT
    <2>5. claim + other \in Nat
      BY SMT
    <2>6. QED
      BY <2>4, <2>5, Cancels
  <1>8. PICK paid \in Nat : paid = (s * p) \div t
    BY <1>1, ProductIsNat, QuotientIs
  <1>9. PICK q \in Nat : q = p \div BPS
    BY QuotientIs
  <1>10. claim <= paid /\ paid <= claim + q + 1
    BY <1>1, <1>2, <1>5, <1>8, <1>9, ClaimOfTwo, Zenon
  <1>11. /\ calculate_holder_claim(s, s + o, p) = claim
         /\ calculate_holder_claim(o, s + o, p) = other
    BY <1>1, <1>2, <1>3, <1>5, <1>6, Zenon DEF calculate_holder_claim
  <1>12. QED
    BY <1>1, <1>7, <1>8, <1>9, <1>10, <1>11, Zenon DEF ClaimsAreWithin

\* Off-chain figures never promise what the chain does not pay, whatever the amounts: claims are
\* within the pool and close below what claim_revenue pays, rewards and awards are within the
\* emission, a fee is split without a remainder, and the rate of decay follows the profit.
THEOREM QuotesStayCovered == MathSpec => []QuotesAreCovered
  <1>1. MathTypeOK => QuotesAreCovered
    <2> SUFFICES ASSUME MathTypeOK PROVE QuotesAreCovered
      OBVIOUS
    <2>1. /\ quote.amount \in Quotes /\ quote.pool \in Quotes
          /\ quote.stake \in Quotes /\ quote.other \in Quotes
      <3>1. quote \in [amount : Quotes, pool : Quotes, stake : Quotes, other : Quotes]
        BY DEF MathTypeOK
      <3>2. QED
        BY <3>1
    <2>2. \A x \in Quotes : x \in Nat /\ x > 0
      BY MathAssumption, SMT
    <2>3. \A s, o \in Nat : s > 0 => s + o > 0
      BY SMT
    <2>4. /\ ClaimsAreWithin(quote.stake, quote.other, quote.pool)
          /\ RewardsAreWithin(quote.stake, quote.other, quote.pool)
          /\ AwardsAreWithin(quote.stake, quote.other, quote.pool)
      BY <2>1, <2>2, <2>3, ClaimsOf, RewardsOfDay, AwardsOf, Zenon
    <2>5. RateFollowsProfit(quote.amount, quote.pool) /\ FeeIsSplit(quote.amount)
      BY <2>1, <2>2, RateOf, FeeOf, Zenon
    <2>6. QED
      BY <2>4, <2>5, Zenon DEF QuotesAreCovered
  <1>2. HoldingInv => MathTypeOK
    BY DEF HoldingInv
  <1>3. QED
    BY <1>1, <1>2, HoldingInvInit, HoldingInvNext, PTL DEF MathSpec
=============================================================================
