------------------------ MODULE BountyLifecycleProofs ------------------------
(***************************************************************************)
(* What holds of the bounty board for any number of bounties, wallets and  *)
(* concurrent requests.                                                    *)
(***************************************************************************)
EXTENDS BountyLifecycle, FiniteSetTheorems, TLAPS

-----------------------------------------------------------------------------
(* Type correctness. *)

LEMMA TypeInit == Init => TypeOK
  BY WalletsAssumption DEF Init, TypeOK, NoRow, Idle, Row, Request, Statuses

\* The updates of several columns give a row; their values are any of the column's type.
LEMMA SubmittedRow ==
  ASSUME NEW r \in Row, NEW n \in Nat, NEW w \in Wallets \cup {None}
  PROVE  [r EXCEPT !.status = "submitted", !.work = n, !.wallet = w] \in Row
  <1>1. "submitted" \in Statuses
    BY DEF Statuses
  <1>2. QED
    BY <1>1, ZenonT(60) DEF Row

LEMMA ApprovedRow ==
  ASSUME NEW r \in Row, NEW w \in Wallets \cup {None}, NEW ov \in BOOLEAN
  PROVE  [r EXCEPT !.status = "approved", !.reviewer = w, !.override = ov] \in Row
  <1>1. "approved" \in Statuses
    BY DEF Statuses
  <1>2. QED
    BY <1>1, ZenonT(60) DEF Row

LEMMA RevisedRow ==
  ASSUME NEW r \in Row, NEW n \in Nat
  PROVE  [r EXCEPT !.status = "claimed", !.revisions = n, !.verified = 0, !.receipt = 0] \in Row
  <1>1. "claimed" \in Statuses
    BY DEF Statuses
  <1>2. 0 \in Nat
    OBVIOUS
  <1>3. QED
    BY <1>1, <1>2, ZenonT(60) DEF Row

\* An update with a well-typed record keeps the table well-typed.
LEMMA UpdateType ==
  ASSUME TypeOK, NEW b \in Bounties, NEW r \in Row, Update(b, r)
  PROVE  row' \in [Bounties -> Row]
  BY DEF TypeOK, Update

\* The two ways a request changes keep the requests well-typed.
LEMMA HoldType ==
  ASSUME TypeOK, NEW h \in Handlers, NEW b \in Bounties, NEW w \in Wallets \cup {None},
         NEW ov \in BOOLEAN, NEW op \in {"approve", "reject", "revise"}, Hold(h, op, b, w, ov)
  PROVE  req' \in [Handlers -> Request \cup {Idle}]
  <1>1. row[b].work \in Nat
    BY DEF TypeOK, Row
  <1>2. [op |-> op, bounty |-> b, by |-> w, override |-> ov, work |-> row[b].work] \in Request
    BY <1>1 DEF Request
  <1>3. QED
    BY <1>2 DEF TypeOK, Hold

LEMMA DoneType ==
  ASSUME TypeOK, NEW h \in Handlers, Done(h)
  PROVE  req' \in [Handlers -> Request \cup {Idle}]
  BY DEF TypeOK, Done, Idle, Request

LEMMA TypeStep == TypeOK /\ [Next]_vars => TypeOK'
  <1> SUFFICES ASSUME TypeOK, [Next]_vars
               PROVE  TypeOK'
    OBVIOUS
  <1>0. \A b \in Bounties : row[b] \in Row
    BY DEF TypeOK
  <1>a. \A h \in Handlers : req[h].op # "idle" => req[h] \in Request
    BY DEF TypeOK, Idle
  <1>1. ASSUME NEW b \in Bounties, NEW p \in Wallets, NEW code \in BOOLEAN,
               create_bounty(b, p, code)
        PROVE  TypeOK'
    <2>1. [row[b] EXCEPT !.status = "open", !.poster = p, !.code = code] \in Row
      BY <1>0, ZenonT(60) DEF Row, Statuses
    <2>2. QED
      BY <1>1, <2>1, UpdateType DEF create_bounty, TypeOK
  <1>2. ASSUME NEW b \in Bounties, NEW a \in Agents, NEW w \in Wallets \cup {None},
               claim_bounty(b, a, w)
        PROVE  TypeOK'
    <2>1. [row[b] EXCEPT !.status = "claimed", !.agent = a, !.wallet = w] \in Row
      BY <1>0, ZenonT(60) DEF Row, Statuses
    <2>2. QED
      BY <1>2, <2>1, UpdateType DEF claim_bounty, TypeOK
  <1>3. ASSUME NEW b \in Bounties, NEW a \in Agents, NEW w \in Wallets \cup {None},
               NEW h \in Handlers, NEW rc \in BOOLEAN, submit_work(h, b, a, w, rc)
        PROVE  TypeOK'
    <2>0. row[b].work + 1 \in Nat /\ (IF row[b].wallet = None THEN w ELSE row[b].wallet) \in Wallets \cup {None}
      BY <1>0 DEF Row
    <2>1. [row[b] EXCEPT !.status = "submitted", !.work = @ + 1,
                         !.wallet = IF @ = None THEN w ELSE @] \in Row
      BY <1>0, <2>0, SubmittedRow
    <2>2. row' \in [Bounties -> Row]
      BY <1>3, <2>1, UpdateType DEF submit_work
    <2>4. [op |-> "receipt", bounty |-> b, by |-> None, override |-> FALSE,
           work |-> row[b].work + 1] \in Request
      BY <2>0 DEF Request
    <2>5. req' \in [Handlers -> Request \cup {Idle}]
      BY <1>3, <2>4 DEF TypeOK, submit_work
    <2>6. QED
      BY <2>2, <2>5 DEF TypeOK
  <1>4. ASSUME NEW b \in Bounties, NEW w \in Wallets, verify_submission(b, w)
        PROVE  TypeOK'
    <2>1. [row[b] EXCEPT !.verified = row[b].work] \in Row
      BY <1>0 DEF Row
    <2>2. QED
      BY <1>4, <2>1, UpdateType DEF verify_submission, TypeOK
  <1>5. ASSUME NEW b \in Bounties, NEW w \in Wallets, NEW h \in Handlers, approve_read(h, b, w)
        PROVE  TypeOK'
    <2>1. (~HasReceipt(row[b])) \in BOOLEAN
      BY DEF HasReceipt
    <2>2. QED
      BY <1>5, <2>1, HoldType DEF approve_read, TypeOK
  <1>6. ASSUME NEW b \in Bounties, NEW w \in Wallets, NEW h \in Handlers, reject_read(h, b, w)
        PROVE  TypeOK'
    BY <1>6, HoldType DEF reject_read, TypeOK
  <1>7. ASSUME NEW b \in Bounties, NEW w \in Wallets, NEW h \in Handlers, revision_read(h, b, w)
        PROVE  TypeOK'
    BY <1>7, HoldType DEF revision_read, TypeOK
  <1>8. ASSUME NEW h \in Handlers, store_receipt(h)
        PROVE  TypeOK'
    <2>0. req[h] \in Request
      BY <1>a, <1>8 DEF store_receipt
    <2>1. [row[req[h].bounty] EXCEPT !.receipt = req[h].work] \in Row
      BY <1>0, <2>0 DEF Row, Request
    <2>2. row' \in [Bounties -> Row]
      BY <1>8, <2>0, <2>1, UpdateType DEF store_receipt, Request
    <2>3. QED
      BY <1>8, <2>2, DoneType DEF store_receipt, TypeOK
  <1>9. ASSUME NEW h \in Handlers, approve_write(h)
        PROVE  TypeOK'
    <2> DEFINE b == req[h].bounty
    <2>0. req[h] \in Request /\ b \in Bounties
      BY <1>a, <1>9 DEF approve_write, Request
    <2>1. [row[b] EXCEPT !.status = "approved", !.reviewer = req[h].by,
                         !.override = req[h].override] \in Row
      <3>1. req[h].by \in Wallets \cup {None} /\ req[h].override \in BOOLEAN
        BY <2>0 DEF Request
      <3>2. QED
        BY <1>0, <2>0, <3>1, ApprovedRow
    <2>2. row' \in [Bounties -> Row]
      BY <1>9, <2>0, <2>1, UpdateType DEF approve_write, TypeOK
    <2>3. QED
      BY <1>9, <2>2, DoneType DEF approve_write, TypeOK
  <1>10. ASSUME NEW h \in Handlers, reject_write(h)
         PROVE  TypeOK'
    <2> DEFINE b == req[h].bounty
    <2>0. req[h] \in Request /\ b \in Bounties
      BY <1>a, <1>10 DEF reject_write, Request
    <2>1. [row[b] EXCEPT !.status = "rejected"] \in Row
      BY <1>0, <2>0 DEF Row, Statuses
    <2>2. row' \in [Bounties -> Row]
      BY <1>10, <2>0, <2>1, UpdateType DEF reject_write, TypeOK
    <2>3. QED
      BY <1>10, <2>2, DoneType DEF reject_write, TypeOK
  <1>11. ASSUME NEW h \in Handlers, revision_write(h)
         PROVE  TypeOK'
    <2> DEFINE b == req[h].bounty
    <2>0. req[h] \in Request /\ b \in Bounties
      BY <1>a, <1>11 DEF revision_write, Request
    <2>1. [row[b] EXCEPT !.status = "claimed", !.revisions = @ + 1, !.verified = 0,
                         !.receipt = 0] \in Row
      <3>1. row[b].revisions + 1 \in Nat
        BY <1>0, <2>0 DEF Row
      <3>2. QED
        BY <1>0, <2>0, <3>1, RevisedRow
    <2>2. row' \in [Bounties -> Row]
      BY <1>11, <2>0, <2>1, UpdateType DEF revision_write, TypeOK
    <2>3. QED
      BY <1>11, <2>2, DoneType DEF revision_write, TypeOK
  <1>12. ASSUME NEW h \in Handlers, abandon(h)
         PROVE  TypeOK'
    BY <1>12, DoneType DEF abandon, TypeOK
  <1>13. CASE UNCHANGED vars
    BY <1>13 DEF vars, TypeOK
  <1>14. QED
    BY <1>1, <1>2, <1>3, <1>4, <1>5, <1>6, <1>7, <1>8, <1>9, <1>10, <1>11, <1>12, <1>13
       DEF Next, Worker, Reviewer, Commit

\* Every column and every request keeps its type.
THEOREM TypeCorrect == Spec => []TypeOK
  BY TypeInit, TypeStep, PTL DEF Spec

-----------------------------------------------------------------------------
(* What the two statements that set several columns do to each row. *)

LEMMA ApproveWriteEffect ==
  ASSUME TypeOK, NEW h \in Handlers, approve_write(h), NEW b \in Bounties
  PROVE  \/ row'[b] = row[b]
         \/ /\ b = req[h].bounty
            /\ row[b].status = "submitted"
            /\ row'[b].status = "approved"
            /\ row'[b].reviewer = req[h].by
            /\ row'[b].poster = row[b].poster /\ row'[b].code = row[b].code
            /\ row'[b].agent = row[b].agent /\ row'[b].wallet = row[b].wallet
            /\ row'[b].work = row[b].work /\ row'[b].receipt = row[b].receipt
            /\ row'[b].verified = row[b].verified
            /\ row'[b].revisions = row[b].revisions
  <1>1. row[b] \in Row
    BY DEF TypeOK
  <1>2. CASE b = req[h].bounty /\ row[b].status = "submitted"
    <2>1. row'[b] = [row[b] EXCEPT !.status = "approved", !.reviewer = req[h].by,
                                   !.override = req[h].override]
      BY <1>2 DEF approve_write, TypeOK, Update
    <2>2. QED
      BY <1>1, <1>2, <2>1 DEF Row
  <1>3. CASE b # req[h].bounty \/ row[b].status # "submitted"
    BY <1>3 DEF approve_write, TypeOK, Update
  <1>4. QED
    BY <1>2, <1>3

LEMMA RevisionWriteEffect ==
  ASSUME TypeOK, NEW h \in Handlers, revision_write(h), NEW b \in Bounties
  PROVE  \/ row'[b] = row[b]
         \/ /\ b = req[h].bounty
            /\ row[b].status = "submitted"
            /\ row'[b].status = "claimed"
            /\ row'[b].reviewer = row[b].reviewer
            /\ row'[b].poster = row[b].poster /\ row'[b].code = row[b].code
            /\ row'[b].agent = row[b].agent /\ row'[b].wallet = row[b].wallet
            /\ row'[b].work = row[b].work
            /\ row'[b].verified = 0
            /\ row'[b].revisions = row[b].revisions + 1
  <1>1. row[b] \in Row
    BY DEF TypeOK
  <1>2. CASE b = req[h].bounty /\ row[b].status = "submitted"
    <2>1. row'[b] = [row[b] EXCEPT !.status = "claimed", !.revisions = @ + 1,
                                   !.verified = 0, !.receipt = 0]
      BY <1>2 DEF revision_write, TypeOK, Update
    <2>2. QED
      BY <1>1, <1>2, <2>1 DEF Row
  <1>3. CASE b # req[h].bounty \/ row[b].status # "submitted"
    BY <1>3 DEF revision_write, TypeOK, Update
  <1>4. QED
    BY <1>2, <1>3

-----------------------------------------------------------------------------
(* A verification is of the work on the row.  The invariant is inductive on well-typed *)
(* states: whatever the requests in flight remember, each statement that takes a row    *)
(* away from its submission clears the verification with it.                            *)

LEMMA FreshStep ==
  ASSUME TypeOK, VerificationIsFresh, [Next]_vars
  PROVE  VerificationIsFresh'
  <1>0. \A b \in Bounties : row[b] \in Row
    BY DEF TypeOK
  <1>1. ASSUME NEW b \in Bounties, NEW p \in Wallets, NEW code \in BOOLEAN, create_bounty(b, p, code)
        PROVE  VerificationIsFresh'
    BY <1>0, <1>1 DEF create_bounty, TypeOK, VerificationIsFresh, Row, Update
  <1>2. ASSUME NEW b \in Bounties, NEW a \in Agents, NEW w \in Wallets \cup {None}, claim_bounty(b, a, w)
        PROVE  VerificationIsFresh'
    BY <1>0, <1>2 DEF claim_bounty, TypeOK, VerificationIsFresh, Row, Update
  <1>3. ASSUME NEW b \in Bounties, NEW a \in Agents, NEW w \in Wallets \cup {None},
               NEW h \in Handlers, NEW rc \in BOOLEAN, submit_work(h, b, a, w, rc)
        PROVE  VerificationIsFresh'
    BY <1>0, <1>3 DEF submit_work, TypeOK, VerificationIsFresh, Row, Update
  <1>4. ASSUME NEW b \in Bounties, NEW w \in Wallets, verify_submission(b, w)
        PROVE  VerificationIsFresh'
    BY <1>0, <1>4 DEF verify_submission, TypeOK, VerificationIsFresh, Row, Update
  <1>5. ASSUME NEW b \in Bounties, NEW w \in Wallets, NEW h \in Handlers, approve_read(h, b, w)
        PROVE  VerificationIsFresh'
    BY <1>0, <1>5 DEF approve_read, TypeOK, VerificationIsFresh, Row, Update
  <1>6. ASSUME NEW b \in Bounties, NEW w \in Wallets, NEW h \in Handlers, reject_read(h, b, w)
        PROVE  VerificationIsFresh'
    BY <1>0, <1>6 DEF reject_read, TypeOK, VerificationIsFresh, Row, Update
  <1>7. ASSUME NEW b \in Bounties, NEW w \in Wallets, NEW h \in Handlers, revision_read(h, b, w)
        PROVE  VerificationIsFresh'
    BY <1>0, <1>7 DEF revision_read, TypeOK, VerificationIsFresh, Row, Update
  <1>8. ASSUME NEW h \in Handlers, store_receipt(h)
        PROVE  VerificationIsFresh'
    BY <1>0, <1>8 DEF store_receipt, TypeOK, VerificationIsFresh, Row, Update
  <1>9. ASSUME NEW h \in Handlers, approve_write(h)
        PROVE  VerificationIsFresh'
    BY <1>9, ApproveWriteEffect DEF VerificationIsFresh
  <1>10. ASSUME NEW h \in Handlers, reject_write(h)
        PROVE  VerificationIsFresh'
    BY <1>0, <1>10 DEF reject_write, TypeOK, VerificationIsFresh, Row, Update
  <1>11. ASSUME NEW h \in Handlers, revision_write(h)
        PROVE  VerificationIsFresh'
    BY <1>11, RevisionWriteEffect DEF VerificationIsFresh
  <1>12. ASSUME NEW h \in Handlers, abandon(h)
        PROVE  VerificationIsFresh'
    BY <1>0, <1>12 DEF abandon, TypeOK, VerificationIsFresh, Row, Update
  <1>13. CASE UNCHANGED vars
    BY <1>13 DEF vars, TypeOK, VerificationIsFresh, Row, Update
  <1>14. QED
    BY <1>1, <1>2, <1>3, <1>4, <1>5, <1>6, <1>7, <1>8, <1>9, <1>10, <1>11, <1>12, <1>13
       DEF Next, Worker, Reviewer, Commit

\* VerificationIsFresh for any number of concurrent requests.
THEOREM VerificationStaysFresh == Spec => []VerificationIsFresh
  <1>1. Init => VerificationIsFresh
    BY DEF Init, NoRow, VerificationIsFresh
  <1>2. TypeOK /\ VerificationIsFresh /\ [Next]_vars => VerificationIsFresh'
    BY FreshStep
  <1>3. QED
    BY <1>1, <1>2, TypeCorrect, PTL DEF Spec

-----------------------------------------------------------------------------
(* Decisions are final. *)

Final(b) ==
  row[b].status \in {"approved", "rejected"} =>
    /\ row'[b].status = row[b].status
    /\ row'[b].reviewer = row[b].reviewer
    /\ row'[b].wallet = row[b].wallet
    /\ row'[b].agent = row[b].agent

LEMMA FinalStep ==
  ASSUME TypeOK, [Next]_vars
  PROVE  \A d \in Bounties : Final(d)
  <1>0. \A b \in Bounties : row[b] \in Row
    BY DEF TypeOK
  <1>1. ASSUME NEW b \in Bounties, NEW p \in Wallets, NEW code \in BOOLEAN, create_bounty(b, p, code)
        PROVE  \A d \in Bounties : Final(d)
    BY <1>0, <1>1 DEF create_bounty, TypeOK, Final, Row, Update
  <1>2. ASSUME NEW b \in Bounties, NEW a \in Agents, NEW w \in Wallets \cup {None}, claim_bounty(b, a, w)
        PROVE  \A d \in Bounties : Final(d)
    BY <1>0, <1>2 DEF claim_bounty, TypeOK, Final, Row, Update
  <1>3. ASSUME NEW b \in Bounties, NEW a \in Agents, NEW w \in Wallets \cup {None},
               NEW h \in Handlers, NEW rc \in BOOLEAN, submit_work(h, b, a, w, rc)
        PROVE  \A d \in Bounties : Final(d)
    BY <1>0, <1>3 DEF submit_work, TypeOK, Final, Row, Update
  <1>4. ASSUME NEW b \in Bounties, NEW w \in Wallets, verify_submission(b, w)
        PROVE  \A d \in Bounties : Final(d)
    BY <1>0, <1>4 DEF verify_submission, TypeOK, Final, Row, Update
  <1>5. ASSUME NEW b \in Bounties, NEW w \in Wallets, NEW h \in Handlers, approve_read(h, b, w)
        PROVE  \A d \in Bounties : Final(d)
    BY <1>0, <1>5 DEF approve_read, TypeOK, Final, Row, Update
  <1>6. ASSUME NEW b \in Bounties, NEW w \in Wallets, NEW h \in Handlers, reject_read(h, b, w)
        PROVE  \A d \in Bounties : Final(d)
    BY <1>0, <1>6 DEF reject_read, TypeOK, Final, Row, Update
  <1>7. ASSUME NEW b \in Bounties, NEW w \in Wallets, NEW h \in Handlers, revision_read(h, b, w)
        PROVE  \A d \in Bounties : Final(d)
    BY <1>0, <1>7 DEF revision_read, TypeOK, Final, Row, Update
  <1>8. ASSUME NEW h \in Handlers, store_receipt(h)
        PROVE  \A d \in Bounties : Final(d)
    BY <1>0, <1>8 DEF store_receipt, TypeOK, Final, Row, Update
  <1>9. ASSUME NEW h \in Handlers, approve_write(h)
        PROVE  \A d \in Bounties : Final(d)
    BY <1>0, <1>9 DEF approve_write, TypeOK, Final, Row, Update
  <1>10. ASSUME NEW h \in Handlers, reject_write(h)
        PROVE  \A d \in Bounties : Final(d)
    BY <1>0, <1>10 DEF reject_write, TypeOK, Final, Row, Update
  <1>11. ASSUME NEW h \in Handlers, revision_write(h)
        PROVE  \A d \in Bounties : Final(d)
    BY <1>0, <1>11 DEF revision_write, TypeOK, Final, Row, Update
  <1>12. ASSUME NEW h \in Handlers, abandon(h)
        PROVE  \A d \in Bounties : Final(d)
    BY <1>0, <1>12 DEF abandon, TypeOK, Final, Row, Update
  <1>13. CASE UNCHANGED vars
    BY <1>13 DEF vars, TypeOK, Final, Row, Update
  <1>14. QED
    BY <1>1, <1>2, <1>3, <1>4, <1>5, <1>6, <1>7, <1>8, <1>9, <1>10, <1>11, <1>12, <1>13
       DEF Next, Worker, Reviewer, Commit

\* DecisionIsFinal for any number of concurrent requests.
THEOREM DecisionsAreFinal == Spec => DecisionIsFinal
  <1>1. TypeOK /\ [Next]_vars => [\A b \in Bounties : Final(b)]_vars
    BY FinalStep
  <1>2. QED
    BY <1>1, TypeCorrect, PTL DEF Spec, DecisionIsFinal, Final

-----------------------------------------------------------------------------
(* Approvals.  An approval commits on the status alone, so what its checks looked at has *)
(* to be carried to the commit: a request in flight holds a claim about the row, and the *)
(* row only ever moves in directions that keep the claim true.                           *)

\* What a request q in flight knows of the row r it is about.
Holds(q, r) ==
  /\ r.status # "unposted"
  /\ q.work <= r.work
  /\ q.op = "receipt" => q.work # 0
  /\ q.op = "approve" =>
       /\ q.by \in Trusted \cap Council
       /\ q.by # r.poster
       /\ r.status = "submitted" /\ q.work = r.work => Gates(r, q.by, q.override)

RequestInv == \A h \in Handlers : req[h] # Idle => Holds(req[h], row[req[h].bounty])

\* How a posted row r may become s: the poster stays, submissions only grow in number, and
\* as long as it holds the same submission nothing an approval checked is taken back.
Forward(r, s) ==
  r.status # "unposted" =>
    /\ s.status # "unposted"
    /\ s.poster = r.poster
    /\ s.code = r.code
    /\ r.work <= s.work
    /\ s.status = "submitted" /\ s.work = r.work =>
         /\ r.status = "submitted"
         /\ s.wallet = r.wallet
         /\ r.verified # 0 => s.verified # 0
         /\ r.receipt # 0 => s.receipt # 0

LEMMA HoldsForward ==
  ASSUME NEW r \in Row, NEW s \in Row, NEW q \in Request, Holds(q, r), Forward(r, s)
  PROVE  Holds(q, s)
  <1>1. q.work \in Nat /\ r.work \in Nat /\ s.work \in Nat
    BY DEF Request, Row
  <1>2. q.work <= s.work /\ (q.work = s.work => s.work = r.work)
    BY <1>1 DEF Holds, Forward
  <1>3. QED
    BY <1>2 DEF Holds, Forward, Gates, HasReceipt

LEMMA RowForward ==
  ASSUME TypeOK, RequestInv, [Next]_vars
  PROVE  \A d \in Bounties : Forward(row[d], row'[d])
  <1>0. \A b \in Bounties : row[b] \in Row
    BY DEF TypeOK
  <1>1. ASSUME NEW b \in Bounties, NEW p \in Wallets, NEW code \in BOOLEAN, create_bounty(b, p, code)
        PROVE  \A d \in Bounties : Forward(row[d], row'[d])
    BY <1>0, <1>1 DEF create_bounty, TypeOK, Forward, Row, Update
  <1>2. ASSUME NEW b \in Bounties, NEW a \in Agents, NEW w \in Wallets \cup {None}, claim_bounty(b, a, w)
        PROVE  \A d \in Bounties : Forward(row[d], row'[d])
    BY <1>0, <1>2 DEF claim_bounty, TypeOK, Forward, Row, Update
  <1>3. ASSUME NEW b \in Bounties, NEW a \in Agents, NEW w \in Wallets \cup {None},
               NEW h \in Handlers, NEW rc \in BOOLEAN, submit_work(h, b, a, w, rc)
        PROVE  \A d \in Bounties : Forward(row[d], row'[d])
    BY <1>0, <1>3 DEF submit_work, TypeOK, Forward, Row, Update
  <1>4. ASSUME NEW b \in Bounties, NEW w \in Wallets, verify_submission(b, w)
        PROVE  \A d \in Bounties : Forward(row[d], row'[d])
    BY <1>0, <1>4 DEF verify_submission, TypeOK, Forward, Row, Update
  <1>5. ASSUME NEW b \in Bounties, NEW w \in Wallets, NEW h \in Handlers, approve_read(h, b, w)
        PROVE  \A d \in Bounties : Forward(row[d], row'[d])
    BY <1>0, <1>5 DEF approve_read, TypeOK, Forward, Row, Update
  <1>6. ASSUME NEW b \in Bounties, NEW w \in Wallets, NEW h \in Handlers, reject_read(h, b, w)
        PROVE  \A d \in Bounties : Forward(row[d], row'[d])
    BY <1>0, <1>6 DEF reject_read, TypeOK, Forward, Row, Update
  <1>7. ASSUME NEW b \in Bounties, NEW w \in Wallets, NEW h \in Handlers, revision_read(h, b, w)
        PROVE  \A d \in Bounties : Forward(row[d], row'[d])
    BY <1>0, <1>7 DEF revision_read, TypeOK, Forward, Row, Update
  <1>8. ASSUME NEW h \in Handlers, store_receipt(h)
        PROVE  \A d \in Bounties : Forward(row[d], row'[d])
    <2> SUFFICES ASSUME NEW d \in Bounties
                 PROVE  Forward(row[d], row'[d])
      OBVIOUS
    <2>1. row[d] \in Row /\ req[h].work # 0
      BY <1>0, <1>8 DEF store_receipt, RequestInv, Holds, Idle
    <2>2. CASE d = req[h].bounty
      <3>1. row'[d] = [row[d] EXCEPT !.receipt = req[h].work]
        BY <1>8, <2>2 DEF store_receipt, TypeOK, Update
      <3>2. QED
        BY <2>1, <3>1 DEF Row, Forward
    <2>3. CASE d # req[h].bounty
      BY <1>8, <2>1, <2>3 DEF store_receipt, TypeOK, Update, Row, Forward
    <2>4. QED
      BY <2>2, <2>3
  <1>9. ASSUME NEW h \in Handlers, approve_write(h)
        PROVE  \A d \in Bounties : Forward(row[d], row'[d])
    <2> SUFFICES ASSUME NEW d \in Bounties
                 PROVE  Forward(row[d], row'[d])
      OBVIOUS
    <2>1. row[d].work \in Nat
      BY <1>0 DEF Row
    <2>2. QED
      BY <1>9, <2>1, ApproveWriteEffect DEF Forward
  <1>10. ASSUME NEW h \in Handlers, reject_write(h)
        PROVE  \A d \in Bounties : Forward(row[d], row'[d])
    BY <1>0, <1>10 DEF reject_write, TypeOK, Forward, Row, Update
  <1>11. ASSUME NEW h \in Handlers, revision_write(h)
        PROVE  \A d \in Bounties : Forward(row[d], row'[d])
    <2> SUFFICES ASSUME NEW d \in Bounties
                 PROVE  Forward(row[d], row'[d])
      OBVIOUS
    <2>1. row[d].work \in Nat
      BY <1>0 DEF Row
    <2>2. QED
      BY <1>11, <2>1, RevisionWriteEffect DEF Forward
  <1>12. ASSUME NEW h \in Handlers, abandon(h)
        PROVE  \A d \in Bounties : Forward(row[d], row'[d])
    BY <1>0, <1>12 DEF abandon, TypeOK, Forward, Row, Update
  <1>13. CASE UNCHANGED vars
    BY <1>13 DEF vars, TypeOK, Forward, Row, Update
  <1>14. QED
    BY <1>1, <1>2, <1>3, <1>4, <1>5, <1>6, <1>7, <1>8, <1>9, <1>10, <1>11, <1>12, <1>13
       DEF Next, Worker, Reviewer, Commit

LEMMA RequestEnters ==
  ASSUME TypeOK, [Next]_vars
  PROVE  \A g \in Handlers :
           req'[g] # Idle => req'[g] = req[g] \/ Holds(req'[g], row'[req'[g].bounty])
  <1>0. \A b \in Bounties : row[b] \in Row
    BY DEF TypeOK
  <1>1. ASSUME NEW b \in Bounties, NEW p \in Wallets, NEW code \in BOOLEAN, create_bounty(b, p, code)
        PROVE  \A g \in Handlers :
           req'[g] # Idle => req'[g] = req[g] \/ Holds(req'[g], row'[req'[g].bounty])
    BY <1>0, <1>1 DEF create_bounty, TypeOK, Holds, Row, Idle, Hold, Done
  <1>2. ASSUME NEW b \in Bounties, NEW a \in Agents, NEW w \in Wallets \cup {None}, claim_bounty(b, a, w)
        PROVE  \A g \in Handlers :
           req'[g] # Idle => req'[g] = req[g] \/ Holds(req'[g], row'[req'[g].bounty])
    BY <1>0, <1>2 DEF claim_bounty, TypeOK, Holds, Row, Idle, Hold, Done
  <1>3. ASSUME NEW b \in Bounties, NEW a \in Agents, NEW w \in Wallets \cup {None},
               NEW h \in Handlers, NEW rc \in BOOLEAN, submit_work(h, b, a, w, rc)
        PROVE  \A g \in Handlers :
           req'[g] # Idle => req'[g] = req[g] \/ Holds(req'[g], row'[req'[g].bounty])
    <2>1. CASE rc
      <3>1. \A g \in Handlers : g # h => req'[g] = req[g]
        BY <1>3, <2>1 DEF submit_work, TypeOK
      <3>2. req'[h] = [ op |-> "receipt", bounty |-> b, by |-> None, override |-> FALSE,
                        work |-> row[b].work + 1 ]
        BY <1>3, <2>1 DEF submit_work, TypeOK
      <3>3. row'[b] = [row[b] EXCEPT !.status = "submitted", !.work = @ + 1,
                                     !.wallet = IF @ = None THEN w ELSE @]
        BY <1>3 DEF submit_work, TypeOK, Update
      <3>4. row'[b].status = "submitted" /\ row'[b].work = row[b].work + 1 /\ row[b].work \in Nat
        BY <1>0, <3>3 DEF Row
      <3>5. Holds(req'[h], row'[b])
        BY <3>2, <3>4 DEF Holds
      <3>6. QED
        BY <3>1, <3>2, <3>5
    <2>2. CASE ~rc
      BY <1>3, <2>2 DEF submit_work
    <2>3. QED
      BY <2>1, <2>2
  <1>4. ASSUME NEW b \in Bounties, NEW w \in Wallets, verify_submission(b, w)
        PROVE  \A g \in Handlers :
           req'[g] # Idle => req'[g] = req[g] \/ Holds(req'[g], row'[req'[g].bounty])
    BY <1>0, <1>4 DEF verify_submission, TypeOK, Holds, Row, Idle, Hold, Done
  <1>5. ASSUME NEW b \in Bounties, NEW w \in Wallets, NEW h \in Handlers, approve_read(h, b, w)
        PROVE  \A g \in Handlers :
           req'[g] # Idle => req'[g] = req[g] \/ Holds(req'[g], row'[req'[g].bounty])
    <2>1. \A g \in Handlers : g # h => req'[g] = req[g]
      BY <1>5 DEF approve_read, TypeOK, Hold
    <2>2. req'[h] = [ op |-> "approve", bounty |-> b, by |-> w,
                      override |-> ~HasReceipt(row[b]), work |-> row[b].work ]
      BY <1>5 DEF approve_read, TypeOK, Hold
    <2>3. row' = row /\ row[b].work \in Nat
      BY <1>0, <1>5 DEF approve_read, Row
    <2>4. Holds(req'[h], row'[b])
      <3>1. /\ req'[h].op = "approve"
            /\ req'[h].by = w
            /\ req'[h].override = (~HasReceipt(row[b]))
            /\ req'[h].work = row[b].work
        BY <2>2
      <3>2. /\ row[b].status = "submitted"
            /\ w \in Trusted \cap Council /\ w # row[b].poster
        BY <1>5 DEF approve_read, Independent
      <3>3. Gates(row[b], w, ~HasReceipt(row[b]))
        BY <1>5 DEF approve_read, Gates, Independent
      <3>4. QED
        BY <2>3, <3>1, <3>2, <3>3 DEF Holds
    <2>5. QED
      BY <2>1, <2>2, <2>4
  <1>6. ASSUME NEW b \in Bounties, NEW w \in Wallets, NEW h \in Handlers, reject_read(h, b, w)
        PROVE  \A g \in Handlers :
           req'[g] # Idle => req'[g] = req[g] \/ Holds(req'[g], row'[req'[g].bounty])
    BY <1>0, <1>6 DEF reject_read, TypeOK, Holds, Row, Idle, Hold, Done
  <1>7. ASSUME NEW b \in Bounties, NEW w \in Wallets, NEW h \in Handlers, revision_read(h, b, w)
        PROVE  \A g \in Handlers :
           req'[g] # Idle => req'[g] = req[g] \/ Holds(req'[g], row'[req'[g].bounty])
    BY <1>0, <1>7 DEF revision_read, TypeOK, Holds, Row, Idle, Hold, Done
  <1>8. ASSUME NEW h \in Handlers, store_receipt(h)
        PROVE  \A g \in Handlers :
           req'[g] # Idle => req'[g] = req[g] \/ Holds(req'[g], row'[req'[g].bounty])
    BY <1>0, <1>8 DEF store_receipt, TypeOK, Holds, Row, Idle, Hold, Done
  <1>9. ASSUME NEW h \in Handlers, approve_write(h)
        PROVE  \A g \in Handlers :
           req'[g] # Idle => req'[g] = req[g] \/ Holds(req'[g], row'[req'[g].bounty])
    BY <1>0, <1>9 DEF approve_write, TypeOK, Holds, Row, Idle, Hold, Done
  <1>10. ASSUME NEW h \in Handlers, reject_write(h)
        PROVE  \A g \in Handlers :
           req'[g] # Idle => req'[g] = req[g] \/ Holds(req'[g], row'[req'[g].bounty])
    BY <1>0, <1>10 DEF reject_write, TypeOK, Holds, Row, Idle, Hold, Done
  <1>11. ASSUME NEW h \in Handlers, revision_write(h)
        PROVE  \A g \in Handlers :
           req'[g] # Idle => req'[g] = req[g] \/ Holds(req'[g], row'[req'[g].bounty])
    BY <1>0, <1>11 DEF revision_write, TypeOK, Holds, Row, Idle, Hold, Done
  <1>12. ASSUME NEW h \in Handlers, abandon(h)
        PROVE  \A g \in Handlers :
           req'[g] # Idle => req'[g] = req[g] \/ Holds(req'[g], row'[req'[g].bounty])
    BY <1>0, <1>12 DEF abandon, TypeOK, Holds, Row, Idle, Hold, Done
  <1>13. CASE UNCHANGED vars
    BY <1>13 DEF vars, TypeOK, Holds, Row, Idle, Hold, Done
  <1>14. QED
    BY <1>1, <1>2, <1>3, <1>4, <1>5, <1>6, <1>7, <1>8, <1>9, <1>10, <1>11, <1>12, <1>13
       DEF Next, Worker, Reviewer, Commit

LEMMA RequestStep ==
  ASSUME TypeOK, RequestInv, [Next]_vars
  PROVE  RequestInv'
  <1>1. TypeOK'
    BY TypeStep
  <1> SUFFICES ASSUME NEW g \in Handlers, req'[g] # Idle
               PROVE  Holds(req'[g], row'[req'[g].bounty])
    BY DEF RequestInv, Idle
  <1>2. CASE req'[g] = req[g]
    <2> DEFINE b == req[g].bounty
    <2>1. req[g] \in Request /\ b \in Bounties
      BY <1>2 DEF TypeOK, Request
    <2>2. row[b] \in Row /\ row'[b] \in Row
      BY <1>1, <2>1 DEF TypeOK
    <2>3. Holds(req[g], row[b]) /\ Forward(row[b], row'[b])
      BY <1>2, <2>1, RowForward DEF RequestInv
    <2>4. QED
      BY <1>2, <2>1, <2>2, <2>3, HoldsForward
  <1>3. CASE req'[g] # req[g]
    BY <1>3, RequestEnters
  <1>4. QED
    BY <1>2, <1>3

LEMMA RequestAlways == Spec => []RequestInv
  <1>1. Init => RequestInv
    BY DEF Init, RequestInv
  <1>2. TypeOK /\ RequestInv /\ [Next]_vars => RequestInv'
    BY RequestStep
  <1>3. QED
    BY <1>1, <1>2, TypeCorrect, PTL DEF Spec

\* ApprovalIsBacked for any number of concurrent requests: what is checked at the first
\* step of an approval still holds at its commit, if the submission is the same.
THEOREM ApprovalsAreBacked == Spec => ApprovalIsBacked
  <1> DEFINE Backed ==
        \A h \in Handlers :
          LET b == req[h].bounty IN
            /\ req[h].op = "approve"
            /\ row[b].status = "submitted"
            /\ row'[b].status = "approved"
            /\ req[h].work = row[b].work
            => Gates(row[b], req[h].by, req[h].override)
  <1>1. RequestInv /\ [Next]_vars => [Backed]_vars
    BY DEF RequestInv, Holds, Idle
  <1>2. QED
    BY <1>1, RequestAlways, PTL DEF Spec, ApprovalIsBacked

LEMMA ReviewerStep ==
  ASSUME TypeOK, RequestInv, ReviewerIsIndependent, [Next]_vars
  PROVE  ReviewerIsIndependent'
  <1>0. \A b \in Bounties : row[b] \in Row
    BY DEF TypeOK
  <1>1. ASSUME NEW b \in Bounties, NEW p \in Wallets, NEW code \in BOOLEAN, create_bounty(b, p, code)
        PROVE  ReviewerIsIndependent'
    BY <1>0, <1>1 DEF create_bounty, TypeOK, ReviewerIsIndependent, Row, Update
  <1>2. ASSUME NEW b \in Bounties, NEW a \in Agents, NEW w \in Wallets \cup {None}, claim_bounty(b, a, w)
        PROVE  ReviewerIsIndependent'
    BY <1>0, <1>2 DEF claim_bounty, TypeOK, ReviewerIsIndependent, Row, Update
  <1>3. ASSUME NEW b \in Bounties, NEW a \in Agents, NEW w \in Wallets \cup {None},
               NEW h \in Handlers, NEW rc \in BOOLEAN, submit_work(h, b, a, w, rc)
        PROVE  ReviewerIsIndependent'
    BY <1>0, <1>3 DEF submit_work, TypeOK, ReviewerIsIndependent, Row, Update
  <1>4. ASSUME NEW b \in Bounties, NEW w \in Wallets, verify_submission(b, w)
        PROVE  ReviewerIsIndependent'
    BY <1>0, <1>4 DEF verify_submission, TypeOK, ReviewerIsIndependent, Row, Update
  <1>5. ASSUME NEW b \in Bounties, NEW w \in Wallets, NEW h \in Handlers, approve_read(h, b, w)
        PROVE  ReviewerIsIndependent'
    BY <1>0, <1>5 DEF approve_read, TypeOK, ReviewerIsIndependent, Row, Update
  <1>6. ASSUME NEW b \in Bounties, NEW w \in Wallets, NEW h \in Handlers, reject_read(h, b, w)
        PROVE  ReviewerIsIndependent'
    BY <1>0, <1>6 DEF reject_read, TypeOK, ReviewerIsIndependent, Row, Update
  <1>7. ASSUME NEW b \in Bounties, NEW w \in Wallets, NEW h \in Handlers, revision_read(h, b, w)
        PROVE  ReviewerIsIndependent'
    BY <1>0, <1>7 DEF revision_read, TypeOK, ReviewerIsIndependent, Row, Update
  <1>8. ASSUME NEW h \in Handlers, store_receipt(h)
        PROVE  ReviewerIsIndependent'
    BY <1>0, <1>8 DEF store_receipt, TypeOK, ReviewerIsIndependent, Row, Update
  <1>9. ASSUME NEW h \in Handlers, approve_write(h)
        PROVE  ReviewerIsIndependent'
    <2>1. req[h].by \in Trusted \cap Council /\ req[h].by # row[req[h].bounty].poster
      BY <1>9 DEF approve_write, RequestInv, Holds, Idle
    <2>2. QED
      BY <1>9, <2>1, ApproveWriteEffect DEF ReviewerIsIndependent
  <1>10. ASSUME NEW h \in Handlers, reject_write(h)
        PROVE  ReviewerIsIndependent'
    BY <1>0, <1>10 DEF reject_write, TypeOK, ReviewerIsIndependent, Row, Update
  <1>11. ASSUME NEW h \in Handlers, revision_write(h)
        PROVE  ReviewerIsIndependent'
    BY <1>11, RevisionWriteEffect DEF ReviewerIsIndependent
  <1>12. ASSUME NEW h \in Handlers, abandon(h)
        PROVE  ReviewerIsIndependent'
    BY <1>0, <1>12 DEF abandon, TypeOK, ReviewerIsIndependent, Row, Update
  <1>13. CASE UNCHANGED vars
    BY <1>13 DEF vars, TypeOK, ReviewerIsIndependent, Row, Update
  <1>14. QED
    BY <1>1, <1>2, <1>3, <1>4, <1>5, <1>6, <1>7, <1>8, <1>9, <1>10, <1>11, <1>12, <1>13
       DEF Next, Worker, Reviewer, Commit

\* ReviewerIsIndependent for any number of concurrent requests.
THEOREM ReviewersAreIndependent == Spec => []ReviewerIsIndependent
  <1>1. Init => ReviewerIsIndependent
    BY DEF Init, NoRow, ReviewerIsIndependent
  <1>2. TypeOK /\ RequestInv /\ ReviewerIsIndependent /\ [Next]_vars => ReviewerIsIndependent'
    BY ReviewerStep
  <1>3. QED
    BY <1>1, <1>2, TypeCorrect, RequestAlways, PTL DEF Spec

-----------------------------------------------------------------------------
(* The revision limit.  A request for revision in flight is a revision to come: the count *)
(* on the row and the requests that may still raise it are bounded together.              *)

Revising(b) == {h \in Handlers : req[h].op = "revise" /\ req[h].bounty = b}

Bounded(b) ==
  row[b].revisions + Cardinality(Revising(b)) + 1 <= MaxRevisions + Cardinality(Handlers)

RevisionInv == \A b \in Bounties : Bounded(b)

LEMMA RevisingFinite ==
  ASSUME NEW b \in Bounties
  PROVE  /\ IsFiniteSet(Revising(b))
         /\ Cardinality(Revising(b)) \in Nat
         /\ Cardinality(Handlers) \in Nat
         /\ Cardinality(Revising(b)) <= Cardinality(Handlers)
  <1>1. Revising(b) \subseteq Handlers
    BY DEF Revising
  <1>2. QED
    BY <1>1, LimitsAssumption, FS_Subset, FS_CardinalityType

LEMMA RevisingNextFinite ==
  ASSUME NEW b \in Bounties
  PROVE  /\ IsFiniteSet(Revising(b)')
         /\ Cardinality(Revising(b)') \in Nat
         /\ Cardinality(Revising(b)') <= Cardinality(Handlers)
  <1>1. Revising(b)' \subseteq Handlers
    BY DEF Revising
  <1>2. QED
    BY <1>1, LimitsAssumption, FS_Subset, FS_CardinalityType

\* A step that leaves the count of b alone and starts no revision of b keeps the bound.
Quiet(b) ==
  /\ row'[b].revisions = row[b].revisions
  /\ Revising(b)' \subseteq Revising(b)

LEMMA QuietStep ==
  ASSUME TypeOK, RevisionInv, NEW b \in Bounties, Quiet(b)
  PROVE  Bounded(b)'
  <1>1. Cardinality(Revising(b)') <= Cardinality(Revising(b))
    BY RevisingFinite, FS_Subset DEF Quiet
  <1>2. row[b].revisions \in Nat
    BY DEF TypeOK, Row
  <1>3. QED
    BY <1>1, <1>2, RevisingFinite, RevisingNextFinite, LimitsAssumption
       DEF Quiet, RevisionInv, Bounded

LEMMA QuietOrBounded ==
  ASSUME TypeOK, RevisionInv, [Next]_vars
  PROVE  \A d \in Bounties : Quiet(d) \/ Bounded(d)'
  <1>0. \A b \in Bounties : row[b] \in Row
    BY DEF TypeOK
  <1>1. ASSUME NEW b \in Bounties, NEW p \in Wallets, NEW code \in BOOLEAN, create_bounty(b, p, code)
        PROVE  \A d \in Bounties : Quiet(d) \/ Bounded(d)'
    BY <1>0, <1>1 DEF create_bounty, TypeOK, Quiet, Revising, Row, Update, Hold, Done, Idle
  <1>2. ASSUME NEW b \in Bounties, NEW a \in Agents, NEW w \in Wallets \cup {None}, claim_bounty(b, a, w)
        PROVE  \A d \in Bounties : Quiet(d) \/ Bounded(d)'
    BY <1>0, <1>2 DEF claim_bounty, TypeOK, Quiet, Revising, Row, Update, Hold, Done, Idle
  <1>3. ASSUME NEW b \in Bounties, NEW a \in Agents, NEW w \in Wallets \cup {None},
               NEW h \in Handlers, NEW rc \in BOOLEAN, submit_work(h, b, a, w, rc)
        PROVE  \A d \in Bounties : Quiet(d) \/ Bounded(d)'
    BY <1>0, <1>3 DEF submit_work, TypeOK, Quiet, Revising, Row, Update, Hold, Done, Idle
  <1>4. ASSUME NEW b \in Bounties, NEW w \in Wallets, verify_submission(b, w)
        PROVE  \A d \in Bounties : Quiet(d) \/ Bounded(d)'
    BY <1>0, <1>4 DEF verify_submission, TypeOK, Quiet, Revising, Row, Update, Hold, Done, Idle
  <1>5. ASSUME NEW b \in Bounties, NEW w \in Wallets, NEW h \in Handlers, approve_read(h, b, w)
        PROVE  \A d \in Bounties : Quiet(d) \/ Bounded(d)'
    BY <1>0, <1>5 DEF approve_read, TypeOK, Quiet, Revising, Row, Update, Hold, Done, Idle
  <1>6. ASSUME NEW b \in Bounties, NEW w \in Wallets, NEW h \in Handlers, reject_read(h, b, w)
        PROVE  \A d \in Bounties : Quiet(d) \/ Bounded(d)'
    BY <1>0, <1>6 DEF reject_read, TypeOK, Quiet, Revising, Row, Update, Hold, Done, Idle
  <1>7. ASSUME NEW b \in Bounties, NEW w \in Wallets, NEW h \in Handlers, revision_read(h, b, w)
        PROVE  \A d \in Bounties : Quiet(d) \/ Bounded(d)'
    <2> SUFFICES ASSUME NEW d \in Bounties
                 PROVE  Quiet(d) \/ Bounded(d)'
      OBVIOUS
    <2>1. CASE d = b
      <3>1. row'[b].revisions = row[b].revisions /\ row[b].revisions < MaxRevisions
            /\ row[b].revisions \in Nat
        BY <1>0, <1>7 DEF revision_read, Row
      <3>2. Bounded(b)'
        BY <3>1, RevisingFinite, RevisingNextFinite, LimitsAssumption DEF Bounded
      <3>3. QED
        BY <2>1, <3>2
    <2>2. CASE d # b
      <3>1. row'[d].revisions = row[d].revisions
        BY <1>7 DEF revision_read
      <3>2. \A g \in Handlers : req'[g].bounty = d => req'[g] = req[g]
        BY <1>7, <2>2 DEF revision_read, TypeOK, Hold
      <3>3. Revising(d)' \subseteq Revising(d)
        BY <3>2 DEF Revising
      <3>4. QED
        BY <3>1, <3>3 DEF Quiet
    <2>3. QED
      BY <2>1, <2>2
  <1>8. ASSUME NEW h \in Handlers, store_receipt(h)
        PROVE  \A d \in Bounties : Quiet(d) \/ Bounded(d)'
    BY <1>0, <1>8 DEF store_receipt, TypeOK, Quiet, Revising, Row, Update, Hold, Done, Idle
  <1>9. ASSUME NEW h \in Handlers, approve_write(h)
        PROVE  \A d \in Bounties : Quiet(d) \/ Bounded(d)'
    <2>1. \A d \in Bounties : row'[d].revisions = row[d].revisions
      BY <1>9, ApproveWriteEffect
    <2>2. \A d \in Bounties : Revising(d)' \subseteq Revising(d)
      BY <1>9 DEF approve_write, TypeOK, Revising, Done, Idle
    <2>3. QED
      BY <2>1, <2>2 DEF Quiet
  <1>10. ASSUME NEW h \in Handlers, reject_write(h)
        PROVE  \A d \in Bounties : Quiet(d) \/ Bounded(d)'
    BY <1>0, <1>10 DEF reject_write, TypeOK, Quiet, Revising, Row, Update, Hold, Done, Idle
  <1>11. ASSUME NEW h \in Handlers, revision_write(h)
        PROVE  \A d \in Bounties : Quiet(d) \/ Bounded(d)'
    <2> SUFFICES ASSUME NEW d \in Bounties
                 PROVE  Quiet(d) \/ Bounded(d)'
      OBVIOUS
    <2>1. Revising(d)' = Revising(d) \ {h}
      BY <1>11 DEF revision_write, TypeOK, Revising, Done, Idle
    <2>2. CASE row'[d] = row[d]
      BY <2>1, <2>2 DEF Quiet
    <2>3. CASE row'[d] # row[d]
      <3>1. d = req[h].bounty /\ row'[d].revisions = row[d].revisions + 1
        BY <1>11, <2>3, RevisionWriteEffect
      <3>2. h \in Revising(d)
        BY <1>11, <3>1 DEF revision_write, Revising
      <3>3. Cardinality(Revising(d)') = Cardinality(Revising(d)) - 1
        BY <2>1, <3>2, RevisingFinite, FS_RemoveElement, ZenonT(60)
      <3>4. row[d].revisions \in Nat
        BY <1>0 DEF Row
      <3>5. Bounded(d)'
        BY <3>1, <3>3, <3>4, RevisingFinite, LimitsAssumption DEF RevisionInv, Bounded
      <3>6. QED
        BY <3>5
    <2>4. QED
      BY <2>2, <2>3
  <1>12. ASSUME NEW h \in Handlers, abandon(h)
        PROVE  \A d \in Bounties : Quiet(d) \/ Bounded(d)'
    BY <1>0, <1>12 DEF abandon, TypeOK, Quiet, Revising, Row, Update, Hold, Done, Idle
  <1>13. CASE UNCHANGED vars
    BY <1>13 DEF vars, TypeOK, Quiet, Revising, Row, Update, Hold, Done, Idle
  <1>14. QED
    BY <1>1, <1>2, <1>3, <1>4, <1>5, <1>6, <1>7, <1>8, <1>9, <1>10, <1>11, <1>12, <1>13
       DEF Next, Worker, Reviewer, Commit

\* RevisionOvershoot for any number N of concurrent requests and any limit: the count never
\* passes the limit by more than N - 1.
THEOREM RevisionsAreBounded == Spec => []RevisionOvershoot
  <1>1. Init => RevisionInv
    <2> SUFFICES ASSUME Init, NEW b \in Bounties
                 PROVE  Bounded(b)
      BY DEF RevisionInv
    <2>1. row[b].revisions = 0 /\ Revising(b) = {}
      BY DEF Init, NoRow, Idle, Revising
    <2>2. QED
      BY <2>1, FS_EmptySet, RevisingFinite, LimitsAssumption DEF Bounded
  <1>2. TypeOK /\ RevisionInv /\ [Next]_vars => RevisionInv'
    <2> SUFFICES ASSUME TypeOK, RevisionInv, [Next]_vars, NEW b \in Bounties
                 PROVE  Bounded(b)'
      BY DEF RevisionInv
    <2>1. QED
      BY QuietOrBounded, QuietStep
  <1>3. TypeOK /\ RevisionInv => RevisionOvershoot
    <2> SUFFICES ASSUME TypeOK, RevisionInv, NEW b \in Bounties
                 PROVE  row[b].revisions + 1 <= MaxRevisions + Cardinality(Handlers)
      BY DEF RevisionOvershoot
    <2>1. row[b].revisions \in Nat
      BY DEF TypeOK, Row
    <2>2. QED
      BY <2>1, RevisingFinite, LimitsAssumption DEF RevisionInv, Bounded
  <1>4. QED
    BY <1>1, <1>2, <1>3, TypeCorrect, PTL DEF Spec

=============================================================================
