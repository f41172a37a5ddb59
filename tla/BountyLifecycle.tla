--------------------------- MODULE BountyLifecycle ---------------------------
(***************************************************************************)
(* The bounty board of the relay: the rows of relay_bounties, from posting *)
(* to the reviewer's decision (amos-relay/src/routes/bounties.rs).          *)
(*                                                                         *)
(* The handlers run concurrently, and each SQL statement is atomic.  A     *)
(* handler that reads a row, checks what it read and then updates the row  *)
(* is two actions here, with its request held in `req' in between; one     *)
(* that is a single guarded UPDATE is one action.  Between the two steps   *)
(* of a request the row may be changed by the others, and the request may  *)
(* be dropped (30 s timeout layer, client disconnect, crash, SQL error).   *)
(*                                                                         *)
(* What a submission contains is abstracted to its number: the n-th        *)
(* submission of a bounty is n, so that a receipt, a verification and a    *)
(* decision can be compared with the work they are about.  0 stands for    *)
(* SQL NULL in those columns.                                              *)
(*                                                                         *)
(* A definition followed by one with the same name and no suffix           *)
(* (approve_read_no_gate, ...) is a faulty variant of it, used only to see *)
(* that the properties tell the two apart.                                 *)
(***************************************************************************)
EXTENDS Naturals, FiniteSets

CONSTANTS
  Bounties,      \* bounty ids
  Agents,        \* agent ids
  Wallets,       \* wallet addresses of posters, workers and reviewers
  Handlers,      \* the HTTP requests that may be in flight together
  Trusted,       \* wallets of active agents with trust_level >= QA_TRUST_LEVEL
  Council,       \* wallets of council members
  MaxRevisions,  \* MAX_REVISIONS
  None           \* SQL NULL for ids and wallets

ASSUME WalletsAssumption ==
  /\ Trusted \subseteq Wallets
  /\ Council \subseteq Wallets
  /\ None \notin Wallets \cup Agents \cup Bounties

ASSUME LimitsAssumption ==
  /\ MaxRevisions \in Nat \ {0}
  /\ IsFiniteSet(Handlers)

VARIABLES
  row,  \* the relay_bounties table
  req   \* what each request in flight remembers from its first step

vars == <<row, req>>

Statuses == {"unposted", "open", "claimed", "submitted", "approved", "rejected"}

Row == [ status    : Statuses,
         code      : BOOLEAN,               \* category is infrastructure or research
         poster    : Wallets \cup {None},   \* poster_wallet
         agent     : Agents \cup {None},    \* claimed_by_agent_id
         wallet    : Wallets \cup {None},   \* claimed_by_wallet
         work      : Nat,                   \* result, submitted_at: the submission on the row
         receipt   : Nat,                   \* proof_receipt: the submission it came with
         verified  : Nat,                   \* verified_at: the submission it was recorded on
         revisions : Nat,                   \* revision_count
         reviewer  : Wallets \cup {None},   \* reviewer_wallet
         override  : BOOLEAN ]              \* gate_override_reason IS NOT NULL

NoRow == [ status |-> "unposted", code |-> FALSE, poster |-> None,
           agent |-> None, wallet |-> None, work |-> 0, receipt |-> 0, verified |-> 0,
           revisions |-> 0, reviewer |-> None, override |-> FALSE ]

Idle == [ op |-> "idle", bounty |-> None, by |-> None, override |-> FALSE, work |-> 0 ]

\* A request between its two steps.  `work' is the submission the row held at the
\* first step (for a receipt, the submission the receipt is for).
Request == [ op       : {"receipt", "approve", "reject", "revise"},
             bounty   : Bounties,
             by       : Wallets \cup {None},
             override : BOOLEAN,
             work     : Nat ]

TypeOK ==
  /\ row \in [Bounties -> Row]
  /\ req \in [Handlers -> Request \cup {Idle}]

Init ==
  /\ row = [b \in Bounties |-> NoRow]
  /\ req = [h \in Handlers |-> Idle]

-----------------------------------------------------------------------------
\* Checks the handlers share.

\* The strict gate of approve_submission: a code bounty has a receipt.
HasReceipt(r) == r.code => r.receipt # 0

\* Separation of duties against what the row says now: nobody decides on a bounty of
\* their own.  A NULL claimed_by_wallet matches nobody.
Independent(r, w) == w # r.poster /\ w # r.wallet

\* The request h enters its second step on bounty b, decided by wallet w.
Hold(h, op, b, w, ov) ==
  req' = [req EXCEPT ![h] = [ op |-> op, bounty |-> b, by |-> w, override |-> ov,
                              work |-> row[b].work ]]

\* UPDATE relay_bounties ... WHERE id = b.
Update(b, r) == row' = [row EXCEPT ![b] = r]

Done(h) == req' = [req EXCEPT ![h] = Idle]

-----------------------------------------------------------------------------
\* Posting and claiming: one statement each.

create_bounty(b, p, code) ==
  /\ row[b].status = "unposted"
  /\ Update(b, [row[b] EXCEPT !.status = "open", !.poster = p, !.code = code])
  /\ UNCHANGED req

claim_bounty_wrong_status(b, a, w) ==
  /\ row[b].status = "open"
  /\ Update(b, [row[b] EXCEPT !.status = "assigned", !.agent = a, !.wallet = w])
  /\ UNCHANGED req

claim_bounty(b, a, w) ==
  /\ row[b].status = "open"
  /\ Update(b, [row[b] EXCEPT !.status = "claimed", !.agent = a, !.wallet = w])
  /\ UNCHANGED req

\* The guarded UPDATE of submit_work.  The wallet is stored if the claim gave none.
\* The receipt is not in this statement: the request goes on to store_receipt.
submit_work(h, b, a, w, withReceipt) ==
  /\ req[h] = Idle
  /\ row[b].status = "claimed"
  /\ row[b].agent = a
  /\ Update(b, [row[b] EXCEPT !.status = "submitted",
                              !.work   = @ + 1,
                              !.wallet = IF @ = None THEN w ELSE @])
  /\ IF withReceipt
       THEN req' = [req EXCEPT ![h] = [ op |-> "receipt", bounty |-> b, by |-> None,
                                        override |-> FALSE, work |-> row[b].work + 1 ]]
       ELSE UNCHANGED req

\* The second statement of submit_work: WHERE id = $3 and nothing else.
store_receipt(h) ==
  /\ req[h].op = "receipt"
  /\ LET b == req[h].bounty IN Update(b, [row[b] EXCEPT !.receipt = req[h].work])
  /\ Done(h)

-----------------------------------------------------------------------------
\* Verification by the QA bot: one guarded UPDATE.

verify_submission(b, v) ==
  /\ v \in Trusted
  /\ row[b].status = "submitted"
  /\ row[b].verified = 0
  /\ Update(b, [row[b] EXCEPT !.verified = row[b].work])
  /\ UNCHANGED req

-----------------------------------------------------------------------------
\* Approval.  The first step reads the row and makes every check; the statement that
\* commits asks only that the status is still 'submitted'.

approve_read_no_gate(h, b, w) ==
  /\ req[h] = Idle
  /\ row[b].status = "submitted"
  /\ row[b].verified # 0
  /\ Independent(row[b], w)
  /\ w \in Trusted \cap Council
  /\ Hold(h, "approve", b, w, FALSE)
  /\ UNCHANGED row

approve_read_no_duties(h, b, w) ==
  /\ req[h] = Idle
  /\ row[b].status = "submitted"
  /\ row[b].verified # 0
  /\ w # row[b].wallet
  /\ w \in Trusted
  /\ Hold(h, "approve", b, w, ~HasReceipt(row[b]))
  /\ UNCHANGED row

\* A code bounty without a receipt goes on only with an override reason, kept on the row.
approve_read(h, b, w) ==
  /\ req[h] = Idle
  /\ row[b].status = "submitted"
  /\ row[b].verified # 0
  /\ Independent(row[b], w)
  /\ w \in Trusted \cap Council
  /\ Hold(h, "approve", b, w, ~HasReceipt(row[b]))
  /\ UNCHANGED row

approve_write(h) ==
  /\ req[h].op = "approve"
  /\ LET b == req[h].bounty IN
     IF row[b].status = "submitted"
       THEN Update(b, [row[b] EXCEPT !.status   = "approved",
                                     !.reviewer = req[h].by,
                                     !.override = req[h].override])
       ELSE UNCHANGED row   \* 409 CONFLICT
  /\ Done(h)

-----------------------------------------------------------------------------
\* Rejection.

reject_read(h, b, w) ==
  /\ req[h] = Idle
  /\ row[b].status = "submitted"
  /\ Independent(row[b], w)
  /\ w \in Trusted
  /\ Hold(h, "reject", b, w, FALSE)
  /\ UNCHANGED row

reject_write_unguarded(h) ==
  /\ req[h].op = "reject"
  /\ LET b == req[h].bounty IN Update(b, [row[b] EXCEPT !.status = "rejected"])
  /\ Done(h)

reject_write(h) ==
  /\ req[h].op = "reject"
  /\ LET b == req[h].bounty IN
     IF row[b].status = "submitted"
       THEN Update(b, [row[b] EXCEPT !.status = "rejected"])
       ELSE UNCHANGED row
  /\ Done(h)

-----------------------------------------------------------------------------
\* A request for revision sends the work back to its agent.

revision_read_no_limit(h, b, w) ==
  /\ req[h] = Idle
  /\ row[b].status = "submitted"
  /\ w \in Trusted
  /\ Independent(row[b], w)
  /\ row[b].revisions <= MaxRevisions
  /\ Hold(h, "revise", b, w, FALSE)
  /\ UNCHANGED row

revision_read(h, b, w) ==
  /\ req[h] = Idle
  /\ row[b].status = "submitted"
  /\ w \in Trusted
  /\ Independent(row[b], w)
  /\ row[b].revisions < MaxRevisions
  /\ Hold(h, "revise", b, w, FALSE)
  /\ UNCHANGED row

revision_write_keeps_verification(h) ==
  /\ req[h].op = "revise"
  /\ LET b == req[h].bounty IN
     IF row[b].status = "submitted"
       THEN Update(b, [row[b] EXCEPT !.status    = "claimed",
                                     !.revisions = @ + 1,
                                     !.receipt   = 0])
       ELSE UNCHANGED row
  /\ Done(h)

revision_write(h) ==
  /\ req[h].op = "revise"
  /\ LET b == req[h].bounty IN
     IF row[b].status = "submitted"
       THEN Update(b, [row[b] EXCEPT !.status    = "claimed",
                                     !.revisions = @ + 1,
                                     !.verified  = 0,
                                     !.receipt   = 0])
       ELSE UNCHANGED row
  /\ Done(h)

-----------------------------------------------------------------------------
\* The request is dropped before its second statement, or that statement fails.
abandon(h) ==
  /\ req[h] # Idle
  /\ Done(h)
  /\ UNCHANGED row

Worker ==
  \E b \in Bounties, a \in Agents, w \in Wallets \cup {None} :
    \/ claim_bounty(b, a, w)
    \/ \E h \in Handlers, withReceipt \in BOOLEAN : submit_work(h, b, a, w, withReceipt)

Reviewer ==
  \E b \in Bounties, w \in Wallets :
    \/ \E code \in BOOLEAN : create_bounty(b, w, code)
    \/ verify_submission(b, w)
    \/ \E h \in Handlers :
         \/ approve_read(h, b, w)
         \/ reject_read(h, b, w)
         \/ revision_read(h, b, w)

Commit ==
  \E h \in Handlers :
    \/ store_receipt(h)
    \/ approve_write(h)
    \/ reject_write(h)
    \/ revision_write(h)
    \/ abandon(h)

Next == Worker \/ Reviewer \/ Commit

Spec == Init /\ [][Next]_vars

-----------------------------------------------------------------------------
\* Properties.

\* A verification on a row is of the submission the row holds, never of an earlier one:
\* a row that is back with its agent carries none, whatever requests were in flight.
VerificationIsFresh ==
  \A b \in Bounties :
    row[b].verified # 0 =>
      /\ row[b].verified = row[b].work
      /\ row[b].status \in {"submitted", "approved", "rejected"}

\* Whoever approved a bounty is on the council, is trusted and did not post it, even when
\* the row changed between the reviewer's checks and the commit.
ReviewerIsIndependent ==
  \A b \in Bounties :
    row[b].status = "approved" =>
      /\ row[b].reviewer \in Trusted \cap Council
      /\ row[b].reviewer # row[b].poster

\* The revision limit is checked on a row read earlier.  However the requests interleave,
\* N requests in flight take the count past the limit by at most N - 1.
RevisionOvershoot ==
  \A b \in Bounties : row[b].revisions + 1 <= MaxRevisions + Cardinality(Handlers)

\* The gates of approve_submission as they stand on a row.
Gates(r, w, ov) ==
  /\ r.verified # 0
  /\ HasReceipt(r) \/ ov
  /\ w # r.wallet

\* A decision made on the submission the row still holds is backed, at the commit, by a
\* verification, by a receipt or an override, and by a reviewer who is not the worker.
\* Only an approval whose checks looked at an earlier submission can lack them.
ApprovalIsBacked ==
  [][\A h \in Handlers :
       LET b == req[h].bounty IN
         /\ req[h].op = "approve"
         /\ row[b].status = "submitted"
         /\ row'[b].status = "approved"
         /\ req[h].work = row[b].work
         => Gates(row[b], req[h].by, req[h].override)]_vars

\* A decision is final: once a row is approved or rejected no request, however old,
\* changes its status, the reviewer it names, or who is to be paid for it.
DecisionIsFinal ==
  [][\A b \in Bounties :
       row[b].status \in {"approved", "rejected"} =>
         /\ row'[b].status = row[b].status
         /\ row'[b].reviewer = row[b].reviewer
         /\ row'[b].wallet = row[b].wallet
         /\ row'[b].agent = row[b].agent]_vars

\* What the comment on approve_submission promises: "Requires verification: the bounty
\* must have been verified first".  A revision and a new submission between the check
\* and the commit defeat it.
VerifiedBeforeApproval ==
  \A b \in Bounties : row[b].status = "approved" => row[b].verified # 0

=============================================================================
