----------------------------- MODULE Settlement ------------------------------
(***************************************************************************)
(* Settlement of approved bounties: the payout at the end of               *)
(* approve_submission, the background loop of settlement_retry.rs, the     *)
(* manual /settle endpoint, and what may happen to the row meanwhile       *)
(* (pushback, the GitHub webhook, record_merge), over a database whose     *)
(* every statement may fail and a chain on which a transaction may land    *)
(* after its sender was told that it failed.                               *)
(*                                                                         *)
(* A process is an HTTP request or the loop.  It takes one step per        *)
(* statement or RPC call; `pc' names the one it is about to make.  Errors  *)
(* of the writes here are ignored by the code (let _ = ...), so the        *)
(* process goes on as if the write had been made.                          *)
(*                                                                         *)
(* The relay is assumed to be configured for Solana.  Where it is not, the *)
(* approval pays nothing, the loop does nothing and /settle refuses: an    *)
(* approved row stays 'pending'.                                           *)
(*                                                                         *)
(* On chain a bounty is paid by submit_bounty_proof, whose bounty_proof    *)
(* account can be initialized once.  A transaction that was broadcast may  *)
(* land until its blockhash expires, whatever becomes of its sender.       *)
(*                                                                         *)
(* Definitions with a suffix (land_twice, ...) that precede one without    *)
(* are faulty variants, used only to see that the properties matter.       *)
(***************************************************************************)
EXTENDS Naturals, FiniteSets

CONSTANTS
  Bounties,
  Requests,    \* HTTP requests that may be in flight together
  Loop,        \* the settlement retry task
  Orphan,      \* stands for the sender of a transaction that no process waits for
  Shas,        \* merge commits the auto-merge bot may report
  MaxRetries,  \* MAX_RETRIES
  MaxFaults,   \* bound of the model: crashes, dropped requests, failed statements and reads
  None

Procs == Requests \cup {Loop}

ASSUME ProcsAssumption ==
  /\ Loop \notin Requests
  /\ Orphan \notin Procs
  /\ None \notin Bounties \cup Procs \cup Shas \cup {Orphan}

ASSUME LimitsAssumption ==
  /\ MaxRetries \in Nat \ {0}
  /\ MaxFaults \in Nat

VARIABLES
  row,     \* relay_bounties, the columns settlement uses
  ledger,  \* protocol_fee_ledger
  proc,    \* what each process is doing
  batch,   \* the rows the loop fetched and has still to treat
  net,     \* transactions broadcast and neither landed nor expired
  chain,   \* the sender of the transaction that made the bounty_proof account
  paid,    \* how often the bounty was paid on chain
  faults   \* faults so far

vars == <<row, ledger, proc, batch, net, chain, paid, faults>>

\* Of a quality score only one thing matters here: whether submit_bounty_proof accepts it
\* (MIN_QUALITY_SCORE).  No score counts as 70 in a payout and as 85 in a pushback: accepted.
Quality == {"accepted", "low"}

Row == [ status     : {"submitted", "approved"},
         settlement : {"pending", "failed", "settled", "permanently_failed"},
         tx         : BOOLEAN,                     \* settlement_tx IS NOT NULL
         retries    : Nat,                         \* settlement_retry_count
         wallet     : {"none", "claim", "agent"},  \* where the worker's wallet is found
         submitter  : BOOLEAN,                     \* intake_submitter_wallet IS NOT NULL
         payout     : BOOLEAN,                     \* intake_submitter_payout_status = 'pending'
         quality    : Quality,                     \* quality_score
         merge      : Shas \cup {None} ]           \* merge_commit_sha

Proc == [ pc      : {"idle", "fee", "preflight", "reconcile_row", "reconcile_ledger", "count",
                     "send", "confirm", "settled_row", "settled_ledger", "refused", "give_up",
                     "pushback", "merge"},
          kind    : {"none", "approve", "manual", "loop", "pushback", "merge"},
          bounty  : Bounties \cup {None},
          retries : Nat,                           \* retry_count as the loop read it
          quality : Quality,                       \* quality_score as it was read
          sha     : Shas \cup {None} ]

Fetched == [bounty : Bounties, retries : Nat, quality : Quality]

Idle == [ pc |-> "idle", kind |-> "none", bounty |-> None, retries |-> 0,
          quality |-> "low", sha |-> None ]

TypeOK ==
  /\ row \in [Bounties -> Row]
  /\ ledger \in [Bounties -> {"absent", "unsettled", "settled"}]
  /\ proc \in [Procs -> Proc]
  /\ batch \in SUBSET Fetched
  /\ net \in [Bounties -> SUBSET (Procs \cup {Orphan})]
  /\ chain \in [Bounties -> Procs \cup {Orphan, None}]
  /\ paid \in [Bounties -> Nat]
  /\ faults \in Nat

Init ==
  /\ row \in [Bounties -> [ status : {"submitted"}, settlement : {"pending"}, tx : {FALSE},
                            retries : {0}, wallet : {"none", "claim", "agent"},
                            submitter : BOOLEAN, payout : {FALSE}, quality : {"accepted"},
                            merge : {None} ]]
  /\ ledger = [b \in Bounties |-> "absent"]
  /\ proc = [p \in Procs |-> Idle]
  /\ batch = {}
  /\ net = [b \in Bounties |-> {}]
  /\ chain = [b \in Bounties |-> None]
  /\ paid = [b \in Bounties |-> 0]
  /\ faults = 0

-----------------------------------------------------------------------------
Enter(p, kind, pc, b, retries, quality, sha) ==
  proc' = [proc EXCEPT ![p] = [ pc |-> pc, kind |-> kind, bounty |-> b, retries |-> retries,
                                quality |-> quality, sha |-> sha ]]

Goto(p, pc) == proc' = [proc EXCEPT ![p] = IF pc = "idle" THEN Idle ELSE [@ EXCEPT !.pc = pc]]

Fault == faults < MaxFaults /\ faults' = faults + 1

\* Nobody waits any more for the transactions of the processes in P.
Orphaned(P) ==
  [b \in Bounties |-> IF net[b] \cap P = {} THEN net[b] ELSE (net[b] \ P) \cup {Orphan}]

\* The statement after the one at the process's pc, whether or not that one succeeded.
NextPc(p) ==
  CASE proc[p].pc = "fee" ->
         IF row[proc[p].bounty].wallet = "none" THEN "idle" ELSE "preflight"
    [] proc[p].pc = "reconcile_row" -> "reconcile_ledger"
    [] proc[p].pc = "count" -> "send"
    [] proc[p].pc = "settled_row" /\ proc[p].kind # "approve" -> "settled_ledger"
    [] proc[p].pc = "settled_ledger" /\ proc[p].kind = "approve" -> "settled_row"
    [] OTHER -> "idle"

-----------------------------------------------------------------------------
\* Who starts a settlement.

\* approve_submission commits its decision (BountyLifecycle!approve_write).
approve_commit(p, b, q) ==
  /\ proc[p] = Idle
  /\ row[b].status = "submitted"
  /\ row' = [row EXCEPT ![b].status = "approved", ![b].quality = q]
  /\ Enter(p, "approve", "fee", b, 0, q, None)
  /\ UNCHANGED <<ledger, batch, net, chain, paid, faults>>

\* retry_settlement: its conditions are read once, before any RPC call.
retry_settlement(p, b) ==
  /\ proc[p] = Idle
  /\ row[b].status = "approved"
  /\ row[b].settlement = "failed"
  /\ row[b].wallet # "none"
  /\ Enter(p, "manual", "preflight", b, 0, row[b].quality, None)
  /\ UNCHANGED <<row, ledger, batch, net, chain, paid, faults>>

RetryableStatuses_with_pending == {"failed", "pending"}

RetryableStatuses == {"failed"}

Retryable_off_by_one(b) ==
  /\ row[b].status = "approved"
  /\ row[b].settlement \in RetryableStatuses
  /\ row[b].retries <= MaxRetries

Retryable(b) ==
  /\ row[b].status = "approved"
  /\ row[b].settlement \in RetryableStatuses
  /\ row[b].retries < MaxRetries

\* The loop wakes up and fetches rows to retry (at most five, oldest first: any subset here).
loop_fetch ==
  /\ proc[Loop] = Idle
  /\ batch = {}
  /\ \E S \in (SUBSET {b \in Bounties : Retryable(b)}) \ {{}} :
       batch' = {[bounty |-> b, retries |-> row[b].retries, quality |-> row[b].quality] : b \in S}
  /\ UNCHANGED <<row, ledger, proc, net, chain, paid, faults>>

\* It treats them one by one, with what it fetched: a row without a wallet is skipped.
loop_take(r) ==
  /\ proc[Loop] = Idle
  /\ batch' = batch \ {r}
  /\ IF row[r.bounty].wallet = "none"
       THEN UNCHANGED proc
       ELSE Enter(Loop, "loop", "preflight", r.bounty, r.retries, r.quality, None)
  /\ UNCHANGED <<row, ledger, net, chain, paid, faults>>

-----------------------------------------------------------------------------
\* The statements of a settlement.

\* The ledger row is inserted before any payout is tried.
record_fee(p) ==
  /\ proc[p].pc = "fee"
  /\ ledger' = [ledger EXCEPT ![proc[p].bounty] = "unsettled"]
  /\ Goto(p, NextPc(p))
  /\ UNCHANGED <<row, batch, net, chain, paid, faults>>

\* is_bounty_settled: does the bounty_proof account exist?
preflight(p) ==
  /\ proc[p].pc = "preflight"
  /\ Goto(p, IF chain[proc[p].bounty] # None THEN "reconcile_row"
             ELSE IF proc[p].kind = "loop" THEN "count" ELSE "send")
  /\ UNCHANGED <<row, ledger, batch, net, chain, paid, faults>>

\* The RPC read fails three times over.
preflight_error(p) ==
  /\ proc[p].pc = "preflight"
  /\ Fault
  /\ Goto(p, IF proc[p].kind = "approve" THEN "refused" ELSE "idle")
  /\ UNCHANGED <<row, ledger, batch, net, chain, paid>>

reconcile_row(p) ==
  /\ proc[p].pc = "reconcile_row"
  /\ row' = [row EXCEPT ![proc[p].bounty].settlement = "settled"]
  /\ Goto(p, NextPc(p))
  /\ UNCHANGED <<ledger, batch, net, chain, paid, faults>>

\* Reconciliation, and the record of a payment just made, mark the ledger row if there is one.
settle_ledger(p) ==
  /\ proc[p].pc \in {"reconcile_ledger", "settled_ledger"}
  /\ ledger' = [ledger EXCEPT ![proc[p].bounty] = IF @ = "absent" THEN @ ELSE "settled"]
  /\ Goto(p, NextPc(p))
  /\ UNCHANGED <<row, batch, net, chain, paid, faults>>

count_retry_null(p) ==   \* NULL + 1 is NULL
  /\ proc[p].pc = "count"
  /\ row' = [row EXCEPT ![proc[p].bounty].retries = IF @ = 0 THEN None ELSE @ + 1]
  /\ Goto(p, NextPc(p))
  /\ UNCHANGED <<ledger, batch, net, chain, paid, faults>>

count_retry_not(p) ==
  /\ proc[p].pc = "count"
  /\ Goto(p, NextPc(p))
  /\ UNCHANGED <<row, ledger, batch, net, chain, paid, faults>>

count_retry(p) ==
  /\ proc[p].pc = "count"
  /\ row' = [row EXCEPT ![proc[p].bounty].retries = @ + 1]
  /\ Goto(p, NextPc(p))
  /\ UNCHANGED <<ledger, batch, net, chain, paid, faults>>

\* process_bounty_payout broadcasts; a score below the minimum is refused at once.
send(p) ==
  /\ proc[p].pc = "send"
  /\ net' = IF proc[p].quality = "accepted"
              THEN [net EXCEPT ![proc[p].bounty] = @ \cup {p}] ELSE net
  /\ proc' = [proc EXCEPT ![p].pc = "confirm", ![p].quality = "low"]  \* not used any more
  /\ UNCHANGED <<row, ledger, batch, chain, paid, faults>>

confirm_ok_unchecked(p) ==
  /\ proc[p].pc = "confirm"
  /\ Goto(p, IF proc[p].kind = "approve" THEN "settled_ledger" ELSE "settled_row")
  /\ UNCHANGED <<row, ledger, batch, net, chain, paid, faults>>

\* Confirmed: this process's own transaction landed.
confirm_ok(p) ==
  /\ proc[p].pc = "confirm"
  /\ chain[proc[p].bounty] = p
  /\ Goto(p, IF proc[p].kind = "approve" THEN "settled_ledger" ELSE "settled_row")
  /\ UNCHANGED <<row, ledger, batch, net, chain, paid, faults>>

confirm_err_silent(p) ==
  /\ proc[p].pc = "confirm"
  /\ net' = Orphaned({p})
  /\ Goto(p, IF proc[p].kind = "loop" /\ proc[p].retries + 1 >= MaxRetries
               THEN "give_up" ELSE "idle")
  /\ UNCHANGED <<row, ledger, batch, chain, paid, faults>>

confirm_err_never_gives_up(p) ==
  /\ proc[p].pc = "confirm"
  /\ net' = Orphaned({p})
  /\ Goto(p, IF proc[p].kind = "approve" THEN "refused" ELSE "idle")
  /\ UNCHANGED <<row, ledger, batch, chain, paid, faults>>

\* Any error after any number of attempts: refused on chain, timed out, connection lost.  The
\* transaction may have landed, or land later.
confirm_err(p) ==
  /\ proc[p].pc = "confirm"
  /\ net' = Orphaned({p})
  /\ Goto(p, CASE proc[p].kind = "approve" -> "refused"
               [] proc[p].kind = "loop" /\ proc[p].retries + 1 >= MaxRetries -> "give_up"
               [] OTHER -> "idle")
  /\ UNCHANGED <<row, ledger, batch, chain, paid, faults>>

\* The row of a payment just made; it also queues the finder's fee of an intake submitter.
settle_row(p) ==
  /\ proc[p].pc = "settled_row"
  /\ row' = [row EXCEPT ![proc[p].bounty].settlement = "settled",
                        ![proc[p].bounty].tx         = TRUE,
                        ![proc[p].bounty].payout     = @ \/ row[proc[p].bounty].submitter]
  /\ Goto(p, NextPc(p))
  /\ UNCHANGED <<ledger, batch, net, chain, paid, faults>>

mark_failed(p) ==
  /\ proc[p].pc = "refused"
  /\ row' = [row EXCEPT ![proc[p].bounty].settlement = "failed"]
  /\ Goto(p, NextPc(p))
  /\ UNCHANGED <<ledger, batch, net, chain, paid, faults>>

mark_permanently_failed(p) ==
  /\ proc[p].pc = "give_up"
  /\ row' = [row EXCEPT ![proc[p].bounty].settlement = "permanently_failed"]
  /\ Goto(p, NextPc(p))
  /\ UNCHANGED <<ledger, batch, net, chain, paid, faults>>

\* A write fails and the process does not notice.
write_error(p) ==
  /\ proc[p].pc \in {"fee", "reconcile_row", "reconcile_ledger", "count", "settled_row",
                     "settled_ledger", "refused", "give_up"}
  /\ Fault
  /\ Goto(p, NextPc(p))
  /\ UNCHANGED <<row, ledger, batch, net, chain, paid>>

-----------------------------------------------------------------------------
\* What else changes an approved row.

\* 30 points off, not below 0: a score that was accepted may be low now.
Penalized(q) == IF q = "accepted" THEN Quality ELSE {"low"}

\* pushback reads the score of an approved bounty and writes it back 30 lower.
pushback_read(p, b) ==
  /\ proc[p] = Idle
  /\ row[b].status = "approved"
  /\ Enter(p, "pushback", "pushback", b, 0, row[b].quality, None)
  /\ UNCHANGED <<row, ledger, batch, net, chain, paid, faults>>

pushback_write(p) ==
  /\ proc[p].pc = "pushback"
  /\ \E q \in Penalized(proc[p].quality) : row' = [row EXCEPT ![proc[p].bounty].quality = q]
  /\ Goto(p, "idle")
  /\ UNCHANGED <<ledger, batch, net, chain, paid, faults>>

\* The pull request was closed without a merge: one statement, on a row of any status.
webhook_closed(b) ==
  /\ row[b].wallet = "claim"
  /\ \E q \in Penalized(row[b].quality) : row' = [row EXCEPT ![b].quality = q]
  /\ UNCHANGED <<ledger, proc, batch, net, chain, paid, faults>>

\* record_merge, for a row that has no merge yet; the others answer without a change.
merge_read(p, b, s) ==
  /\ proc[p] = Idle
  /\ row[b].status = "approved"
  /\ row[b].settlement = "settled"
  /\ row[b].merge = None
  /\ Enter(p, "merge", "merge", b, 0, "low", s)
  /\ UNCHANGED <<row, ledger, batch, net, chain, paid, faults>>

merge_write(p) ==
  /\ proc[p].pc = "merge"
  /\ row' = [row EXCEPT ![proc[p].bounty].merge = proc[p].sha]
  /\ Goto(p, "idle")
  /\ UNCHANGED <<ledger, batch, net, chain, paid, faults>>

-----------------------------------------------------------------------------
\* The chain and the failures.

land_twice(b, p) ==
  /\ p \in net[b]
  /\ chain' = [chain EXCEPT ![b] = p]
  /\ paid' = [paid EXCEPT ![b] = @ + 1]
  /\ net' = [net EXCEPT ![b] = @ \ {p}]
  /\ UNCHANGED <<row, ledger, proc, batch, faults>>

\* A transaction executes: the bounty_proof account is initialized and the worker paid.
land(b, p) ==
  /\ p \in net[b]
  /\ chain[b] = None
  /\ chain' = [chain EXCEPT ![b] = p]
  /\ paid' = [paid EXCEPT ![b] = @ + 1]
  /\ net' = [net EXCEPT ![b] = @ \ {p}]
  /\ UNCHANGED <<row, ledger, proc, batch, faults>>

\* Its blockhash expires, or it is refused (the account exists, the pool is empty, ...).
expire(b, p) ==
  /\ p \in net[b]
  /\ net' = [net EXCEPT ![b] = @ \ {p}]
  /\ UNCHANGED <<row, ledger, proc, batch, chain, paid, faults>>

\* A request is dropped at an await: the timeout layer, or the client disconnects.
abandon(p) ==
  /\ p \in Requests
  /\ proc[p] # Idle
  /\ Fault
  /\ net' = Orphaned({p})
  /\ Goto(p, "idle")
  /\ UNCHANGED <<row, ledger, batch, chain, paid>>

\* The relay stops and starts again: what was in memory is gone.
crash ==
  /\ \E p \in Procs : proc[p] # Idle
  /\ Fault
  /\ net' = Orphaned(Procs)
  /\ proc' = [p \in Procs |-> Idle]
  /\ batch' = {}
  /\ UNCHANGED <<row, ledger, chain, paid>>

\* The next statement or call of a process that is at work, made without a fault.
Step(p) ==
  \/ record_fee(p) \/ preflight(p) \/ reconcile_row(p) \/ settle_ledger(p) \/ count_retry(p)
  \/ send(p) \/ confirm_ok(p) \/ confirm_err(p) \/ settle_row(p) \/ mark_failed(p)
  \/ mark_permanently_failed(p) \/ pushback_write(p) \/ merge_write(p)

LoopStep ==
  \/ loop_fetch
  \/ \E r \in batch : loop_take(r)
  \/ Step(Loop)

Start(p) ==
  \E b \in Bounties :
    \/ \E q \in Quality : approve_commit(p, b, q)
    \/ retry_settlement(p, b)
    \/ pushback_read(p, b)
    \/ \E s \in Shas : merge_read(p, b, s)

Chain == \E b \in Bounties : \E p \in net[b] : land(b, p) \/ expire(b, p)

Failure ==
  \/ \E p \in Procs : preflight_error(p) \/ write_error(p) \/ abandon(p)
  \/ crash

Next ==
  \/ \E p \in Requests : Start(p) \/ Step(p)
  \/ LoopStep
  \/ \E b \in Bounties : webhook_closed(b)
  \/ Chain
  \/ Failure

Spec == Init /\ [][Next]_vars

\* The loop is a spawned task that sleeps and goes on; a transaction lands or expires.
\* Nothing is assumed of the clients: no request need ever be made.
Fairness ==
  /\ WF_vars(LoopStep)
  /\ \A p \in Requests : WF_vars(Step(p))
  /\ WF_vars(Chain)

FairSpec == Spec /\ Fairness

-----------------------------------------------------------------------------
\* Properties.

Settling(p, b) == proc[p].bounty = b /\ proc[p].kind \in {"approve", "manual", "loop"}

\* The relay never believes in a payment that was not made: a row that is settled, carries a
\* transaction, has the finder's fee queued or its pull request merged, and a settled ledger
\* row, stand for a bounty that was paid, whoever wrote them and however late.
BooksFollowChain ==
  \A b \in Bounties :
    \/ row[b].settlement = "settled" \/ row[b].tx \/ row[b].payout \/ row[b].merge # None
    \/ ledger[b] = "settled"
    => paid[b] = 1

\* The loop makes at most MAX_RETRIES counted attempts, and gives up only after that many,
\* or one fewer when the statement that counts failed.
RetryBudget ==
  \A b \in Bounties :
    /\ row[b].retries <= MaxRetries
    /\ row[b].settlement = "permanently_failed" =>
         row[b].retries >= MaxRetries - (IF faults = 0 THEN 0 ELSE 1)

\* A bounty leaves 'settled' in one way only: the loop gives up on an attempt whose row
\* somebody else settled in the meantime.  In particular the unguarded 'failed' written by
\* an approval never hits a row that a retry settled.
OnlyGivingUpUnsettles ==
  [][\A b \in Bounties :
       row[b].settlement = "settled" /\ row'[b].settlement # "settled" =>
         /\ proc[Loop].pc = "give_up"
         /\ proc[Loop].bounty = b
         /\ row'[b].settlement = "permanently_failed"]_vars

\* As long as nothing fails, a payable bounty that is still 'pending' has the approval that
\* is to settle it at work: no retry ever looks at such a row.
PendingIsBeingSettled ==
  faults = 0 =>
    \A b \in Bounties :
      /\ row[b].status = "approved"
      /\ row[b].wallet # "none"
      /\ row[b].settlement = "pending"
      => \E p \in Requests : proc[p].kind = "approve" /\ proc[p].bounty = b

\* Settlement implements PayOnce: the chain pays an approved bounty once, and the ledger
\* records it afterwards and for good.
P == INSTANCE PayOnce WITH
       approved <- {b \in Bounties : row[b].status = "approved"},
       paid     <- paid,
       booked   <- {b \in Bounties : ledger[b] = "settled"}

PaysOnce == P!Spec

\* When nothing fails on the relay's side, every payable bounty is settled or given up,
\* however often the chain refuses.
ApprovedIsResolved ==
  \A b \in Bounties :
    (row[b].status = "approved" /\ row[b].wallet # "none") ~>
      (row[b].settlement \in {"settled", "permanently_failed"} \/ faults > 0)

\* Whatever fails, a failed settlement leaves 'failed' or uses up its retries.
FailedIsResolved ==
  \A b \in Bounties :
    row[b].settlement = "failed" ~>
      (row[b].settlement # "failed" \/ row[b].retries = MaxRetries)

\* The doc of is_bounty_settled: "If the relay crashed between an on-chain confirmation and
\* writing the DB, this check lets a retry reconcile".  An approval that is cut off leaves
\* 'pending', which no retry reads.
PaidIsRetryable ==
  \A b \in Bounties :
    paid[b] = 1 /\ row[b].settlement = "pending" => \E p \in Procs : Settling(p, b)

\* The doc of record_merge: "settlement must precede merge".
MergedIsSettled ==
  \A b \in Bounties : row[b].merge # None => row[b].settlement = "settled"

=============================================================================
