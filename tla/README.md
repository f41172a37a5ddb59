# A TLA+ verification of the AMOS protocol

AMOS is a marketplace for work done by autonomous agents. A *relay* (an HTTP
server over PostgreSQL) keeps the bounty board; three *Solana programs* hold the
tokens; an *oracle* daemon judges what is proposed and delivered; *agents* do the
work. This directory models what happens to a bounty from its posting to its
payment, and what the other programs, the oracle and the agent do around it; it
checks the models with TLC on small instances, and proves part of the result with
TLAPS for every instance.

* [Inventory](#inventory), [interactions](#interactions) and [hard behaviours](#hard-behaviours)
* [What is modelled](#what-is-modelled)
* [What the runs check](#what-the-runs-check), [bounds](#bounds), [fairness](#fairness)
* [Where code and documents disagree](#where-code-and-documents-disagree)
* [What is proved](#what-is-proved), [what is only model-checked](#what-is-only-model-checked)
* [Plan](#plan) and [what is not modelled](#what-is-not-modelled)

## Inventory

Paths are below `src/`. "Model" names the module.

| component | state | operations | correct when | model |
|---|---|---|---|---|
| **Bounty board**, `amos-relay/src/routes/bounties.rs` | table `relay_bounties`: status, worker, submission, receipt, verification, revision count, reviewer, override | create, claim, submit, verify, approve, reject, request revision | decisions are final and backed by what was reviewed; revisions are limited | `BountyLifecycle` |
| **Settlement**, `bounties.rs`, `settlement_retry.rs`, `solana.rs` | `settlement_status`, retry count, `protocol_fee_ledger`; transactions in flight | payout after approval, retry loop, manual settle, reconciliation | paid at most once; the books follow the chain; every approved bounty is resolved | `Settlement`, `PayOnce` |
| **Follow-up**, `bounties.rs`, `routes/webhooks.rs` | quality score, merge SHA | pushback, webhook, merge record | settlement precedes merge | `Settlement` |
| **Pricing**, `amos-relay/src/solana.rs` | none (reads the pool) | dynamic and fallback cap | no submission drains a day | `EmissionPool` |
| **Emission pool**, `amos-solana/programs/amos-bounty` (`prepare.rs`, `distribution.rs`) | daily pools, proofs, treasury balance, totals | prepare, submit proof | tokens conserved, one payout for each proof, days within their emission | `EmissionPool` |
| **Listings and disputes**, `claims.rs`, `dispute.rs` | listing status, claim counter, disputes | post, claim, release expired, dispute, resolve, default | a claim lasts its term; counters match the listings held | `OnChainListing` (no disputes) |
| **Commercial escrow and decay**, `escrow.rs`, `distribution.rs`, `decay.rs` | escrow balance, proofs, operator statistics | create, release, refund, submit proof, decay | tokens are conserved; an operator's statistics are those of the proofs; decay stops at the floor | `CommercialEscrow`, `BountyAccounts` |
| **Trust**, `trust.rs` | trust level, completions, reputation | register, record completion, upgrade, bootstrap | points rest on the record or on the oracle's word | `AgentTrust` |
| **Registry, metrics, administration**, `registry.rs`, `metrics.rs`, `admin.rs` | contribution types, decay rate, recipients, mint | add, update, freeze; report metrics; set rate, recipients, mint | frozen stays frozen | `TypeRegistry`, `BountyAccounts` |
| **Treasury**, `amos-solana/programs/amos-treasury` | vaults, holder pool, stakes | distribute fee, stake, change stake, claim revenue, migrate, withdraw | what is owed is there, if the accounts meant for it are passed; fresh coins earn nothing; a claim is a fair share | `Treasury` |
| **Governance**, `amos-solana/programs/amos-governance` | proposals, votes, gates, research, stewards, budgets | propose, vote, report gate, claim reward, finalize; milestones; budget votes | stages are paid once, after their gates; closed stays closed; budgets have a quorum | `Governance` with `Features`, `Research`, `BudgetGates` |
| **Intakes and escalations**, `routes/intakes.rs`, `routes/escalations.rs` | intakes, escalations, link on the bounty | create, record evaluation, escalate, resolve | one bounty for a commissioned intake; no review is lost | `OracleLoop` |
| **Oracle**, `amos-oracle` | decisions log | tick: evaluate intakes, review submissions | a verdict is carried out once, or once more for a fault | `OracleLoop` |
| **Agents, harnesses, reputation**, `routes/agents.rs`, `routes/harnesses.rs`, `reputation.rs` | agents, reports, trust level | register, report, heartbeat | trust is a function of the reports | none, see below |
| **Agent**, `amos-agent` | conversation, tasks running | agent loop, compaction, task consumer | what is sent to the model is a conversation it accepts; the loop ends | `AgentLoop` (no task consumer) |
| **Token mathematics**, `amos-core/src/token`, `protocol_fees.rs`, curves of `constants.rs` | none | decay, emission, fee split, awards | splits add up, curves are monotone, what is quoted is paid | `TokenMath` |
| **Plumbing**: `server.rs`, `middleware.rs`, metrics, health; model providers, tools, CLI; configuration, vault | none that matters here | | | none |

## Interactions

```
 poster, worker, reviewer, oracle daemon, merge bot, GitHub
        | HTTP (concurrent requests, each cut off after 30 s)
        v
  relay handlers ---- SQL, one statement at a time ----> relay_bounties, fee ledger
        |                                                        ^
        | RPC: read pool, is_bounty_settled,                     | SQL
        |      send prepare + submit                    settlement retry loop
        v                                                        |
  amos-bounty program <------------------ RPC -------------------+
   (daily pool, bounty_proof, treasury account)
```

Handlers share nothing but the database and the chain. There are no transactions
around the steps of a handler on the board, so any two requests may interleave
between any two statements, and a request may end at any `await`.

The oracle daemon is one sequential client of the relay: it lists intakes, then
work under review, and carries out each verdict by separate HTTP calls. The council
resolves escalations in single transactions. Of the Solana programs,
`amos-treasury` receives fees that the escrow's release transfers to it, and
`amos-governance` pays from a treasury of its own; no program calls another. An
instruction is atomic: it happens wholly or not at all, so the interleavings on
chain are those of whole instructions by different signers.

## Hard behaviours

`PROJECT.json` lists each hazard at its line. The main ones:

* *check, then write*: approve, reject and revise check a row they read, make
  several further queries, and commit under `status = 'submitted'` alone; a revision
  and a resubmission fit in between;
* *several payers*: the approval, the manual endpoint and the retry loop may settle
  one bounty at once; only the `bounty_proof` account keeps them apart;
* *late transactions*: an error from `send_with_retry` does not mean that the
  transaction will not land;
* *ignored write errors*: the writes after a payout are `let _ = ...`;
* *crash or timeout* between a payout and the record of it;
* *stale prices*: a cap is computed from the pool of one moment and applied to
  the pool of another, perhaps of another day;
* *accounts checked by their mint*: the treasury takes the stake vault, the pool's
  account and that of Labs from its caller;
* *limits*: two sub-pools that lend to each other, a cap of 0 that means no cap;
* *totals apart from what they count*: claims held, stakes, votes, statistics of an
  operator, the holders' pool, each kept up by several instructions;
* *entitlements not remembered*: a claim of revenue is a share of whatever is there;
* *one verdict, several calls*: the oracle's daemon may die or lose an answer
  between the bounty it creates and the evaluation it records;
* *cuts by number*: a history is cut and a conversation compacted by counting
  messages, whatever they hold.

## What is modelled

### `BountyLifecycle` (bounties.rs)

`row` is the table, `req` what each request in flight remembers. A handler that is
one guarded `UPDATE` (create, claim, submit, verify) is one action. `approve`,
`reject` and `request_revision` are two: `*_read` reads the row and makes every
check, `*_write` is the committing statement with its own condition. The proof
receipt of a submission is a second statement (`store_receipt`). `abandon` is a
request that ends between the two. A submission is represented by its number, so
that "verified" and "receipt" record *which* submission they are about: this is
what lets the properties tell a fresh verification from an old one. `override` is
`gate_override_reason`; `Trusted` and `Council` stand for the wallets that pass
`require_trust`. Deadlines, points, categories other than code or not, and the
failure capsule are left out: no decision on the board depends on them.

### `Settlement` (bounties.rs, settlement_retry.rs, webhooks.rs, solana.rs), with `PayOnce`

A process is a request or the retry loop; `proc[p].pc` names the statement or RPC
call it makes next, in the order of the code (the approval records the ledger
before the row, the other two the row before the ledger). The decision itself is
`approve_commit`, the second step of an approval in `BountyLifecycle`. `net` holds
transactions that were broadcast and may still land; when their sender is told of
an error, or is gone, they belong to `Orphan`. `chain` is the `bounty_proof`
account, `paid` counts payments. `write_error`, `preflight_error`, `abandon` and
`crash` are the faults. A quality score is abstracted to whether the program
accepts it (at least 30). The relay is assumed to be configured for Solana: otherwise
an approval skips the payout (`bounties.rs:1490`, `1692`), the loop does nothing
(`settlement_retry.rs:121`), and an approved row stays `pending`; the liveness
properties are about relays that settle.

`PayOnce` is the abstract specification: approve, then pay at most once, then book.
`PaysOnce` in `Settlement` states the refinement, with `booked` mapped to the
settled rows of the ledger.

### `EmissionPool` (solana.rs, prepare.rs, distribution.rs)

`price` computes the cap (dynamic, or fallback when a read fails or there is no
pool) and keeps it in `quote`; `submit_bounty_proof` is the transaction, prepare
and submit together, on the pool as it then is; `drop` is a settlement that fails.
`tick` moves a clock of days and seconds. Amounts are natural numbers; all
divisions round down as in the code. The two sigmoid curves are constant functions
of the day, since the program only evaluates them once for each pool (emission) or
each payout (growth cap). The programs' other checks (reviewer is not operator,
evidence is not zero, points within the trust level) make a transaction fail, which
`drop` covers.

### The other Solana instructions: `Chain`, `BountyAccounts` and the modules on them

`Chain` holds what they share: the clock (`now`, raised by `passes`), arithmetic in
parts of a whole, and transfers between token accounts as functions of balances, whose
totals are counted unit by unit (`Total`).
`BountyAccounts` holds the accounts that several instructions of amos-bounty write:
`config`, `metrics` and `stats`, one operator's statistics each, with the
instructions of `admin.rs`, `metrics.rs` and `prepare.rs`. An instruction is one
action, guarded by the constraints of its accounts and its `require!`s; `None`
stands for an account that was not created. Who signs is modelled where it decides
something (a poster who refunds, a voter who is not the proposer); the authorities'
own instructions are always possible.

* `OnChainListing`: `listing[b]` with its status, claimer, time and term;
  `stats[w].claims` is `active_claim_count`.
* `CommercialEscrow`: `balance` by mint and account, `escrow`, `proofs`. It covers
  `create_commercial_bounty`, `release_escrow`, `refund_escrow`, the transfers and
  records of a system bounty's proof (its amount is any of `Payouts`; how it is
  computed is `EmissionPool`'s business) and `apply_decay`. A change of the mint
  strands what is escrowed in the old one, as in the code.
* `AgentTrust`: reports in any order with upgrades and bootstraps. `bootstrapped`
  and `largest` are history: what the oracle vouched for and the largest bounty
  submitted.
* `TypeRegistry`: entries by index, frozen one by one, all together, or by anybody
  after the deadline.
* `Treasury`: `coins` by mint and account; `grown[u]`, history, is when the stake of
  `u` last grew. The program finds its vault by seeds, but keeps no address of the
  stake vault, the pool's token account and Labs' account: it takes what the caller
  passes, if it is of the mint (`claims.rs:104`, `220`, `353`, `revenue.rs:253`,
  `260`). So each instruction has the account as a parameter, any of `Named`: the
  accounts meant for these roles, the treasury's vault, a user's own. A payment that
  the treasury signs comes from an account it owns (`OwnAccounts`). `PassedFor` counts in
  `astray`, history, the coins that went to or came from another account than was
  meant. An account for the wallet of Labs is only ever paid, so none is owed there.
* `Governance` has the parameters, the governed treasury and `payments`, the
  transfers as they appear on chain; `Features`, `Research` and `BudgetGates` are
  the three kinds of proposals. A gate's result is a score and whether it passed;
  `Rooms` is the space a proposal's account has for results, which depends on the
  length of its texts and may be too short for all four.

### `TokenMath` (amos-core/src/token, protocol_fees.rs, constants.rs)

The arithmetic is translated with its integer divisions: the exponential table and
its interpolation, the curves of emission, growth cap and discovery, the tenure and
vault rules of decay, the split of a fee, a holder's claim, the award of a bounty
and the rewards of a day. Its state is only what makes TLC enumerate: a day of a
curve, a holding to which the daily job is applied again and again while it ages
and the rate changes, and one quote of four numbers.

### `OracleLoop` (intakes.rs, escalations.rs, amos-oracle)

`intake`, `work`, `escalation` are the relay's tables, `decisions` the daemon's log,
`daemon` the place in its pass: which list it read, what is left of it, and which
call comes next. Each call may fail or succeed with its answer lost, a decision may
not reach the log (which the code tolerates), and the daemon may die: each of these
is a counted fault. The council resolves, people review, and workers submit again at
any time. There is one daemon, as `oracle_agent.rs` runs it; that there is no second is
an assumption, see below. A verdict is any that the guards let through. `made[i]` counts the bounties
created for an intake. Work under review is known by its status and link alone; the
board's own rules are `BountyLifecycle`'s.

### `AgentLoop` (agent_loop.rs, compact.rs, harness_client, permissions.rs, hooks.rs)

A message is known by its role and by the turn whose calls or results it holds. The
history is any sequence of messages of earlier conversations (`Earlier`, with turns
below zero), since `routes.rs:69` takes any `Vec<Message>`, whose blocks may be calls
and results of any role (`types.rs:37`); memory may recall something that is put
behind it. `orderly`, history, is whether the conversation was begun with a history
that pairs its calls with their results, is kept whole (at most forty messages) and has
nothing put behind it but the message. What a message weighs is not modelled:
compaction may be due at any turn. Tools are refused, run locally, or sent to the
harness with up to three more requests.

Names with a suffix that precede a definition of the same name (`land_twice`,
`approve_read_no_gate`, ...) are faulty variants. No specification uses them; they
are there to confirm that each property fails when the code is wrong.

## What the runs check

| run | asks | answer |
|---|---|---|
| `lifecycle` | can concurrent requests produce a decision that is not final, not backed, or by the wrong reviewer; a stale verification; too many revisions? | no: `VerificationIsFresh`, `ReviewerIsIndependent`, `RevisionOvershoot` (at most N-1 above the limit with N requests), `ApprovalIsBacked`, `DecisionIsFinal` hold |
| `lifecycle_verified` | is every approved bounty verified? | no, see below |
| `settlement` | with one fault anywhere, is anyone paid twice, or do the books run ahead of the chain? | no: `PaysOnce`, `BooksFollowChain`, `RetryBudget`, `PendingIsBeingSettled`, and only the loop giving up turns a settled row back (`OnlyGivingUpUnsettles`) |
| `settlement_live` | is every approved bounty with a wallet resolved? | yes if nothing fails on the relay's side (`ApprovedIsResolved`); a *failed* one leaves that status or uses up its retries whatever fails (`FailedIsResolved`) |
| `settlement_crash` | can a paid bounty always be reconciled by a retry? | no, see below |
| `settlement_merge` | is a merged bounty settled? | no, see below |
| `pool` | are tokens conserved, bounties paid once, pools and their caps respected across days? | yes: `BooksBalance`, `OnePayoutPerProof`, `GrowthIsCapped`, `PoolOnlyFills`, and a day overspends by less than its growth pool (`OverspendIsBounded`) |
| `pool_overspend` | does a day stay within its emission? | no, see below |
| `pool_drain` | does a first submission take at most half of the day? | no, see below |
| `parts` | do the other parts keep their books and their promises, whatever the order of instructions, calls and faults? | yes, twenty properties, listed next |
| `treasury_dilution` | is a deposit shared once, in proportion to the stakes? | no, see below |
| `agent_bounty` | is a bounty's conversation one that the model accepts? | no, see below |

`parts` (module `MCParts`) checks thirteen parts side by side in one run: a behaviour
is one of a single part, chosen at the start, while the variables of the others keep
their initial values. The parts do not share state that another part reads, so
nothing is lost by not interleaving them; `CommercialEscrow` with decay, and
`Features` with parameters and payments, are composed because they do.

| part | properties of `parts` |
|---|---|
| listings | `ClaimsAreCounted`, `ClaimKeepsItsTerm` |
| escrow, system proofs and decay | `TokensAreConserved`, `OperatorBooks` |
| trust | `PointsAreEarned` |
| registry | `FrozenIsForever` |
| treasury, with any accounts passed | `DebtsAreBacked`, `FreshStakeEarnsNothing` |
| features | `StagesArePaidOnce`, `VotesAreCounted`, `ClosedStaysClosed` |
| research, budgets | `BonusIsEarned`, `DecisionHasQuorum` |
| curves, decay, quotes | `CurvesOnlyFall`, `HoldingKeepsFloor`, `QuotesAreCovered` |
| oracle | `CommissionedOnce`, `LinkIsPending` |
| agent | `CallsAreAnswered`, with the default window of six messages and histories of several kinds |

No run checks for deadlock: each model may stop (all bounties decided, nothing in
flight, the last day over), as the relay may have nothing to do.

### Bounds

* `lifecycle`: one bounty, since no handler touches two rows; one agent; three
  wallets, of which one is trusted and one also on the council, any of them poster,
  worker or nobody's; three requests, one more than any pair of steps needs to be
  disturbed by a third; two revisions, so that the limit is reached with requests in
  flight. The number of submissions is bounded by the revisions.
* `settlement`: one bounty, for the same reason (the loop treats its batch one row
  at a time, and a stale batch shows with one row); two requests besides the loop,
  enough for approval, manual settlement and retry at once; `MaxRetries` 2, so that
  the loop both retries and gives up; one fault, at any step. `settlement_live` has
  one request, because liveness excludes symmetry.
* `pool`: two days of two seconds with emissions 10 and 7, three bounties (one more
  than it takes to pay from both sub-pools), points 1 and 5 with multipliers 0.6 and
  1.3, a treasury of 16 that can run dry. Small numbers make rounding matter.

* `parts`: a whole of ten parts instead of 10000, so that 3%, 50% and 40% become 3,
  5 and 4 tenths and rounding leaves a unit; two users with unequal holdings; a
  clock of three instants, with terms and graces of one, so that everything can
  expire. Listings: two, with at most one claim each operator, so that the limit
  binds. Escrow: two bounties, one worker who gets both, two mints so that one
  migration happens in between. Trust: four reports, three levels, so that a record
  rises and falls past each threshold. Registry: two entries, the second added
  later. Treasury: stakes of 1 and 2, deposits of 4 distributed twice, so that both
  stakers are paid, two coins, so that a migration falls in between; any of the
  treasury's four accounts, or a user's own, may be passed for any role until one coin
  went astray: one is enough to record an unbacked stake, to lower a stake out of the
  wrong account and to be paid a claim out of it.
  Features: one proposal (no instruction touches two), four gates, three sets of
  parameters, rooms for three and for four results. Budgets: three stewards with two
  types of vote, twice the quorum of three. Curves: every day of seven
  spans, at launch, around the midpoints and where the curves of emission and growth
  leave the table of exponentials, for three choices of the parameters. Decay: holdings of 4 and of 30000, where rounding
  dominates and where it does not. Quotes: all combinations of five numbers from 1
  to 40000. Oracle: two intakes with lists of one, so that one waits behind the
  other, one bounty under review, three decisions and one fault (the part was also
  run with two). Agent: six turns of up to two calls, after histories of text, of
  calls with their results, begun or ended so that they are not orderly, and of more
  than forty messages that are cut between a call and its result on both sides, with
  and without a recalled memory behind them.
* `treasury_dilution`: two equal stakes, one deposit, the accounts that are meant.
  `agent_bounty`: nine turns, the first at which sixteen messages are exceeded.

### Fairness

Only `settlement_live` assumes any. The retry loop is a spawned task that sleeps
and goes on, and logs rather than ends on an error: weak fairness of its next step.
A handler that is running goes on to its next statement (Tokio schedules a ready
task): weak fairness for each request's `Step`. A broadcast transaction lands or
its blockhash expires: weak fairness of `Chain`. Nothing is assumed of clients: no
request need ever be made, and no manual settlement helps. Nor need a payout ever
succeed.

## Where code and documents disagree

1. *"Requires verification"* (`bounties.rs:1277`): the verification is checked on a
   row read earlier; a revision and a resubmission before the commit leave an
   approved bounty that is not verified (`VerifiedBeforeApproval`).
   `ApprovalIsBacked` is what does hold: an approval of the submission that was
   read is verified.
2. *"this check lets a retry reconcile"* (`solana.rs:782`): a crash between a
   confirmed payout and the write of its row leaves `pending`, and every retry
   reads `failed` only (`PaidIsRetryable`).
3. *"settlement must precede merge"* (`bounties.rs:2274`): the loop that gives up
   writes `permanently_failed` over a row that another process settled and whose
   merge is recorded (`MergedIsSettled`).
4. *"The treasury can never overspend"* (`AGENT_CONTEXT.md:343`): technical work
   may use the growth pool's part, and growth bounties are then still paid from it
   (`DailyBudget`). `OverspendIsBounded` is what holds.
5. *"no single submission can drain the pool"* (`solana.rs:36`): a cap of 0,
   computed when payouts have caught up with what has dripped, is no cap to the
   program (`FirstSubmissionTakesHalfAtMost`).

6. *"Proportional distribution based on stake"* (`amos-treasury`,
   `claims.rs:8`, also `lib.rs:14`): a claim takes its share of the current balance
   and nothing records it against the deposits, so a second claim is paid again
   (`OneShareOfEachDeposit`). That the pool is covered holds only as far as callers pass
   the accounts that are meant (`DebtsAreBacked`).
7. *"Add tool results as a user message (matching the Bedrock/Anthropic pattern)"*
   (`agent_loop.rs:498`): with `preserve_recent = 15`, which `routes.rs:174` sets for
   bounties, compaction keeps a result and drops its call (`CallsAreAnswered`, which
   holds for the default of 6). The run begins without calls in the history, so that
   nothing but the window is to blame.

Met while modelling, and not turned into runs, since each is seen by reading one
function with its comment:

* bounty board: a receipt *"from the prior submit is cleared so the worker's next
  submission starts fresh"* (`bounties.rs:1928`), but `submit_work` stores it by a
  statement of its own (`bounties.rs:1176`), which may come after the revision and after
  the next submission, and then passes for the receipt of that one (`store_receipt`).
* amos-bounty: the profit ratio is cast to 16 bits before it is capped
  (`metrics.rs:128`); a decay larger than what is left fails instead of stopping at
  the floor (`decay.rs:170`), and each call charges at least one day
  (`decay.rs:133`); `active_claim_count` never goes down on submission, although
  `state.rs:434` says so; a dispute needs a status that is never set
  (`dispute.rs:83`); the registry's multipliers are not read by any payout; category
  `discovery` maps to type 11 in the relay, which the program refuses.
* amos-treasury: the program checks of the stake vault, the holder pool's account, the
  account of Labs and, in `update_mint`, the new vaults only that they are of the mint.
  A staker who passes an account of their own has a stake without coins
  (`claims.rs:104`, `220`), a claim may be paid out of the stake vault (`claims.rs:353`),
  and whoever distributes a fee chooses who gets the parts of the holders and of Labs
  (`revenue.rs:253`, `260`). `DebtsAreBacked` bounds what is then missing by what went
  astray. No document or test says that these accounts are checked.
* amos-governance: `withdraw_vote` cannot succeed, and a proposal with long texts
  has no room for its fourth gate, because the accounts are allocated too small
  (`constants.rs`); a claim of the first stage moves the proposal on and closes the
  gates not yet reported; a removed steward cannot be registered again; the quorum
  parameter is not read (`governance.rs:405`).
* token mathematics: the core's numbering of contribution types above 3 is not the
  program's; `calculate_bounty_award` says that it mirrors the program but uses one
  pool for all work; its holder's claim rounds where the program does not, in the
  pool's favour (`QuotesAreCovered` bounds the difference).
* oracle: if the decision does not reach the log, recording the evaluation fails on
  its foreign key, and the next pass commissions again; an escalation that the
  council resolves before the daemon has recorded it leaves the intake's verdict at
  `escalate` with the bounty unlinked; a resolved review is not carried out, so the
  oracle reviews that work once more; a revision by hand does not clear the link, so
  work that is submitted again stays hidden until the old escalation is resolved.
  *"Multiple `OracleAgent` instances can run concurrently"* (`agent.rs:61`): two daemons
  that list the same intake both commission it, and two that escalate the same bounty
  leave two open escalations of which the link names the later (`escalations.rs:152`),
  both without any fault. `CommissionedOnce` and `LinkIsPending` are about one.
* agent: a history with calls is not kept in pairs. `window_history`
  (`agent_loop.rs:713`) cuts after two messages and before the last twenty, whatever
  they hold; and a memory that is recalled comes between history and message, which
  makes the window of six cut inside a pair of the history. `CallsAreAnswered` is
  therefore about the history's calls only if it was `orderly`, and about the
  conversation's own always. A harness tool may run up to four times for one call, when
  answers are lost; a conversation cut off at `max_iterations` is reported as completed.

## What is proved

Eight modules hold proofs. Each theorem is about every value of the constants that
satisfies the named assumptions of its module, and about runs of any length, with
any number of bounties, users, requests, mints, proposals and amounts.

| module | theorem | property | about |
|---|---|---|---|
| `BountyLifecycleProofs` | `TypeCorrect` | `TypeOK` | `BountyLifecycle` |
| | `VerificationStaysFresh` | `VerificationIsFresh` | |
| | `DecisionsAreFinal` | `DecisionIsFinal` | |
| | `ApprovalsAreBacked` | `ApprovalIsBacked` | |
| | `ReviewersAreIndependent` | `ReviewerIsIndependent` | |
| | `RevisionsAreBounded` | `RevisionOvershoot` | |
| `SettlementProofs` | `TypeCorrect` | `TypeOK` | `Settlement` |
| | `BooksAreTrue` | `BooksFollowChain` | |
| | `SettledStays` | `OnlyGivingUpUnsettles` | |
| | `SettlementPaysOnce` | `PaysOnce`: it implements `PayOnce` | |
| | `PendingIsLookedAfter` | `PendingIsBeingSettled` | |
| | `RetriesAreBounded` | `RetryBudget` | |
| `EmissionPoolProofs` | `TypeCorrect` | `TypeOK` | `EmissionPool` |
| | `BooksAreBalanced` | `BooksBalance` | |
| | `PaidOncePerProof` | `OnePayoutPerProof` | |
| | `OverspendBounded` | `OverspendIsBounded` | |
| | `GrowthCapped` | `GrowthIsCapped` | |
| | `PoolsOnlyFill` | `PoolOnlyFills` | |
| `BountyProgramProofs` | `LargePointsAreEarned` | `TrustTypeOK`, `PointsAreEarned` | `AgentTrust` |
| | `CountersFollowClaims` | `ClaimsAreCounted` | `OnChainListing` |
| | `HoldersKeepTheirTerm` | `ClaimKeepsItsTerm` | |
| | `RegistryCorrect` | the types, and no frozen registry with an entry that is not | `TypeRegistry` |
| | `FrozenStays` | `FrozenIsForever` | |
| | `TokensConserved` | `EscrowTypeOK`, `TokensAreConserved` | `CommercialEscrow` |
| | `OperatorBooksBalance` | `OperatorBooks` | |
| `TreasuryProofs` | `StakersAreSafe` | `TreasuryTypeOK`, `DebtsAreBacked` | `Treasury` |
| | `StakesEarnLater` | `FreshStakeEarnsNothing` | |
| `GovernanceProofs` | `QuorumDecides` | `BudgetTypeOK`, `DecisionHasQuorum` | `BudgetGates` |
| | `BonusFollowsResearch` | `BonusIsEarned` | `Research` |
| | `FeaturesCorrect` | `FeaturesTypeOK` | `Features` |
| | `StagesArePaid` | `StagesArePaidOnce` | |
| | `VotesAreTotalled` | `VotesAreCounted` | |
| | `ClosedIsOver` | `ClosedStaysClosed` | |
| `OffChainProofs` | `KeptWorkIsEscalated` | `OracleTypeOK`, `LinkIsPending` | `OracleLoop` |
| | `IntakesAreCommissionedOnce` | `CommissionedOnce` | |
| | `CallsStayAnswered` | `AgentTypeOK`, `CallsAreAnswered` | `AgentLoop` |
| | `HoldingsKeepTheirFloor` | `MathTypeOK`, `HoldingKeepsFloor` | `TokenMath` |
| | `CurvesFallOnly` | `CurvesOnlyFall` | |
| | `QuotesStayCovered` | `QuotesAreCovered` | |

`ChainProofs` holds the lemmas on totals, parts and transfers that the proofs about the
programs share.

### The assumptions

They are the `ASSUME`s of the modules, which TLC evaluates on the values of the
runs: constants are numbers where the code has numbers, shares are parts of the
whole and together do not exceed it, users and mints are finitely many, the
accounts of the programs are not those of users, a trust level that is higher
allows no fewer points, an identifier that is told from others by its order has
one, and `None`, the account that does not exist, is not one of the records that
do. None restricts what clients, the clock, the network or the council do, nor what
accounts are passed to the treasury or what history to the agent.

Two assumptions are in the models themselves: `Settlement` is a relay that is
configured for Solana, and `OracleLoop` has one daemon.

One theorem has an assumption of its own: `CallsStayAnswered` is about sessions whose
window is of an even number of messages (`EvenWindows`). The default of the agent is 6;
a bounty gets 15, and for those the property is false, as finding 7 shows.

### The arguments

Nearly no property is inductive alone. Each invariant below was checked by TLC
before it was proved, where the instance of the run is small enough to enumerate it.

*Bounty board.* What a request may conclude from what it read is `RequestInv`: the
submission it remembers is not newer than the one on the row, and, if it is the same
one and the row is still `submitted`, everything its checks established still holds
on the row; because a row changes in one direction within a submission (`Forward`),
other requests keep that true. `ApprovalIsBacked` and `ReviewerIsIndependent` follow
at the commit. The revision bound needs to count: `RevisionInv` says that a row's
revisions and the requests for revision that hold it stay, together, below the limit
plus the number of requests: one that enters found the count below the limit, and
one that commits moves from the second number to the first.

*Settlement.* A payment and the `bounty_proof` account appear together, so that
`paid[b]` is 1 exactly when the account is there, and whoever stands at a statement
that records a payment has seen it: that makes the books true, and the refinement
of `PayOnce` is then a map of each step to a payment, a booking or nothing. That an
approval never overwrites `settled` rests on who may settle: an approval at work
means its row is `pending`, the loop and the manual endpoint take only rows that
failed, and a bounty is approved once, so no two are at work. The retry budget ties
the count the loop remembers to the row's, which nobody else raises.

*Emission pool.* A pool's growth and technical shares are bounded separately: growth
never takes more than its maximum plus one unit a bounty, technical work never more
than is left, which gives the overspend by the larger of the two orders. Balances
follow from one lemma that says what a payout takes and where it goes.

*amos-bounty.* `PointsAreEarned` needs the level of each agent to be backed, and
that in turn that levels allow points in their order. `ClaimsAreCounted` needs
every claimed listing to name a claimer with statistics. A frozen registry has only
frozen entries because of how it came to be frozen: one of the two places where it
is set might have left an entry out.
The escrow's ledger is `EscrowInv`: for each mint, balances, burned tokens and escrows
together are the endowment (`Conserved`), and the books of an operator are those of its
proofs (`Books`). It needs two facts that the properties do not state: whoever a proof
names has statistics, so that preparing an operator finds none of its proofs, and a
bounty paid from an escrow has one. An instruction touches one mint, and `SupplyStays`
reduces it to one equation there: `NothingIsLeft` has it for the five-way split of a
release, `TransferHolds` for transfers. That decay keeps the floor is `DecayStops`, and
that an operator above the floor stays above it when it earns more is `PartGrows`: a
part of an amount grows by no more than the amount.

*Treasury.* `TreasuryInv` has a part for stakes, pool, fees and supply. Every
instruction moves coins between two accounts of one mint or splits a fee without a
remainder, and a lemma for each kind says what that does to the totals over all
mints; `StakingInv`, `VaultInv` and `AdministrationInv` then reduce an instruction
to a few equations. For the debts the equation is an inequality: an instruction that is
called with the account that is meant moves debt and account alike, and one called with
another raises `Shortfall` by at most what it adds to `astray` (`StakeReceived`,
`StakePaid`, `ClaimPaid`, `SharedEffect`). That a decrease can be paid needs the total
to be at least each of its summands. `FreshStakeEarnsNothing` follows from "the time a stake was made is
the time it last grew", since only `claim_revenue` changes what was claimed.

*Governance.* `FeaturesInv` adds to the types that votes and vote records agree,
that a paid stage has its gates, and that the fund is short by the payments, which
are one for each stage marked as paid. A budget's votes are counted by the records
of stewards, who may be removed and keep their record: hence "at least half".

*Oracle.* The daemon's place in its pass carries the argument: what it is about to
record was created, what it is about to create was not, unless a fault was spent on
it; and a link and its open escalation are written together by the relay.

*Agent.* Between turns the calls of a message, of this conversation or of an orderly
history, stand an odd number of messages before the end and their results follow at once, so that results stand at an even number. A
compaction that keeps an even number of messages therefore never keeps results without
the calls they answer.

*Token mathematics.* A holding keeps its floor (`HoldingInv`) because a day's decay is
cut off at the floor of the tenure reached, and from the first year on no tenure has a
lower one than that of the first year; that a better tier loses no more is a chain of
quantities that fall or grow together: rate, daily rate, amount due, amount taken.
The curves fall because each is a decreasing function of a power: the table of
exponentials rises from entry to entry (the one fact that is looked up), interpolation
stays between two entries, hence the power rises over all integers, negative ones
included (`PowerRises`). That the emission is mirrored within 40 tokens follows from a
power and its reciprocal having the product `10000` squared, but for a rounding that
`ReciprocalsMirror` bounds, and from the values at the table's ends. The quotes need no invariant: with `TwoParts` (two parts of an
amount, rounded down, are the amount but for one) and `ClaimOfTwo` (rounding twice
instead of once) each is a few inequalities between quotients.

### Totals

A sum over accounts, stakes or votes is written `Total(f, S)`, the number of its
units (`Cardinality` of the pairs of a summand and a unit of it), because the
library's facts on cardinalities can be cited for it while a recursive sum or a fold
would need induction over data, which the provers cannot instantiate. `ChainProofs`
has what is needed of it: one summand more, one that changes, summands that are zero,
the same summands, and that none exceeds the total. `EmissionPool` counts its proofs in
the same way (`Counted`).

## What is only model-checked

* Liveness (`settlement_live`) needs fairness and `ENABLED`, which the prover does
  not treat.
* `TypeOK` of `MCParts`, which only puts the parts side by side: the types of each
  part are proved of the part.
* The runs that end in a violation, by their nature.

## Plan

Every safety and action property of the passing runs is a theorem, except the joint
`TypeOK` of `MCParts`. What would extend the project:

1. The task consumer, once the harness that lists its tasks is part of the repository.
2. Disputes on chain and the agents' reputation, once the code reaches them.
3. A change of the code under a mapped definition: translate it, let the run of the
   module decide, then repair the step of the proof that is about the action.

## What is not modelled

* *Reputation.* `report_outcome` inserts into a column `task_id` that no migration
  creates (`routes/reputation.rs:196`), so no report is ever stored and nothing
  depends on the rules that follow. The routes of agents and harnesses are single
  statements on rows of their own.
* *Disputes on chain*: unreachable, as above. *withdraw_vote*: cannot succeed.
* *Task consumer*: it starts whatever the harness lists and reports what came of it;
  the harness is not part of the repository, and whether a task that runs is listed
  again is its decision.
* *Instructions that set one field*: `update_treasury`, `update_labs_wallet`; *views*:
  `transparency.rs`, `priority.rs`, metrics and health endpoints.
* *Pointing and receipts*: a weighting of words with floating-point factors, clamped
  to 100..2000, and the shape of a JSON document.
* *Input and output*: HTTP plumbing and authentication (no state beyond a request),
  model providers, tools, command line, memory store, configuration and vault.
* *The core's trust rules* (`token/trust.rs`) repeat those of `AgentTrust` with other
  limits and are called by nothing.

The judgement of a language model is a nondeterministic choice throughout.
