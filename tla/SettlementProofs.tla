--------------------------- MODULE SettlementProofs ---------------------------
(***************************************************************************)
(* What holds of settlement for any number of bounties, concurrent         *)
(* requests, retries and faults.                                           *)
(***************************************************************************)
EXTENDS Settlement, TLAPS

-----------------------------------------------------------------------------
(* The inductive invariant. *)

\* The statements a process of each kind may be about to make.
Places(kind) ==
  CASE kind = "approve"  -> {"fee", "preflight", "reconcile_row", "reconcile_ledger", "send",
                             "confirm", "settled_row", "settled_ledger", "refused"}
    [] kind = "manual"   -> {"preflight", "reconcile_row", "reconcile_ledger", "send",
                             "confirm", "settled_row", "settled_ledger"}
    [] kind = "loop"     -> {"preflight", "reconcile_row", "reconcile_ledger", "count", "send",
                             "confirm", "settled_row", "settled_ledger", "give_up"}
    [] kind = "pushback" -> {"pushback"}
    [] kind = "merge"    -> {"merge"}
    [] OTHER             -> {"idle"}

\* A process is where its kind may be, and at work on a bounty unless it is idle.
AtWork ==
  \A p \in Procs :
    /\ proc[p].pc \in Places(proc[p].kind)
    /\ proc[p].kind = "none" => proc[p] = Idle
    /\ proc[p].kind # "none" => proc[p].bounty \in Bounties
    /\ proc[p].kind = "loop" => p = Loop

\* Whoever is about to record a payment, or a merge that needs one, saw that it was made.
SawPayment ==
  \A p \in Procs :
    proc[p].pc \in {"reconcile_row", "reconcile_ledger", "settled_row", "settled_ledger", "merge"}
      => paid[proc[p].bounty] = 1

\* The account made by the first payment keeps a second one from being made.
PaidOnChain == \A b \in Bounties : paid[b] = IF chain[b] = None THEN 0 ELSE 1

\* Nothing happens to a bounty before its approval.
NothingBeforeApproval ==
  \A b \in Bounties :
    row[b].status = "submitted" =>
      /\ ledger[b] = "absent"
      /\ net[b] = {}
      /\ chain[b] = None
      /\ row[b].settlement = "pending"
      /\ \A p \in Procs : proc[p].bounty # b
      /\ \A r \in batch : r.bounty # b

\* An approval at work means a 'pending' row, which nobody else settles, and it is the only
\* one; only an approval that reconciles has recorded anything before its last statement.
ApprovalOwnsPending ==
  /\ \A p \in Procs :
       /\ proc[p].kind = "approve" =>
            /\ proc[p].pc # "reconcile_ledger" => row[proc[p].bounty].settlement = "pending"
            /\ proc[p].pc = "fee" => ledger[proc[p].bounty] = "absent"
            /\ \A q \in Procs \ {p} :
                 proc[q].kind = "approve" => proc[q].bounty # proc[p].bounty
       /\ proc[p].kind \in {"manual", "loop"} => row[proc[p].bounty].settlement # "pending"
  /\ \A r \in batch : row[r.bounty].settlement # "pending"

\* What the loop fetched is still so when it comes to count: nobody else counts, and it has
\* no bounty twice.
LoopCounts ==
  /\ \A r \in batch :
       /\ r.retries = row[r.bounty].retries
       /\ r.retries < MaxRetries
       /\ \A s \in batch : s.bounty = r.bounty => s = r
       /\ proc[Loop].bounty # r.bounty
  /\ proc[Loop].kind = "loop" =>
       LET counted == row[proc[Loop].bounty].retries IN
       /\ proc[Loop].retries < MaxRetries
       /\ proc[Loop].pc \in {"preflight", "count"} => counted = proc[Loop].retries
       /\ counted \in {proc[Loop].retries, proc[Loop].retries + 1}
       /\ proc[Loop].pc \in {"send", "confirm", "give_up"} /\ faults = 0 =>
            counted = proc[Loop].retries + 1
       /\ proc[Loop].pc = "give_up" => proc[Loop].retries + 1 >= MaxRetries

\* A reconciliation without a fault has written the row before the ledger.
ReconciledRow ==
  faults = 0 =>
    \A p \in Procs :
      proc[p].pc = "reconcile_ledger" => row[proc[p].bounty].settlement # "pending"

-----------------------------------------------------------------------------
(* What the helpers of the model do. *)

Statements == {"idle", "fee", "preflight", "reconcile_row", "reconcile_ledger", "count", "send",
               "confirm", "settled_row", "settled_ledger", "refused", "give_up", "pushback",
               "merge"}

Kinds == {"none", "approve", "manual", "loop", "pushback", "merge"}

LEMMA NextPcType == ASSUME NEW p PROVE NextPc(p) \in Statements
  BY DEF NextPc, Statements

\* A process that goes on keeps what it works on.
LEMMA GotoOn ==
  ASSUME TypeOK, NEW p \in Procs, NEW pc \in Statements \ {"idle"}, Goto(p, pc)
  PROVE  /\ proc' \in [Procs -> Proc]
         /\ \A q \in Procs \ {p} : proc'[q] = proc[q]
         /\ proc'[p] = [proc[p] EXCEPT !.pc = pc]
         /\ proc'[p].pc = pc
         /\ proc'[p].kind = proc[p].kind
         /\ proc'[p].bounty = proc[p].bounty
         /\ proc'[p].retries = proc[p].retries
  <1>1. proc \in [Procs -> Proc] /\ proc[p] \in Proc
    BY DEF TypeOK
  <1>2. proc' = [proc EXCEPT ![p] = [proc[p] EXCEPT !.pc = pc]]
    BY DEF Goto
  <1>3. [proc[p] EXCEPT !.pc = pc] \in Proc
    BY <1>1 DEF Proc, Statements
  <1>4. QED
    BY <1>1, <1>2, <1>3 DEF Proc

LEMMA SendEffect ==
  ASSUME TypeOK, NEW p \in Procs, send(p)
  PROVE  /\ proc' \in [Procs -> Proc]
         /\ \A q \in Procs \ {p} : proc'[q] = proc[q]
         /\ proc'[p].pc = "confirm"
         /\ proc'[p].kind = proc[p].kind
         /\ proc'[p].bounty = proc[p].bounty
         /\ proc'[p].retries = proc[p].retries
  <1> DEFINE new == [proc[p] EXCEPT !.pc = "confirm", !.quality = "low"]
  <1>1. proc \in [Procs -> Proc] /\ proc[p] \in Proc
    BY DEF TypeOK
  <1>2. proc' = [proc EXCEPT ![p] = new]
    BY <1>1 DEF send
  <1>3. new \in Proc
    <2>1. [proc[p] EXCEPT !.quality = "low"] \in Proc
      BY <1>1 DEF Proc, Quality
    <2>2. [[proc[p] EXCEPT !.quality = "low"] EXCEPT !.pc = "confirm"] \in Proc
      BY <2>1 DEF Proc
    <2>3. new = [[proc[p] EXCEPT !.quality = "low"] EXCEPT !.pc = "confirm"]
      BY <1>1 DEF Proc
    <2>4. QED
      BY <2>2, <2>3
  <1>4. /\ new.pc = "confirm" /\ new.kind = proc[p].kind /\ new.bounty = proc[p].bounty
        /\ new.retries = proc[p].retries
    BY <1>1 DEF Proc
  <1> HIDE DEF new
  <1>5. QED
    BY <1>1, <1>2, <1>3, <1>4

LEMMA IdleType == Idle \in Proc
  BY DEF Idle, Proc, Quality

LEMMA GotoIdle ==
  ASSUME TypeOK, NEW p \in Procs, Goto(p, "idle")
  PROVE  /\ proc' \in [Procs -> Proc]
         /\ \A q \in Procs \ {p} : proc'[q] = proc[q]
         /\ proc'[p] = Idle
  BY IdleType DEF TypeOK, Goto

LEMMA GotoType ==
  ASSUME TypeOK, NEW p \in Procs, NEW pc \in Statements, Goto(p, pc)
  PROVE  proc' \in [Procs -> Proc]
  BY GotoOn, GotoIdle

LEMMA EnterEffect ==
  ASSUME TypeOK, NEW p \in Procs, NEW kind \in Kinds, NEW pc \in Statements, NEW b \in Bounties,
         NEW retries \in Nat, NEW quality \in Quality, NEW sha \in Shas \cup {None},
         Enter(p, kind, pc, b, retries, quality, sha)
  PROVE  /\ proc' \in [Procs -> Proc]
         /\ \A q \in Procs \ {p} : proc'[q] = proc[q]
         /\ proc'[p] = [ pc |-> pc, kind |-> kind, bounty |-> b, retries |-> retries,
                         quality |-> quality, sha |-> sha ]
  <1> DEFINE new == [ pc |-> pc, kind |-> kind, bounty |-> b, retries |-> retries,
                      quality |-> quality, sha |-> sha ]
  <1>1. new \in Proc
    BY DEF Proc, Statements, Kinds
  <1>2. QED
    BY <1>1 DEF TypeOK, Enter

-----------------------------------------------------------------------------
(* Type correctness. *)

LEMMA TypeInit == Init => TypeOK
  <1> SUFFICES ASSUME Init PROVE TypeOK
    OBVIOUS
  <1> DEFINE First == [ status : {"submitted"}, settlement : {"pending"}, tx : {FALSE},
                        retries : {0}, wallet : {"none", "claim", "agent"},
                        submitter : BOOLEAN, payout : {FALSE}, quality : {"accepted"},
                        merge : {None} ]
  <1>1. ASSUME NEW r \in First
        PROVE  r \in Row
    <2>1. /\ "submitted" \in {"submitted", "approved"}
          /\ "pending" \in {"pending", "failed", "settled", "permanently_failed"}
          /\ FALSE \in BOOLEAN
          /\ 0 \in Nat
          /\ "accepted" \in Quality
          /\ None \in Shas \cup {None}
      BY DEF Quality
    <2>2. QED
      BY <2>1, ZenonT(60) DEF Row
  <1>2. row \in [Bounties -> First]
    BY DEF Init
  <1> HIDE DEF First
  <1>3. row \in [Bounties -> Row]
    BY <1>1, <1>2
  <1>4. QED
    BY <1>3, IdleType, ProcsAssumption DEF Init, TypeOK

\* Statements that write one row.
LEMMA RowTypes ==
  ASSUME TypeOK, NEW b \in Bounties
  PROVE  /\ \A q \in Quality : [row EXCEPT ![b].status = "approved", ![b].quality = q]
                                 \in [Bounties -> Row]
         /\ \A q \in Quality : [row EXCEPT ![b].quality = q] \in [Bounties -> Row]
         /\ \A v \in {"settled", "failed", "permanently_failed"} :
              [row EXCEPT ![b].settlement = v] \in [Bounties -> Row]
         /\ [row EXCEPT ![b].retries = @ + 1] \in [Bounties -> Row]
         /\ \A v \in Shas \cup {None} : [row EXCEPT ![b].merge = v] \in [Bounties -> Row]
         /\ [row EXCEPT ![b].settlement = "settled", ![b].tx = TRUE,
                        ![b].payout = @ \/ row[b].submitter] \in [Bounties -> Row]
  <1>1. row \in [Bounties -> Row] /\ row[b] \in Row
    BY DEF TypeOK
  <1>2. ASSUME NEW q \in Quality
        PROVE  /\ [row EXCEPT ![b].status = "approved", ![b].quality = q] \in [Bounties -> Row]
               /\ [row EXCEPT ![b].quality = q] \in [Bounties -> Row]
    BY <1>1 DEF Row
  <1>3. ASSUME NEW v \in {"settled", "failed", "permanently_failed"}
        PROVE  [row EXCEPT ![b].settlement = v] \in [Bounties -> Row]
    BY <1>1 DEF Row
  <1>4. [row EXCEPT ![b].retries = @ + 1] \in [Bounties -> Row]
    BY <1>1 DEF Row
  <1>5. ASSUME NEW v \in Shas \cup {None}
        PROVE  [row EXCEPT ![b].merge = v] \in [Bounties -> Row]
    BY <1>1 DEF Row
  <1>6. [row EXCEPT ![b].settlement = "settled", ![b].tx = TRUE,
                    ![b].payout = @ \/ row[b].submitter] \in [Bounties -> Row]
    BY <1>1 DEF Row
  <1>7. QED
    BY <1>2, <1>3, <1>4, <1>5, <1>6

\* Whoever is about to do something is at work on a bounty.
LEMMA Working ==
  ASSUME TypeOK, AtWork, NEW p \in Procs, proc[p].pc # "idle"
  PROVE  /\ proc[p].bounty \in Bounties
         /\ proc[p].kind # "none"
         /\ proc[p].kind \in Kinds
         /\ proc[p] # Idle
  BY DEF TypeOK, AtWork, Proc, Kinds, Idle

LEMMA TypeNext == TypeOK /\ AtWork /\ [Next]_vars => TypeOK'
  <1> SUFFICES ASSUME TypeOK, AtWork, [Next]_vars
               PROVE  TypeOK'
    OBVIOUS
  <1>1. ASSUME NEW p \in Requests, NEW b \in Bounties, NEW q \in Quality, approve_commit(p, b, q)
        PROVE  TypeOK'
    <2>1. p \in Procs /\ "approve" \in Kinds /\ "fee" \in Statements
      BY DEF Procs, Kinds, Statements
    <2>2. proc' \in [Procs -> Proc]
      BY <1>1, <2>1, EnterEffect DEF approve_commit
    <2>3. QED
      BY <1>1, <2>2, RowTypes DEF TypeOK, approve_commit
  <1>2. ASSUME NEW p \in Requests, NEW b \in Bounties, retry_settlement(p, b)
        PROVE  TypeOK'
    <2>1. p \in Procs /\ "manual" \in Kinds /\ "preflight" \in Statements
      BY DEF Procs, Kinds, Statements
    <2>2. row[b].quality \in Quality
      BY DEF TypeOK, Row
    <2>3. proc' \in [Procs -> Proc]
      BY <1>2, <2>1, <2>2, EnterEffect DEF retry_settlement
    <2>4. QED
      BY <1>2, <2>3 DEF TypeOK, retry_settlement
  <1>3. ASSUME NEW p \in Requests, NEW b \in Bounties, pushback_read(p, b)
        PROVE  TypeOK'
    <2>1. p \in Procs /\ "pushback" \in Kinds /\ "pushback" \in Statements
      BY DEF Procs, Kinds, Statements
    <2>2. row[b].quality \in Quality
      BY DEF TypeOK, Row
    <2>3. proc' \in [Procs -> Proc]
      BY <1>3, <2>1, <2>2, EnterEffect DEF pushback_read
    <2>4. QED
      BY <1>3, <2>3 DEF TypeOK, pushback_read
  <1>4. ASSUME NEW p \in Requests, NEW b \in Bounties, NEW s \in Shas, merge_read(p, b, s)
        PROVE  TypeOK'
    <2>1. p \in Procs /\ "merge" \in Kinds /\ "merge" \in Statements /\ "low" \in Quality
      BY DEF Procs, Kinds, Statements, Quality
    <2>2. proc' \in [Procs -> Proc]
      BY <1>4, <2>1, EnterEffect DEF merge_read
    <2>3. QED
      BY <1>4, <2>2 DEF TypeOK, merge_read
  <1>5. CASE loop_fetch
    <2>1. PICK S \in SUBSET Bounties :
            batch' = {[bounty |-> b, retries |-> row[b].retries, quality |-> row[b].quality] : b \in S}
      BY <1>5 DEF loop_fetch
    <2>2. \A b \in S : row[b].retries \in Nat /\ row[b].quality \in Quality
      BY DEF TypeOK, Row
    <2>3. batch' \in SUBSET Fetched
      BY <2>1, <2>2 DEF Fetched
    <2>4. QED
      BY <1>5, <2>3 DEF TypeOK, loop_fetch
  <1>6. ASSUME NEW r \in batch, loop_take(r)
        PROVE  TypeOK'
    <2>1. Loop \in Procs /\ "loop" \in Kinds /\ "preflight" \in Statements
      BY DEF Procs, Kinds, Statements
    <2>2. r.bounty \in Bounties /\ r.retries \in Nat /\ r.quality \in Quality
      BY DEF TypeOK, Fetched
    <2>3. proc' \in [Procs -> Proc]
      BY <1>6, <2>1, <2>2, EnterEffect, Zenon DEF loop_take, TypeOK
    <2>4. QED
      BY <1>6, <2>3 DEF TypeOK, loop_take
  <1>7. ASSUME NEW p \in Procs, Step(p)
        PROVE  TypeOK'
    <2> DEFINE b == proc[p].bounty
    <2>1. proc[p].pc # "idle"
      BY <1>7, Zenon DEF Step, record_fee, preflight, reconcile_row, settle_ledger, count_retry, send,
           confirm_ok, confirm_err, settle_row, mark_failed, mark_permanently_failed,
           pushback_write, merge_write
    <2>2. b \in Bounties
      BY <2>1, Working
    <2>3. ASSUME NEW pc \in Statements, Goto(p, pc)
          PROVE  proc' \in [Procs -> Proc]
      BY <2>3, GotoType
    <2>4. NextPc(p) \in Statements
      BY NextPcType
    <2>5. proc[p].sha \in Shas \cup {None}
      BY DEF TypeOK, Proc
    <2> HIDE DEF b
    <2> USE <2>2, <2>3, <2>4, <2>5
    <2>6. CASE record_fee(p)
      BY <2>6 DEF record_fee, TypeOK, b
    <2>7. CASE preflight(p) \/ confirm_ok(p)
      BY <2>7 DEF preflight, confirm_ok, TypeOK, Statements
    <2>8. CASE reconcile_row(p) \/ mark_failed(p) \/ mark_permanently_failed(p)
      <3>1. PICK v \in {"settled", "failed", "permanently_failed"} :
              row' = [row EXCEPT ![b].settlement = v]
        BY <2>8, Zenon DEF reconcile_row, mark_failed, mark_permanently_failed, b
      <3>2. row' \in [Bounties -> Row]
        BY <3>1, RowTypes, Zenon
      <3>3. QED
        BY <2>8, <3>2 DEF reconcile_row, mark_failed, mark_permanently_failed, TypeOK
    <2>9. CASE settle_ledger(p)
      <3>1. ledger' \in [Bounties -> {"absent", "unsettled", "settled"}]
        BY <2>9 DEF settle_ledger, TypeOK, b
      <3>2. QED
        BY <2>9, <3>1 DEF settle_ledger, TypeOK
    <2>10. CASE count_retry(p)
      <3>1. row' \in [Bounties -> Row]
        BY <2>10, RowTypes, Zenon DEF count_retry, b
      <3>2. QED
        BY <2>10, <3>1, Zenon DEF count_retry, TypeOK
    <2>11. CASE send(p)
      <3>1. proc' \in [Procs -> Proc]
        BY <2>11, SendEffect
      <3>2. net' \in [Bounties -> SUBSET (Procs \cup {Orphan})]
        BY <2>11 DEF send, TypeOK, b
      <3>3. QED
        BY <2>11, <3>1, <3>2 DEF send, TypeOK
    <2>12. CASE confirm_err(p)
      <3>1. proc' \in [Procs -> Proc]
        BY <2>12 DEF confirm_err, Statements
      <3>2. net' \in [Bounties -> SUBSET (Procs \cup {Orphan})]
        BY <2>12 DEF confirm_err, TypeOK, Orphaned
      <3>3. QED
        BY <2>12, <3>1, <3>2 DEF confirm_err, TypeOK
    <2>13. CASE settle_row(p)
      <3>1. row' \in [Bounties -> Row]
        BY <2>13, RowTypes, Zenon DEF settle_row, b
      <3>2. QED
        BY <2>13, <3>1, Zenon DEF settle_row, TypeOK
    <2>14. CASE pushback_write(p)
      <3>1. PICK q \in Quality : row' = [row EXCEPT ![b].quality = q]
        BY <2>14, Zenon DEF pushback_write, Penalized, Quality, b
      <3>2. row' \in [Bounties -> Row]
        BY <3>1, RowTypes, Zenon
      <3>3. QED
        BY <2>14, <3>2 DEF pushback_write, TypeOK, Statements
    <2>15. CASE merge_write(p)
      <3>1. row' \in [Bounties -> Row]
        BY <2>15, RowTypes, ZenonT(60) DEF merge_write, b
      <3>2. QED
        BY <2>15, <3>1, Zenon DEF merge_write, TypeOK, Statements
    <2>16. QED
      BY <1>7, <2>6, <2>7, <2>8, <2>9, <2>10, <2>11, <2>12, <2>13, <2>14, <2>15 DEF Step
  <1>8. ASSUME NEW b \in Bounties, webhook_closed(b)
        PROVE  TypeOK'
    <2>1. PICK q \in Quality : row' = [row EXCEPT ![b].quality = q]
      BY <1>8 DEF webhook_closed, Penalized, Quality
    <2>2. row' \in [Bounties -> Row]
      BY <2>1, RowTypes, Zenon
    <2>3. QED
      BY <1>8, <2>2 DEF webhook_closed, TypeOK
  <1>9. ASSUME NEW b \in Bounties, NEW p \in net[b], land(b, p) \/ expire(b, p)
        PROVE  TypeOK'
    BY <1>9 DEF land, expire, TypeOK
  <1>10. ASSUME NEW p \in Procs, preflight_error(p) \/ write_error(p) \/ abandon(p)
         PROVE  TypeOK'
    <2>1. proc' \in [Procs -> Proc]
      BY <1>10, GotoType, NextPcType DEF preflight_error, write_error, abandon, Statements
    <2>2. QED
      BY <1>10, <2>1 DEF preflight_error, write_error, abandon, Fault, TypeOK, Orphaned
  <1>11. CASE crash
    BY <1>11, IdleType DEF crash, Fault, TypeOK, Orphaned
  <1>12. CASE UNCHANGED vars
    BY <1>12 DEF vars, TypeOK
  <1>13. QED
    BY <1>1, <1>2, <1>3, <1>4, <1>5, <1>6, <1>7, <1>8, <1>9, <1>10, <1>11, <1>12
    DEF Next, Start, LoopStep, Chain, Failure, Procs

-----------------------------------------------------------------------------
(* A process is where its kind may be. *)

LEMMA AtWorkGoto ==
  ASSUME TypeOK, AtWork, NEW p \in Procs, NEW pc \in Statements,
         pc \in Places(proc[p].kind) \cup {"idle"}, Goto(p, pc)
  PROVE  AtWork'
  <1>1. CASE pc = "idle"
    <2>1. /\ \A q \in Procs \ {p} : proc'[q] = proc[q]
          /\ proc'[p] = Idle
      BY <1>1, GotoIdle
    <2>2. QED
      BY <2>1 DEF AtWork, Idle, Places
  <1>2. CASE pc # "idle"
    <2>1. /\ \A q \in Procs \ {p} : proc'[q] = proc[q]
          /\ proc'[p].pc = pc
          /\ proc'[p].kind = proc[p].kind
          /\ proc'[p].bounty = proc[p].bounty
      BY <1>2, GotoOn
    <2>2. proc[p].kind # "none"
      BY <1>2 DEF AtWork, Idle, Places
    <2>3. QED
      BY <1>2, <2>1, <2>2 DEF AtWork
  <1>3. QED
    BY <1>1, <1>2

LEMMA AtWorkEnter ==
  ASSUME TypeOK, AtWork, NEW p \in Procs, NEW kind \in Kinds \ {"none"}, NEW pc \in Statements,
         NEW b \in Bounties, NEW retries \in Nat, NEW quality \in Quality,
         NEW sha \in Shas \cup {None}, Enter(p, kind, pc, b, retries, quality, sha),
         pc \in Places(kind), kind = "loop" => p = Loop
  PROVE  AtWork'
  <1>1. /\ \A q \in Procs \ {p} : proc'[q] = proc[q]
        /\ proc'[p] = [ pc |-> pc, kind |-> kind, bounty |-> b, retries |-> retries,
                        quality |-> quality, sha |-> sha ]
    BY EnterEffect
  <1>2. /\ proc'[p].pc = pc /\ proc'[p].kind = kind /\ proc'[p].bounty = b
    BY <1>1
  <1>3. QED
    BY <1>1, <1>2 DEF AtWork

\* The statement after a process's own is one of its kind.
LEMMA NextPcPlace ==
  ASSUME TypeOK, AtWork, NEW p \in Procs
  PROVE  NextPc(p) \in Places(proc[p].kind) \cup {"idle"}
  <1>1. proc[p].pc \in Places(proc[p].kind) /\ proc[p].kind \in Kinds
    BY DEF AtWork, TypeOK, Proc, Kinds
  <1>2. QED
    BY <1>1 DEF NextPc, Places, Kinds

LEMMA AtWorkNext == TypeOK /\ AtWork /\ [Next]_vars => AtWork'
  <1> SUFFICES ASSUME TypeOK, AtWork, [Next]_vars
               PROVE  AtWork'
    OBVIOUS
  <1> USE DEF Statements, Kinds
  <1>1. ASSUME NEW p \in Requests, Start(p)
        PROVE  AtWork'
    <2>1. p \in Procs /\ "low" \in Quality /\ \A b \in Bounties : row[b].quality \in Quality
      BY DEF Procs, Quality, TypeOK, Row
    <2>2. ASSUME NEW b \in Bounties, NEW q \in Quality, approve_commit(p, b, q)
          PROVE  AtWork'
      <3>1. Enter(p, "approve", "fee", b, 0, q, None) /\ "fee" \in Places("approve")
        BY <2>2 DEF approve_commit, Places
      <3>2. QED
        BY <2>1, <3>1, AtWorkEnter
    <2>3. ASSUME NEW b \in Bounties, retry_settlement(p, b)
          PROVE  AtWork'
      <3>1. Enter(p, "manual", "preflight", b, 0, row[b].quality, None) /\ "preflight" \in Places("manual")
        BY <2>3 DEF retry_settlement, Places
      <3>2. QED
        BY <2>1, <3>1, AtWorkEnter
    <2>4. ASSUME NEW b \in Bounties, pushback_read(p, b)
          PROVE  AtWork'
      <3>1. Enter(p, "pushback", "pushback", b, 0, row[b].quality, None) /\ "pushback" \in Places("pushback")
        BY <2>4 DEF pushback_read, Places
      <3>2. QED
        BY <2>1, <3>1, AtWorkEnter
    <2>5. ASSUME NEW b \in Bounties, NEW s \in Shas, merge_read(p, b, s)
          PROVE  AtWork'
      <3>1. Enter(p, "merge", "merge", b, 0, "low", s) /\ "merge" \in Places("merge")
        BY <2>5 DEF merge_read, Places
      <3>2. QED
        BY <2>1, <3>1, AtWorkEnter
    <2>6. QED
      BY <1>1, <2>2, <2>3, <2>4, <2>5 DEF Start
  <1>2. ASSUME NEW r \in batch, loop_take(r)
        PROVE  AtWork'
    <2>1. r.bounty \in Bounties /\ r.retries \in Nat /\ r.quality \in Quality /\ Loop \in Procs
      BY DEF TypeOK, Fetched, Procs
    <2>2. QED
      BY <1>2, <2>1, AtWorkEnter, ZenonT(60) DEF loop_take, AtWork, Places
  <1>3. ASSUME NEW p \in Procs, Step(p) \/ preflight_error(p) \/ write_error(p) \/ abandon(p)
        PROVE  AtWork'
    <2> DEFINE Allowed == Places(proc[p].kind) \cup {"idle"}
    <2>1. proc[p].pc \in Places(proc[p].kind) /\ proc[p].kind \in Kinds
      BY DEF AtWork, TypeOK, Proc
    <2>2. ASSUME NEW pc \in Statements, pc \in Allowed, Goto(p, pc)
          PROVE  AtWork'
      BY <2>2, AtWorkGoto
    <2>3. NextPc(p) \in Statements /\ NextPc(p) \in Allowed
      BY NextPcType, NextPcPlace
    <2>4. CASE record_fee(p) \/ reconcile_row(p) \/ settle_ledger(p) \/ count_retry(p)
               \/ settle_row(p) \/ mark_failed(p) \/ mark_permanently_failed(p) \/ write_error(p)
      <3>1. Goto(p, NextPc(p))
        BY <2>4 DEF record_fee, reconcile_row, settle_ledger, count_retry, settle_row,
             mark_failed, mark_permanently_failed, write_error
      <3>2. QED
        BY <2>2, <2>3, <3>1
    <2>5. CASE preflight(p)
      <3>1. PICK pc \in {"reconcile_row", "count", "send"} :
              Goto(p, pc) /\ (pc = "count" => proc[p].kind = "loop")
        BY <2>5 DEF preflight
      <3>2. pc \in Allowed
        BY <2>1, <2>5, <3>1 DEF preflight, Places
      <3>3. QED
        BY <2>2, <3>1, <3>2
    <2>6. CASE confirm_ok(p)
      <3>1. PICK pc \in {"settled_ledger", "settled_row"} : Goto(p, pc)
        BY <2>6 DEF confirm_ok
      <3>2. pc \in Allowed
        BY <2>1, <2>6, <3>1 DEF confirm_ok, Places
      <3>3. QED
        BY <2>2, <3>1, <3>2
    <2>7. CASE confirm_err(p) \/ preflight_error(p)
      <3>1. PICK pc \in {"refused", "give_up", "idle"} :
              /\ Goto(p, pc)
              /\ pc = "refused" => proc[p].kind = "approve"
              /\ pc = "give_up" => proc[p].kind = "loop"
        BY <2>7 DEF confirm_err, preflight_error
      <3>2. pc \in Allowed
        BY <2>1, <3>1 DEF Places
      <3>3. QED
        BY <2>2, <3>1, <3>2
    <2>8. CASE send(p)
      <3>1. /\ \A q \in Procs \ {p} : proc'[q] = proc[q]
            /\ proc'[p].pc = "confirm"
            /\ proc'[p].kind = proc[p].kind
            /\ proc'[p].bounty = proc[p].bounty
        BY <2>8, SendEffect
      <3>2. proc[p].kind \in {"approve", "manual", "loop"}
        BY <2>1, <2>8 DEF send, Places
      <3>3. QED
        BY <3>1, <3>2 DEF AtWork, Places
    <2>9. CASE pushback_write(p) \/ merge_write(p) \/ abandon(p)
      <3>1. Goto(p, "idle")
        BY <2>9 DEF pushback_write, merge_write, abandon
      <3>2. QED
        BY <2>2, <3>1
    <2>10. QED
      BY <1>3, <2>4, <2>5, <2>6, <2>7, <2>8, <2>9 DEF Step
  <1>4. CASE crash
    BY <1>4 DEF crash, AtWork, Idle, Places
  <1>5. CASE UNCHANGED proc
    BY <1>5 DEF AtWork
  <1>6. QED
    BY <1>1, <1>2, <1>3, <1>4, <1>5
    DEF Next, LoopStep, loop_fetch, webhook_closed, Chain, land, expire, Failure, Procs, vars

-----------------------------------------------------------------------------
(* The books follow the chain. *)

\* Only a transaction that executes touches the chain, and only for a bounty not yet paid.
LEMMA ChainNext ==
  ASSUME TypeOK, PaidOnChain, [Next]_vars
  PROVE  /\ PaidOnChain'
         /\ \A b \in Bounties : paid[b] = 1 => paid'[b] = 1
  <1>1. ASSUME NEW b \in Bounties, NEW p \in net[b], land(b, p)
        PROVE  /\ PaidOnChain'
               /\ \A c \in Bounties : paid[c] = 1 => paid'[c] = 1
    <2>1. p # None
      BY ProcsAssumption DEF TypeOK
    <2>2. QED
      BY <1>1, <2>1 DEF land, PaidOnChain, TypeOK
  <1>2. CASE UNCHANGED <<chain, paid>>
    BY <1>2 DEF PaidOnChain
  <1>3. ASSUME NEW p \in Procs, Step(p)
        PROVE  UNCHANGED <<chain, paid>>
    BY <1>3, Zenon DEF Step, record_fee, preflight, reconcile_row, settle_ledger, count_retry, send,
         confirm_ok, confirm_err, settle_row, mark_failed, mark_permanently_failed,
         pushback_write, merge_write
  <1>4. QED
    BY <1>1, <1>2, <1>3, ZenonT(60) DEF Next, Start, LoopStep, Chain, Failure, Procs, vars, approve_commit,
         retry_settlement, pushback_read, merge_read, loop_fetch, loop_take, webhook_closed,
         expire, preflight_error, write_error, abandon, crash

\* The statements that record a payment, or a merge, which needs one.
Recording == {"reconcile_row", "reconcile_ledger", "settled_row", "settled_ledger", "merge"}

LEMMA SawPaymentGoto ==
  ASSUME TypeOK, SawPayment, NEW p \in Procs, NEW pc \in Statements, Goto(p, pc),
         pc \in Recording => paid[proc[p].bounty] = 1, UNCHANGED paid
  PROVE  SawPayment'
  <1>1. CASE pc = "idle"
    BY <1>1, GotoIdle DEF SawPayment, Idle
  <1>2. CASE pc # "idle"
    <2>1. /\ \A q \in Procs \ {p} : proc'[q] = proc[q]
          /\ proc'[p].pc = pc
          /\ proc'[p].bounty = proc[p].bounty
      BY <1>2, GotoOn
    <2>2. QED
      BY <2>1 DEF SawPayment, Recording
  <1>3. QED
    BY <1>1, <1>2

LEMMA SawPaymentEnter ==
  ASSUME TypeOK, SawPayment, NEW p \in Procs, NEW kind \in Kinds, NEW pc \in Statements,
         NEW b \in Bounties, NEW retries \in Nat, NEW quality \in Quality,
         NEW sha \in Shas \cup {None}, Enter(p, kind, pc, b, retries, quality, sha),
         pc \in Recording => paid[b] = 1, UNCHANGED paid
  PROVE  SawPayment'
  <1>1. /\ \A q \in Procs \ {p} : proc'[q] = proc[q]
        /\ proc'[p] = [ pc |-> pc, kind |-> kind, bounty |-> b, retries |-> retries,
                        quality |-> quality, sha |-> sha ]
    BY EnterEffect
  <1>2. proc'[p].pc = pc /\ proc'[p].bounty = b
    BY <1>1
  <1>3. QED
    BY <1>1, <1>2 DEF SawPayment, Recording

LEMMA SawPaymentNext ==
  ASSUME TypeOK, AtWork, SawPayment, PaidOnChain, BooksFollowChain, [Next]_vars
  PROVE  SawPayment'
  <1> USE DEF Statements, Kinds
  <1>1. ASSUME NEW p \in Requests, Start(p)
        PROVE  SawPayment'
    <2>1. p \in Procs /\ "low" \in Quality /\ \A b \in Bounties : row[b].quality \in Quality
      BY DEF Procs, Quality, TypeOK, Row
    <2>2. ASSUME NEW b \in Bounties, NEW q \in Quality, approve_commit(p, b, q)
          PROVE  SawPayment'
      <3>1. Enter(p, "approve", "fee", b, 0, q, None) /\ UNCHANGED paid /\ "fee" \notin Recording
        BY <2>2 DEF approve_commit, Recording
      <3>2. QED
        BY <2>1, <3>1, SawPaymentEnter
    <2>3. ASSUME NEW b \in Bounties, retry_settlement(p, b)
          PROVE  SawPayment'
      <3>1. /\ Enter(p, "manual", "preflight", b, 0, row[b].quality, None)
            /\ UNCHANGED paid
            /\ "preflight" \notin Recording
        BY <2>3 DEF retry_settlement, Recording
      <3>2. QED
        BY <2>1, <3>1, SawPaymentEnter
    <2>4. ASSUME NEW b \in Bounties, pushback_read(p, b)
          PROVE  SawPayment'
      <3>1. /\ Enter(p, "pushback", "pushback", b, 0, row[b].quality, None)
            /\ UNCHANGED paid
            /\ "pushback" \notin Recording
        BY <2>4 DEF pushback_read, Recording
      <3>2. QED
        BY <2>1, <3>1, SawPaymentEnter
    <2>5. ASSUME NEW b \in Bounties, NEW s \in Shas, merge_read(p, b, s)
          PROVE  SawPayment'
      <3>1. Enter(p, "merge", "merge", b, 0, "low", s) /\ UNCHANGED paid
        BY <2>5 DEF merge_read
      <3>2. paid[b] = 1
        BY <2>5 DEF merge_read, BooksFollowChain
      <3>3. QED
        BY <2>1, <3>1, <3>2, SawPaymentEnter
    <2>6. QED
      BY <1>1, <2>2, <2>3, <2>4, <2>5 DEF Start
  <1>2. ASSUME NEW r \in batch, loop_take(r)
        PROVE  SawPayment'
    <2>1. r.bounty \in Bounties /\ r.retries \in Nat /\ r.quality \in Quality /\ Loop \in Procs
      BY DEF TypeOK, Fetched, Procs
    <2>2. CASE UNCHANGED proc
      BY <1>2, <2>2 DEF loop_take, SawPayment
    <2>3. CASE Enter(Loop, "loop", "preflight", r.bounty, r.retries, r.quality, None)
      <3>1. UNCHANGED paid /\ "preflight" \notin Recording
        BY <1>2 DEF loop_take, Recording
      <3>2. QED
        BY <2>1, <2>3, <3>1, SawPaymentEnter
    <2>4. QED
      BY <1>2, <2>2, <2>3 DEF loop_take
  <1>3. ASSUME NEW p \in Procs, Step(p) \/ preflight_error(p) \/ write_error(p) \/ abandon(p)
        PROVE  SawPayment'
    <2>1. proc[p].pc \in Places(proc[p].kind) /\ proc[p].kind \in Kinds
      BY DEF AtWork, TypeOK, Proc
    <2>2. ASSUME NEW pc \in Statements, Goto(p, pc),
                 pc \in Recording => paid[proc[p].bounty] = 1, UNCHANGED paid
          PROVE  SawPayment'
      BY <2>2, SawPaymentGoto
    <2>3. NextPc(p) \in Recording => proc[p].pc \in Recording
      BY DEF NextPc, Recording
    <2>4. proc[p].pc \in Recording => paid[proc[p].bounty] = 1
      BY DEF SawPayment, Recording
    <2>5. CASE record_fee(p) \/ reconcile_row(p) \/ settle_ledger(p) \/ count_retry(p)
               \/ settle_row(p) \/ mark_failed(p) \/ mark_permanently_failed(p) \/ write_error(p)
      <3>1. Goto(p, NextPc(p)) /\ UNCHANGED paid
        BY <2>5 DEF record_fee, reconcile_row, settle_ledger, count_retry, settle_row,
             mark_failed, mark_permanently_failed, write_error
      <3>2. QED
        BY <2>2, <2>3, <2>4, <3>1, NextPcType, SMTT(60)
    <2>6. CASE preflight(p)
      <3>1. proc[p].bounty \in Bounties
        BY <2>6, Working DEF preflight
      <3>2. PICK pc \in {"reconcile_row", "count", "send"} :
              Goto(p, pc) /\ (pc = "reconcile_row" => chain[proc[p].bounty] # None)
        BY <2>6 DEF preflight
      <3>3. pc \in Recording => paid[proc[p].bounty] = 1
        BY <3>1, <3>2 DEF PaidOnChain, Recording
      <3>4. QED
        BY <2>2, <2>6, <3>2, <3>3 DEF preflight
    <2>7. CASE confirm_ok(p)
      <3>1. proc[p].bounty \in Bounties
        BY <2>7, Working DEF confirm_ok
      <3>2. p # None
        BY ProcsAssumption
      <3>3. paid[proc[p].bounty] = 1
        BY <2>7, <3>1, <3>2 DEF confirm_ok, PaidOnChain
      <3>4. PICK pc \in {"settled_ledger", "settled_row"} : Goto(p, pc)
        BY <2>7 DEF confirm_ok
      <3>5. QED
        BY <2>2, <2>7, <3>3, <3>4 DEF confirm_ok
    <2>8. CASE confirm_err(p) \/ preflight_error(p) \/ pushback_write(p) \/ merge_write(p)
               \/ abandon(p)
      <3>1. PICK pc \in {"refused", "give_up", "idle"} : Goto(p, pc)
        BY <2>8 DEF confirm_err, preflight_error, pushback_write, merge_write, abandon
      <3>2. pc \notin Recording
        BY <3>1 DEF Recording
      <3>3. UNCHANGED paid
        BY <2>8 DEF confirm_err, preflight_error, pushback_write, merge_write, abandon
      <3>4. QED
        BY <2>2, <3>1, <3>2, <3>3
    <2>9. CASE send(p)
      <3>1. /\ \A q \in Procs \ {p} : proc'[q] = proc[q]
            /\ proc'[p].pc = "confirm"
        BY <2>9, SendEffect
      <3>2. QED
        BY <2>9, <3>1, ZenonT(60) DEF send, SawPayment
    <2>10. QED
      BY <1>3, <2>5, <2>6, <2>7, <2>8, <2>9 DEF Step
  <1>4. CASE crash
    BY <1>4 DEF crash, SawPayment, Idle
  <1>5. CASE UNCHANGED proc
    <2>1. \A b \in Bounties : paid[b] = 1 => paid'[b] = 1
      BY ChainNext
    <2>2. \A p \in Procs : proc[p].pc \in Recording => proc[p].bounty \in Bounties
      BY Working DEF Recording
    <2>3. QED
      BY <1>5, <2>1, <2>2 DEF SawPayment, Recording
  <1>6. QED
    BY <1>1, <1>2, <1>3, <1>4, <1>5
    DEF Next, LoopStep, loop_fetch, webhook_closed, Chain, land, expire, Failure, Procs, vars

\* A statement that writes one row, and says nothing of a payment unless there was one.
LEMMA BooksOneRow ==
  ASSUME TypeOK, BooksFollowChain, NEW b \in Bounties,
         \A c \in Bounties \ {b} : row'[c] = row[c],
         \/ row'[b].settlement = "settled" \/ row'[b].tx \/ row'[b].payout
         \/ row'[b].merge # None
         => paid[b] = 1 \/ (row[b].settlement = "settled" \/ row[b].tx \/ row[b].payout
                            \/ row[b].merge # None),
         UNCHANGED <<ledger, paid>>
  PROVE  BooksFollowChain'
  BY DEF BooksFollowChain

LEMMA BooksNext ==
  ASSUME TypeOK, AtWork, SawPayment, PaidOnChain, BooksFollowChain, [Next]_vars
  PROVE  BooksFollowChain'
  <1>0. row \in [Bounties -> Row] /\ \A b \in Bounties : row[b] \in Row
    BY DEF TypeOK
  <1>1. ASSUME NEW p \in Requests, NEW b \in Bounties, NEW q \in Quality, approve_commit(p, b, q)
        PROVE  BooksFollowChain'
    <2>1. /\ \A c \in Bounties \ {b} : row'[c] = row[c]
          /\ row'[b].settlement = row[b].settlement /\ row'[b].tx = row[b].tx
          /\ row'[b].payout = row[b].payout /\ row'[b].merge = row[b].merge
      BY <1>0, <1>1 DEF approve_commit, Row
    <2>2. QED
      BY <1>1, <2>1, BooksOneRow DEF approve_commit
  <1>2. ASSUME NEW b \in Bounties, webhook_closed(b)
        PROVE  BooksFollowChain'
    <2>1. PICK q : row' = [row EXCEPT ![b].quality = q]
      BY <1>2 DEF webhook_closed
    <2>2. /\ \A c \in Bounties \ {b} : row'[c] = row[c]
          /\ row'[b].settlement = row[b].settlement /\ row'[b].tx = row[b].tx
          /\ row'[b].payout = row[b].payout /\ row'[b].merge = row[b].merge
      BY <1>0, <2>1 DEF Row
    <2>3. QED
      BY <1>2, <2>2, BooksOneRow DEF webhook_closed
  <1>3. ASSUME NEW p \in Procs, Step(p)
        PROVE  BooksFollowChain'
    <2> DEFINE b == proc[p].bounty
    <2>1. proc[p].pc # "idle"
      BY <1>3, Zenon DEF Step, record_fee, preflight, reconcile_row, settle_ledger, count_retry, send,
           confirm_ok, confirm_err, settle_row, mark_failed, mark_permanently_failed,
           pushback_write, merge_write
    <2>2. b \in Bounties /\ row[b] \in Row
      BY <1>0, <2>1, Working
    <2>3. proc[p].pc \in Recording => paid[b] = 1
      BY DEF SawPayment, Recording
    <2> HIDE DEF b
    <2>4. CASE reconcile_row(p)
      <3>1. paid[b] = 1 /\ \A c \in Bounties \ {b} : row'[c] = row[c]
        BY <1>0, <2>2, <2>3, <2>4, ZenonT(60) DEF reconcile_row, Recording, b
      <3>2. QED
        BY <2>2, <2>4, <3>1, BooksOneRow DEF reconcile_row
    <2>5. CASE settle_row(p)
      <3>1. paid[b] = 1 /\ \A c \in Bounties \ {b} : row'[c] = row[c]
        BY <1>0, <2>2, <2>3, <2>5 DEF settle_row, Recording, b
      <3>2. QED
        BY <2>2, <2>5, <3>1, BooksOneRow DEF settle_row
    <2>6. CASE merge_write(p)
      <3>1. paid[b] = 1 /\ \A c \in Bounties \ {b} : row'[c] = row[c]
        BY <1>0, <2>2, <2>3, <2>6 DEF merge_write, Recording, b
      <3>2. QED
        BY <2>2, <2>6, <3>1, BooksOneRow DEF merge_write
    <2>7. CASE mark_failed(p) \/ mark_permanently_failed(p)
      <3>1. PICK v \in {"failed", "permanently_failed"} : row' = [row EXCEPT ![b].settlement = v]
        BY <2>7 DEF mark_failed, mark_permanently_failed, b
      <3>2. /\ \A c \in Bounties \ {b} : row'[c] = row[c]
            /\ row'[b].settlement # "settled" /\ row'[b].tx = row[b].tx
            /\ row'[b].payout = row[b].payout /\ row'[b].merge = row[b].merge
        BY <1>0, <2>2, <3>1 DEF Row
      <3>3. QED
        BY <2>2, <2>7, <3>2, BooksOneRow DEF mark_failed, mark_permanently_failed
    <2>8. CASE count_retry(p) \/ pushback_write(p)
      <3>1. /\ \A c \in Bounties \ {b} : row'[c] = row[c]
            /\ row'[b].settlement = row[b].settlement /\ row'[b].tx = row[b].tx
            /\ row'[b].payout = row[b].payout /\ row'[b].merge = row[b].merge
        <4>1. CASE count_retry(p)
          BY <1>0, <2>2, <4>1 DEF count_retry, Row, b
        <4>2. CASE pushback_write(p)
          <5>1. PICK q : row' = [row EXCEPT ![b].quality = q]
            BY <4>2 DEF pushback_write, b
          <5>2. QED
            BY <1>0, <2>2, <5>1 DEF Row
        <4>3. QED
          BY <2>8, <4>1, <4>2
      <3>2. QED
        BY <2>2, <2>8, <3>1, BooksOneRow DEF count_retry, pushback_write
    <2>9. CASE record_fee(p)
      <3>1. \A c \in Bounties : ledger'[c] = "settled" => ledger[c] = "settled"
        BY <2>2, <2>9 DEF record_fee, TypeOK, b
      <3>2. QED
        BY <2>9, <3>1 DEF record_fee, BooksFollowChain
    <2>10. CASE settle_ledger(p)
      <3>1. paid[b] = 1
        BY <2>3, <2>10 DEF settle_ledger, Recording
      <3>2. \A c \in Bounties : ledger'[c] = "settled" => ledger[c] = "settled" \/ c = b
        BY <2>2, <2>10 DEF settle_ledger, TypeOK, b
      <3>3. QED
        BY <2>10, <3>1, <3>2 DEF settle_ledger, BooksFollowChain
    <2>11. CASE UNCHANGED <<row, ledger, paid>>
      BY <2>11 DEF BooksFollowChain
    <2>12. QED
      BY <1>3, <2>4, <2>5, <2>6, <2>7, <2>8, <2>9, <2>10, <2>11, Zenon
      DEF Step, preflight, send, confirm_ok, confirm_err
  <1>4. CASE UNCHANGED <<row, ledger>>
    <2>1. \A b \in Bounties : paid[b] = 1 => paid'[b] = 1
      BY ChainNext
    <2>2. QED
      BY <1>4, <2>1 DEF BooksFollowChain
  <1>5. QED
    BY <1>1, <1>2, <1>3, <1>4 DEF Next, Start, LoopStep, Chain, Failure, Procs, vars,
         retry_settlement, pushback_read, merge_read, loop_fetch, loop_take, land,
         expire, preflight_error, write_error, abandon, crash

-----------------------------------------------------------------------------
\* The part of the invariant about payments.
PaymentInv == TypeOK /\ AtWork /\ SawPayment /\ PaidOnChain /\ BooksFollowChain

LEMMA PaymentInvInit == Init => PaymentInv
  <1> SUFFICES ASSUME Init PROVE PaymentInv
    OBVIOUS
  <1>1. AtWork /\ SawPayment
    BY DEF Init, AtWork, SawPayment, Idle, Places
  <1>2. PaidOnChain /\ BooksFollowChain
    BY DEF Init, PaidOnChain, BooksFollowChain
  <1>3. QED
    BY <1>1, <1>2, TypeInit DEF PaymentInv

LEMMA PaymentInvNext == PaymentInv /\ [Next]_vars => PaymentInv'
  BY TypeNext, AtWorkNext, ChainNext, SawPaymentNext, BooksNext DEF PaymentInv

LEMMA PaymentAlways == Spec => []PaymentInv
  BY PaymentInvInit, PaymentInvNext, PTL DEF Spec

\* Rows, processes, transactions and the chain keep their types, for any number of bounties,
\* requests and faults.
THEOREM TypeCorrect == Spec => []TypeOK
  BY PaymentAlways, PTL DEF PaymentInv

\* Nothing the relay records of a payment, in the row or in the ledger, is ever ahead of the
\* chain, however processes interleave and whatever fails.
THEOREM BooksAreTrue == Spec => []BooksFollowChain
  BY PaymentAlways, PTL DEF PaymentInv

-----------------------------------------------------------------------------
(* What a step of a process leaves alone. *)

\* A step of p, with or without a fault, goes on with the same bounty or ends.
LEMMA StepProc ==
  ASSUME TypeOK, AtWork, NEW p \in Procs,
         Step(p) \/ preflight_error(p) \/ write_error(p) \/ abandon(p)
  PROVE  /\ \A q \in Procs \ {p} : proc'[q] = proc[q]
         /\ \/ proc'[p] = Idle
            \/ /\ proc'[p].kind = proc[p].kind
               /\ proc'[p].bounty = proc[p].bounty
               /\ proc'[p].retries = proc[p].retries
  <1>1. ASSUME NEW pc \in Statements, Goto(p, pc)
        PROVE  /\ \A q \in Procs \ {p} : proc'[q] = proc[q]
               /\ \/ proc'[p] = Idle
                  \/ /\ proc'[p].kind = proc[p].kind
                     /\ proc'[p].bounty = proc[p].bounty
                     /\ proc'[p].retries = proc[p].retries
    BY <1>1, GotoOn, GotoIdle
  <1>2. CASE send(p)
    BY <1>2, SendEffect
  <1>3. CASE ~ send(p)
    <2>1. PICK pc \in Statements : Goto(p, pc)
      BY <1>3, NextPcType, Zenon DEF Step, record_fee, preflight, reconcile_row, settle_ledger,
           count_retry, confirm_ok, confirm_err, settle_row, mark_failed, mark_permanently_failed,
           pushback_write, merge_write, preflight_error, write_error, abandon, Statements
    <2>2. QED
      BY <1>1, <2>1, Zenon
  <1>4. QED
    BY <1>2, <1>3

\* It is a step of a process at work on a bounty, writes no other row or ledger entry,
\* and leaves the status, wallet and submitter of its own.
LEMMA StepRow ==
  ASSUME TypeOK, AtWork, NEW p \in Procs,
         Step(p) \/ preflight_error(p) \/ write_error(p) \/ abandon(p)
  PROVE  /\ proc[p].bounty \in Bounties
         /\ \A b \in Bounties \ {proc[p].bounty} : row'[b] = row[b] /\ ledger'[b] = ledger[b]
         /\ \A b \in Bounties : row'[b].status = row[b].status /\ row'[b].wallet = row[b].wallet
         /\ UNCHANGED <<batch, chain, paid>>
  <1> DEFINE b == proc[p].bounty
  <1>1. proc[p].pc # "idle"
    <2>1. CASE abandon(p)
      <3>1. proc[p].kind # "none" /\ proc[p].kind \in Kinds /\ proc[p].pc \in Places(proc[p].kind)
        BY <2>1, Zenon DEF abandon, AtWork, TypeOK, Proc, Kinds
      <3>2. QED
        BY <3>1 DEF Kinds, Places
    <2>2. CASE ~ abandon(p)
      BY <2>2, Zenon DEF Step, record_fee, preflight, reconcile_row, settle_ledger, count_retry, send,
           confirm_ok, confirm_err, settle_row, mark_failed, mark_permanently_failed,
           pushback_write, merge_write, preflight_error, write_error
    <2>3. QED
      BY <2>1, <2>2
  <1>2. b \in Bounties /\ row \in [Bounties -> Row] /\ row[b] \in Row
    BY <1>1, Working, Zenon DEF TypeOK
  <1>3. UNCHANGED <<batch, chain, paid>>
    BY ZenonT(60) DEF Step, record_fee, preflight, reconcile_row, settle_ledger, count_retry, send,
         confirm_ok, confirm_err, settle_row, mark_failed, mark_permanently_failed,
         pushback_write, merge_write, preflight_error, write_error, abandon
  <1> HIDE DEF b
  <1>4. \A c \in Bounties \ {b} : ledger'[c] = ledger[c]
    BY <1>2 DEF Step, record_fee, preflight, reconcile_row, settle_ledger, count_retry, send,
         confirm_ok, confirm_err, settle_row, mark_failed, mark_permanently_failed,
         pushback_write, merge_write, preflight_error, write_error, abandon, TypeOK, b
  <1>5. /\ \A c \in Bounties \ {b} : row'[c] = row[c]
        /\ row'[b].status = row[b].status
        /\ row'[b].wallet = row[b].wallet
    <2>1. CASE reconcile_row(p) \/ mark_failed(p) \/ mark_permanently_failed(p)
      <3>1. PICK v : row' = [row EXCEPT ![b].settlement = v]
        BY <2>1 DEF reconcile_row, mark_failed, mark_permanently_failed, b
      <3>2. QED
        BY <1>2, <3>1 DEF Row
    <2>2. CASE count_retry(p)
      BY <1>2, <2>2 DEF count_retry, Row, b
    <2>3. CASE settle_row(p)
      BY <1>2, <2>3 DEF settle_row, Row, b
    <2>4. CASE pushback_write(p)
      <3>1. PICK q : row' = [row EXCEPT ![b].quality = q]
        BY <2>4 DEF pushback_write, b
      <3>2. QED
        BY <1>2, <3>1 DEF Row
    <2>5. CASE merge_write(p)
      BY <1>2, <2>5 DEF merge_write, Row, b
    <2>6. CASE UNCHANGED row
      BY <2>6
    <2>7. QED
      BY <2>1, <2>2, <2>3, <2>4, <2>5, <2>6 DEF Step, record_fee, preflight, settle_ledger, send,
         confirm_ok, confirm_err, preflight_error, write_error, abandon
  <1>6. QED
    BY <1>2, <1>3, <1>4, <1>5 DEF b

\* Nobody can have broadcast for a bounty that no process works on.
LEMMA StepNet ==
  ASSUME TypeOK, NEW p \in Procs, NEW b \in Bounties, b # proc[p].bounty, net[b] = {},
         Step(p) \/ preflight_error(p) \/ write_error(p) \/ abandon(p)
  PROVE  net'[b] = {}
  BY DEF Step, record_fee, preflight, reconcile_row, settle_ledger, count_retry, send,
       confirm_ok, confirm_err, settle_row, mark_failed, mark_permanently_failed,
       pushback_write, merge_write, preflight_error, write_error, abandon, TypeOK, Orphaned

\* The statements that start something.
LEMMA StartEffect ==
  ASSUME TypeOK, AtWork, NEW p \in Requests, Start(p)
  PROVE  \E b \in Bounties :
           /\ \A q \in Procs \ {p} : proc'[q] = proc[q]
           /\ proc[p] = Idle
           /\ proc'[p].bounty = b
           /\ proc'[p].kind # "loop"
           /\ UNCHANGED <<ledger, batch, net, chain, paid, faults>>
           /\ \/ /\ proc'[p].kind = "approve" /\ proc'[p].pc = "fee"
                 /\ row[b].status = "submitted"
                 /\ row'[b].status = "approved" /\ row'[b].settlement = row[b].settlement
                 /\ row'[b].retries = row[b].retries
                 /\ \A c \in Bounties \ {b} : row'[c] = row[c]
              \/ /\ proc'[p].kind = "manual" /\ proc'[p].pc = "preflight"
                 /\ row[b].status = "approved" /\ row[b].settlement = "failed"
                 /\ UNCHANGED row
              \/ /\ proc'[p].kind \in {"pushback", "merge"} /\ row[b].status = "approved"
                 /\ proc'[p].pc \in {"pushback", "merge"}
                 /\ UNCHANGED row
  <1>1. /\ p \in Procs /\ "low" \in Quality /\ {"approve", "manual", "pushback", "merge"} \subseteq Kinds
        /\ {"fee", "preflight", "pushback", "merge"} \subseteq Statements
        /\ \A b \in Bounties : row[b].quality \in Quality
    BY DEF Procs, Quality, TypeOK, Row, Kinds, Statements
  <1>2. ASSUME NEW b \in Bounties, NEW kind \in Kinds, NEW pc \in Statements, NEW q \in Quality,
               NEW s \in Shas \cup {None}, Enter(p, kind, pc, b, 0, q, s)
        PROVE  /\ \A x \in Procs \ {p} : proc'[x] = proc[x]
               /\ proc'[p].bounty = b /\ proc'[p].kind = kind /\ proc'[p].pc = pc
    <2>1. /\ \A x \in Procs \ {p} : proc'[x] = proc[x]
          /\ proc'[p] = [ pc |-> pc, kind |-> kind, bounty |-> b, retries |-> 0,
                          quality |-> q, sha |-> s ]
      <3>1. 0 \in Nat
        OBVIOUS
      <3>2. QED
        BY <1>1, <1>2, <3>1, EnterEffect
    <2>2. QED
      BY <2>1
  <1>3. ASSUME NEW b \in Bounties, NEW q \in Quality, approve_commit(p, b, q)
        PROVE  /\ row'[b].status = "approved" /\ row'[b].settlement = row[b].settlement
               /\ row'[b].retries = row[b].retries
               /\ \A c \in Bounties \ {b} : row'[c] = row[c]
    BY <1>3 DEF approve_commit, TypeOK, Row
  <1>4. CASE \E b \in Bounties, q \in Quality : approve_commit(p, b, q)
    <2>1. PICK b \in Bounties, q \in Quality : approve_commit(p, b, q)
      BY <1>4
    <2>2. Enter(p, "approve", "fee", b, 0, q, None)
      BY <2>1 DEF approve_commit
    <2>3. /\ \A x \in Procs \ {p} : proc'[x] = proc[x]
          /\ proc'[p].bounty = b /\ proc'[p].kind = "approve" /\ proc'[p].pc = "fee"
      BY <1>1, <1>2, <2>2
    <2>4. QED
      BY <1>3, <2>1, <2>3 DEF approve_commit
  <1>5. CASE \E b \in Bounties : retry_settlement(p, b)
    <2>1. PICK b \in Bounties : retry_settlement(p, b)
      BY <1>5
    <2>2. Enter(p, "manual", "preflight", b, 0, row[b].quality, None)
      BY <2>1 DEF retry_settlement
    <2>3. /\ \A x \in Procs \ {p} : proc'[x] = proc[x]
          /\ proc'[p].bounty = b /\ proc'[p].kind = "manual" /\ proc'[p].pc = "preflight"
      BY <1>1, <1>2, <2>2
    <2>4. QED
      BY <2>1, <2>3 DEF retry_settlement
  <1>6. CASE \E b \in Bounties : pushback_read(p, b)
    <2>1. PICK b \in Bounties : pushback_read(p, b)
      BY <1>6
    <2>2. Enter(p, "pushback", "pushback", b, 0, row[b].quality, None)
      BY <2>1 DEF pushback_read
    <2>3. /\ \A x \in Procs \ {p} : proc'[x] = proc[x]
          /\ proc'[p].bounty = b /\ proc'[p].kind = "pushback" /\ proc'[p].pc = "pushback"
      BY <1>1, <1>2, <2>2
    <2>4. QED
      BY <2>1, <2>3 DEF pushback_read
  <1>7. CASE \E b \in Bounties, s \in Shas : merge_read(p, b, s)
    <2>1. PICK b \in Bounties, s \in Shas : merge_read(p, b, s)
      BY <1>7
    <2>2. Enter(p, "merge", "merge", b, 0, "low", s)
      BY <2>1 DEF merge_read
    <2>3. /\ \A x \in Procs \ {p} : proc'[x] = proc[x]
          /\ proc'[p].bounty = b /\ proc'[p].kind = "merge" /\ proc'[p].pc = "merge"
      BY <1>1, <1>2, <2>2
    <2>4. QED
      BY <2>1, <2>3 DEF merge_read
  <1>8. QED
    BY <1>4, <1>5, <1>6, <1>7 DEF Start

\* The loop begins with a row it fetched.
LEMMA TakeEffect ==
  ASSUME TypeOK, AtWork, NEW r \in batch, loop_take(r)
  PROVE  /\ \A q \in Procs \ {Loop} : proc'[q] = proc[q]
         /\ r.bounty \in Bounties
         /\ batch' = batch \ {r}
         /\ UNCHANGED <<row, ledger, net, chain, paid, faults>>
         /\ proc[Loop] = Idle
         /\ \/ UNCHANGED proc
            \/ /\ proc'[Loop].kind = "loop" /\ proc'[Loop].pc = "preflight"
               /\ proc'[Loop].bounty = r.bounty /\ proc'[Loop].retries = r.retries
  <1>1. r.bounty \in Bounties /\ r.retries \in Nat /\ r.quality \in Quality /\ Loop \in Procs
        /\ "loop" \in Kinds /\ "preflight" \in Statements
    BY DEF TypeOK, Fetched, Procs, Kinds, Statements
  <1>2. CASE Enter(Loop, "loop", "preflight", r.bounty, r.retries, r.quality, None)
    <2>1. None \in Shas \cup {None}
      OBVIOUS
    <2>2. /\ \A q \in Procs \ {Loop} : proc'[q] = proc[q]
          /\ proc'[Loop] = [ pc |-> "preflight", kind |-> "loop", bounty |-> r.bounty,
                             retries |-> r.retries, quality |-> r.quality, sha |-> None ]
      BY <1>1, <1>2, <2>1, EnterEffect
    <2>3. QED
      BY <1>1, <2>2 DEF loop_take
  <1>3. CASE UNCHANGED proc
    BY <1>1, <1>3 DEF loop_take
  <1>4. QED
    BY <1>2, <1>3 DEF loop_take

-----------------------------------------------------------------------------
(* Who settles a bounty. *)

LEMMA NothingBeforeNext ==
  ASSUME TypeOK, AtWork, NothingBeforeApproval, [Next]_vars
  PROVE  NothingBeforeApproval'
  <1>0. \A b \in Bounties : b # None
    BY ProcsAssumption
  <1>1. ASSUME NEW p \in Requests, Start(p)
        PROVE  NothingBeforeApproval'
    BY <1>1, StartEffect DEF NothingBeforeApproval, Procs
  <1>2. CASE loop_fetch
    BY <1>2 DEF loop_fetch, Retryable, NothingBeforeApproval
  <1>3. ASSUME NEW r \in batch, loop_take(r)
        PROVE  NothingBeforeApproval'
    BY <1>3, TakeEffect DEF NothingBeforeApproval
  <1>4. ASSUME NEW p \in Procs, Step(p) \/ preflight_error(p) \/ write_error(p) \/ abandon(p)
        PROVE  NothingBeforeApproval'
    <2> SUFFICES ASSUME NEW b \in Bounties, row'[b].status = "submitted"
                 PROVE  /\ ledger'[b] = "absent" /\ net'[b] = {} /\ chain'[b] = None
                        /\ row'[b].settlement = "pending"
                        /\ \A q \in Procs : proc'[q].bounty # b
                        /\ \A r \in batch' : r.bounty # b
      BY DEF NothingBeforeApproval
    <2>1. row[b].status = "submitted"
      BY <1>4, StepRow
    <2>2. proc[p].bounty # b /\ \A q \in Procs : proc[q].bounty # b
      BY <2>1 DEF NothingBeforeApproval
    <2>3. row'[b] = row[b] /\ ledger'[b] = ledger[b] /\ UNCHANGED <<batch, chain>>
      BY <1>4, <2>2, StepRow
    <2>4. net'[b] = {}
      BY <1>4, <2>1, <2>2, StepNet DEF NothingBeforeApproval
    <2>5. \A q \in Procs : proc'[q].bounty # b
      BY <1>0, <1>4, <2>2, StepProc DEF Idle
    <2>6. QED
      BY <2>1, <2>3, <2>4, <2>5 DEF NothingBeforeApproval
  <1>5. ASSUME NEW b \in Bounties, webhook_closed(b)
        PROVE  NothingBeforeApproval'
    <2>1. \A c \in Bounties : row'[c].status = row[c].status /\ row'[c].settlement = row[c].settlement
      BY <1>5 DEF webhook_closed, TypeOK, Row
    <2>2. QED
      BY <1>5, <2>1 DEF webhook_closed, NothingBeforeApproval
  <1>6. ASSUME NEW b \in Bounties, NEW p \in net[b], land(b, p) \/ expire(b, p)
        PROVE  NothingBeforeApproval'
    BY <1>6 DEF land, expire, NothingBeforeApproval, TypeOK
  <1>7. CASE crash
    BY <1>0, <1>7 DEF crash, NothingBeforeApproval, Idle, Orphaned
  <1>8. CASE UNCHANGED vars
    BY <1>8 DEF vars, NothingBeforeApproval
  <1>9. QED
    BY <1>1, <1>2, <1>3, <1>4, <1>5, <1>6, <1>7, <1>8
    DEF Next, LoopStep, Chain, Failure, Procs

\* What a step of a process does to the settlement of its bounty, and to the ledger entry:
\* there are four statements that write the first, each at a place of its own.
LEMMA StepSettlement ==
  ASSUME TypeOK, AtWork, NEW p \in Procs,
         Step(p) \/ preflight_error(p) \/ write_error(p) \/ abandon(p)
  PROVE  /\ \/ row'[proc[p].bounty].settlement = row[proc[p].bounty].settlement
            \/ /\ proc[p].pc \in {"reconcile_row", "settled_row"}
               /\ row'[proc[p].bounty].settlement = "settled"
            \/ /\ proc[p].pc = "refused" /\ row'[proc[p].bounty].settlement = "failed"
            \/ /\ proc[p].pc = "give_up"
               /\ row'[proc[p].bounty].settlement = "permanently_failed"
         /\ proc'[p].pc # "fee"
         /\ ledger[proc[p].bounty] = "absent" /\ proc[p].pc # "fee" =>
              ledger'[proc[p].bounty] = "absent"
  <1> DEFINE b == proc[p].bounty
  <1>1. b \in Bounties /\ row \in [Bounties -> Row] /\ row[b] \in Row
    BY StepRow DEF TypeOK
  <1> HIDE DEF b
  <1>2. \/ row'[b].settlement = row[b].settlement
        \/ proc[p].pc \in {"reconcile_row", "settled_row"} /\ row'[b].settlement = "settled"
        \/ proc[p].pc = "refused" /\ row'[b].settlement = "failed"
        \/ proc[p].pc = "give_up" /\ row'[b].settlement = "permanently_failed"
    <2>1. CASE reconcile_row(p) \/ mark_failed(p) \/ mark_permanently_failed(p) \/ settle_row(p)
      BY <1>1, <2>1 DEF reconcile_row, mark_failed, mark_permanently_failed, settle_row, Row, b
    <2>2. CASE count_retry(p)
      BY <1>1, <2>2 DEF count_retry, Row, b
    <2>3. CASE pushback_write(p)
      <3>1. PICK q : row' = [row EXCEPT ![b].quality = q]
        BY <2>3 DEF pushback_write, b
      <3>2. QED
        BY <1>1, <3>1 DEF Row
    <2>4. CASE merge_write(p)
      BY <1>1, <2>4 DEF merge_write, Row, b
    <2>5. CASE UNCHANGED row
      BY <2>5
    <2>6. QED
      BY <2>1, <2>2, <2>3, <2>4, <2>5, SMTT(60) DEF Step, record_fee, preflight, settle_ledger, send,
         confirm_ok, confirm_err, preflight_error, write_error, abandon
  <1>3. proc'[p].pc # "fee"
    <2>1. ASSUME NEW pc \in Statements \ {"fee"}, Goto(p, pc)
          PROVE  proc'[p].pc # "fee"
      <3>1. CASE pc = "idle"
        BY <2>1, <3>1, GotoIdle DEF Idle
      <3>2. CASE pc # "idle"
        BY <2>1, <3>2, GotoOn, Zenon
      <3>3. QED
        BY <3>1, <3>2
    <2>2. NextPc(p) \in Statements \ {"fee"}
      BY DEF NextPc, Statements
    <2>3. CASE send(p)
      BY <2>3, SendEffect
    <2>4. CASE ~ send(p)
      <3>1. PICK pc \in Statements \ {"fee"} : Goto(p, pc)
        BY <2>2, <2>4, ZenonT(60) DEF Step, record_fee, preflight, reconcile_row, settle_ledger,
             count_retry, confirm_ok, confirm_err, settle_row, mark_failed,
             mark_permanently_failed, pushback_write, merge_write, preflight_error,
             write_error, abandon, Statements
      <3>2. QED
        BY <2>1, <3>1
    <2>5. QED
      BY <2>3, <2>4
  <1>4. ledger[b] = "absent" /\ proc[p].pc # "fee" => ledger'[b] = "absent"
    BY <1>1 DEF Step, record_fee, preflight, reconcile_row, settle_ledger, count_retry, send,
         confirm_ok, confirm_err, settle_row, mark_failed, mark_permanently_failed,
         pushback_write, merge_write, preflight_error, write_error, abandon, TypeOK, b
  <1>5. QED
    BY <1>2, <1>3, <1>4 DEF b

\* An approval that has written its row is about to record the ledger, or done.
LEMMA ApprovalWrote ==
  ASSUME TypeOK, AtWork, NEW p \in Procs, proc[p].kind = "approve", proc'[p] # Idle,
         Step(p) \/ preflight_error(p) \/ write_error(p) \/ abandon(p)
  PROVE  /\ proc[p].pc \in {"reconcile_row", "settled_row", "refused", "give_up"} =>
              proc'[p].pc = "reconcile_ledger"
         /\ proc[p].pc # "reconcile_ledger"
  <1>1. proc[p].pc \in Places("approve")
    BY DEF AtWork
  <1>2. ASSUME Goto(p, NextPc(p)), proc[p].pc \in {"reconcile_row", "reconcile_ledger",
                                                  "settled_row", "refused", "give_up"}
        PROVE  /\ proc[p].pc = "reconcile_row"
               /\ proc'[p].pc = "reconcile_ledger"
    <2>1. NextPc(p) # "idle"
      BY <1>2, GotoIdle
    <2>2. NextPc(p) = "reconcile_ledger" /\ proc[p].pc = "reconcile_row"
      BY <1>2, <2>1 DEF NextPc
    <2>3. QED
      BY <1>2, <2>2, GotoOn, Zenon DEF Statements
  <1>3. ~ abandon(p)
    BY GotoIdle DEF abandon
  <1>4. ASSUME proc[p].pc \in {"reconcile_row", "reconcile_ledger", "settled_row", "refused", "give_up"}
        PROVE  Goto(p, NextPc(p))
    BY <1>3, <1>4, Zenon DEF Step, record_fee, preflight, reconcile_row, settle_ledger,
             count_retry, send, confirm_ok, confirm_err, settle_row, mark_failed,
             mark_permanently_failed, pushback_write, merge_write, preflight_error,
             write_error
  <1>5. QED
    BY <1>2, <1>4

LEMMA ApprovalOwnsNext ==
  ASSUME TypeOK, AtWork, NothingBeforeApproval, ApprovalOwnsPending, [Next]_vars
  PROVE  ApprovalOwnsPending'
  <1>0. \A b \in Bounties : b # None
    BY ProcsAssumption
  <1>1. ASSUME NEW p \in Requests, Start(p)
        PROVE  ApprovalOwnsPending'
    <2>1. \A q \in Procs : proc[q].kind # "none" => proc[q].bounty \in Bounties
      BY DEF AtWork
    <2>2. \A r \in batch : r.bounty \in Bounties
      BY DEF TypeOK, Fetched
    <2>3. QED
      BY <1>1, <2>1, <2>2, StartEffect DEF ApprovalOwnsPending, NothingBeforeApproval, Procs
  <1>2. CASE loop_fetch
    <2>1. PICK S \in SUBSET {b \in Bounties : Retryable(b)} :
            batch' = {[bounty |-> b, retries |-> row[b].retries, quality |-> row[b].quality] : b \in S}
      BY <1>2 DEF loop_fetch
    <2>2. \A r \in batch' : row[r.bounty].settlement # "pending"
      BY <2>1 DEF Retryable, RetryableStatuses
    <2>3. UNCHANGED <<proc, row, ledger>>
      BY <1>2 DEF loop_fetch
    <2>4. QED
      BY <2>2, <2>3 DEF ApprovalOwnsPending
  <1>3. ASSUME NEW r \in batch, loop_take(r)
        PROVE  ApprovalOwnsPending'
    BY <1>3, TakeEffect DEF ApprovalOwnsPending
  <1>4. ASSUME NEW p \in Procs, Step(p) \/ preflight_error(p) \/ write_error(p) \/ abandon(p)
        PROVE  ApprovalOwnsPending'
    <2> DEFINE b == proc[p].bounty
    <2>1. /\ b \in Bounties
          /\ \A c \in Bounties \ {b} : row'[c] = row[c] /\ ledger'[c] = ledger[c]
          /\ UNCHANGED batch
      BY <1>4, StepRow
    <2>2. /\ \A q \in Procs \ {p} : proc'[q] = proc[q]
          /\ proc'[p] = Idle \/ (proc'[p].kind = proc[p].kind /\ proc'[p].bounty = b)
      BY <1>4, StepProc
    <2>3. /\ row[b].settlement # "pending" => row'[b].settlement # "pending"
          /\ row'[b].settlement # row[b].settlement =>
               proc[p].pc \in {"reconcile_row", "settled_row", "refused", "give_up"}
          /\ proc'[p].pc # "fee"
          /\ ledger[b] = "absent" /\ proc[p].pc # "fee" => ledger'[b] = "absent"
      BY <1>4, StepSettlement
    <2>4. /\ proc[p].pc \in {"reconcile_row", "settled_row", "refused", "give_up"} =>
               proc[p].kind \in {"approve", "manual", "loop"}
          /\ proc[p].pc = "fee" => proc[p].kind = "approve"
      <3>1. proc[p].pc \in Places(proc[p].kind) /\ proc[p].kind \in Kinds
        BY DEF AtWork, TypeOK, Proc, Kinds
      <3>2. QED
        BY <3>1 DEF Places, Kinds
    <2>5. \A q \in Procs : proc[q].kind # "none" => proc[q].bounty \in Bounties
      BY DEF AtWork
    <2> HIDE DEF b
    <2>6. \A c \in Bounties : row[c].settlement # "pending" => row'[c].settlement # "pending"
      BY <2>1, <2>3
    <2>7. ASSUME NEW q \in Procs, proc'[q].kind = "approve"
          PROVE  /\ proc'[q].pc # "reconcile_ledger" => row'[proc'[q].bounty].settlement = "pending"
                 /\ proc'[q].pc = "fee" => ledger'[proc'[q].bounty] = "absent"
                 /\ \A x \in Procs \ {q} :
                      proc'[x].kind = "approve" => proc'[x].bounty # proc'[q].bounty
      <3>1. proc[q].kind = "approve" /\ proc'[q].bounty = proc[q].bounty
        BY <2>2, <2>7 DEF Idle, b
      <3>2. \A x \in Procs \ {q} : proc'[x].kind = "approve" => proc'[x].bounty # proc'[q].bounty
        BY <2>2, <3>1 DEF ApprovalOwnsPending, Idle, b
      <3>3. CASE q = p
        <4>1. proc'[p] # Idle
          BY <2>7, <3>3 DEF Idle
        <4>2. /\ proc[p].pc \in {"reconcile_row", "settled_row", "refused", "give_up"} =>
                   proc'[p].pc = "reconcile_ledger"
              /\ proc[p].pc # "reconcile_ledger"
          BY <1>4, <3>1, <3>3, <4>1, ApprovalWrote
        <4>3. row[b].settlement = "pending"
          BY <3>1, <3>3, <4>2 DEF ApprovalOwnsPending, b
        <4>4. QED
          BY <2>3, <3>1, <3>2, <3>3, <4>2, <4>3 DEF b
      <3>4. CASE q # p /\ proc[q].bounty # b
        BY <2>1, <2>2, <2>5, <3>1, <3>2, <3>4 DEF ApprovalOwnsPending
      <3>5. CASE q # p /\ proc[q].bounty = b
        <4>1. proc[p].kind # "approve"
          BY <3>1, <3>5 DEF ApprovalOwnsPending, b
        <4>2. proc'[q] = proc[q]
          BY <2>2, <3>5
        <4>3. proc[q].pc # "reconcile_ledger" => row'[b].settlement = "pending"
          BY <2>3, <2>4, <3>1, <3>5, <4>1 DEF ApprovalOwnsPending, b
        <4>4. proc[q].pc = "fee" => ledger'[b] = "absent"
          BY <2>3, <2>4, <3>1, <3>5, <4>1 DEF ApprovalOwnsPending, b
        <4>5. QED
          BY <3>2, <3>5, <4>2, <4>3, <4>4
      <3>6. QED
        BY <3>3, <3>4, <3>5
    <2>8. ASSUME NEW q \in Procs, proc'[q].kind \in {"manual", "loop"}
          PROVE  row'[proc'[q].bounty].settlement # "pending"
      <3>1. proc[q].kind = proc'[q].kind /\ proc'[q].bounty = proc[q].bounty
        BY <2>2, <2>8 DEF Idle, b
      <3>2. QED
        BY <2>5, <2>6, <2>8, <3>1 DEF ApprovalOwnsPending
    <2>9. \A r \in batch' : row'[r.bounty].settlement # "pending"
      BY <2>1, <2>6 DEF ApprovalOwnsPending, TypeOK, Fetched
    <2>10. QED
      BY <2>7, <2>8, <2>9 DEF ApprovalOwnsPending
  <1>5. ASSUME NEW b \in Bounties, webhook_closed(b)
        PROVE  ApprovalOwnsPending'
    <2>1. \A c \in Bounties : row'[c].settlement = row[c].settlement
      BY <1>5 DEF webhook_closed, TypeOK, Row
    <2>2. \A q \in Procs : proc[q].kind # "none" => proc[q].bounty \in Bounties
      BY DEF AtWork
    <2>3. \A r \in batch : r.bounty \in Bounties
      BY DEF TypeOK, Fetched
    <2>4. QED
      BY <1>5, <2>1, <2>2, <2>3 DEF webhook_closed, ApprovalOwnsPending
  <1>6. CASE crash
    BY <1>6 DEF crash, ApprovalOwnsPending, Idle
  <1>7. CASE UNCHANGED <<row, ledger, proc, batch>>
    BY <1>7 DEF ApprovalOwnsPending
  <1>8. QED
    BY <1>1, <1>2, <1>3, <1>4, <1>5, <1>6, <1>7
    DEF Next, LoopStep, Chain, Failure, Procs, vars, land, expire

\* Settled stays settled, but for the loop: what OnlyGivingUpUnsettles says of one step.
Unsettles ==
  \A b \in Bounties :
    row[b].settlement = "settled" /\ row'[b].settlement # "settled" =>
      /\ proc[Loop].pc = "give_up"
      /\ proc[Loop].bounty = b
      /\ row'[b].settlement = "permanently_failed"

LEMMA StepUnsettles ==
  ASSUME TypeOK, AtWork, ApprovalOwnsPending, Next
  PROVE  Unsettles
  <1>1. ASSUME NEW p \in Procs, Step(p) \/ preflight_error(p) \/ write_error(p) \/ abandon(p)
        PROVE  Unsettles
    <2> DEFINE c == proc[p].bounty
    <2> SUFFICES ASSUME NEW b \in Bounties,
                        row[b].settlement = "settled", row'[b].settlement # "settled"
                 PROVE  /\ proc[Loop].pc = "give_up"
                        /\ proc[Loop].bounty = b
                        /\ row'[b].settlement = "permanently_failed"
      BY DEF Unsettles
    <2>1. b = c
      BY <1>1, StepRow
    <2>2. \/ proc[p].pc = "refused"
          \/ proc[p].pc = "give_up" /\ row'[b].settlement = "permanently_failed"
      BY <1>1, <2>1, StepSettlement
    <2>3. proc[p].pc \in Places(proc[p].kind) /\ proc[p].kind \in Kinds
      BY DEF AtWork, TypeOK, Proc, Kinds
    <2>4. proc[p].pc # "refused"
      <3>1. SUFFICES ASSUME proc[p].pc = "refused"
                     PROVE  FALSE
        OBVIOUS
      <3>2. proc[p].kind = "approve"
        BY <2>3, <3>1 DEF Places, Kinds
      <3>3. QED
        BY <2>1, <3>1, <3>2 DEF ApprovalOwnsPending
    <2>5. proc[p].pc = "give_up" => p = Loop
      BY <2>3 DEF Places, Kinds, AtWork
    <2>6. QED
      BY <2>1, <2>2, <2>4, <2>5
  <1>2. ASSUME NEW p \in Requests, Start(p)
        PROVE  Unsettles
    BY <1>2, StartEffect DEF Unsettles
  <1>3. ASSUME NEW b \in Bounties, webhook_closed(b)
        PROVE  Unsettles
    <2>1. \A c \in Bounties : row'[c].settlement = row[c].settlement
      BY <1>3 DEF webhook_closed, TypeOK, Row
    <2>2. QED
      BY <2>1 DEF Unsettles
  <1>4. CASE UNCHANGED row
    BY <1>4 DEF Unsettles
  <1>5. QED
    BY <1>1, <1>2, <1>3, <1>4 DEF Next, LoopStep, Chain, Failure, Procs, land, expire, crash,
         loop_fetch, loop_take

\* The part of the invariant about who settles.
OwnershipInv == PaymentInv /\ NothingBeforeApproval /\ ApprovalOwnsPending

LEMMA OwnershipInvInit == Init => OwnershipInv
  <1> SUFFICES ASSUME Init PROVE OwnershipInv
    OBVIOUS
  <1>1. \A b \in Bounties : row[b].settlement = "pending" /\ b # None
    BY ProcsAssumption DEF Init
  <1>2. NothingBeforeApproval
    BY <1>1 DEF Init, NothingBeforeApproval, Idle
  <1>3. ApprovalOwnsPending
    BY DEF Init, ApprovalOwnsPending, Idle
  <1>4. QED
    BY <1>2, <1>3, PaymentInvInit DEF OwnershipInv

LEMMA OwnershipInvNext == OwnershipInv /\ [Next]_vars => OwnershipInv'
  BY PaymentInvNext, NothingBeforeNext, ApprovalOwnsNext DEF OwnershipInv, PaymentInv

LEMMA OwnershipAlways == Spec => []OwnershipInv
  BY OwnershipInvInit, OwnershipInvNext, PTL DEF Spec

\* A bounty leaves 'settled' only when the loop gives up on it.  The approval's write of
\* 'failed' has no condition in its statement, and needs none: no other process settles a
\* bounty while the approval is at work.
THEOREM SettledStays == Spec => OnlyGivingUpUnsettles
  <1>1. OwnershipInv /\ [Next]_vars => [Unsettles]_vars
    BY StepUnsettles DEF OwnershipInv, PaymentInv
  <1>2. Spec => [][Unsettles]_vars
    BY <1>1, OwnershipAlways, PTL DEF Spec
  <1>3. QED
    BY <1>2 DEF OnlyGivingUpUnsettles, Unsettles

-----------------------------------------------------------------------------
(* Settlement implements PayOnce. *)

Approved == {b \in Bounties : row[b].status = "approved"}
Booked   == {b \in Bounties : ledger[b] = "settled"}

LEMMA RefineInit == Init => P!Init
  <1> SUFFICES ASSUME Init PROVE P!Init
    OBVIOUS
  <1>1. \A b \in Bounties : row[b].status = "submitted"
    BY DEF Init
  <1>2. QED
    BY <1>1 DEF Init, P!Init

LEMMA RefineNext ==
  ASSUME TypeOK, AtWork, SawPayment, PaidOnChain, NothingBeforeApproval, ApprovalOwnsPending,
         [Next]_vars
  PROVE  P!Next \/ UNCHANGED <<Approved, paid, Booked>>
  <1>1. ASSUME NEW p \in Requests, Start(p)
        PROVE  P!Next \/ UNCHANGED <<Approved, paid, Booked>>
    <2>1. PICK b \in Bounties :
            /\ UNCHANGED <<ledger, paid>>
            /\ \/ /\ row[b].status = "submitted" /\ row'[b].status = "approved"
                  /\ \A c \in Bounties \ {b} : row'[c] = row[c]
               \/ UNCHANGED row
      BY <1>1, StartEffect
    <2>2. CASE UNCHANGED row
      BY <2>1, <2>2 DEF Approved, Booked
    <2>3. CASE ~ UNCHANGED row
      <3>1. b \notin Approved /\ Approved' = Approved \cup {b} /\ Booked' = Booked
        BY <2>1, <2>3 DEF Approved, Booked
      <3>2. P!Approve(b)
        BY <2>1, <3>1, ZenonT(60) DEF P!Approve, Approved, Booked
      <3>3. QED
        BY <3>2 DEF P!Next
    <2>4. QED
      BY <2>2, <2>3
  <1>2. ASSUME NEW p \in Procs, Step(p) \/ preflight_error(p) \/ write_error(p) \/ abandon(p)
        PROVE  P!Next \/ UNCHANGED <<Approved, paid, Booked>>
    <2> DEFINE b == proc[p].bounty
    <2>1. /\ b \in Bounties
          /\ \A c \in Bounties \ {b} : ledger'[c] = ledger[c]
          /\ \A c \in Bounties : row'[c].status = row[c].status
          /\ UNCHANGED paid
      BY <1>2, StepRow
    <2>2. Approved' = Approved
      BY <2>1 DEF Approved
    <2> HIDE DEF b
    <2>3. CASE settle_ledger(p)
      <3>1. paid[b] = 1
        BY <2>3 DEF settle_ledger, SawPayment, b
      <3>2. CASE ledger[b] = "absent"
        <4>1. ledger' = ledger
          BY <2>1, <2>3, <3>2 DEF settle_ledger, TypeOK, b
        <4>2. QED
          BY <2>1, <2>2, <4>1 DEF Booked
      <3>3. CASE ledger[b] # "absent"
        <4>1. ledger'[b] = "settled"
          BY <2>1, <2>3, <3>3 DEF settle_ledger, TypeOK, b
        <4>2. Booked' = Booked \cup {b}
          BY <2>1, <4>1 DEF Booked
        <4>3. PICK c \in Bounties : c = b
          BY <2>1
        <4>4. P!Book(c)
          BY <2>1, <2>2, <3>1, <4>2, <4>3 DEF P!Book, Approved, Booked
        <4>5. QED
          BY <4>4 DEF P!Next
      <3>4. QED
        BY <3>2, <3>3
    <2>4. CASE record_fee(p)
      <3>1. proc[p].kind = "approve"
        <4>1. proc[p].pc \in Places(proc[p].kind) /\ proc[p].kind \in Kinds
          BY DEF AtWork, TypeOK, Proc, Kinds
        <4>2. QED
          BY <2>4, <4>1 DEF record_fee, Places, Kinds
      <3>2. ledger[b] = "absent" /\ ledger'[b] = "unsettled"
        BY <2>1, <2>4, <3>1 DEF record_fee, ApprovalOwnsPending, TypeOK, b
      <3>3. Booked' = Booked
        BY <2>1, <3>2 DEF Booked
      <3>4. QED
        BY <2>1, <2>2, <3>3
    <2>5. CASE UNCHANGED ledger
      BY <2>1, <2>2, <2>5 DEF Booked
    <2>6. QED
      BY <1>2, <2>3, <2>4, <2>5, Zenon
      DEF Step, preflight, reconcile_row, count_retry, send, confirm_ok, confirm_err, settle_row,
          mark_failed, mark_permanently_failed, pushback_write, merge_write, preflight_error,
          write_error, abandon
  <1>3. ASSUME NEW b \in Bounties, webhook_closed(b)
        PROVE  UNCHANGED <<Approved, paid, Booked>>
    <2>1. \A c \in Bounties : row'[c].status = row[c].status
      BY <1>3 DEF webhook_closed, TypeOK, Row
    <2>2. QED
      BY <1>3, <2>1 DEF webhook_closed, Approved, Booked
  <1>4. ASSUME NEW b \in Bounties, NEW p \in net[b], land(b, p)
        PROVE  P!Next
    <2>1. row[b].status = "approved"
      BY DEF NothingBeforeApproval, TypeOK, Row
    <2>2. paid[b] = 0 /\ paid' = [paid EXCEPT ![b] = 1]
      <3>1. paid[b] = 0 /\ paid' = [paid EXCEPT ![b] = paid[b] + 1]
        BY <1>4 DEF land, PaidOnChain
      <3>2. paid[b] + 1 = 1
        BY <3>1
      <3>3. QED
        BY <3>1, <3>2, Zenon
    <2>3. P!Pay(b)
      BY <1>4, <2>1, <2>2 DEF land, P!Pay
    <2>4. QED
      BY <2>3 DEF P!Next
  <1>5. CASE UNCHANGED <<row, ledger, paid>>
    BY <1>5 DEF Approved, Booked
  <1>6. QED
    BY <1>1, <1>2, <1>3, <1>4, <1>5 DEF Next, LoopStep, Chain, Failure, Procs, expire, crash,
         loop_fetch, loop_take, vars

\* Settlement implements PayOnce: whatever the interleaving, the crashes, the lost answers and
\* the transactions that land late, the chain pays an approved bounty once, and the ledger
\* books it afterwards and for good.
THEOREM SettlementPaysOnce == Spec => PaysOnce
  <1>1. OwnershipInv /\ [Next]_vars => [P!Next]_P!vars
    BY RefineNext DEF OwnershipInv, PaymentInv, P!vars, Approved, Booked
  <1>2. QED
    BY <1>1, RefineInit, OwnershipAlways, PTL DEF Spec, PaysOnce, P!Spec

-----------------------------------------------------------------------------
(* Without a fault no approved bounty is left 'pending'. *)

\* A fault stays counted, and a step that is not one changes nothing there.
LEMMA FaultsCount ==
  ASSUME TypeOK, [Next]_vars
  PROVE  /\ faults' # 0 \/ faults = 0
         /\ \A p \in Procs : preflight_error(p) \/ write_error(p) \/ abandon(p) => faults' # 0
         /\ crash => faults' # 0
  <1>1. Fault => faults' # 0
    <2>1. faults \in Nat
      BY DEF TypeOK
    <2>2. faults + 1 # 0
      BY <2>1
    <2>3. QED
      BY <2>2 DEF Fault
  <1>2. faults' # 0 \/ faults = 0
    BY <1>1, ZenonT(60) DEF TypeOK, Next, Start, Step, LoopStep, Chain, Failure, vars, approve_commit,
       retry_settlement, pushback_read, merge_read, loop_fetch, loop_take, record_fee, preflight,
       reconcile_row, settle_ledger, count_retry, send, confirm_ok, confirm_err, settle_row,
       mark_failed, mark_permanently_failed, pushback_write, merge_write, webhook_closed, land,
       expire, preflight_error, write_error, abandon, crash
  <1>3. QED
    BY <1>1, <1>2 DEF preflight_error, write_error, abandon, crash

\* Nothing makes a row 'pending' again.
LEMMA NeverPendingAgain ==
  ASSUME TypeOK, AtWork, [Next]_vars
  PROVE  \A b \in Bounties : row[b].settlement # "pending" => row'[b].settlement # "pending"
  <1> SUFFICES ASSUME NEW b \in Bounties, row[b].settlement # "pending"
               PROVE  row'[b].settlement # "pending"
    OBVIOUS
  <1>1. ASSUME NEW p \in Procs, Step(p) \/ preflight_error(p) \/ write_error(p) \/ abandon(p)
        PROVE  row'[b].settlement # "pending"
    BY <1>1, StepRow, StepSettlement
  <1>2. ASSUME NEW p \in Requests, Start(p)
        PROVE  row'[b].settlement # "pending"
    BY <1>2, StartEffect
  <1>3. ASSUME NEW c \in Bounties, webhook_closed(c)
        PROVE  row'[b].settlement # "pending"
    BY <1>3 DEF webhook_closed, TypeOK, Row
  <1>4. CASE UNCHANGED row
    BY <1>4
  <1>5. QED
    BY <1>1, <1>2, <1>3, <1>4 DEF Next, LoopStep, Chain, Failure, Procs, land, expire, crash,
         loop_fetch, loop_take, vars

LEMMA ReconciledNext ==
  ASSUME TypeOK, AtWork, ReconciledRow, [Next]_vars
  PROVE  ReconciledRow'
  <1> SUFFICES ASSUME faults' = 0, NEW p \in Procs, proc'[p].pc = "reconcile_ledger"
               PROVE  row'[proc'[p].bounty].settlement # "pending"
    BY DEF ReconciledRow
  <1>1. ASSUME proc'[p] = proc[p]
        PROVE  row'[proc'[p].bounty].settlement # "pending"
    <2>1. row[proc[p].bounty].settlement # "pending"
      BY <1>1, FaultsCount DEF ReconciledRow
    <2>2. proc[p].bounty \in Bounties
      BY <1>1, Working
    <2>3. QED
      BY <1>1, <2>1, <2>2, NeverPendingAgain
  <1>2. ASSUME NEW q \in Requests, Start(q)
        PROVE  row'[proc'[p].bounty].settlement # "pending"
    BY <1>1, <1>2, StartEffect
  <1>3. ASSUME NEW r \in batch, loop_take(r)
        PROVE  row'[proc'[p].bounty].settlement # "pending"
    BY <1>1, <1>3, TakeEffect
  <1>4. ASSUME NEW q \in Procs, Step(q)
        PROVE  row'[proc'[p].bounty].settlement # "pending"
    <2>1. CASE p # q
      BY <1>1, <1>4, <2>1, StepProc
    <2>2. CASE p = q
      <3>1. ASSUME NEW pc \in Statements \ {"reconcile_ledger"}, Goto(p, pc)
            PROVE  FALSE
        <4>1. CASE pc = "idle"
          BY <3>1, <4>1, GotoIdle DEF Idle
        <4>2. CASE pc # "idle"
          BY <3>1, <4>2, GotoOn
        <4>3. QED
          BY <4>1, <4>2
      <3>2. reconcile_row(p)
        <4>1. proc[p].pc # "reconcile_row" => NextPc(p) \in Statements \ {"reconcile_ledger"}
          BY DEF NextPc, Statements
        <4>2. ~ send(p)
          BY SendEffect
        <4>3. QED
          BY <1>4, <2>2, <3>1, <4>1, <4>2, Zenon DEF Step, record_fee, preflight,
             settle_ledger, count_retry, confirm_ok, confirm_err, settle_row, mark_failed,
             mark_permanently_failed, pushback_write, merge_write, Statements
      <3>3. proc[p].bounty \in Bounties /\ proc'[p].bounty = proc[p].bounty
        <4>1. proc'[p] # Idle
          BY DEF Idle
        <4>2. QED
          BY <1>4, <2>2, <4>1, StepProc, StepRow
      <3>4. QED
        BY <3>2, <3>3 DEF reconcile_row, TypeOK, Row
    <2>3. QED
      BY <2>1, <2>2
  <1>5. CASE crash
    BY <1>5, FaultsCount
  <1>6. CASE UNCHANGED proc
    BY <1>1, <1>6
  <1>7. QED
    BY <1>2, <1>3, <1>4, <1>5, <1>6, FaultsCount DEF Next, LoopStep, loop_fetch, webhook_closed,
       Chain, land, expire, Failure, Procs, vars

\* Without a fault an approval ends only when its bounty is not 'pending' any more, or cannot
\* be paid.
LEMMA ApprovalEnds ==
  ASSUME TypeOK, AtWork, ReconciledRow, faults = 0, NEW p \in Procs, proc[p].kind = "approve",
         Step(p), proc'[p] = Idle
  PROVE  row'[proc[p].bounty].settlement # "pending" \/ row[proc[p].bounty].wallet = "none"
  <1>1. proc[p].pc \in Places("approve")
    BY DEF AtWork
  <1>2. proc[p].bounty \in Bounties /\ row[proc[p].bounty] \in Row /\ row \in [Bounties -> Row]
    BY StepRow DEF TypeOK
  <1>3. ASSUME NEW pc \in Statements, Goto(p, pc)
        PROVE  pc = "idle"
    <2> SUFFICES ASSUME pc # "idle" PROVE FALSE
      OBVIOUS
    <2>1. proc'[p].pc = pc
      BY <1>3, GotoOn
    <2>2. proc'[p].pc = "idle"
      BY DEF Idle
    <2>3. QED
      BY <2>1, <2>2
  <1>4. CASE record_fee(p)
    BY <1>3, <1>4, NextPcType DEF record_fee, NextPc
  <1>5. CASE preflight(p) \/ confirm_ok(p) \/ confirm_err(p)
    <2>1. PICK pc \in Statements \ {"idle"} : Goto(p, pc)
      BY <1>5, SMTT(60) DEF preflight, confirm_ok, confirm_err, Statements
    <2>2. QED
      BY <1>3, <2>1
  <1>6. CASE reconcile_row(p) \/ settle_row(p) \/ mark_failed(p)
    BY <1>2, <1>6 DEF reconcile_row, settle_row, mark_failed, Row
  <1>7. CASE settle_ledger(p)
    <2>1. NextPc(p) = "idle"
      BY <1>3, <1>7, NextPcType DEF settle_ledger
    <2>2. proc[p].pc = "reconcile_ledger"
      BY <1>7, <2>1 DEF settle_ledger, NextPc
    <2>3. QED
      BY <1>7, <2>2 DEF settle_ledger, ReconciledRow
  <1>8. CASE send(p)
    BY <1>8, SendEffect DEF Idle
  <1>9. ~ count_retry(p) /\ ~ mark_permanently_failed(p) /\ ~ pushback_write(p) /\ ~ merge_write(p)
    BY <1>1 DEF Places, count_retry, mark_permanently_failed, pushback_write, merge_write
  <1>10. QED
    BY <1>4, <1>5, <1>6, <1>7, <1>8, <1>9 DEF Step

LEMMA PendingNext ==
  ASSUME TypeOK, AtWork, ReconciledRow, PendingIsBeingSettled, [Next]_vars
  PROVE  PendingIsBeingSettled'
  <1> SUFFICES ASSUME faults' = 0, NEW b \in Bounties, row'[b].status = "approved",
                      row'[b].wallet # "none", row'[b].settlement = "pending"
               PROVE  \E p \in Requests : proc'[p].kind = "approve" /\ proc'[p].bounty = b
    BY DEF PendingIsBeingSettled
  <1>0. faults = 0 /\ row[b].settlement = "pending"
    BY FaultsCount, NeverPendingAgain
  <1> DEFINE Before == row[b].status = "approved" /\ row[b].wallet # "none"
             Settled(x) == proc[x].kind = "approve" /\ proc[x].bounty = b
  <1>1. ASSUME Before
        PROVE  \E p \in Requests : Settled(p)
    BY <1>0, <1>1 DEF PendingIsBeingSettled
  <1>2. ASSUME NEW q \in Requests, Start(q)
        PROVE  \E p \in Requests : proc'[p].kind = "approve" /\ proc'[p].bounty = b
    <2>1. PICK c \in Bounties :
            /\ \A x \in Procs \ {q} : proc'[x] = proc[x]
            /\ proc[q] = Idle
            /\ proc'[q].bounty = c
            /\ \/ proc'[q].kind = "approve" /\ \A x \in Bounties \ {c} : row'[x] = row[x]
               \/ UNCHANGED row
      BY <1>2, StartEffect
    <2>2. CASE Before
      <3>1. PICK p \in Requests : Settled(p)
        BY <1>1, <2>2
      <3>2. p # q
        BY <2>1, <3>1 DEF Idle
      <3>3. QED
        BY <2>1, <3>1, <3>2 DEF Procs
    <2>3. CASE ~ Before
      BY <2>1, <2>3
    <2>4. QED
      BY <2>2, <2>3
  <1>3. ASSUME NEW q \in Procs, Step(q)
        PROVE  \E p \in Requests : proc'[p].kind = "approve" /\ proc'[p].bounty = b
    <2>1. Before
      BY <1>3, StepRow
    <2>2. PICK p \in Requests : Settled(p)
      BY <1>1, <2>1
    <2>3. p \in Procs
      BY DEF Procs
    <2>4. CASE p # q
      BY <1>3, <2>2, <2>3, <2>4, StepProc
    <2>5. CASE p = q
      <3>1. proc'[p] # Idle
        BY <1>0, <1>3, <2>1, <2>2, <2>3, <2>5, ApprovalEnds
      <3>2. QED
        BY <1>3, <2>2, <2>3, <2>5, <3>1, StepProc
    <2>6. QED
      BY <2>4, <2>5
  <1>4. ASSUME NEW r \in batch, loop_take(r)
        PROVE  \E p \in Requests : proc'[p].kind = "approve" /\ proc'[p].bounty = b
    <2>1. PICK p \in Requests : Settled(p)
      BY <1>1, <1>4, TakeEffect
    <2>2. p # Loop
      BY ProcsAssumption
    <2>3. QED
      BY <1>4, <2>1, <2>2, TakeEffect DEF Procs
  <1>5. ASSUME NEW c \in Bounties, webhook_closed(c)
        PROVE  \E p \in Requests : proc'[p].kind = "approve" /\ proc'[p].bounty = b
    <2>1. Before
      BY <1>5 DEF webhook_closed, TypeOK, Row
    <2>2. QED
      BY <1>1, <1>5, <2>1 DEF webhook_closed
  <1>6. CASE UNCHANGED <<row, proc>>
    BY <1>1, <1>6
  <1>7. QED
    BY <1>2, <1>3, <1>4, <1>5, <1>6, FaultsCount DEF Next, LoopStep, loop_fetch, Chain, land,
       expire, Failure, Procs, vars

PendingInv == ReconciledRow /\ PendingIsBeingSettled

LEMMA PendingAlways == Spec => []PendingInv
  <1>1. Init => PendingInv
    <2> SUFFICES ASSUME Init PROVE PendingInv
      OBVIOUS
    <2>1. \A b \in Bounties : row[b].status = "submitted"
      BY DEF Init
    <2>2. \A p \in Procs : proc[p].pc = "idle"
      BY DEF Init, Idle
    <2>3. QED
      BY <2>1, <2>2 DEF PendingInv, ReconciledRow, PendingIsBeingSettled
  <1>2. PaymentInv /\ PendingInv /\ [Next]_vars => PendingInv'
    BY ReconciledNext, PendingNext DEF PaymentInv, PendingInv
  <1>3. QED
    BY <1>1, <1>2, PaymentAlways, PTL DEF Spec

\* Every payable bounty that is approved and still 'pending' has its approval at work, unless
\* something failed: what a retry may not look at is looked after.
THEOREM PendingIsLookedAfter == Spec => []PendingIsBeingSettled
  BY PendingAlways, PTL DEF PendingInv

-----------------------------------------------------------------------------
(* The budget of retries. *)

\* Only the loop counts, and only at its place.
LEMMA StepRetries ==
  ASSUME TypeOK, AtWork, NEW p \in Procs,
         Step(p) \/ preflight_error(p) \/ write_error(p) \/ abandon(p)
  PROVE  /\ \A b \in Bounties : row[b].retries \in Nat
         /\ \A b \in Bounties \ {proc[p].bounty} : row'[b].retries = row[b].retries
         /\ \/ row'[proc[p].bounty].retries = row[proc[p].bounty].retries
            \/ /\ count_retry(p) /\ p = Loop /\ proc[p].kind = "loop"
               /\ row'[proc[p].bounty].retries = row[proc[p].bounty].retries + 1
  <1> DEFINE b == proc[p].bounty
  <1>1. b \in Bounties /\ row \in [Bounties -> Row] /\ row[b] \in Row
        /\ \A c \in Bounties \ {b} : row'[c] = row[c]
    BY StepRow DEF TypeOK
  <1>2. \A c \in Bounties : row[c].retries \in Nat
    BY DEF TypeOK, Row
  <1>3. proc[p].pc = "count" => p = Loop /\ proc[p].kind = "loop"
    <2>1. proc[p].pc \in Places(proc[p].kind) /\ proc[p].kind \in Kinds
      BY DEF AtWork, TypeOK, Proc, Kinds
    <2>2. QED
      BY <2>1 DEF Places, Kinds, AtWork
  <1> HIDE DEF b
  <1>4. CASE count_retry(p)
    BY <1>1, <1>2, <1>3, <1>4 DEF count_retry, Row, b
  <1>5. ASSUME ~ count_retry(p)
        PROVE  row'[b].retries = row[b].retries
    <2>1. CASE reconcile_row(p) \/ mark_failed(p) \/ mark_permanently_failed(p)
      <3>1. PICK v : row' = [row EXCEPT ![b].settlement = v]
        BY <2>1 DEF reconcile_row, mark_failed, mark_permanently_failed, b
      <3>2. QED
        BY <1>1, <3>1, SMTT(60) DEF Row
    <2>2. CASE settle_row(p)
      BY <1>1, <2>2 DEF settle_row, Row, b
    <2>3. CASE pushback_write(p)
      <3>1. PICK q : row' = [row EXCEPT ![b].quality = q]
        BY <2>3 DEF pushback_write, b
      <3>2. QED
        BY <1>1, <3>1 DEF Row
    <2>4. CASE merge_write(p)
      BY <1>1, <2>4 DEF merge_write, Row, b
    <2>5. CASE UNCHANGED row
      BY <2>5
    <2>6. QED
      BY <1>5, <2>1, <2>2, <2>3, <2>4, <2>5 DEF Step, record_fee, preflight, settle_ledger, send,
         confirm_ok, confirm_err, preflight_error, write_error, abandon
  <1>6. QED
    BY <1>1, <1>2, <1>4, <1>5 DEF b

\* Where the loop goes from where it is.
LEMMA LoopGoes ==
  ASSUME TypeOK, AtWork, proc[Loop].kind = "loop", proc'[Loop] # Idle,
         Step(Loop) \/ preflight_error(Loop) \/ write_error(Loop) \/ abandon(Loop)
  PROVE  /\ proc'[Loop].pc = "count" => proc[Loop].pc = "preflight"
         /\ proc'[Loop].pc # "preflight"
         /\ proc'[Loop].pc = "send" => proc[Loop].pc = "count"
         /\ proc'[Loop].pc = "confirm" => proc[Loop].pc = "send"
         /\ proc'[Loop].pc = "give_up" =>
              proc[Loop].pc = "confirm" /\ proc[Loop].retries + 1 >= MaxRetries
         /\ count_retry(Loop) => proc[Loop].pc = "count" /\ proc'[Loop].pc = "send"
  <1>1. Loop \in Procs
    BY DEF Procs
  <1>2. proc[Loop].pc \in Places("loop")
    BY <1>1 DEF AtWork
  <1>3. ASSUME NEW pc \in Statements, Goto(Loop, pc)
        PROVE  proc'[Loop].pc = pc /\ pc # "idle"
    BY <1>1, <1>3, GotoOn, GotoIdle
  <1>4. NextPc(Loop) \in {"reconcile_ledger", "send", "settled_ledger", "idle"}
        /\ (NextPc(Loop) = "send" => proc[Loop].pc = "count")
        /\ (proc[Loop].pc = "count" => NextPc(Loop) = "send")
    BY <1>2 DEF NextPc, Places
  <1>5. CASE record_fee(Loop) \/ reconcile_row(Loop) \/ settle_ledger(Loop) \/ count_retry(Loop)
             \/ settle_row(Loop) \/ mark_failed(Loop) \/ mark_permanently_failed(Loop)
             \/ write_error(Loop)
    <2>1. proc'[Loop].pc = NextPc(Loop)
      BY <1>3, <1>5, NextPcType DEF record_fee, reconcile_row, settle_ledger, count_retry,
         settle_row, mark_failed, mark_permanently_failed, write_error
    <2>2. QED
      BY <1>4, <2>1 DEF count_retry
  <1>6. CASE preflight(Loop)
    <2>1. PICK pc \in {"reconcile_row", "count"} : Goto(Loop, pc)
      BY <1>6 DEF preflight
    <2>2. proc'[Loop].pc = pc
      BY <1>3, <2>1 DEF Statements
    <2>3. QED
      BY <1>6, <2>1, <2>2 DEF preflight, count_retry
  <1>7. CASE confirm_ok(Loop) \/ confirm_err(Loop)
    <2>1. PICK pc \in {"settled_row", "give_up", "idle"} :
            Goto(Loop, pc) /\ (pc = "give_up" => proc[Loop].retries + 1 >= MaxRetries)
      BY <1>7 DEF confirm_ok, confirm_err
    <2>2. proc'[Loop].pc = pc
      BY <1>3, <2>1 DEF Statements
    <2>3. QED
      BY <1>7, <2>1, <2>2 DEF confirm_ok, confirm_err, count_retry
  <1>8. CASE send(Loop)
    BY <1>1, <1>8, SendEffect DEF send, count_retry
  <1>9. CASE pushback_write(Loop) \/ merge_write(Loop) \/ abandon(Loop) \/ preflight_error(Loop)
    BY <1>3, <1>9 DEF pushback_write, merge_write, abandon, preflight_error, Statements
  <1>10. QED
    BY <1>5, <1>6, <1>7, <1>8, <1>9 DEF Step

\* What is not the loop's does not disturb its count.
LEMMA LoopCountsFrame ==
  ASSUME TypeOK, AtWork, LoopCounts, proc'[Loop] = proc[Loop], UNCHANGED batch,
         faults' # 0 \/ faults = 0,
         \A b \in Bounties : row'[b].retries = row[b].retries
  PROVE  LoopCounts'
  <1>1. \A r \in batch : r.bounty \in Bounties
    BY DEF TypeOK, Fetched
  <1>2. proc[Loop].kind = "loop" => proc[Loop].bounty \in Bounties
    BY DEF AtWork, Procs
  <1>3. QED
    BY <1>1, <1>2 DEF LoopCounts

LEMMA LoopCountsNext ==
  ASSUME TypeOK, AtWork, LoopCounts, [Next]_vars
  PROVE  LoopCounts'
  <1>0. /\ Loop \in Procs /\ Loop \notin Requests /\ \A b \in Bounties : b # None
        /\ faults' # 0 \/ faults = 0
        /\ \A b \in Bounties : row[b].retries \in Nat
    BY ProcsAssumption, FaultsCount DEF Procs, TypeOK, Row
  <1>1. ASSUME NEW p \in Requests, Start(p)
        PROVE  LoopCounts'
    <2>1. proc'[Loop] = proc[Loop] /\ UNCHANGED batch
          /\ \A b \in Bounties : row'[b].retries = row[b].retries
      BY <1>0, <1>1, StartEffect
    <2>2. QED
      BY <1>0, <2>1, LoopCountsFrame
  <1>2. CASE loop_fetch
    <2>1. PICK S \in SUBSET {b \in Bounties : Retryable(b)} :
            batch' = {[bounty |-> b, retries |-> row[b].retries, quality |-> row[b].quality] : b \in S}
      BY <1>2 DEF loop_fetch
    <2>2. proc'[Loop] = Idle /\ UNCHANGED row
      BY <1>2 DEF loop_fetch
    <2>3. \A r \in batch' : /\ r.bounty \in Bounties
                            /\ r.retries = row[r.bounty].retries
                            /\ r.retries < MaxRetries
                            /\ \A s \in batch' : s.bounty = r.bounty => s = r
      BY <2>1 DEF Retryable
    <2>4. QED
      BY <1>0, <2>2, <2>3 DEF LoopCounts, Idle
  <1>3. ASSUME NEW r \in batch, loop_take(r)
        PROVE  LoopCounts'
    <2>1. /\ \A s \in batch' : s \in batch /\ s.bounty # r.bounty
          /\ UNCHANGED <<row, faults>>
      BY <1>3, TakeEffect DEF LoopCounts
    <2>2. CASE UNCHANGED proc
      BY <1>3, <2>1, <2>2, TakeEffect DEF LoopCounts, Idle
    <2>3. CASE ~ UNCHANGED proc
      <3>1. proc'[Loop].kind = "loop" /\ proc'[Loop].pc = "preflight"
            /\ proc'[Loop].bounty = r.bounty /\ proc'[Loop].retries = r.retries
        BY <1>3, <2>3, TakeEffect
      <3>2. r.retries = row[r.bounty].retries /\ r.retries < MaxRetries
        BY DEF LoopCounts
      <3>3. QED
        BY <2>1, <3>1, <3>2 DEF LoopCounts
    <2>4. QED
      BY <2>2, <2>3
  <1>4. ASSUME NEW p \in Procs \ {Loop}, Step(p) \/ preflight_error(p) \/ write_error(p) \/ abandon(p)
        PROVE  LoopCounts'
    <2>1. proc'[Loop] = proc[Loop] /\ UNCHANGED batch
      BY <1>0, <1>4, StepProc, StepRow
    <2>2. \A b \in Bounties : row'[b].retries = row[b].retries
      BY <1>4, StepRetries
    <2>3. QED
      BY <1>0, <2>1, <2>2, LoopCountsFrame
  <1>5. CASE Step(Loop) \/ preflight_error(Loop) \/ write_error(Loop) \/ abandon(Loop)
    <2> DEFINE b == proc[Loop].bounty
    <2>1. /\ UNCHANGED batch
          /\ b \in Bounties
          /\ \A c \in Bounties \ {b} : row'[c].retries = row[c].retries
      BY <1>0, <1>5, StepRow, StepRetries
    <2>2. \A r \in batch : r.bounty \in Bounties \ {b}
      BY DEF LoopCounts, TypeOK, Fetched
    <2>3. \A r \in batch' : /\ r.retries = row'[r.bounty].retries
                            /\ r.retries < MaxRetries
                            /\ \A s \in batch' : s.bounty = r.bounty => s = r
      BY <2>1, <2>2 DEF LoopCounts
    <2>4. CASE proc'[Loop] = Idle
      BY <1>0, <2>1, <2>2, <2>3, <2>4 DEF LoopCounts, Idle
    <2>5. CASE proc'[Loop] # Idle
      <3>1. proc'[Loop].kind = proc[Loop].kind /\ proc'[Loop].bounty = b
            /\ proc'[Loop].retries = proc[Loop].retries
        BY <1>0, <1>5, <2>5, StepProc
      <3>2. SUFFICES ASSUME proc[Loop].kind = "loop"
                     PROVE  LoopCounts'
        BY <2>1, <2>2, <2>3, <3>1 DEF LoopCounts
      <3>3. /\ proc'[Loop].pc = "count" => proc[Loop].pc = "preflight"
            /\ proc'[Loop].pc # "preflight"
            /\ proc'[Loop].pc = "send" => proc[Loop].pc = "count"
            /\ proc'[Loop].pc = "confirm" => proc[Loop].pc = "send"
            /\ proc'[Loop].pc = "give_up" =>
                 proc[Loop].pc = "confirm" /\ proc[Loop].retries + 1 >= MaxRetries
            /\ count_retry(Loop) => proc[Loop].pc = "count" /\ proc'[Loop].pc = "send"
        BY <1>5, <2>5, <3>2, LoopGoes
      <3> DEFINE before == row[b].retries
                 after == row'[b].retries
                 n == proc[Loop].retries
      <3>4. /\ n < MaxRetries
            /\ proc[Loop].pc \in {"preflight", "count"} => before = n
            /\ before \in {n, n + 1}
            /\ proc[Loop].pc \in {"send", "confirm", "give_up"} /\ faults = 0 => before = n + 1
        BY <3>2 DEF LoopCounts
      <3>5. after = before \/ (count_retry(Loop) /\ after = before + 1)
        BY <1>0, <1>5, StepRetries
      <3>6. proc'[Loop].pc = "send" /\ faults' = 0 => count_retry(Loop) /\ after = n + 1
        <4>1. SUFFICES ASSUME proc'[Loop].pc = "send", faults' = 0
                       PROVE  count_retry(Loop) /\ after = n + 1
          OBVIOUS
        <4>2. Step(Loop) /\ proc[Loop].pc = "count"
          BY <1>0, <1>5, <3>3, <4>1, FaultsCount
        <4>3. count_retry(Loop)
          BY <4>2 DEF Step, record_fee, preflight, reconcile_row, settle_ledger,
             send, confirm_ok, confirm_err, settle_row, mark_failed, mark_permanently_failed,
             pushback_write, merge_write
        <4>4. after = before + 1
          <5>1. row \in [Bounties -> Row] /\ row[b] \in Row
            BY <2>1 DEF TypeOK
          <5>2. QED
            BY <2>1, <4>3, <5>1 DEF count_retry, Row
        <4>5. QED
          BY <3>4, <4>2, <4>3, <4>4
      <3> HIDE DEF b, before, after, n
      <3>7. /\ n < MaxRetries
            /\ proc'[Loop].pc \in {"preflight", "count"} => after = n
            /\ after \in {n, n + 1}
            /\ proc'[Loop].pc \in {"send", "confirm", "give_up"} /\ faults' = 0 => after = n + 1
            /\ proc'[Loop].pc = "give_up" => n + 1 >= MaxRetries
        BY <1>0, <3>3, <3>4, <3>5, <3>6 DEF n
      <3>8. /\ proc'[Loop].bounty = b /\ proc'[Loop].retries = n
            /\ row'[b].retries = after
            /\ \A r \in batch' : r.bounty # b
        BY <2>1, <2>2, <3>1 DEF n, after, b
      <3>9. QED
        BY <2>3, <3>7, <3>8 DEF LoopCounts
    <2>6. QED
      BY <2>4, <2>5
  <1>6. ASSUME NEW b \in Bounties, webhook_closed(b)
        PROVE  LoopCounts'
    <2>1. \A c \in Bounties : row'[c].retries = row[c].retries
      BY <1>6 DEF webhook_closed, TypeOK, Row
    <2>2. QED
      BY <1>0, <1>6, <2>1, LoopCountsFrame DEF webhook_closed
  <1>7. CASE crash
    BY <1>0, <1>7 DEF crash, LoopCounts, Idle
  <1>8. CASE UNCHANGED <<row, proc, batch>>
    BY <1>0, <1>8, LoopCountsFrame
  <1>9. QED
    BY <1>1, <1>2, <1>3, <1>4, <1>5, <1>6, <1>7, <1>8 DEF Next, LoopStep, Chain, land,
       expire, Failure, Procs, vars

LEMMA BudgetNext ==
  ASSUME TypeOK, AtWork, LoopCounts, RetryBudget, [Next]_vars
  PROVE  RetryBudget'
  <1> DEFINE Slack(f) == IF f = 0 THEN 0 ELSE 1
  <1>0. faults' # 0 \/ faults = 0
    BY FaultsCount
  <1>1. ASSUME \A b \in Bounties : row'[b].retries = row[b].retries,
               \A b \in Bounties : row'[b].settlement = "permanently_failed" =>
                                     row[b].settlement = "permanently_failed"
        PROVE  RetryBudget'
    BY <1>0, <1>1, LimitsAssumption DEF RetryBudget, TypeOK, Row
  <1>2. ASSUME NEW p \in Procs, Step(p) \/ preflight_error(p) \/ write_error(p) \/ abandon(p)
        PROVE  RetryBudget'
    <2> DEFINE b == proc[p].bounty
    <2>1. /\ b \in Bounties
          /\ \A c \in Bounties \ {b} : row'[c] = row[c]
      BY <1>2, StepRow
    <2>2. /\ \A c \in Bounties : row[c].retries \in Nat
          /\ \/ row'[b].retries = row[b].retries
             \/ /\ count_retry(p) /\ p = Loop /\ proc[p].kind = "loop"
                /\ row'[b].retries = row[b].retries + 1
      BY <1>2, StepRetries
    <2>3. row'[b].settlement = "permanently_failed" =>
            row[b].settlement = "permanently_failed" \/ proc[p].pc = "give_up"
      BY <1>2, StepSettlement
    <2>4. proc[p].pc = "give_up" =>
            row[b].retries >= MaxRetries - Slack(faults)
      <3>1. SUFFICES ASSUME proc[p].pc = "give_up"
                     PROVE  row[b].retries >= MaxRetries - Slack(faults)
        OBVIOUS
      <3>2. p = Loop /\ proc[p].kind = "loop"
        <4>1. proc[p].pc \in Places(proc[p].kind) /\ proc[p].kind \in Kinds
          BY DEF AtWork, TypeOK, Proc, Kinds
        <4>2. QED
          BY <3>1, <4>1 DEF Places, Kinds, AtWork
      <3>3. proc[p].retries \in Nat
        BY DEF TypeOK, Proc
      <3>4. QED
        BY <2>2, <3>1, <3>2, <3>3, LimitsAssumption DEF LoopCounts
    <2>5. row'[b].retries # row[b].retries => row[b].retries < MaxRetries
      BY <2>2 DEF LoopCounts, count_retry
    <2> HIDE DEF b
    <2>6. /\ row'[b].retries <= MaxRetries
          /\ row'[b].settlement = "permanently_failed" =>
               row'[b].retries >= MaxRetries - Slack(faults)
      BY <2>1, <2>2, <2>3, <2>4, <2>5, LimitsAssumption DEF RetryBudget
    <2>7. \A c \in Bounties : row'[c].retries \in Nat
      BY <2>1, <2>2
    <2>8. QED
      BY <1>0, <2>1, <2>2, <2>6, <2>7, LimitsAssumption DEF RetryBudget
  <1>3. ASSUME NEW p \in Requests, Start(p)
        PROVE  RetryBudget'
    BY <1>1, <1>3, StartEffect
  <1>4. ASSUME NEW b \in Bounties, webhook_closed(b)
        PROVE  RetryBudget'
    <2>1. \A c \in Bounties : /\ row'[c].retries = row[c].retries
                              /\ row'[c].settlement = row[c].settlement
      BY <1>4 DEF webhook_closed, TypeOK, Row
    <2>2. QED
      BY <1>1, <2>1
  <1>5. CASE UNCHANGED row
    BY <1>1, <1>5
  <1>6. QED
    BY <1>2, <1>3, <1>4, <1>5 DEF Next, LoopStep, loop_fetch, loop_take, Chain, land,
       expire, Failure, Procs, crash, vars

BudgetInv == LoopCounts /\ RetryBudget

LEMMA BudgetAlways == Spec => []BudgetInv
  <1>1. Init => BudgetInv
    <2> SUFFICES ASSUME Init PROVE BudgetInv
      OBVIOUS
    <2>1. \A b \in Bounties : row[b].retries = 0 /\ row[b].settlement = "pending"
      BY DEF Init
    <2>2. batch = {} /\ proc[Loop].kind = "none"
      BY DEF Init, Idle, Procs
    <2>3. QED
      BY <2>1, <2>2, LimitsAssumption DEF BudgetInv, LoopCounts, RetryBudget
  <1>2. PaymentInv /\ BudgetInv /\ [Next]_vars => BudgetInv'
    BY LoopCountsNext, BudgetNext DEF PaymentInv, BudgetInv
  <1>3. QED
    BY <1>1, <1>2, PaymentAlways, PTL DEF Spec

\* The loop makes at most MAX_RETRIES counted attempts at any bounty, and gives up on none
\* before; one fewer counts only if a statement that counts has failed.
THEOREM RetriesAreBounded == Spec => []RetryBudget
  BY BudgetAlways, PTL DEF BudgetInv
=============================================================================
