--------------------------- MODULE PaymentSender ---------------------------
(***************************************************************************)
(* The sender of the payment service for one account on one chain: the     *)
(* task service_loop runs for it (sender/service.rs), with every step of   *)
(* process_transaction (sender/process.rs), on the tables tx and           *)
(* token_transfer.  A step is what the task does from one await on the     *)
(* database or on the RPC pool to the next, so that a crash, a user or the *)
(* chain may come between any two of them.                                 *)
(*                                                                         *)
(* The task works on a copy of the row it processes (cur): what it assigns *)
(* there is lost in a crash until update_tx saves it.                      *)
(***************************************************************************)
EXTENDS EthAccount, FiniteSets

CONSTANTS
  MaxTx,              \* bound: rows ever inserted into tx
  MaxRestarts,        \* bound: crashes of the service
  MaxFaults,          \* bound: RPC answers that fail, lag behind or get lost
  AutomaticRecover,   \* config: engine.automatic-recover
  EcoMode,            \* POLYGON_ECO_MODE: pay less than the configured fee first
  AllowSkip,          \* does the user call POST /tx/skip/{tx_id} ?
  CleanupWhenDown,    \* does the user run `cleanup` while the service is down ?
  CleanupWhenUp       \* does the user run `cleanup` next to a running service ?

ASSUME BoundAssumption ==
  /\ MaxTx \in Nat
  /\ MaxRestarts \in Nat
  /\ MaxFaults \in Nat
ASSUME SwitchAssumption ==
  {AutomaticRecover, EcoMode, AllowSkip, CleanupWhenDown, CleanupWhenUp} \subseteq BOOLEAN

VARIABLES
  tx,         \* table tx
  nextId,     \* its AUTOINCREMENT counter
  transfer,   \* table token_transfer
  info,       \* SharedState.current_tx_info: is a tx shown, is it to be skipped
  maxFee,     \* config: chain.max-fee-per-gas, as a level
  pc,         \* where the task is
  curId, cur, \* the row the task works on (web3_tx_dao) and its copy of it
  probe,      \* the row whose receipt is asked for (current_tx)
  res,        \* ProcessTransactionResult
  faults, restarts

dbVars == <<tx, nextId, transfer>>
taskVars == <<pc, curId, cur, probe, res>>
vars == <<chainVars, dbVars, taskVars, info, maxFee, faults, restarts>>

TxIds == 1..MaxTx
NoTx == 0
NoNonce == -1

(* A row of tx.  signed is "yes" while signed_raw_data is set; after the    *)
(* confirmation it is "cleared", signed_date stays.  orig is orig_tx_id.    *)
Row == [live: BOOLEAN, processing: BOOLEAN, nonce: Nat \union {NoNonce},
        fee: Nat, gas: Nat, started: BOOLEAN,
        signed: {"no", "yes", "cleared"}, broadcast: BOOLEAN,
        stuck: BOOLEAN, confirmed: BOOLEAN,
        orig: TxIds \union {NoTx}, call: SUBSET Transfers]

NoRow == [live |-> FALSE, processing |-> FALSE, nonce |-> NoNonce,
          fee |-> 0, gas |-> 0, started |-> FALSE,
          signed |-> "no", broadcast |-> FALSE,
          stuck |-> FALSE, confirmed |-> FALSE,
          orig |-> NoTx, call |-> {}]

(* The transaction insert_tx stores for a gathered batch of transfers S. *)
NewRow(S) == [NoRow EXCEPT !.live = TRUE, !.processing = TRUE, !.call = S]

(* Mutants of ReplacementOf: the replacement asks for a nonce of its own,   *)
(* stores by how much the fee differs, or takes over processing = 0.        *)
ReplacementWithOwnNonce(i, r) ==
  [NoRow EXCEPT !.live = TRUE, !.processing = r.processing,
                !.fee = maxFee, !.gas = r.gas, !.orig = i, !.call = r.call]
ReplacementWithFeeStep(i, r) ==
  [NoRow EXCEPT !.live = TRUE, !.processing = r.processing, !.nonce = r.nonce,
                !.fee = r.fee - maxFee, !.gas = r.gas, !.orig = i, !.call = r.call]

ReplacementOutOfQueue(i, r) ==
  [NoRow EXCEPT !.live = TRUE, !.nonce = r.nonce,
                !.fee = maxFee, !.gas = r.gas, !.orig = i, !.call = r.call]

(* The row inserted to replace r: unsigned, same nonce, next fee level. *)
ReplacementOf(i, r) ==
  [NoRow EXCEPT !.live = TRUE, !.processing = r.processing, !.nonce = r.nonce,
                !.fee = maxFee, !.gas = r.gas, !.orig = i, !.call = r.call]

(* processing = 1 keeps a row in the queue, processing = 0 takes it out. *)
Queued(r) == [r EXCEPT !.processing = TRUE]
Dequeued(r) == [r EXCEPT !.processing = FALSE]

Hash(r) == [nonce |-> r.nonce, fee |-> r.fee, gas |-> r.gas, call |-> r.call]

(* What is known of a transfer: with fee_paid 0 it is "failed", with        *)
(* another fee_paid "paid", and with an error but no fee_paid "marked".     *)
TransferRow == [txid: TxIds \union {NoTx},
                st: {"absent", "open", "marked", "paid", "failed"}]

Steps == {"down", "top", "nonce", "start", "check", "sign", "send", "sent",
          "poll", "receipt", "pending", "finish", "gather"}

Results == {"none", "Confirmed", "NeedRetry", "InternalError", "Unknown",
            "DoNotSave", "Wait"}

TypeOK ==
  /\ ChainTypeOK
  /\ tx \in [TxIds -> Row]
  /\ nextId \in Nat \ {0}
  /\ transfer \in [Transfers -> TransferRow]
  /\ info \in [TxIds -> {"none", "shown", "skip"}]
  /\ maxFee \in Nat
  /\ pc \in Steps
  /\ curId \in TxIds \union {NoTx}
  /\ cur \in Row
  /\ probe \in TxIds \union {NoTx}
  /\ res \in Results
  /\ faults \in Nat
  /\ restarts \in Nat

Init ==
  /\ ChainInit
  /\ tx = [i \in TxIds |-> NoRow]
  /\ nextId = 1
  /\ transfer = [t \in Transfers |-> [txid |-> NoTx, st |-> "absent"]]
  /\ info = [i \in TxIds |-> "none"]
  /\ maxFee \in 1..MaxFee
  /\ pc = "top"
  /\ curId = NoTx /\ cur = NoRow /\ probe = NoTx /\ res = "none"
  /\ faults = 0 /\ restarts = 0

-----------------------------------------------------------------------------
(* The database.                                                            *)

Live == {i \in TxIds : tx[i].live}

(* Mutant of ToProcess: a row that was started is not found again. *)
NotStarted == {i \in Live : tx[i].processing /\ ~tx[i].started}

(* get_next_transactions_to_process: processing > 0, ORDER BY orig_tx_id    *)
(* DESC, id ASC (NULL is last in a descending order).                       *)
ToProcess == {i \in Live : tx[i].processing}
Before(i, j) == tx[i].orig > tx[j].orig \/ (tx[i].orig = tx[j].orig /\ i < j)
NextToProcess == {i \in ToProcess : \A j \in ToProcess \ {i} : Before(i, j)}

(* get_transaction_highest_nonce, made a count like the chain's nonce. *)
ConfirmedRows == {i \in Live : tx[i].confirmed}
BehindDb(n) == \E i \in ConfirmedRows : n < tx[i].nonce + 1

(* update_tx writes all columns; it writes nothing if the row is gone. *)
Save(i, r) == IF tx[i].live THEN [tx EXCEPT ![i] = r] ELSE tx

(* get_transaction_chain: row i and what it replaced, step by step - the    *)
(* smallest set of rows with i and the originals of its members.            *)
ClosedUnderOrig(S) == \A k \in S : tx[k].orig # NoTx => tx[k].orig \in S
Lineage(i) ==
  {j \in TxIds : \A S \in SUBSET TxIds : i \in S /\ ClosedUnderOrig(S) => j \in S}
Roots(i) == {j \in Lineage(i) : tx[j].orig = NoTx}

TransfersOf(i) == {t \in Transfers : transfer[t].txid = i}

(* The transfers of S get status s. *)
Report(S, s) ==
  transfer' = [t \in Transfers |->
                 IF t \in S THEN [transfer[t] EXCEPT !.st = s] ELSE transfer[t]]

(* Mutant of Remap: forgotten. *)
KeepMapping(i, j) == UNCHANGED transfer

(* remap_token_transfer_tx: what referred to row i refers to row j. *)
Remap(i, j) ==
  transfer' = [t \in Transfers |->
                 IF transfer[t].txid = i THEN [transfer[t] EXCEPT !.txid = j] ELSE transfer[t]]

(* get_pending_token_transfers: tx_id is null and error is null. *)
PendingTransfers ==
  {t \in Transfers : transfer[t].st = "open" /\ transfer[t].txid = NoTx}

(* cleanup_token_transfer_tx for every row of D, then delete_tx. *)
Remove(D) ==
  /\ tx' = [i \in TxIds |-> IF i \in D THEN NoRow ELSE tx[i]]
  /\ transfer' = [t \in Transfers |->
                    IF transfer[t].txid \in D
                    THEN [txid |-> NoTx, st |-> "open"] ELSE transfer[t]]

-----------------------------------------------------------------------------
(* Control of the task.                                                     *)

Goto(step) == pc' = step
Result(r) == pc' = "finish" /\ res' = r

(* Back to service_loop: the copies of the rows are gone. *)
Leave == pc' = "top" /\ curId' = NoTx /\ cur' = NoRow /\ probe' = NoTx /\ res' = "none"

Fault == faults < MaxFaults /\ faults' = faults + 1

(* eth_get_transaction_count(latest) answers n: a synced node the number of *)
(* the account's transactions, a node that lags behind fewer.               *)
ReadsLatestNonce(n) ==
  \/ n = LatestNonce /\ UNCHANGED faults
  \/ n < LatestNonce /\ Fault

ShowInfo(i) == info' = [info EXCEPT ![i] = IF @ = "none" THEN "shown" ELSE @]
DropInfo(i) == info' = [info EXCEPT ![i] = "none"]

NoChainChange == UNCHANGED chainVars
NoDbChange == UNCHANGED dbVars
NoEnvChange == UNCHANGED <<maxFee, restarts>>

(* process_transactions takes the next row, or everything is processed and  *)
(* the payments are gathered.  A row the user wants to skip is not          *)
(* processed any more, whatever was done for it before.                     *)
Pick ==
  /\ pc = "top"
  /\ IF ToProcess = {}
     THEN Goto("gather") /\ UNCHANGED <<curId, cur, res, info>>
     ELSE \E i \in NextToProcess :
          /\ curId' = i
          /\ cur' = tx[i]
          /\ IF info[i] = "skip"
             THEN Result("InternalError") /\ UNCHANGED info
             ELSE Goto(IF tx[i].nonce = NoNonce THEN "nonce" ELSE "start")
                  /\ ShowInfo(i) /\ UNCHANGED res
  /\ NoChainChange /\ NoDbChange /\ NoEnvChange
  /\ UNCHANGED <<probe, faults>>

(* The nonce is the chain's; a node that knows of fewer transactions than   *)
(* the database has confirmed is not believed.  The fee is the configured   *)
(* one or, in eco mode, what the chain asks for now.                        *)
FirstFees == IF EcoMode THEN 1..maxFee ELSE {maxFee}
GetNonce ==
  /\ pc = "nonce"
  /\ \E n \in 0..LatestNonce :
       /\ ReadsLatestNonce(n)
       /\ IF BehindDb(n)
          THEN Leave
          ELSE /\ \E f \in FirstFees : cur' = [cur EXCEPT !.nonce = n, !.fee = f]
               /\ Goto("start")
               /\ UNCHANGED <<curId, probe, res>>
  /\ NoChainChange /\ NoDbChange /\ NoEnvChange
  /\ UNCHANGED <<info>>

AfterSign(r) ==
  IF ~r.broadcast THEN "send" ELSE IF r.confirmed THEN "finish" ELSE "poll"

(* first_processed is saved at once, the nonce is not.  An unsigned row is  *)
(* checked first, unless it is a replacement.                               *)
Start ==
  /\ pc = "start"
  /\ IF cur.started
     THEN UNCHANGED <<tx, cur>>
     ELSE /\ cur' = Queued([cur EXCEPT !.started = TRUE])
          /\ tx' = Save(curId, Queued([tx[curId] EXCEPT !.started = TRUE]))
  /\ IF cur.signed = "yes"
     THEN /\ Goto(AfterSign(cur))
          /\ res' = IF AfterSign(cur) = "finish" THEN "Confirmed" ELSE res
     ELSE /\ Goto(IF cur.orig = NoTx THEN "check" ELSE "sign")
          /\ UNCHANGED res
  /\ NoChainChange /\ NoEnvChange
  /\ UNCHANGED <<nextId, transfer, curId, probe, info, faults>>

(* check_transaction: the gas is estimated, or the account has not enough   *)
(* gas or tokens and the row waits.                                         *)
CheckOk ==
  /\ pc = "check"
  /\ \E g \in GasLimits : cur' = [cur EXCEPT !.gas = g]
  /\ Goto("sign")
  /\ NoChainChange /\ NoDbChange /\ NoEnvChange
  /\ UNCHANGED <<curId, probe, res, info, faults>>

CheckWaits ==
  /\ pc = "check"
  /\ Fault
  /\ Result("Wait")
  /\ NoChainChange /\ NoDbChange /\ NoEnvChange
  /\ UNCHANGED <<curId, cur, probe, info>>

(* The signed data, and with it the nonce, is saved before it is sent. *)
Sign ==
  /\ pc = "sign"
  /\ LET r == [cur EXCEPT !.signed = "yes"] IN
       /\ cur' = r
       /\ tx' = Save(curId, r)
       /\ Goto(AfterSign(r))
       /\ res' = IF AfterSign(r) = "finish" THEN "Confirmed" ELSE res
  /\ NoChainChange /\ NoEnvChange
  /\ UNCHANGED <<nextId, transfer, curId, probe, info, faults>>

(* eth_send_raw_transaction: whether the network got it or the call failed, *)
(* broadcast_date is set, but only in the copy.                             *)
Send ==
  /\ pc = "send"
  /\ \/ Accept(Hash(cur)) /\ UNCHANGED faults
     \/ Fault /\ UNCHANGED pool
  /\ cur' = [cur EXCEPT !.broadcast = TRUE]
  /\ Goto("sent")
  /\ NoDbChange /\ NoEnvChange
  /\ UNCHANGED <<chain, final, externals, reorgs, curId, probe, res, info>>

Sent ==
  /\ pc = "sent"
  /\ tx' = Save(curId, cur)
  /\ Goto("poll")
  /\ NoChainChange /\ NoEnvChange
  /\ UNCHANGED <<nextId, transfer, curId, cur, probe, res, info, faults>>

(* Mutant of NonceUsed: off by one. *)
NonceReached(n) == n >= cur.nonce
NonceUsed(n) == n > cur.nonce

(* Was the nonce used?  Then the receipts are looked for.                   *)
Poll ==
  /\ pc = "poll"
  /\ \E n \in 0..LatestNonce :
       /\ ReadsLatestNonce(n)
       /\ IF NonceUsed(n)
          THEN Goto("receipt") /\ probe' = curId
          ELSE Goto("pending") /\ UNCHANGED probe
  /\ NoChainChange /\ NoDbChange /\ NoEnvChange
  /\ UNCHANGED <<curId, cur, res, info>>

-----------------------------------------------------------------------------
(* The search for the receipt, through the row and what it replaced.        *)

(* Mutant of ProbeRow: the receipt of the row being processed, again. *)
SameRowAgain == cur
ProbeRow == IF probe = curId THEN cur ELSE tx[probe]

SeesReceipt == Mined(Hash(ProbeRow))
MissesReceipt ==
  \/ ~Mined(Hash(ProbeRow)) /\ UNCHANGED faults
  \/ Mined(Hash(ProbeRow)) /\ Fault

(* Receipt found, deep enough: the row it belongs to is the confirmed one,  *)
(* the transfers are mapped to it, the rest of the lineage is deleted.      *)
ReceiptConfirmed ==
  /\ pc = "receipt"
  /\ MinedFinal(Hash(ProbeRow))
  /\ LET done == [ProbeRow EXCEPT !.confirmed = TRUE, !.orig = NoTx, !.signed = "cleared"]
         gone == Lineage(curId) \ {probe}
     IN /\ cur' = done
        /\ tx' = [i \in TxIds |-> IF i \in gone THEN NoRow ELSE Save(probe, done)[i]]
        /\ \E root \in Roots(probe) : Remap(root, probe)
  /\ curId' = probe
  /\ probe' = NoTx
  /\ Result("Confirmed")
  /\ NoChainChange /\ NoEnvChange
  /\ UNCHANGED <<nextId, info, faults>>

(* Receipt found, but not deep enough for the node that was asked. *)
ReceiptTooFresh ==
  /\ pc = "receipt"
  /\ SeesReceipt
  /\ (~MinedFinal(Hash(ProbeRow)) /\ UNCHANGED faults) \/ Fault
  /\ Goto("pending")
  /\ probe' = NoTx
  /\ NoChainChange /\ NoDbChange /\ NoEnvChange
  /\ UNCHANGED <<curId, cur, res, info>>

(* No receipt: look at what web3_tx_dao - the row being processed, not the  *)
(* one just looked at - replaced.                                           *)
ReceiptOfOriginal ==
  /\ pc = "receipt"
  /\ MissesReceipt
  /\ cur.orig # NoTx
  /\ probe' = cur.orig
  /\ NoChainChange /\ NoDbChange /\ NoEnvChange
  /\ UNCHANGED <<pc, curId, cur, res, info>>

(* No receipt though the nonce is used: first_stuck_date is set once. *)
StuckNoticed ==
  /\ pc = "receipt"
  /\ MissesReceipt
  /\ cur.orig = NoTx
  /\ IF cur.stuck
     THEN UNCHANGED <<tx, cur>>
     ELSE /\ cur' = [cur EXCEPT !.stuck = TRUE]
          /\ tx' = Save(curId, [tx[curId] EXCEPT !.stuck = TRUE])
  /\ Goto("pending")
  /\ probe' = NoTx
  /\ NoChainChange /\ NoEnvChange
  /\ UNCHANGED <<nextId, transfer, curId, res, info>>

(* mark_as_unrecoverable_after_seconds have passed since first_stuck_date. *)
GiveUp ==
  /\ pc = "receipt"
  /\ MissesReceipt
  /\ cur.orig = NoTx
  /\ cur.stuck
  /\ IF AutomaticRecover
     THEN Remove(Lineage(curId)) /\ Result("DoNotSave")
     ELSE UNCHANGED <<tx, transfer>> /\ Result("NeedRetry")
  /\ probe' = NoTx
  /\ NoChainChange /\ NoEnvChange
  /\ UNCHANGED <<nextId, curId, cur, info>>

-----------------------------------------------------------------------------
(* The nonce is not used yet, or not known to be.                           *)

(* replacement_timeout has passed and the configured fee is higher now: a   *)
(* new row with the same nonce takes over.                                  *)
Replace ==
  /\ pc = "pending"
  /\ nextId <= MaxTx
  /\ cur.fee < maxFee
  /\ tx' = [Save(curId, Dequeued(cur))
              EXCEPT ![nextId] = ReplacementOf(curId, cur)]
  /\ nextId' = nextId + 1
  /\ DropInfo(curId)
  /\ Leave
  /\ NoChainChange /\ NoEnvChange
  /\ UNCHANGED <<transfer, faults>>

(* eth_get_transaction_count(pending) of a synced node is above the nonce. *)
PendingKnown == LatestNonce > cur.nonce \/ \E h \in pool : h.nonce = cur.nonce

Resend ==
  /\ pc = "pending"
  /\ \/ ~PendingKnown /\ Accept(Hash(cur)) /\ UNCHANGED faults
     \/ PendingKnown /\ Accept(Hash(cur)) /\ Fault
     \/ Fault /\ UNCHANGED pool
  /\ cur' = [cur EXCEPT !.broadcast = TRUE]
  /\ tx' = Save(curId, [cur EXCEPT !.broadcast = TRUE])
  /\ Goto("poll")
  /\ NoEnvChange
  /\ UNCHANGED <<chain, final, externals, reorgs, nextId, transfer, curId, probe,
                 res, info>>

StillPending ==
  /\ pc = "pending"
  /\ PendingKnown
  /\ Result("Unknown")
  /\ NoChainChange /\ NoDbChange /\ NoEnvChange
  /\ UNCHANGED <<curId, cur, probe, info, faults>>

-----------------------------------------------------------------------------
(* update_token_transfer_result: the outcome goes to the transfers that     *)
(* refer to the row.                                                        *)

FinishConfirmed ==
  /\ pc = "finish" /\ res = "Confirmed"
  /\ IF TransfersOf(curId) = {}
     THEN UNCHANGED <<tx, transfer>>
     ELSE /\ tx' = Save(curId, Dequeued(cur))
          /\ Report(TransfersOf(curId), "paid")
  /\ Leave
  /\ NoChainChange /\ NoEnvChange
  /\ UNCHANGED <<nextId, info, faults>>

FinishFailed ==
  /\ pc = "finish" /\ res \in {"NeedRetry", "InternalError"}
  /\ tx' = Save(curId, Dequeued(cur))
  /\ Report(TransfersOf(curId), "failed")
  /\ DropInfo(curId)
  /\ Leave
  /\ NoChainChange /\ NoEnvChange
  /\ UNCHANGED <<nextId, faults>>

FinishUnknown ==
  /\ pc = "finish" /\ res = "Unknown"
  /\ tx' = Save(curId, Queued(cur))
  /\ Leave
  /\ NoChainChange /\ NoEnvChange
  /\ UNCHANGED <<nextId, transfer, info, faults>>

FinishUnsaved ==
  /\ pc = "finish" /\ res \in {"DoNotSave", "Wait"}
  /\ DropInfo(curId)
  /\ Leave
  /\ NoChainChange /\ NoDbChange /\ NoEnvChange
  /\ UNCHANGED <<faults>>

(* An RPC call or the signer fails: process_transactions returns the error, *)
(* nothing of the copy is saved, service_loop sleeps and starts again.      *)
StepFails ==
  /\ pc \in {"nonce", "check", "sign", "send", "poll", "receipt", "pending"}
  /\ Fault
  /\ Leave
  /\ NoChainChange /\ NoDbChange /\ NoEnvChange
  /\ UNCHANGED <<info>>

-----------------------------------------------------------------------------
(* gather_transactions_post: a batch of pending transfers becomes a row.    *)
GatherBatch ==
  /\ pc = "gather"
  /\ nextId <= MaxTx
  /\ \E S \in SUBSET PendingTransfers :
       /\ S # {}
       /\ tx' = [tx EXCEPT ![nextId] = NewRow(S)]
       /\ transfer' = [t \in Transfers |->
                         IF t \in S THEN [transfer[t] EXCEPT !.txid = nextId]
                         ELSE transfer[t]]
  /\ nextId' = nextId + 1
  /\ NoChainChange /\ NoEnvChange
  /\ UNCHANGED <<taskVars, info, faults>>

(* The machine stops: what the task and the state shared with it hold is    *)
(* lost.                                                                    *)
Stop ==
  /\ restarts < MaxRestarts
  /\ restarts' = restarts + 1
  /\ pc' = "down" /\ curId' = NoTx /\ cur' = NoRow /\ probe' = NoTx /\ res' = "none"
  /\ info' = [i \in TxIds |-> "none"]

(* The transfers of an order of batches: pending ones, P, and those of the  *)
(* rows R which this gathering already made for the order.                  *)
OrderOf(P, R) ==
  P \union {t \in Transfers : transfer[t].st = "open" /\ transfer[t].txid \in R}

(* A batch of an order cannot be packed: all transfers of the order are     *)
(* marked with the error, one by one, also those that have a row, which     *)
(* stays in the queue.  A crash among the marks leaves some of them.        *)
GatherFails ==
  /\ pc = "gather"
  /\ \E P \in SUBSET PendingTransfers, R \in SUBSET ToProcess :
       P # {} /\ Report(OrderOf(P, R), "marked")
  /\ NoChainChange /\ NoEnvChange
  /\ UNCHANGED <<tx, nextId, taskVars, info, faults>>

CrashAmongMarks ==
  /\ pc = "gather"
  /\ PendingTransfers # {}
  /\ \E S \in SUBSET OrderOf(PendingTransfers, ToProcess) : Report(S, "marked")
  /\ Stop
  /\ NoChainChange
  /\ UNCHANGED <<tx, nextId, maxFee, faults>>

(* Everything is gathered, or gathering stops between two batches: no       *)
(* allowance, or the database failed.                                       *)
GatherEnds ==
  /\ pc = "gather"
  /\ \/ (PendingTransfers = {} \/ nextId > MaxTx) /\ UNCHANGED faults
     \/ Fault
  /\ Goto("top")
  /\ NoChainChange /\ NoDbChange /\ NoEnvChange
  /\ UNCHANGED <<curId, cur, probe, res, info>>

-----------------------------------------------------------------------------
(* The users and the machine.                                               *)

(* PaymentRuntime::transfer inserts a row into token_transfer. *)
NewTransfer ==
  /\ \E t \in Transfers :
       /\ transfer[t].st = "absent"
       /\ transfer' = [transfer EXCEPT ![t].st = "open"]
  /\ NoChainChange /\ NoEnvChange
  /\ UNCHANGED <<tx, nextId, taskVars, info, faults>>

(* POST /tx/skip/{tx_id}: granted while the row is in current_tx_info. *)
Skip ==
  /\ AllowSkip
  /\ \E i \in TxIds :
       /\ info[i] = "shown"
       /\ info' = [info EXCEPT ![i] = "skip"]
  /\ NoChainChange /\ NoDbChange /\ NoEnvChange
  /\ UNCHANGED <<taskVars, faults>>

Crash ==
  /\ pc # "down"
  /\ Stop
  /\ NoChainChange /\ NoDbChange
  /\ UNCHANGED <<maxFee, faults>>

(* The service starts again, perhaps with a higher fee in its config. *)
Restart ==
  /\ pc = "down"
  /\ maxFee' \in maxFee..MaxFee
  /\ Goto("top")
  /\ NoChainChange /\ NoDbChange
  /\ UNCHANGED <<curId, cur, probe, res, info, faults, restarts>>

(* Mutant of Unsent: a signed row counts as unsent until its broadcast is   *)
(* saved.                                                                   *)
NotBroadcast == {i \in Live : ~tx[i].broadcast}

(* erc20_processor cleanup --remove-unsent-tx: the newest row that was      *)
(* neither signed nor broadcast.                                            *)
Unsent == {i \in Live : tx[i].signed = "no" /\ ~tx[i].broadcast}
CleanupUnsent ==
  /\ IF pc = "down" THEN CleanupWhenDown ELSE CleanupWhenUp
  /\ \E i \in Unsent :
       /\ \A j \in Unsent : j <= i
       /\ Remove({i})
  /\ NoChainChange /\ NoEnvChange
  /\ UNCHANGED <<nextId, taskVars, info, faults>>

-----------------------------------------------------------------------------
Process ==
  \/ Pick \/ GetNonce \/ Start \/ CheckOk \/ CheckWaits \/ Sign \/ Send \/ Sent \/ Poll
  \/ ReceiptConfirmed \/ ReceiptTooFresh \/ ReceiptOfOriginal \/ StuckNoticed \/ GiveUp
  \/ Replace \/ Resend \/ StillPending
  \/ FinishConfirmed \/ FinishFailed \/ FinishUnknown \/ FinishUnsaved \/ StepFails
  \/ GatherBatch \/ GatherFails \/ GatherEnds

Env ==
  \/ NewTransfer \/ Skip \/ Crash \/ CrashAmongMarks \/ Restart \/ CleanupUnsent

ChainStep ==
  ChainNext /\ UNCHANGED <<dbVars, taskVars, info, maxFee, faults, restarts>>

Next == Process \/ Env \/ ChainStep

Spec == Init /\ [][Next]_vars

(* The task is scheduled (tokio), blocks are produced, and time passes: a   *)
(* row that stays stuck is given up some day.                               *)
FairSpec ==
  /\ Spec
  /\ WF_vars(Process)
  /\ SF_vars(GiveUp)
  /\ WF_vars(Restart)
  /\ WF_vars(Mine /\ ChainStep)
  /\ WF_vars(Finalize /\ ChainStep)

-----------------------------------------------------------------------------
(* Safety.                                                                  *)

(* No transfer is paid by two transactions of the chain, whatever crashes,  *)
(* replacements, resends, skips and lagging RPC answers come between.       *)
NoDoublePayment ==
  \A t \in Transfers : \A j, k \in Payments(t) : j = k

(* A transfer the service reports as paid (fee_paid set, TransferFinished   *)
(* sent) is paid by a transaction that is buried deep enough.               *)
PaidIsFinal ==
  \A t \in Transfers :
    transfer[t].st = "paid" => \E k \in Payments(t) : k <= final

(* A transfer that failed with "Receipt not found", or that gathering       *)
(* marked and left without a row, was not paid, nor will a transaction the  *)
(* network still holds pay it.                                              *)
ReportedUnpaid(t) ==
  \/ transfer[t].st = "failed"
  \/ transfer[t].st = "marked" /\ transfer[t].txid = NoTx
FailedIsNotPaid ==
  \A t \in Transfers :
    ReportedUnpaid(t) =>
      /\ Payments(t) = {}
      /\ \A h \in pool : t \in h.call => h.nonce < LatestNonce

(* One unconfirmed row at a time is on its way (first_processed is set):    *)
(* two rows of the service never compete for a nonce.                       *)
Underway(i) == tx[i].started /\ ~tx[i].confirmed
OneInFlight ==
  \A i, j \in ToProcess : Underway(i) /\ Underway(j) => i = j

(* A transfer that belongs to a row and is neither paid nor failed, marked  *)
(* or not, has somebody who will finish it: a row of the lineage is in the  *)
(* queue, or the task is just writing the outcome.                          *)
WithRow(t) == transfer[t].st \in {"open", "marked"} /\ transfer[t].txid # NoTx
Driven(t) ==
  \/ \E i \in ToProcess : transfer[t].txid \in Lineage(i)
  \/ pc = "finish" /\ curId = transfer[t].txid
NoOrphan ==
  \A t \in Transfers : WithRow(t) => Driven(t)

(* service_loop: "we should be here only when all pending transactions are  *)
(* processed" - when payments are gathered, an unfinished transfer that has *)
(* a row has a queued one, which this gathering made.                       *)
GatherFindsAllProcessed ==
  pc = "gather" =>
    \A t \in Transfers : WithRow(t) => transfer[t].txid \in ToProcess

-----------------------------------------------------------------------------
(* What a step may never do.                                                *)

(* A confirmed row keeps the hash that was mined. *)
ConfirmedHashStays ==
  [][\A i \in ConfirmedRows : tx'[i].live => Hash(tx'[i]) = Hash(tx[i])]_vars

(* A signed row leaves the table only when its nonce is settled: a row of   *)
(* the same nonce is confirmed, or the chain has used the nonce.            *)
SignedRowsLeaveResolved ==
  [][\A i \in Live :
       tx[i].signed = "yes" /\ ~tx'[i].live =>
         \/ \E j \in ConfirmedRows' : tx'[j].nonce = tx[i].nonce
         \/ tx[i].nonce < LatestNonce]_vars

-----------------------------------------------------------------------------
(* Liveness.                                                                *)

(* Every transfer is paid or fails in the end, or gathering marks it and    *)
(* leaves it without a row; a marked transfer that has a row is no          *)
(* exception.                                                               *)
Unfinished(t) == transfer[t].st = "open" \/ WithRow(t)
EveryTransferEnds ==
  \A t \in Transfers : Unfinished(t) ~> ~Unfinished(t)

(* The search for a receipt ends. *)
ReceiptSearchEnds == (pc = "receipt") ~> (pc # "receipt")

-----------------------------------------------------------------------------
(* The service implements its promise.                                      *)
Promise == INSTANCE Payments WITH
  status  <- [t \in Transfers |-> transfer[t].st],
  moved   <- [t \in Transfers |-> Cardinality(Payments(t))],
  settled <- [t \in Transfers |-> Cardinality({k \in Payments(t) : k <= final})]
KeepsPromise == Promise!Spec
=============================================================================
