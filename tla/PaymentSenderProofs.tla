------------------------ MODULE PaymentSenderProofs ------------------------
(***************************************************************************)
(* Proofs about PaymentSender, for every set of transfers and every bound: *)
(* the type invariant, and that no transfer is paid twice as long as rows  *)
(* are only removed by the confirmation, or while the service is down.     *)
(***************************************************************************)
EXTENDS PaymentSender, SequenceTheorems, TLAPS

-----------------------------------------------------------------------------
(* Typing.                                                                  *)

(* The steps that work on a row, and those that work on a row with a nonce. *)
RowSteps == {"nonce", "start", "check", "sign", "send", "sent",
             "poll", "receipt", "pending", "finish"}
NonceSteps == RowSteps \ {"nonce", "finish"}

(* What the task holds in each of its steps. *)
TaskOK ==
  /\ pc \in RowSteps => curId \in TxIds
  /\ pc \in NonceSteps => cur.nonce \in Nat
  /\ pc = "receipt" => probe \in TxIds

TypeInv == TypeOK /\ TaskOK

-----------------------------------------------------------------------------
(* The inductive invariant behind NoDoublePayment.  Two transactions that   *)
(* pay the same transfer have the same nonce: it holds for what the network *)
(* holds, for the rows that may still be sent, and between the two.         *)

(* The chain is made of pool transactions, in the order of their nonces. *)
ChainInv ==
  \A k \in DOMAIN chain :
    /\ chain[k].nonce = k - 1
    /\ chain[k].call # {} => chain[k] \in pool

(* Transactions of the network that pay the same transfer compete. *)
PoolInv ==
  \A g, h \in pool : \A t \in Transfers :
    t \in g.call /\ t \in h.call => g.nonce = h.nonce

(* So do a row and a transaction of the network... *)
RowPoolInv ==
  \A i \in TxIds : \A h \in pool : \A t \in Transfers :
    tx[i].live /\ t \in tx[i].call /\ t \in h.call => tx[i].nonce = h.nonce

(* ... and two rows: one without a nonce is the only row of its transfers. *)
RowsInv ==
  \A i, j \in TxIds : \A t \in Transfers :
    tx[i].live /\ tx[j].live /\ i # j /\ t \in tx[i].call /\ t \in tx[j].call
      => tx[i].nonce \in Nat /\ tx[i].nonce = tx[j].nonce

(* A row gets its nonce before its signature, and only a row has a nonce. *)
NonceInv ==
  \A i \in TxIds :
    /\ tx[i].live /\ tx[i].nonce = NoNonce => tx[i].signed = "no"
    /\ ~tx[i].live => tx[i].nonce = NoNonce

(* Rows and references to rows are older than the AUTOINCREMENT counter. *)
IdInv ==
  /\ \A i \in TxIds : tx[i].live => i < nextId
  /\ \A t \in Transfers : transfer[t].txid < nextId

(* Nothing pays transfer t, but perhaps row i. *)
PaidOnlyBy(t, i) ==
  /\ \A h \in pool : t \notin h.call
  /\ \A j \in TxIds : tx[j].live /\ t \in tx[j].call => j = i

(* A transfer that may be gathered is not paid by anything, and neither is  *)
(* one that would be pending again if its unsigned row was removed.         *)
PendingInv ==
  \A t \in Transfers :
    LET i == transfer[t].txid IN
      /\ i = NoTx => PaidOnlyBy(t, NoTx)
      /\ i \in TxIds /\ tx[i].live /\ tx[i].signed = "no" => PaidOnlyBy(t, i)

(* The task's copy of its row: what decides a payment is saved before it is *)
(* sent.  A nonce may be in the copy only while the row is unsigned.        *)
CurInv ==
  /\ pc \in RowSteps =>
       /\ tx[curId].live /\ cur.live
       /\ cur.call = tx[curId].call
       /\ cur.signed = tx[curId].signed
       /\ \/ cur.nonce = tx[curId].nonce
          \/ tx[curId].nonce = NoNonce /\ tx[curId].signed = "no"
  /\ pc = "nonce" => tx[curId].nonce = NoNonce
  /\ pc \in {"send", "sent", "poll", "receipt", "pending"} => cur.signed = "yes"

TableInv == PoolInv /\ RowPoolInv /\ RowsInv /\ NonceInv /\ IdInv /\ PendingInv

PayInv == ChainInv /\ TableInv /\ CurInv

-----------------------------------------------------------------------------
(* Lemmas about the operators on rows and on the tables.                    *)

(* A sequence without its last element, as the chain is after a Reorg. *)
LEMMA DropLast ==
  ASSUME NEW S, NEW s \in Seq(S), NEW n \in Nat, Len(s) = n + 1
  PROVE  /\ SubSeq(s, 1, Len(s) - 1) \in Seq(S)
         /\ Len(SubSeq(s, 1, Len(s) - 1)) = n
         /\ \A k \in 1..n : SubSeq(s, 1, Len(s) - 1)[k] = s[k]
<1>1. Len(s) - 1 = n
  OBVIOUS
<1>2. \A k \in 1..n : s[k] \in S
  OBVIOUS
<1>3. SubSeq(s, 1, n) \in Seq(S)
  BY <1>2, SubSeqProperties
<1>4. Len(SubSeq(s, 1, n)) = IF 1 <= n THEN n - 1 + 1 ELSE 0
  BY <1>2, SubSeqProperties
<1>5. (IF 1 <= n THEN n - 1 + 1 ELSE 0) = n
  OBVIOUS
<1>6. ASSUME NEW k \in 1..n
      PROVE  SubSeq(s, 1, n)[k] = s[k]
  <2>1. k \in 1..(n - 1 + 1) /\ 1 + k - 1 = k
    OBVIOUS
  <2> QED
    BY <1>2, <2>1, SubSeqProperties
<1> QED
  BY <1>1, <1>3, <1>4, <1>5, <1>6

(* What the task assigns to its copy of a row leaves a row. *)
LEMMA RowTyping ==
  ASSUME NEW r \in Row
  PROVE  /\ Queued(r) \in Row /\ Dequeued(r) \in Row
         /\ [r EXCEPT !.started = TRUE] \in Row
         /\ [r EXCEPT !.signed = "yes"] \in Row
         /\ [r EXCEPT !.broadcast = TRUE] \in Row
         /\ [r EXCEPT !.stuck = TRUE] \in Row
         /\ [r EXCEPT !.confirmed = TRUE, !.orig = NoTx, !.signed = "cleared"] \in Row
         /\ \A g \in Nat : [r EXCEPT !.gas = g] \in Row
         /\ \A n, f \in Nat : [r EXCEPT !.nonce = n, !.fee = f] \in Row
  BY DEF Row, Queued, Dequeued

(* ... and changes no other field. *)
LEMMA RowKeeps ==
  ASSUME NEW r \in Row
  PROVE  /\ Queued([r EXCEPT !.started = TRUE]).nonce = r.nonce
         /\ [r EXCEPT !.broadcast = TRUE].nonce = r.nonce
         /\ [r EXCEPT !.stuck = TRUE].nonce = r.nonce
         /\ \A g \in Nat : [r EXCEPT !.gas = g].nonce = r.nonce
         /\ \A n, f \in Nat : [r EXCEPT !.nonce = n, !.fee = f].nonce = n
  BY DEF Row, Queued

(* The rows the service inserts. *)
LEMMA NoRowTyping == NoRow \in Row
  BY DEF NoRow, Row

LEMMA NewRowTyping ==
  ASSUME NEW S \in SUBSET Transfers
  PROVE  NewRow(S) \in Row
  BY DEF NewRow, NoRow, Row

LEMMA ReplacementTyping ==
  ASSUME NEW r \in Row, NEW i \in TxIds, maxFee \in Nat
  PROVE  ReplacementOf(i, r) \in Row
  BY DEF ReplacementOf, NoRow, Row

(* A row with a nonce can be signed. *)
LEMMA HashTyping ==
  ASSUME NEW r \in Row, r.nonce \in Nat
  PROVE  Hash(r) \in Signed
  BY DEF Row, Hash, Signed

(* update_tx writes a row. *)
LEMMA SaveTyping ==
  ASSUME tx \in [TxIds -> Row], NEW i \in TxIds, NEW r \in Row
  PROVE  Save(i, r) \in [TxIds -> Row]
  BY DEF Save

(* remap and remove leave tables. *)
LEMMA RemapTyping ==
  ASSUME transfer \in [Transfers -> TransferRow], NEW i, NEW j \in TxIds, Remap(i, j)
  PROVE  transfer' \in [Transfers -> TransferRow]
  BY DEF Remap, TransferRow

LEMMA RemoveTyping ==
  ASSUME tx \in [TxIds -> Row], transfer \in [Transfers -> TransferRow],
         NEW D \in SUBSET TxIds, Remove(D)
  PROVE  /\ tx' \in [TxIds -> Row]
         /\ transfer' \in [Transfers -> TransferRow]
  BY NoRowTyping DEF Remove, TransferRow

(* The steps of the chain leave a chain. *)
LEMMA ChainTyping ==
  ASSUME ChainTypeOK, ChainNext
  PROVE  ChainTypeOK'
<1>1. chain \in Seq(Signed) /\ final \in Nat /\ pool \in SUBSET Signed
      /\ externals \in Nat /\ reorgs \in Nat
  BY DEF ChainTypeOK
<1>2. CASE Mine
  BY <1>1, <1>2 DEF Mine, ChainTypeOK
<1>3. CASE ExternalTx
  <2>1. External(LatestNonce) \in Signed
    BY <1>1 DEF External, LatestNonce, Signed
  <2> QED BY <1>1, <1>3, <2>1 DEF ExternalTx, ChainTypeOK
<1>4. CASE Finalize
  BY <1>1, <1>4 DEF Finalize, ChainTypeOK
<1>5. CASE Reorg
  <2>1. Len(chain) \in Nat /\ Len(chain) > 0
    BY <1>1, <1>5 DEF Reorg
  <2>2. chain[Len(chain)] \in Signed
    BY <1>1, <2>1
  <2>3. SubSeq(chain, 1, Len(chain) - 1) \in Seq(Signed)
    BY <1>1, <2>1, SubSeqProperties
  <2> QED BY <1>1, <1>5, <2>2, <2>3 DEF Reorg, ChainTypeOK
<1> QED BY <1>2, <1>3, <1>4, <1>5 DEF ChainNext

(* A node that gets a transaction: the network still holds transactions. *)
LEMMA AcceptTyping ==
  ASSUME pool \in SUBSET Signed, NEW h \in Signed, Accept(h)
  PROVE  pool' \in SUBSET Signed
  BY DEF Accept

-----------------------------------------------------------------------------
(* The type invariant is inductive.                                         *)

LEMMA TypeInit == Init => TypeInv
<1> SUFFICES ASSUME Init PROVE TypeInv
  OBVIOUS
<1>1. ChainTypeOK
  BY DEF Init, ChainInit, ChainTypeOK
<1>2. maxFee \in Nat
  BY FeeAssumption DEF Init
<1> QED
  BY <1>1, <1>2, NoRowTyping
  DEF Init, TypeInv, TypeOK, TaskOK, TransferRow, Steps, Results, TxIds, NoTx, RowSteps, NonceSteps

(* The fees of a first attempt are levels. *)
LEMMA FeesNat == maxFee \in Nat => FirstFees \subseteq Nat
  BY DEF FirstFees

(* A report changes the status of the transfers it is about, and only that. *)
LEMMA ReportTyping ==
  ASSUME transfer \in [Transfers -> TransferRow], NEW S,
         NEW s \in {"absent", "open", "marked", "paid", "failed"}, Report(S, s)
  PROVE  /\ transfer' \in [Transfers -> TransferRow]
         /\ \A t \in Transfers :
              /\ transfer'[t].txid = transfer[t].txid
              /\ transfer'[t].st = IF t \in S THEN s ELSE transfer[t].st
  BY DEF Report, TransferRow

(* The marks of a gathering that fails, or crashes while it marks, are on   *)
(* open transfers, and nothing but the status of transfers is written.      *)
LEMMA MarkStep ==
  ASSUME GatherFails \/ CrashAmongMarks
  PROVE  /\ pc = "gather" /\ UNCHANGED <<tx, nextId>> /\ UNCHANGED chainVars
         /\ \E S \in SUBSET {t \in Transfers : transfer[t].st = "open"} : Report(S, "marked")
<1>1. ASSUME NEW P \in SUBSET PendingTransfers, NEW R \in SUBSET ToProcess
      PROVE  OrderOf(P, R) \in SUBSET {t \in Transfers : transfer[t].st = "open"}
  BY DEF OrderOf, PendingTransfers
<1>2. CASE GatherFails
  <2>1. PICK P \in SUBSET PendingTransfers, R \in SUBSET ToProcess :
          Report(OrderOf(P, R), "marked")
    BY <1>2 DEF GatherFails
  <2>2. OrderOf(P, R) \in SUBSET {t \in Transfers : transfer[t].st = "open"}
    BY <1>1
  <2> QED
    BY <1>2, <2>1, <2>2 DEF GatherFails, NoChainChange
<1>3. CASE CrashAmongMarks
  <2>1. PICK S \in SUBSET OrderOf(PendingTransfers, ToProcess) : Report(S, "marked")
    BY <1>3 DEF CrashAmongMarks
  <2>2. S \in SUBSET {t \in Transfers : transfer[t].st = "open"}
    BY <1>1, <2>1
  <2> QED
    BY <1>3, <2>1, <2>2 DEF CrashAmongMarks, NoChainChange
<1> QED
  BY <1>2, <1>3

LEMMA TypeStep ==
  ASSUME TypeInv, [Next]_vars
  PROVE  TypeInv'
<1>0. TypeOK /\ TaskOK
  BY DEF TypeInv
<1> USE DEF TypeOK, ChainTypeOK, TaskOK, RowSteps, NonceSteps, Steps, Results,
            NoChainChange, NoDbChange, NoEnvChange, chainVars, dbVars
<1>1. CASE Pick
  BY <1>0, <1>1 DEF TypeInv, Pick, Goto, Result, ShowInfo, Live, ToProcess, NextToProcess, Row,
     NoNonce
<1>2. CASE GetNonce
  <2>1. PICK n \in 0..LatestNonce :
          /\ ReadsLatestNonce(n)
          /\ IF BehindDb(n)
             THEN Leave
             ELSE /\ \E f \in FirstFees : cur' = [cur EXCEPT !.nonce = n, !.fee = f]
                  /\ Goto("start")
                  /\ UNCHANGED <<curId, probe, res>>
    BY <1>2 DEF GetNonce
  <2>2. n \in Nat /\ faults' \in Nat /\ cur \in Row
    <3>1. LatestNonce \in Nat /\ cur \in Row /\ faults \in Nat
      BY <1>0 DEF LatestNonce
    <3>2. n \in 0..LatestNonce /\ ReadsLatestNonce(n)
      BY <2>1
    <3> QED
      BY <3>1, <3>2 DEF ReadsLatestNonce, Fault
  <2>3. CASE BehindDb(n)
    BY <1>0, <1>2, <2>1, <2>2, <2>3, NoRowTyping DEF TypeInv, GetNonce, Leave
  <2>4. CASE ~BehindDb(n)
    <3>0. FirstFees \subseteq Nat
      BY <1>0, FeesNat
    <3>1. PICK f \in FirstFees : cur' = [cur EXCEPT !.nonce = n, !.fee = f]
      BY <2>1, <2>4
    <3>3. f \in Nat
      BY <3>0, <3>1
    <3>4. /\ [cur EXCEPT !.nonce = n, !.fee = f] \in Row
          /\ [cur EXCEPT !.nonce = n, !.fee = f].nonce = n
      <4>1. n \in Nat /\ cur \in Row
        BY <2>2
      <4> HIDE DEF TypeOK, ChainTypeOK, TaskOK, RowSteps, NonceSteps
      <4>2. [cur EXCEPT !.nonce = n, !.fee = f] \in Row
        BY <4>1, <3>3, RowTyping
      <4>3. [cur EXCEPT !.nonce = n, !.fee = f].nonce = n
        BY <4>1, <3>3, RowKeeps
      <4> QED
        BY <4>2, <4>3
    <3>2. cur' \in Row /\ cur'.nonce \in Nat
      BY <2>2, <3>1, <3>4
    <3> QED
      BY <1>0, <1>2, <2>1, <2>2, <2>4, <3>2 DEF TypeInv, GetNonce, Goto
  <2> QED
    BY <2>3, <2>4
<1>3. CASE Start
  <2>1. /\ curId \in TxIds /\ cur \in Row /\ cur.nonce \in Nat
        /\ tx \in [TxIds -> Row] /\ tx[curId] \in Row
    BY <1>0, <1>3 DEF Start
  <2>5. \/ cur' = cur /\ tx' = tx
        \/ /\ cur' = Queued([cur EXCEPT !.started = TRUE])
           /\ tx' = Save(curId, Queued([tx[curId] EXCEPT !.started = TRUE]))
    BY <1>3 DEF Start
  <2>6. ASSUME NEW r \in Row
        PROVE  /\ Queued([r EXCEPT !.started = TRUE]) \in Row
               /\ Queued([r EXCEPT !.started = TRUE]).nonce = r.nonce
    <3>1. [r EXCEPT !.started = TRUE] \in Row
      BY RowTyping
    <3> QED
      BY <3>1, RowTyping, RowKeeps
  <2>2. cur' \in Row /\ cur'.nonce \in Nat
    BY <2>1, <2>5, <2>6
  <2>3. tx' \in [TxIds -> Row]
    BY <2>1, <2>5, <2>6, SaveTyping
  <2>4. pc' \in {"send", "finish", "poll", "check", "sign"} /\ res' \in Results
    BY <1>0, <1>3 DEF Start, Goto, AfterSign
  <2> QED
    BY <1>0, <1>3, <2>1, <2>2, <2>3, <2>4 DEF TypeInv, Start
<1>4. CASE CheckOk
  <2>1. cur \in Row /\ cur.nonce \in Nat
    BY <1>0, <1>4 DEF CheckOk
  <2>2. PICK g \in GasLimits : cur' = [cur EXCEPT !.gas = g]
    BY <1>4 DEF CheckOk
  <2>3. cur' \in Row /\ cur'.nonce \in Nat
    BY <2>1, <2>2, GasAssumption, RowTyping, RowKeeps
  <2> QED
    BY <1>0, <1>4, <2>3 DEF TypeInv, CheckOk, Goto
<1>5. CASE CheckWaits
  BY <1>0, <1>5 DEF TypeInv, CheckWaits, Result, Fault
<1>6. CASE Sign
  BY <1>0, RowTyping, SaveTyping, <1>6 DEF TypeInv, Sign, Goto, AfterSign, Row
<1>7. CASE Send
  <2>1. curId \in TxIds /\ cur.nonce \in Nat
    BY <1>0, <1>7 DEF Send
  <2>2. cur' \in Row /\ cur'.nonce \in Nat
    BY <1>0, <1>7, <2>1, RowTyping, RowKeeps DEF Send
  <2>3. pool' \in SUBSET Signed /\ faults' \in Nat
    BY <1>0, <1>7, <2>1, HashTyping, AcceptTyping DEF Send, Fault
  <2> QED
    BY <1>0, <1>7, <2>1, <2>2, <2>3 DEF TypeInv, Send, Goto
<1>8. CASE Sent
  BY <1>0, SaveTyping, <1>8 DEF TypeInv, Sent, Goto
<1>9. CASE Poll
  BY <1>0, <1>9 DEF TypeInv, Poll, Goto, ReadsLatestNonce, Fault
<1>10. CASE ReceiptConfirmed
  <2>1. ProbeRow \in Row
    BY <1>0, <1>10 DEF ReceiptConfirmed, ProbeRow
  <2>2. cur' \in Row
    BY <1>10, <2>1, RowTyping DEF ReceiptConfirmed
  <2>3. probe \in TxIds /\ curId' = probe
    BY <1>0, <1>10 DEF ReceiptConfirmed
  <2>4. tx' = [i \in TxIds |-> IF i \in Lineage(curId) \ {probe} THEN NoRow
                              ELSE Save(probe, cur')[i]]
    BY <1>10 DEF ReceiptConfirmed
  <2>5. Save(probe, cur') \in [TxIds -> Row]
    BY <1>0, <2>2, <2>3, SaveTyping
  <2>6. tx' \in [TxIds -> Row]
    BY <2>4, <2>5, NoRowTyping
  <2>7. transfer' \in [Transfers -> TransferRow]
    BY <1>0, <1>10, <2>3, RemapTyping DEF ReceiptConfirmed
  <2> QED
    BY <1>0, <1>10, <2>2, <2>3, <2>6, <2>7 DEF TypeInv, ReceiptConfirmed, Result
<1>11. CASE ReceiptTooFresh
  BY <1>0, <1>11 DEF TypeInv, ReceiptTooFresh, Goto, Fault
<1>12. CASE ReceiptOfOriginal
  BY <1>0, <1>12 DEF TypeInv, ReceiptOfOriginal, MissesReceipt, Fault, Row
<1>13. CASE StuckNoticed
  <2>1. /\ curId \in TxIds /\ cur \in Row /\ cur.nonce \in Nat
        /\ tx \in [TxIds -> Row] /\ tx[curId] \in Row
    BY <1>0, <1>13 DEF StuckNoticed
  <2>5. cur' = cur \/ cur' = [cur EXCEPT !.stuck = TRUE]
    BY <1>13 DEF StuckNoticed
  <2>2. cur' \in Row /\ cur'.nonce \in Nat
    BY <2>1, <2>5, RowTyping, RowKeeps
  <2>3. tx' \in [TxIds -> Row]
    BY <1>13, <2>1, RowTyping, SaveTyping DEF StuckNoticed
  <2>4. faults' \in Nat
    BY <1>0, <1>13 DEF StuckNoticed, MissesReceipt, Fault
  <2> QED
    BY <1>0, <1>13, <2>1, <2>2, <2>3, <2>4 DEF TypeInv, StuckNoticed, Goto
<1>14. CASE GiveUp
  BY <1>0, RemoveTyping, <1>14 DEF TypeInv, GiveUp, MissesReceipt, Result, Fault, Lineage
<1>15. CASE Replace
  <2>1. curId \in TxIds /\ nextId \in TxIds
    BY <1>0, <1>15 DEF Replace, TxIds
  <2>2. Save(curId, Dequeued(cur)) \in [TxIds -> Row]
    BY <1>0, <2>1, RowTyping, SaveTyping
  <2>3. ReplacementOf(curId, cur) \in Row
    BY <1>0, <2>1, ReplacementTyping
  <2>4. tx' \in [TxIds -> Row]
    BY <1>15, <2>1, <2>2, <2>3 DEF Replace
  <2> QED
    BY <1>0, <1>15, <2>4, NoRowTyping DEF TypeInv, Replace, Leave, DropInfo
<1>16. CASE Resend
  <2>1. curId \in TxIds /\ cur.nonce \in Nat
    BY <1>0, <1>16 DEF Resend
  <2>2. cur' \in Row /\ cur'.nonce \in Nat
    BY <1>0, <1>16, <2>1, RowTyping, RowKeeps DEF Resend
  <2>3. pool' \in SUBSET Signed /\ faults' \in Nat
    BY <1>0, <1>16, <2>1, HashTyping, AcceptTyping DEF Resend, Fault
  <2>4. tx' \in [TxIds -> Row]
    BY <1>0, <1>16, <2>1, RowTyping, SaveTyping DEF Resend
  <2> QED
    BY <1>0, <1>16, <2>1, <2>2, <2>3, <2>4 DEF TypeInv, Resend, Goto
<1>17. CASE StillPending
  BY <1>0, <1>17 DEF TypeInv, StillPending, Result
<1>18. CASE FinishConfirmed
  <2>0. curId \in TxIds /\ cur \in Row /\ tx \in [TxIds -> Row]
    BY <1>0, <1>18 DEF FinishConfirmed
  <2>3. tx' = tx \/ tx' = Save(curId, Dequeued(cur))
    BY <1>18 DEF FinishConfirmed
  <2>4. Dequeued(cur) \in Row
    BY <2>0, RowTyping
  <2>1. tx' \in [TxIds -> Row]
    BY <2>0, <2>3, <2>4, SaveTyping
  <2>2. transfer' \in [Transfers -> TransferRow]
    BY <1>0, <1>18, ReportTyping DEF FinishConfirmed
  <2> QED
    BY <1>0, <1>18, <2>1, <2>2, NoRowTyping DEF TypeInv, FinishConfirmed, Leave
<1>19. CASE FinishFailed
  <2>1. transfer' \in [Transfers -> TransferRow]
    BY <1>0, <1>19, ReportTyping DEF FinishFailed
  <2> QED
    BY <1>0, RowTyping, SaveTyping, NoRowTyping, <1>19, <2>1
       DEF TypeInv, FinishFailed, Leave, DropInfo
<1>20. CASE FinishUnknown
  BY <1>0, RowTyping, SaveTyping, NoRowTyping, <1>20 DEF TypeInv, FinishUnknown, Leave
<1>21. CASE FinishUnsaved
  BY <1>0, NoRowTyping, <1>21 DEF TypeInv, FinishUnsaved, Leave, DropInfo
<1>22. CASE StepFails
  BY <1>0, NoRowTyping, <1>22 DEF TypeInv, StepFails, Leave, Fault
<1>23. CASE GatherBatch
  <2>1. nextId \in TxIds
    BY <1>0, <1>23 DEF GatherBatch, TxIds
  <2>2. PICK S \in SUBSET PendingTransfers :
          /\ tx' = [tx EXCEPT ![nextId] = NewRow(S)]
          /\ transfer' = [t \in Transfers |->
                            IF t \in S THEN [transfer[t] EXCEPT !.txid = nextId]
                            ELSE transfer[t]]
    BY <1>23 DEF GatherBatch
  <2>3. tx' \in [TxIds -> Row]
    BY <1>0, <2>1, <2>2, NewRowTyping DEF PendingTransfers
  <2>4. transfer' \in [Transfers -> TransferRow]
    BY <1>0, <2>1, <2>2 DEF TransferRow
  <2> QED
    BY <1>0, <1>23, <2>3, <2>4 DEF TypeInv, GatherBatch, taskVars
<1>24. CASE GatherFails
  <2>1. transfer' \in [Transfers -> TransferRow]
    BY <1>0, <1>24, MarkStep, ReportTyping
  <2> QED
    BY <1>0, <1>24, <2>1 DEF TypeInv, GatherFails, taskVars
<1>25. CASE GatherEnds
  BY <1>0, <1>25 DEF TypeInv, GatherEnds, Goto, Fault
<1>26. CASE NewTransfer
  BY <1>0, <1>26 DEF TypeInv, NewTransfer, TransferRow, taskVars
<1>27. CASE Skip
  BY <1>0, <1>27 DEF TypeInv, Skip, taskVars
<1>28. CASE Crash
  BY <1>0, NoRowTyping, <1>28 DEF TypeInv, Crash, Stop
<1>29. CASE Restart
  BY <1>0, FeeAssumption, <1>29 DEF TypeInv, Restart, Goto
<1>30. CASE CleanupUnsent
  BY <1>0, RemoveTyping, <1>30 DEF TypeInv, CleanupUnsent, Unsent, Live, taskVars
<1>31. CASE ChainStep
  BY <1>0, ChainTyping, <1>31 DEF TypeInv, ChainStep, taskVars
<1>32. CASE UNCHANGED vars
  BY <1>0, <1>32 DEF TypeInv, vars, taskVars
<1>33. CASE CrashAmongMarks
  <2>1. transfer' \in [Transfers -> TransferRow]
    BY <1>0, <1>33, MarkStep, ReportTyping
  <2> QED
    BY <1>0, NoRowTyping, <1>33, <2>1 DEF TypeInv, CrashAmongMarks, Stop
<1> QED
  BY <1>1, <1>2, <1>3, <1>4, <1>5, <1>6, <1>7, <1>8, <1>9, <1>10, <1>11, <1>12, <1>13, <1>14,
     <1>15, <1>16, <1>17, <1>18, <1>19, <1>20, <1>21, <1>22, <1>23, <1>24, <1>25, <1>26, <1>27,
     <1>28, <1>29, <1>30, <1>31, <1>32, <1>33 DEF Next, Process, Env

(* Tables, network and task keep their types: whatever a step of the sender *)
(* saves is a row, and only a row with a nonce is signed and sent.          *)
THEOREM TypeCorrect == Spec => []TypeOK
<1>1. TypeInv /\ [Next]_vars => TypeInv'
  BY TypeStep
<1>2. TypeInv => TypeOK
  BY DEF TypeInv
<1> QED
  BY <1>1, <1>2, TypeInit, PTL DEF Spec

-----------------------------------------------------------------------------
(* What most steps do to the tables and to the network, as far as payments  *)
(* are concerned.                                                           *)

(* Row i stays, or gets a nonce or a signature, or is removed. *)
RowKept(i) ==
  IF tx'[i].live
  THEN /\ tx[i].live
       /\ tx'[i].call = tx[i].call
       /\ tx'[i].nonce = tx[i].nonce \/ tx[i].nonce = NoNonce
       /\ tx'[i].signed = "no" => tx[i].signed = "no"
       /\ tx'[i].nonce = NoNonce => tx'[i].signed = "no"
  ELSE tx'[i].nonce = NoNonce

(* Transfer t stays with its row, or goes from a row to a signed row. *)
RefKept(t) ==
  \/ transfer'[t].txid = transfer[t].txid
  \/ /\ transfer[t].txid # NoTx
     /\ transfer'[t].txid \in TxIds
     /\ transfer'[t].txid < nextId
     /\ tx'[transfer'[t].txid].signed # "no"

(* A transaction that the network gets is one of ours or pays nothing. *)
FromRow(h) ==
  \E i \in TxIds : /\ tx[i].live
                   /\ tx[i].signed # "no"
                   /\ tx[i].nonce = h.nonce
                   /\ tx[i].call = h.call

(* Such a step keeps the invariant on the tables and on the network. *)
LEMMA TablesKept ==
  ASSUME TypeInv, TypeInv', TableInv,
         nextId' = nextId,
         \A i \in TxIds : RowKept(i),
         \A t \in Transfers : RefKept(t),
         \A h \in pool' : h \in pool \/ h.call = {} \/ FromRow(h)
  PROVE  TableInv'
<1>1. /\ tx \in [TxIds -> Row] /\ tx' \in [TxIds -> Row]
      /\ pool \in SUBSET Signed /\ pool' \in SUBSET Signed
      /\ transfer \in [Transfers -> TransferRow]
      /\ transfer' \in [Transfers -> TransferRow]
  BY DEF TypeInv, TypeOK, ChainTypeOK
<1>2. \A h \in pool \union pool' : h.nonce \in Nat
  BY <1>1 DEF Signed
<1>3. PoolInv'
  BY <1>2 DEF TableInv, PoolInv, RowPoolInv, RowsInv, FromRow
<1>4. RowPoolInv'
  BY <1>2 DEF TableInv, RowPoolInv, RowsInv, FromRow, RowKept, NoNonce
<1>5. RowsInv'
  BY DEF TableInv, RowsInv, RowKept, NoNonce
<1>6. IdInv'
  BY DEF TableInv, IdInv, RowKept, RefKept
<1>7. PendingInv'
  BY <1>1 DEF TableInv, PendingInv, PaidOnlyBy, RowKept, RefKept, FromRow, NoTx, TxIds
<1>8. NonceInv'
  BY DEF NonceInv, RowKept
<1> QED
  BY <1>3, <1>4, <1>5, <1>6, <1>7, <1>8 DEF TableInv

(* The chain stays and the network forgets nothing. *)
LEMMA ChainKept ==
  ASSUME ChainInv, chain' = chain, pool \subseteq pool'
  PROVE  ChainInv'
  BY DEF ChainInv

(* Neither the chain nor the tables change. *)
LEMMA Frame ==
  ASSUME ChainInv, TableInv, UNCHANGED chainVars, UNCHANGED dbVars
  PROVE  ChainInv' /\ TableInv'
  BY DEF ChainInv, TableInv, PoolInv, RowPoolInv, RowsInv, NonceInv, IdInv, PendingInv, PaidOnlyBy,
         chainVars, dbVars

(* What the task assigns to its copy of a row keeps what decides a payment. *)
SamePayment(r, s) ==
  s.live = r.live /\ s.call = r.call /\ s.nonce = r.nonce /\ s.signed = r.signed

LEMMA RowSame ==
  ASSUME NEW r \in Row
  PROVE  /\ SamePayment(r, Queued(r)) /\ SamePayment(r, Dequeued(r))
         /\ SamePayment(r, Queued([r EXCEPT !.started = TRUE]))
         /\ SamePayment(r, [r EXCEPT !.broadcast = TRUE])
         /\ SamePayment(r, [r EXCEPT !.stuck = TRUE])
         /\ \A g \in Nat : SamePayment(r, [r EXCEPT !.gas = g])
  BY DEF Row, Queued, Dequeued, SamePayment

(* Saving row r, made from the copy of the task, keeps every row and leaves *)
(* r in the table.                                                          *)
LEMMA SaveKept ==
  ASSUME TypeInv, CurInv, NonceInv, pc \in RowSteps,
         NEW r \in Row, r.live, r.call = cur.call,
         r.nonce = cur.nonce \/ r.nonce = tx[curId].nonce,
         r.signed = cur.signed \/ (r.nonce \in Nat /\ r.signed # "no"),
         tx' = Save(curId, r)
  PROVE  /\ \A i \in TxIds : RowKept(i)
         /\ tx'[curId] = r
<1>1. curId \in TxIds /\ tx \in [TxIds -> Row]
  BY DEF TypeInv, TypeOK, TaskOK
<1>2. /\ tx[curId].live /\ r.call = tx[curId].call
      /\ r.nonce = tx[curId].nonce \/ tx[curId].nonce = NoNonce
      /\ r.signed = "no" => tx[curId].signed = "no"
      /\ r.nonce = NoNonce => r.signed = "no"
  BY <1>1 DEF CurInv, NonceInv, NoNonce
<1>3. tx' = [tx EXCEPT ![curId] = r]
  BY <1>2 DEF Save
<1> QED
  BY <1>1, <1>2, <1>3 DEF RowKept, NonceInv

(* A transaction signed from the copy of the task belongs to its row. *)
LEMMA HashOfRow ==
  ASSUME TypeInv, CurInv, pc \in {"send", "pending"}
  PROVE  FromRow(Hash(cur))
<1>1. curId \in TxIds
  BY DEF TypeInv, TaskOK, RowSteps
<1>2. /\ tx[curId].live /\ tx[curId].signed = "yes"
      /\ cur.nonce = tx[curId].nonce /\ cur.call = tx[curId].call
  BY DEF CurInv, RowSteps
<1> QED
  BY <1>1, <1>2 DEF FromRow, Hash

-----------------------------------------------------------------------------
(* The invariant behind NoDoublePayment is inductive.                       *)

LEMMA PayInit == Init => PayInv
<1> SUFFICES ASSUME Init PROVE PayInv
  OBVIOUS
<1>1. chain = <<>> /\ pool = {} /\ pc = "top" /\ nextId = 1
  BY DEF Init, ChainInit
<1>2. \A i \in TxIds : tx[i] = NoRow
  BY DEF Init
<1>3. \A t \in Transfers : transfer[t].txid = NoTx
  BY DEF Init
<1>4. ~NoRow.live /\ NoRow.nonce = NoNonce
  BY DEF NoRow
<1>5. ChainInv
  BY <1>1 DEF ChainInv
<1>6. CurInv
  BY <1>1 DEF CurInv, RowSteps
<1> QED
  BY <1>1, <1>2, <1>3, <1>4, <1>5, <1>6
  DEF PayInv, TableInv, PoolInv, RowPoolInv, RowsInv, NonceInv, IdInv, PendingInv, PaidOnlyBy,
     NoTx, TxIds

(* The chain's own steps. *)
LEMMA PayChainStep ==
  ASSUME TypeInv, TypeInv', PayInv, ChainStep
  PROVE  PayInv'
<1>1. UNCHANGED <<dbVars, taskVars>>
  BY DEF ChainStep
<1>2. CurInv'
  BY <1>1 DEF PayInv, CurInv, dbVars, taskVars
<1>3. \A i \in TxIds : RowKept(i)
  BY <1>1 DEF RowKept, dbVars, PayInv, TableInv, NonceInv
<1>4. \A t \in Transfers : RefKept(t)
  BY <1>1 DEF RefKept, dbVars
<1>5. /\ chain \in Seq(Signed) /\ pool \in SUBSET Signed
      /\ nextId' = nextId
  BY <1>1 DEF TypeInv, TypeOK, ChainTypeOK, dbVars
<1>6. CASE Mine
  <2>1. PICK h \in pool : h.nonce = LatestNonce /\ chain' = Append(chain, h)
    BY <1>6 DEF Mine
  <2>2. ChainInv'
    BY <1>5, <1>6, <2>1 DEF PayInv, ChainInv, Mine, LatestNonce
  <2>3. TableInv'
    BY <1>3, <1>4, <1>5, <1>6, TablesKept DEF PayInv, Mine
  <2> QED
    BY <1>2, <2>2, <2>3 DEF PayInv
<1>7. CASE ExternalTx
  <2>1. External(LatestNonce) \in Signed
    BY <1>5 DEF External, LatestNonce, Signed
  <2>2. ChainInv'
    BY <1>5, <1>7, <2>1 DEF PayInv, ChainInv, ExternalTx, LatestNonce, External
  <2>3. TableInv'
    BY <1>3, <1>4, <1>5, <1>7, TablesKept DEF PayInv, ExternalTx
  <2> QED
    BY <1>2, <2>2, <2>3 DEF PayInv
<1>8. CASE Finalize
  <2>1. ChainInv'
    BY <1>8, ChainKept DEF PayInv, Finalize
  <2>2. TableInv'
    BY <1>3, <1>4, <1>5, <1>8, TablesKept DEF PayInv, Finalize
  <2> QED
    BY <1>2, <2>1, <2>2 DEF PayInv
<1>9. CASE Reorg
  <2>1. Len(chain) \in Nat /\ Len(chain) > 0
    BY <1>5, <1>9 DEF Reorg, TypeInv, TypeOK, ChainTypeOK
  <2>2. /\ Len(chain') = Len(chain) - 1
        /\ DOMAIN chain' = 1..(Len(chain) - 1)
        /\ \A k \in 1..(Len(chain) - 1) : chain'[k] = chain[k]
    <3>1. chain' = SubSeq(chain, 1, Len(chain) - 1)
      BY <1>9 DEF Reorg
    <3>2. PICK n \in Nat : Len(chain) = n + 1
      <4>1. Len(chain) - 1 \in Nat /\ Len(chain) = (Len(chain) - 1) + 1
        BY <2>1
      <4> QED
        BY <4>1
    <3>3. /\ chain' \in Seq(Signed) /\ Len(chain') = n
          /\ \A k \in 1..n : chain'[k] = chain[k]
      BY <1>5, <3>1, <3>2, DropLast
    <3>4. n = Len(chain) - 1
      BY <3>2
    <3> QED
      BY <3>3, <3>4
  <2>3. ChainInv'
    BY <1>5, <1>9, <2>1, <2>2 DEF PayInv, ChainInv, Reorg
  <2>4. chain[Len(chain)].call = {} \/ chain[Len(chain)] \in pool
    BY <1>5, <2>1 DEF PayInv, ChainInv
  <2>5. TableInv'
    BY <1>3, <1>4, <1>5, <1>9, <2>4, TablesKept DEF PayInv, Reorg
  <2> QED
    BY <1>2, <2>3, <2>5 DEF PayInv
<1> QED
  BY <1>6, <1>7, <1>8, <1>9 DEF ChainStep, ChainNext

(* The steps of the task that change neither the tables nor the network, of *)
(* the users and of the machine: the copy agrees with the row.              *)
LEMMA PayQuietStep ==
  ASSUME TypeInv, PayInv,
         \/ Pick \/ GetNonce \/ CheckOk \/ CheckWaits \/ Poll \/ ReceiptTooFresh
         \/ ReceiptOfOriginal \/ StillPending \/ FinishUnsaved \/ StepFails
         \/ GatherEnds \/ Skip \/ Crash \/ Restart
  PROVE  PayInv'
<1>1. UNCHANGED chainVars /\ UNCHANGED dbVars
  BY DEF Pick, GetNonce, CheckOk, CheckWaits, Poll, ReceiptTooFresh, ReceiptOfOriginal,
         StillPending, FinishUnsaved, StepFails, GatherEnds, Skip, Crash, Stop, Restart,
         NoChainChange, NoDbChange
<1>2. ChainInv' /\ TableInv'
  BY <1>1, Frame DEF PayInv
<1>3. tx' = tx /\ CurInv /\ NonceInv /\ cur \in Row /\ (pc \in RowSteps => curId \in TxIds)
  BY <1>1 DEF dbVars, PayInv, TableInv, TypeInv, TypeOK, TaskOK
<1>4. CASE Pick
  <2>1. CASE ToProcess = {}
    BY <1>2, <1>4, <2>1 DEF PayInv, Pick, Goto, CurInv, RowSteps
  <2>2. CASE ToProcess # {}
    <3>1. PICK i \in NextToProcess :
            /\ curId' = i
            /\ cur' = tx[i]
            /\ IF info[i] = "skip"
               THEN Result("InternalError") /\ UNCHANGED info
               ELSE Goto(IF tx[i].nonce = NoNonce THEN "nonce" ELSE "start")
                    /\ ShowInfo(i) /\ UNCHANGED res
      BY <1>4, <2>2 DEF Pick
    <3>2. i \in TxIds /\ tx[i].live
      BY DEF NextToProcess, ToProcess, Live
    <3>3. \/ pc' \in {"finish", "start"}
          \/ pc' = "nonce" /\ tx[i].nonce = NoNonce
      BY <3>1 DEF Result, Goto
    <3> QED
      BY <1>2, <1>3, <3>1, <3>2, <3>3 DEF PayInv, CurInv, RowSteps
  <2> QED
    BY <2>1, <2>2
<1>5. CASE GetNonce
  <2>1. PICK n \in 0..LatestNonce :
          IF BehindDb(n)
          THEN Leave
          ELSE /\ \E f \in FirstFees : cur' = [cur EXCEPT !.nonce = n, !.fee = f]
               /\ Goto("start")
               /\ UNCHANGED <<curId, probe, res>>
    BY <1>5 DEF GetNonce
  <2>2. CASE BehindDb(n)
    BY <1>2, <2>1, <2>2 DEF PayInv, Leave, CurInv, RowSteps
  <2>3. CASE ~BehindDb(n)
    <3>1. /\ pc' = "start" /\ curId' = curId
          /\ cur'.live = cur.live /\ cur'.call = cur.call /\ cur'.signed = cur.signed
      BY <1>3, <2>1, <2>3 DEF Goto, Row
    <3>2. tx[curId].nonce = NoNonce /\ tx[curId].signed = "no"
      BY <1>3, <1>5 DEF GetNonce, CurInv, NonceInv, RowSteps
    <3> QED
      BY <1>2, <1>3, <1>5, <3>1, <3>2 DEF PayInv, GetNonce, CurInv, RowSteps
  <2> QED
    BY <2>2, <2>3
<1>6. CASE CheckOk
  <2>1. PICK g \in GasLimits : cur' = [cur EXCEPT !.gas = g]
    BY <1>6 DEF CheckOk
  <2>2. SamePayment(cur, cur')
    BY <1>3, <2>1, GasAssumption, RowSame
  <2> QED
    BY <1>2, <1>3, <1>6, <2>2 DEF PayInv, CheckOk, Goto, CurInv, SamePayment, RowSteps
<1>7. CASE \/ CheckWaits \/ Poll \/ ReceiptTooFresh \/ ReceiptOfOriginal \/ StillPending
  <2>1. /\ curId' = curId /\ cur' = cur
        /\ \/ pc \in {"poll", "receipt", "pending"}
           \/ pc = "check" /\ pc' = "finish"
        /\ pc' \in {"finish", "receipt", "pending"}
    BY <1>7 DEF CheckWaits, Poll, ReceiptTooFresh, ReceiptOfOriginal, StillPending, Result, Goto
  <2> QED
    BY <1>2, <1>3, <2>1 DEF PayInv, CurInv, RowSteps
<1>8. CASE \/ FinishUnsaved \/ StepFails \/ GatherEnds \/ Crash \/ Restart
  <2>1. pc' \in {"top", "down"}
    BY <1>8 DEF FinishUnsaved, StepFails, GatherEnds, Crash, Stop, Restart, Leave, Goto
  <2> QED
    BY <1>2, <2>1 DEF PayInv, CurInv, RowSteps
<1>9. CASE Skip
  BY <1>2, <1>3, <1>9 DEF PayInv, Skip, taskVars, CurInv
<1> QED
  BY <1>4, <1>5, <1>6, <1>7, <1>8, <1>9

(* A step that keeps the tables' rows and references, and sends at most the *)
(* transaction of a row.                                                    *)
LEMMA PayKept ==
  ASSUME TypeInv, TypeInv', PayInv,
         nextId' = nextId, chain' = chain,
         \A i \in TxIds : RowKept(i),
         \A t \in Transfers : RefKept(t),
         pool \subseteq pool',
         \A h \in pool' : h \in pool \/ FromRow(h)
  PROVE  ChainInv' /\ TableInv'
  BY ChainKept, TablesKept DEF PayInv

(* The steps of the task that save their copy, and perhaps write the        *)
(* outcome to the transfers.                                                *)
LEMMA PaySaveStep ==
  ASSUME TypeInv, TypeInv', PayInv,
         \/ Start \/ Sign \/ Sent \/ StuckNoticed
         \/ FinishConfirmed \/ FinishFailed \/ FinishUnknown
  PROVE  PayInv'
<1>1. /\ CurInv /\ NonceInv /\ cur \in Row /\ pc \in RowSteps
      /\ curId \in TxIds /\ tx \in [TxIds -> Row]
      /\ pc \in NonceSteps => cur.nonce \in Nat
      /\ tx[curId].live /\ cur.live /\ cur.call = tx[curId].call
      /\ cur.signed = tx[curId].signed
  BY DEF Start, Sign, Sent, StuckNoticed, FinishConfirmed, FinishFailed, FinishUnknown,
         PayInv, TableInv, TypeInv, TypeOK, TaskOK, CurInv, RowSteps
<1>2. nextId' = nextId /\ chain' = chain /\ pool' = pool
  BY DEF Start, Sign, Sent, StuckNoticed, FinishConfirmed, FinishFailed, FinishUnknown,
         NoChainChange, chainVars
<1>3. ASSUME \A i \in TxIds : RowKept(i), \A t \in Transfers : RefKept(t)
      PROVE  ChainInv' /\ TableInv'
  BY <1>2, <1>3, PayKept
<1>4. tx' = tx => \A i \in TxIds : RowKept(i)
  BY <1>1 DEF RowKept, NonceInv
<1>5. ASSUME transfer' = transfer
      PROVE  \A t \in Transfers : RefKept(t)
  BY <1>5 DEF RefKept
<1>6. CASE Start
  <2>1. /\ transfer' = transfer /\ curId' = curId
        /\ pc = "start" /\ pc' \in {"send", "finish", "poll", "check", "sign"}
        /\ cur.signed = "yes" \/ pc' \in {"check", "sign"}
    BY <1>6 DEF Start, Goto, AfterSign
  <2>2. CASE UNCHANGED <<tx, cur>>
    BY <1>1, <1>3, <1>4, <1>5, <2>1, <2>2 DEF PayInv, CurInv, RowSteps
  <2>3. CASE /\ cur' = Queued([cur EXCEPT !.started = TRUE])
             /\ tx' = Save(curId, Queued([tx[curId] EXCEPT !.started = TRUE]))
    <3> DEFINE r == Queued([tx[curId] EXCEPT !.started = TRUE])
    <3>1. [tx[curId] EXCEPT !.started = TRUE] \in Row
      BY <1>1, RowTyping
    <3>2. r \in Row /\ SamePayment(tx[curId], r) /\ SamePayment(cur, cur')
      BY <1>1, <2>3, <3>1, RowTyping, RowSame
    <3>3. /\ r.live /\ r.call = cur.call /\ r.nonce = tx[curId].nonce
          /\ r.signed = cur.signed
      BY <1>1, <3>2 DEF SamePayment
    <3>4. tx' = Save(curId, r)
      BY <2>3
    <3> HIDE DEF r
    <3>5. (\A i \in TxIds : RowKept(i)) /\ tx'[curId] = r
      BY <1>1, <3>2, <3>3, <3>4, SaveKept
    <3>6. CurInv'
      BY <1>1, <2>1, <3>2, <3>5 DEF CurInv, SamePayment, RowSteps
    <3> QED
      BY <1>3, <1>5, <2>1, <3>5, <3>6 DEF PayInv
  <2> QED
    BY <1>6, <2>2, <2>3 DEF Start
<1>7. CASE Sign
  <2> DEFINE r == [cur EXCEPT !.signed = "yes"]
  <2>1. /\ r \in Row /\ r.live /\ r.call = cur.call /\ r.nonce = cur.nonce
        /\ r.signed = "yes"
    BY <1>1 DEF Row
  <2>2. /\ tx' = Save(curId, r) /\ cur' = r /\ curId' = curId /\ transfer' = transfer
        /\ pc = "sign" /\ pc' \in {"send", "finish", "poll"}
    BY <1>7 DEF Sign, Goto, AfterSign
  <2> HIDE DEF r
  <2>3. r.nonce \in Nat
    BY <1>1, <2>1, <2>2 DEF NonceSteps, RowSteps
  <2>4. (\A i \in TxIds : RowKept(i)) /\ tx'[curId] = r
    BY <1>1, <2>1, <2>2, <2>3, SaveKept
  <2>5. CurInv'
    BY <2>1, <2>2, <2>4 DEF CurInv, RowSteps
  <2> QED
    BY <1>3, <1>5, <2>2, <2>4, <2>5 DEF PayInv
<1>8. CASE Sent
  <2>1. /\ tx' = Save(curId, cur) /\ cur' = cur /\ curId' = curId /\ transfer' = transfer
        /\ pc = "sent" /\ pc' = "poll"
    BY <1>8 DEF Sent, Goto
  <2>2. (\A i \in TxIds : RowKept(i)) /\ tx'[curId] = cur
    BY <1>1, <2>1, SaveKept
  <2>3. CurInv'
    BY <1>1, <2>1, <2>2 DEF CurInv, RowSteps
  <2> QED
    BY <1>3, <1>5, <2>1, <2>2, <2>3 DEF PayInv
<1>9. CASE StuckNoticed
  <2>1. /\ transfer' = transfer /\ curId' = curId /\ pc = "receipt" /\ pc' = "pending"
    BY <1>9 DEF StuckNoticed, Goto
  <2>2. CASE UNCHANGED <<tx, cur>>
    BY <1>1, <1>3, <1>4, <1>5, <2>1, <2>2 DEF PayInv, CurInv, RowSteps
  <2>3. CASE /\ cur' = [cur EXCEPT !.stuck = TRUE]
             /\ tx' = Save(curId, [tx[curId] EXCEPT !.stuck = TRUE])
    <3> DEFINE r == [tx[curId] EXCEPT !.stuck = TRUE]
    <3>1. r \in Row /\ SamePayment(tx[curId], r) /\ SamePayment(cur, cur')
      BY <1>1, <2>3, RowTyping, RowSame
    <3>2. /\ r.live /\ r.call = cur.call /\ r.nonce = tx[curId].nonce
          /\ r.signed = cur.signed
      BY <1>1, <3>1 DEF SamePayment
    <3>3. tx' = Save(curId, r)
      BY <2>3
    <3> HIDE DEF r
    <3>4. (\A i \in TxIds : RowKept(i)) /\ tx'[curId] = r
      BY <1>1, <3>1, <3>2, <3>3, SaveKept
    <3>5. CurInv'
      BY <1>1, <2>1, <3>1, <3>4 DEF CurInv, SamePayment, RowSteps
    <3> QED
      BY <1>3, <1>5, <2>1, <3>4, <3>5 DEF PayInv
  <2> QED
    BY <1>9, <2>2, <2>3 DEF StuckNoticed
<1>10. CASE FinishConfirmed \/ FinishFailed \/ FinishUnknown
  <2>1. CurInv'
    BY <1>10 DEF FinishConfirmed, FinishFailed, FinishUnknown, Leave, CurInv, RowSteps
  <2>2. \A t \in Transfers : transfer'[t].txid = transfer[t].txid
    <3>1. transfer \in [Transfers -> TransferRow]
      BY DEF TypeInv, TypeOK
    <3> QED
      BY <1>10, <3>1, ReportTyping DEF FinishConfirmed, FinishFailed, FinishUnknown
  <2>3. tx' = tx \/ tx' = Save(curId, Dequeued(cur)) \/ tx' = Save(curId, Queued(cur))
    BY <1>10 DEF FinishConfirmed, FinishFailed, FinishUnknown
  <2>4. ASSUME NEW r \in {Dequeued(cur), Queued(cur)}, tx' = Save(curId, r)
        PROVE  \A i \in TxIds : RowKept(i)
    <3>1. r \in Row /\ SamePayment(cur, r)
      BY <1>1, RowTyping, RowSame
    <3>2. /\ r.live /\ r.call = cur.call /\ r.nonce = cur.nonce /\ r.signed = cur.signed
      BY <1>1, <3>1 DEF SamePayment
    <3> QED
      BY <1>1, <2>4, <3>1, <3>2, SaveKept
  <2> QED
    BY <1>3, <1>4, <2>1, <2>2, <2>3, <2>4 DEF PayInv, RefKept
<1> QED
  BY <1>6, <1>7, <1>8, <1>9, <1>10

(* The steps that send the transaction of the row.  What is sent was saved. *)
LEMMA PaySendStep ==
  ASSUME TypeInv, TypeInv', PayInv, Send \/ Resend
  PROVE  PayInv'
<1>1. /\ CurInv /\ NonceInv /\ cur \in Row /\ pc \in {"send", "pending"} /\ pc \in RowSteps
      /\ curId \in TxIds /\ cur.live /\ cur.call = tx[curId].call
  BY DEF Send, Resend, PayInv, TableInv, TypeInv, TypeOK, TaskOK, CurInv, RowSteps
<1>2. /\ nextId' = nextId /\ chain' = chain /\ transfer' = transfer /\ curId' = curId
      /\ pc' \in {"sent", "poll"}
      /\ cur' = [cur EXCEPT !.broadcast = TRUE]
      /\ tx' = tx \/ tx' = Save(curId, cur')
      /\ Accept(Hash(cur)) \/ pool' = pool
  BY DEF Send, Resend, NoDbChange, dbVars, Goto
<1>3. /\ pool \subseteq pool'
      /\ \A h \in pool' : h \in pool \/ FromRow(h)
  BY <1>1, <1>2, HashOfRow DEF Accept
<1>4. \A t \in Transfers : RefKept(t)
  BY <1>2 DEF RefKept
<1>5. cur' \in Row /\ SamePayment(cur, cur')
  BY <1>1, <1>2, RowTyping, RowSame
<1>6. /\ cur'.live /\ cur'.call = cur.call /\ cur'.nonce = cur.nonce
      /\ cur'.signed = cur.signed
  BY <1>1, <1>5 DEF SamePayment
<1>7. /\ \A i \in TxIds : RowKept(i)
      /\ tx'[curId] = tx[curId] \/ tx'[curId] = cur'
  <2>1. CASE tx' = tx
    BY <1>1, <2>1 DEF RowKept, NonceInv
  <2>2. CASE tx' = Save(curId, cur')
    BY <1>1, <1>5, <1>6, <2>2, SaveKept
  <2> QED
    BY <1>2, <2>1, <2>2
<1>8. CurInv'
  BY <1>1, <1>2, <1>6, <1>7 DEF CurInv, RowSteps
<1> QED
  BY <1>2, <1>3, <1>4, <1>7, <1>8, PayKept DEF PayInv

(* Giving up removes nothing as long as automatic_recover is off. *)
LEMMA PayGiveUpStep ==
  ASSUME ~AutomaticRecover, TypeInv, TypeInv', PayInv, GiveUp
  PROVE  PayInv'
<1>1. UNCHANGED chainVars /\ UNCHANGED dbVars /\ UNCHANGED <<curId, cur>>
  BY DEF GiveUp, NoChainChange, dbVars
<1>2. pc = "receipt" /\ pc' = "finish"
  BY DEF GiveUp, Result
<1>3. CurInv'
  BY <1>1, <1>2 DEF PayInv, CurInv, RowSteps, dbVars
<1> QED
  BY <1>1, <1>3, Frame DEF PayInv

(* The confirmation: the row that was mined keeps its nonce, the transfers  *)
(* go to it, the others of its lineage leave the table.                     *)
LEMMA PayConfirmStep ==
  ASSUME TypeInv, TypeInv', PayInv, ReceiptConfirmed
  PROVE  PayInv'
<1>0. pc = "receipt"
  BY DEF ReceiptConfirmed
<1>1. /\ ChainInv /\ CurInv /\ NonceInv /\ IdInv /\ cur \in Row /\ pc = "receipt"
      /\ curId \in TxIds /\ probe \in TxIds /\ tx \in [TxIds -> Row]
      /\ tx' \in [TxIds -> Row] /\ transfer \in [Transfers -> TransferRow]
      /\ chain \in Seq(Signed)
  BY <1>0 DEF PayInv, TableInv, TypeInv, TypeOK, ChainTypeOK, TaskOK, RowSteps
<1> DEFINE done == [ProbeRow EXCEPT !.confirmed = TRUE, !.orig = NoTx, !.signed = "cleared"]
<1>2. ProbeRow \in Row
  BY <1>1 DEF ProbeRow
<1>3. ProbeRow.nonce \in Nat
  <2>1. PICK k \in DOMAIN chain : chain[k] = Hash(ProbeRow)
    BY DEF ReceiptConfirmed, MinedFinal
  <2>2. Hash(ProbeRow).nonce = k - 1 /\ k \in Nat /\ k >= 1
    BY <1>1, <2>1 DEF ChainInv
  <2> QED
    BY <2>2 DEF Hash
<1>4. /\ tx[probe].live /\ ProbeRow.live
      /\ ProbeRow.call = tx[probe].call
      /\ ProbeRow.nonce = tx[probe].nonce
  <2>1. CASE probe = curId
    <3>1. ProbeRow = cur
      BY <2>1 DEF ProbeRow
    <3>2. cur.signed = "yes" /\ cur.signed = tx[curId].signed
      BY <1>1 DEF CurInv, RowSteps
    <3> QED
      BY <1>1, <2>1, <3>1, <3>2 DEF CurInv, RowSteps
  <2>2. CASE probe # curId
    <3>1. ProbeRow = tx[probe]
      BY <2>2 DEF ProbeRow
    <3> QED
      BY <1>1, <1>3, <3>1 DEF NonceInv, NoNonce
  <2> QED
    BY <2>1, <2>2
<1>5. /\ done \in Row /\ done.live /\ done.call = tx[probe].call
      /\ done.nonce = tx[probe].nonce /\ done.nonce \in Nat /\ done.signed = "cleared"
  BY <1>2, <1>3, <1>4 DEF Row
<1>6. /\ tx' = [i \in TxIds |-> IF i \in Lineage(curId) \ {probe} THEN NoRow
                                ELSE Save(probe, done)[i]]
      /\ cur' = done /\ curId' = probe /\ pc' = "finish"
      /\ nextId' = nextId /\ chain' = chain /\ pool' = pool
  BY DEF ReceiptConfirmed, Result, NoChainChange, chainVars
<1>7. PICK root \in TxIds : Remap(root, probe)
  BY DEF ReceiptConfirmed, Roots, Lineage
<1> HIDE DEF done
<1>8. tx'[probe] = done
  BY <1>1, <1>4, <1>6 DEF Save
<1>9. ASSUME NEW i \in TxIds, i # probe
      PROVE  tx'[i] = tx[i] \/ tx'[i] = NoRow
  BY <1>1, <1>4, <1>6, <1>9 DEF Save
<1>10. \A i \in TxIds : RowKept(i)
  BY <1>1, <1>4, <1>5, <1>8, <1>9 DEF RowKept, NonceInv, NoRow, NoNonce
<1>11. \A t \in Transfers : RefKept(t)
  <2>1. probe < nextId
    BY <1>1, <1>4 DEF IdInv
  <2>2. \A t \in Transfers :
          \/ transfer'[t].txid = transfer[t].txid
          \/ transfer[t].txid = root /\ transfer'[t].txid = probe
    BY <1>1, <1>7 DEF Remap, TransferRow
  <2> QED
    BY <1>1, <1>5, <1>7, <1>8, <2>1, <2>2 DEF RefKept, TxIds, NoTx
<1>12. CurInv'
  BY <1>5, <1>6, <1>8 DEF CurInv, RowSteps
<1> QED
  BY <1>6, <1>10, <1>11, <1>12, PayKept DEF PayInv

(* A replacement has the nonce and the transfers of a row that is signed. *)
LEMMA PayReplaceStep ==
  ASSUME TypeInv, TypeInv', PayInv, Replace
  PROVE  PayInv'
<1>1. /\ pc = "pending" /\ nextId <= MaxTx /\ nextId' = nextId + 1
      /\ tx' = [Save(curId, Dequeued(cur)) EXCEPT ![nextId] = ReplacementOf(curId, cur)]
      /\ UNCHANGED chainVars /\ transfer' = transfer /\ pc' = "top"
  BY DEF Replace, Leave, NoChainChange
<1>2. /\ ChainInv /\ TableInv /\ CurInv /\ NonceInv /\ IdInv /\ cur \in Row
      /\ curId \in TxIds /\ nextId \in TxIds /\ nextId \in Nat /\ tx \in [TxIds -> Row]
      /\ cur.nonce \in Nat /\ pool \in SUBSET Signed
      /\ transfer \in [Transfers -> TransferRow]
  BY <1>1 DEF PayInv, TableInv, TypeInv, TypeOK, ChainTypeOK, TaskOK, TxIds, RowSteps, NonceSteps
<1>3. /\ tx[curId].live /\ cur.live /\ cur.call = tx[curId].call
      /\ cur.signed = "yes" /\ tx[curId].signed = "yes" /\ tx[curId].nonce = cur.nonce
  BY <1>1, <1>2 DEF CurInv, RowSteps
<1> DEFINE new == ReplacementOf(curId, cur)
<1>4. /\ new.live /\ new.call = tx[curId].call /\ new.nonce = tx[curId].nonce
      /\ new.signed = "no"
  BY <1>3 DEF ReplacementOf, NoRow
<1> HIDE DEF new
<1>5. curId # nextId /\ ~tx[nextId].live
  BY <1>2, <1>3 DEF IdInv
<1>6. /\ tx'[nextId] = new
      /\ \A i \in TxIds \ {nextId} :
           tx'[i].live = tx[i].live /\ tx'[i].call = tx[i].call
           /\ tx'[i].nonce = tx[i].nonce /\ tx'[i].signed = tx[i].signed
  <2>1. Dequeued(cur) \in Row /\ SamePayment(cur, Dequeued(cur))
    BY <1>2, RowTyping, RowSame
  <2>2. /\ tx'[nextId] = new
        /\ tx'[curId] = Dequeued(cur)
        /\ \A i \in TxIds \ {nextId, curId} : tx'[i] = tx[i]
    BY <1>1, <1>2, <1>3, <1>5 DEF Save, new
  <2> QED
    BY <1>3, <2>1, <2>2 DEF SamePayment
<1>7. ChainInv'
  BY <1>1, <1>2 DEF ChainInv, chainVars
<1>8. PoolInv'
  BY <1>1, <1>2 DEF TableInv, PoolInv, chainVars
<1>9. pool' = pool /\ \A h \in pool : h.nonce \in Nat
  BY <1>1, <1>2 DEF chainVars, Signed
<1>10. RowPoolInv'
  BY <1>2, <1>3, <1>4, <1>6, <1>9 DEF TableInv, RowPoolInv
<1>11. RowsInv'
  <2> SUFFICES ASSUME NEW i \in TxIds, NEW j \in TxIds, NEW t \in Transfers,
                      tx'[i].live, tx'[j].live, i # j, t \in tx'[i].call, t \in tx'[j].call
               PROVE  tx'[i].nonce \in Nat /\ tx'[i].nonce = tx'[j].nonce
    BY DEF RowsInv
  <2>1. \A a, b \in TxIds :
          tx[a].live /\ tx[b].live /\ a # b /\ t \in tx[a].call /\ t \in tx[b].call
            => tx[a].nonce \in Nat /\ tx[a].nonce = tx[b].nonce
    BY <1>2 DEF TableInv, RowsInv
  <2>2. CASE i # nextId /\ j # nextId
    BY <1>6, <2>1, <2>2
  <2>3. CASE i = nextId
    BY <1>2, <1>3, <1>4, <1>6, <2>1, <2>3
  <2>4. CASE j = nextId
    BY <1>2, <1>3, <1>4, <1>6, <2>1, <2>4
  <2> QED
    BY <2>2, <2>3, <2>4
<1>12. NonceInv'
  BY <1>2, <1>4, <1>6 DEF NonceInv
<1>13. IdInv'
  <2>1. (\A i \in TxIds : i \in Int) /\ \A t \in Transfers : transfer[t].txid \in Int
    BY <1>2 DEF TransferRow, TxIds, NoTx
  <2>2. /\ \A i \in TxIds : tx[i].live => i < nextId
        /\ \A t \in Transfers : transfer[t].txid < nextId
    BY <1>2 DEF IdInv
  <2>3. \A i \in TxIds : tx'[i].live => i < nextId'
    BY <1>1, <1>2, <1>6, <2>1, <2>2
  <2>4. \A t \in Transfers : transfer'[t].txid < nextId'
    BY <1>1, <1>2, <2>1, <2>2
  <2> QED
    BY <2>3, <2>4 DEF IdInv
<1>14. PendingInv'
  <2> SUFFICES ASSUME NEW t \in Transfers, NEW k, k = transfer'[t].txid
               PROVE  /\ k = NoTx => PaidOnlyBy(t, NoTx)'
                      /\ k \in TxIds /\ tx'[k].live /\ tx'[k].signed = "no"
                           => PaidOnlyBy(t, k)'
    BY Zenon DEF PendingInv
  <2>1. k = transfer[t].txid /\ k # nextId
    BY <1>1, <1>2 DEF IdInv
  <2>2. /\ k = NoTx => PaidOnlyBy(t, NoTx)
        /\ k \in TxIds /\ tx[k].live /\ tx[k].signed = "no" => PaidOnlyBy(t, k)
    BY <1>2, <2>1 DEF TableInv, PendingInv
  <2>3. ASSUME NEW j, j # curId, PaidOnlyBy(t, j)
        PROVE  PaidOnlyBy(t, j)'
    BY <1>2, <1>3, <1>4, <1>5, <1>6, <1>9, <2>3 DEF PaidOnlyBy
  <2>4. NoTx # curId
    BY <1>2 DEF NoTx, TxIds
  <2>5. k \in TxIds /\ tx'[k].live /\ tx'[k].signed = "no" =>
          k # curId /\ tx[k].live /\ tx[k].signed = "no"
    BY <1>3, <1>5, <1>6, <2>1
  <2> QED
    BY <2>2, <2>3, <2>4, <2>5
<1>15. CurInv'
  BY <1>1 DEF CurInv, RowSteps
<1> QED
  BY <1>7, <1>8, <1>10, <1>11, <1>12, <1>13, <1>14, <1>15 DEF PayInv, TableInv

(* A batch of pending transfers, which nothing pays yet, becomes a row. *)
LEMMA PayGatherStep ==
  ASSUME TypeInv, TypeInv', PayInv, GatherBatch
  PROVE  PayInv'
<1>1. PICK S \in SUBSET PendingTransfers :
        /\ tx' = [tx EXCEPT ![nextId] = NewRow(S)]
        /\ transfer' = [t \in Transfers |->
                          IF t \in S THEN [transfer[t] EXCEPT !.txid = nextId]
                          ELSE transfer[t]]
  BY DEF GatherBatch
<1>2. /\ nextId <= MaxTx /\ nextId' = nextId + 1 /\ UNCHANGED chainVars
      /\ UNCHANGED taskVars /\ pc = "gather"
  BY DEF GatherBatch, NoChainChange
<1>3. /\ ChainInv /\ TableInv /\ NonceInv /\ IdInv /\ nextId \in TxIds /\ nextId \in Nat
      /\ tx \in [TxIds -> Row] /\ transfer \in [Transfers -> TransferRow]
      /\ pool' = pool
  BY <1>2 DEF PayInv, TableInv, TypeInv, TypeOK, TxIds, chainVars
<1> DEFINE new == NewRow(S)
<1>4. new.live /\ new.call = S /\ new.nonce = NoNonce /\ new.signed = "no"
  BY DEF NewRow, NoRow
<1> HIDE DEF new
<1>5. ~tx[nextId].live /\ tx'[nextId] = new /\ \A i \in TxIds \ {nextId} : tx'[i] = tx[i]
  BY <1>1, <1>3 DEF IdInv, new
<1>6. \A t \in S : t \in Transfers /\ transfer[t].txid = NoTx
  BY DEF PendingTransfers
<1>7. \A t \in S : PaidOnlyBy(t, NoTx)
  BY <1>3, <1>6 DEF TableInv, PendingInv
<1>8. /\ \A t \in S : \A h \in pool : t \notin h.call
      /\ \A t \in S : \A j \in TxIds : ~(tx[j].live /\ t \in tx[j].call)
  BY <1>7 DEF PaidOnlyBy, NoTx, TxIds
<1>9. \A t \in Transfers :
        transfer'[t].txid = IF t \in S THEN nextId ELSE transfer[t].txid
  BY <1>1, <1>3 DEF TransferRow
<1>10. ChainInv'
  BY <1>2, <1>3 DEF ChainInv, chainVars
<1>11. PoolInv'
  BY <1>3 DEF TableInv, PoolInv
<1>12. RowPoolInv'
  BY <1>3, <1>4, <1>5, <1>8 DEF TableInv, RowPoolInv
<1>13. RowsInv'
  <2> SUFFICES ASSUME NEW i \in TxIds, NEW j \in TxIds, NEW t \in Transfers,
                      tx'[i].live, tx'[j].live, i # j, t \in tx'[i].call, t \in tx'[j].call
               PROVE  tx'[i].nonce \in Nat /\ tx'[i].nonce = tx'[j].nonce
    BY DEF RowsInv
  <2>1. i # nextId /\ j # nextId
    BY <1>4, <1>5, <1>8
  <2> QED
    BY <1>3, <1>5, <2>1 DEF TableInv, RowsInv
<1>14. NonceInv'
  BY <1>3, <1>4, <1>5 DEF NonceInv
<1>15. IdInv'
  <2>1. (\A i \in TxIds : i \in Int) /\ \A t \in Transfers : transfer[t].txid \in Int
    BY <1>3 DEF TransferRow, TxIds, NoTx
  <2>2. /\ \A i \in TxIds : tx[i].live => i < nextId
        /\ \A t \in Transfers : transfer[t].txid < nextId
    BY <1>3 DEF IdInv
  <2>3. \A i \in TxIds : tx'[i].live => i < nextId'
    BY <1>2, <1>3, <1>5, <2>1, <2>2
  <2>4. \A t \in Transfers : transfer'[t].txid < nextId'
    BY <1>2, <1>3, <1>9, <2>1, <2>2
  <2> QED
    BY <2>3, <2>4 DEF IdInv
<1>16. PendingInv'
  <2> SUFFICES ASSUME NEW t \in Transfers, NEW k, k = transfer'[t].txid
               PROVE  /\ k = NoTx => PaidOnlyBy(t, NoTx)'
                      /\ k \in TxIds /\ tx'[k].live /\ tx'[k].signed = "no"
                           => PaidOnlyBy(t, k)'
    BY Zenon DEF PendingInv
  <2>1. CASE t \in S
    <3>1. k = nextId /\ nextId # NoTx
      BY <1>3, <1>9, <2>1 DEF NoTx, TxIds
    <3>2. PaidOnlyBy(t, k)'
      BY <1>3, <1>5, <1>8, <2>1, <3>1 DEF PaidOnlyBy
    <3> QED
      BY <3>1, <3>2
  <2>2. CASE t \notin S
    <3>1. k = transfer[t].txid /\ k # nextId
      BY <1>3, <1>9, <2>2 DEF IdInv
    <3>2. /\ k = NoTx => PaidOnlyBy(t, NoTx)
          /\ k \in TxIds /\ tx[k].live /\ tx[k].signed = "no" => PaidOnlyBy(t, k)
      BY <1>3, <3>1 DEF TableInv, PendingInv
    <3>3. ASSUME NEW j, PaidOnlyBy(t, j)
          PROVE  PaidOnlyBy(t, j)'
      BY <1>3, <1>4, <1>5, <2>2, <3>3 DEF PaidOnlyBy
    <3>4. k \in TxIds => tx'[k] = tx[k]
      BY <1>5, <3>1
    <3> QED
      BY <3>2, <3>3, <3>4
  <2> QED
    BY <2>1, <2>2
<1>17. CurInv'
  BY <1>2 DEF CurInv, RowSteps, taskVars
<1> QED
  BY <1>10, <1>11, <1>12, <1>13, <1>14, <1>15, <1>16, <1>17 DEF PayInv, TableInv

(* The steps that write no reference of a transfer to a row. *)
LEMMA PayStatusStep ==
  ASSUME TypeInv, TypeInv', PayInv, NewTransfer \/ GatherFails \/ CrashAmongMarks
  PROVE  PayInv'
<1>1. /\ UNCHANGED chainVars /\ tx' = tx /\ nextId' = nextId
      /\ NonceInv
  BY MarkStep DEF NewTransfer, NoChainChange, PayInv, TableInv
<1>2. \A t \in Transfers : transfer'[t].txid = transfer[t].txid
  <2>1. transfer \in [Transfers -> TransferRow]
    BY DEF TypeInv, TypeOK
  <2>2. CASE NewTransfer
    BY <2>1, <2>2 DEF NewTransfer, TransferRow
  <2>3. CASE GatherFails \/ CrashAmongMarks
    BY <2>1, <2>3, MarkStep, ReportTyping
  <2> QED
    BY <2>2, <2>3
<1>3. CurInv'
  <2>1. CASE UNCHANGED taskVars
    BY <1>1, <2>1 DEF PayInv, CurInv, taskVars
  <2>2. CASE pc' = "down"
    BY <2>2 DEF CurInv, RowSteps
  <2> QED
    BY <2>1, <2>2 DEF NewTransfer, GatherFails, CrashAmongMarks, Stop
<1>4. (\A i \in TxIds : RowKept(i)) /\ (\A t \in Transfers : RefKept(t))
  BY <1>1, <1>2 DEF RowKept, RefKept, NonceInv
<1>5. chain' = chain /\ pool' = pool
  BY <1>1 DEF chainVars
<1> QED
  BY <1>1, <1>3, <1>4, <1>5, PayKept DEF PayInv

(* While the service is down the cleanup takes a row that nothing was       *)
(* signed for: its transfers may be gathered again, for nothing pays them.  *)
LEMMA PayCleanupStep ==
  ASSUME ~CleanupWhenUp, TypeInv, TypeInv', PayInv, CleanupUnsent
  PROVE  PayInv'
<1>1. PICK d \in Unsent : Remove({d})
  BY DEF CleanupUnsent
<1>2. /\ pc = "down" /\ UNCHANGED chainVars /\ UNCHANGED taskVars /\ nextId' = nextId
  BY DEF CleanupUnsent, NoChainChange
<1>3. /\ ChainInv /\ TableInv /\ NonceInv /\ IdInv
      /\ d \in TxIds /\ tx[d].live /\ tx[d].signed = "no"
      /\ transfer \in [Transfers -> TransferRow] /\ pool' = pool
      /\ nextId \in Nat \ {0}
  BY <1>2 DEF PayInv, TableInv, TypeInv, TypeOK, Unsent, Live, chainVars
<1>4. /\ \A i \in TxIds \ {d} : tx'[i] = tx[i]
      /\ ~tx'[d].live /\ tx'[d].nonce = NoNonce
  BY <1>1, <1>3 DEF Remove, NoRow
<1>5. \A t \in Transfers :
        transfer'[t].txid = IF transfer[t].txid = d THEN NoTx ELSE transfer[t].txid
  BY <1>1, <1>3 DEF Remove, TransferRow
<1>6. ChainInv'
  BY <1>2, <1>3 DEF ChainInv, chainVars
<1>7. PoolInv'
  BY <1>3 DEF TableInv, PoolInv
<1>8. RowPoolInv'
  BY <1>3, <1>4 DEF TableInv, RowPoolInv
<1>9. RowsInv'
  BY <1>3, <1>4 DEF TableInv, RowsInv
<1>10. NonceInv'
  BY <1>3, <1>4 DEF NonceInv
<1>11. IdInv'
  BY <1>2, <1>3, <1>4, <1>5 DEF IdInv, NoTx
<1>12. PendingInv'
  <2> SUFFICES ASSUME NEW t \in Transfers, NEW k, k = transfer'[t].txid
               PROVE  /\ k = NoTx => PaidOnlyBy(t, NoTx)'
                      /\ k \in TxIds /\ tx'[k].live /\ tx'[k].signed = "no"
                           => PaidOnlyBy(t, k)'
    BY Zenon DEF PendingInv
  <2>1. ASSUME NEW j, PaidOnlyBy(t, j)
        PROVE  PaidOnlyBy(t, j)'
    BY <1>3, <1>4, <2>1 DEF PaidOnlyBy
  <2>2. CASE transfer[t].txid = d
    <3>1. PaidOnlyBy(t, d) /\ k = NoTx
      BY <1>3, <1>5, <2>2 DEF TableInv, PendingInv
    <3>2. PaidOnlyBy(t, NoTx)'
      BY <1>3, <1>4, <3>1 DEF PaidOnlyBy
    <3> QED
      BY <3>1, <3>2 DEF NoTx, TxIds
  <2>3. CASE transfer[t].txid # d
    <3>1. k = transfer[t].txid /\ k # d
      BY <1>5, <2>3
    <3>2. /\ k = NoTx => PaidOnlyBy(t, NoTx)
          /\ k \in TxIds /\ tx[k].live /\ tx[k].signed = "no" => PaidOnlyBy(t, k)
      BY <1>3, <3>1 DEF TableInv, PendingInv
    <3> QED
      BY <1>4, <2>1, <3>1, <3>2
  <2> QED
    BY <2>2, <2>3
<1>13. CurInv'
  BY <1>2 DEF CurInv, RowSteps, taskVars
<1> QED
  BY <1>6, <1>7, <1>8, <1>9, <1>10, <1>11, <1>12, <1>13 DEF PayInv, TableInv

LEMMA PayStep ==
  ASSUME ~AutomaticRecover, ~CleanupWhenUp, TypeInv, TypeInv', PayInv, [Next]_vars
  PROVE  PayInv'
<1>1. CASE Process
  BY <1>1, PayQuietStep, PaySaveStep, PaySendStep, PayGiveUpStep, PayConfirmStep,
     PayReplaceStep, PayGatherStep, PayStatusStep DEF Process
<1>2. CASE Env
  BY <1>2, PayQuietStep, PayStatusStep, PayCleanupStep DEF Env
<1>3. CASE ChainStep
  BY <1>3, PayChainStep
<1>4. CASE UNCHANGED vars
  <2>1. UNCHANGED chainVars /\ UNCHANGED dbVars /\ UNCHANGED taskVars
    BY <1>4 DEF vars
  <2>2. CurInv'
    BY <2>1 DEF PayInv, CurInv, dbVars, taskVars
  <2> QED
    BY <2>1, <2>2, Frame DEF PayInv
<1> QED
  BY <1>1, <1>2, <1>3, <1>4 DEF Next

(* What the network holds for a transfer, the chain can include only once. *)
LEMMA PayInvSafe ==
  ASSUME TypeInv, PayInv
  PROVE  NoDoublePayment
<1> SUFFICES ASSUME NEW t \in Transfers, NEW j \in Payments(t), NEW k \in Payments(t)
             PROVE  j = k
  BY DEF NoDoublePayment
<1>1. /\ chain \in Seq(Signed) /\ j \in DOMAIN chain /\ k \in DOMAIN chain
      /\ t \in chain[j].call /\ t \in chain[k].call
  BY DEF TypeInv, TypeOK, ChainTypeOK, Payments
<1>2. /\ chain[j] \in pool /\ chain[j].nonce = j - 1
      /\ chain[k] \in pool /\ chain[k].nonce = k - 1
  BY <1>1 DEF PayInv, ChainInv
<1>3. chain[j].nonce = chain[k].nonce
  BY <1>1, <1>2 DEF PayInv, TableInv, PoolInv
<1> QED
  BY <1>1, <1>2, <1>3

(* No transfer is paid by two transactions, whatever set of transfers and   *)
(* bounds: as long as automatic_recover is off and cleanup runs only while  *)
(* the service is down.                                                     *)
THEOREM PaidAtMostOnce ==
  ASSUME ~AutomaticRecover, ~CleanupWhenUp
  PROVE  Spec => []NoDoublePayment
<1>1. Init => TypeInv /\ PayInv
  BY TypeInit, PayInit
<1>2. (TypeInv /\ PayInv) /\ [Next]_vars => (TypeInv /\ PayInv)'
  BY TypeStep, PayStep
<1>3. TypeInv /\ PayInv => NoDoublePayment
  BY PayInvSafe
<1> QED
  BY <1>1, <1>2, <1>3, PTL DEF Spec
=============================================================================
