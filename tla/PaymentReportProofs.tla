------------------------ MODULE PaymentReportProofs -------------------------
(***************************************************************************)
(* More about PaymentSender, for every set of transfers and every bound:   *)
(* that one row at a time is under way, that what is reported as paid is   *)
(* final, when a signed row may leave the table, and that the service      *)
(* implements the promise Payments: its initial states are initial states  *)
(* of the promise, and every step of the service, of its users and of the  *)
(* chain is a step of the promise or leaves what it speaks of.             *)
(***************************************************************************)
EXTENDS PaymentSenderProofs, FiniteSetTheorems

-----------------------------------------------------------------------------
(* The row the task works on and what it replaced.                          *)

(* The copy agrees with the row in what decides where the row goes, and the *)
(* row is in the queue while the task works on it.                          *)
CopyInv ==
  pc \in RowSteps =>
    /\ cur.orig = tx[curId].orig
    /\ cur.started = tx[curId].started
    /\ cur.processing = tx[curId].processing
    /\ cur.confirmed = tx[curId].confirmed
    /\ tx[curId].broadcast => cur.broadcast
    /\ pc # "finish" \/ res # "Confirmed" => tx[curId].processing

(* What the task knows of the row in each step. *)
UnconfirmedSteps == {"send", "sent", "poll", "receipt", "pending"}
StepInv ==
  /\ pc \in {"check", "sign"} \union UnconfirmedSteps => cur.started
  /\ pc \in UnconfirmedSteps \ {"send"} => cur.broadcast
  /\ pc \in UnconfirmedSteps => ~cur.confirmed
  /\ pc = "receipt" => probe \in {curId, cur.orig}
  /\ pc \in RowSteps /\ cur.confirmed => cur.broadcast
  /\ pc = "finish" /\ res = "Confirmed" => cur.confirmed

(* No row of the table replaces row i. *)
Childless(i) == \A j \in TxIds : tx[j].live => tx[j].orig # i

(* A replaced row is signed, sent and out of the queue; the one that        *)
(* replaces it pays the same transfers with the same nonce.                 *)
ReplacedBy(i, j) ==
  /\ tx[i].live /\ ~tx[i].processing
  /\ tx[i].signed # "no" /\ tx[i].broadcast
  /\ tx[i].call = tx[j].call
  /\ tx[i].nonce = tx[j].nonce
EdgeInv ==
  \A j \in TxIds : tx[j].live /\ tx[j].orig # NoTx => ReplacedBy(tx[j].orig, j)

(* A row is replaced once. *)
OnlyChildInv ==
  \A i, j \in TxIds :
    tx[i].live /\ tx[j].live /\ tx[i].orig # NoTx /\ tx[i].orig = tx[j].orig => i = j

(* What is not in the table replaces nothing. *)
DeadInv == \A i \in TxIds : ~tx[i].live => tx[i].orig = NoTx

(* What is confirmed was sent. *)
SentInv == \A i \in TxIds : tx[i].live /\ tx[i].confirmed => tx[i].broadcast

(* The task never works on a row that was replaced. *)
NewestInv == pc \in RowSteps => Childless(curId)

GraphInv == EdgeInv /\ OnlyChildInv /\ DeadInv /\ SentInv
LineageInv == CopyInv /\ StepInv /\ NewestInv /\ GraphInv

(* The row under way is the first of the queue, and so is the task's.       *)
FirstInv ==
  /\ \A i \in ToProcess : Underway(i) => \A j \in ToProcess \ {i} : Before(i, j)
  /\ pc \in RowSteps \ {"finish"} => \A j \in ToProcess \ {curId} : Before(curId, j)

-----------------------------------------------------------------------------
(* Transfers, rows and the chain.                                           *)

(* The row a transfer refers to pays it.                                    *)
LinkInv ==
  \A t \in Transfers :
    LET i == transfer[t].txid IN
      /\ i \in TxIds /\ tx[i].live => t \in tx[i].call
      /\ transfer[t].st = "absent" => i = NoTx

(* Only what the user asked for is paid. *)
KnownInv ==
  /\ \A h \in pool : \A t \in Transfers : t \in h.call => transfer[t].st # "absent"
  /\ \A i \in TxIds : \A t \in Transfers :
       tx[i].live /\ t \in tx[i].call => transfer[t].st # "absent"

(* The row of a transfer that is paid or failed is never taken up again.    *)
Ended(t) == transfer[t].st \in {"paid", "failed"}
EndedInv ==
  \A t \in Transfers :
    LET i == transfer[t].txid IN
      Ended(t) /\ i \in TxIds /\ tx[i].live =>
        /\ ~tx[i].processing
        /\ Childless(i)
        /\ pc \in RowSteps => curId # i
        /\ tx[i].signed = "no" => AllowSkip /\ transfer[t].st = "failed"

(* Without the user's skip only signed rows fail. *)
SkipInv ==
  ~AllowSkip =>
    /\ \A i \in TxIds : info[i] # "skip"
    /\ pc = "finish" => res # "InternalError"
    /\ pc = "finish" /\ res = "NeedRetry" => cur.signed # "no"

(* A final transaction of the chain pays the transfers S. *)
FinalPays(S) == \E k \in DOMAIN chain : k <= final /\ chain[k].call = S

(* A confirmed row pays what a final transaction has paid.                  *)
ConfirmedInv ==
  \A i \in ConfirmedRows : tx[i].signed # "no" /\ FinalPays(tx[i].call)

FinalInv == final <= Len(chain)

ReportInv ==
  LinkInv /\ KnownInv /\ EndedInv /\ SkipInv /\ ConfirmedInv /\ FinalInv /\ PaidIsFinal

-----------------------------------------------------------------------------
(* How most steps move the rows.                                            *)

(* Row i stays in the table or out of it; it may get a nonce and lose its   *)
(* place in the queue, what was signed and sent stays so.                   *)
RowMoves(i) ==
  IF tx[i].live
  THEN /\ tx'[i].live
       /\ tx'[i].call = tx[i].call
       /\ tx'[i].orig = tx[i].orig
       /\ tx'[i].confirmed = tx[i].confirmed
       /\ tx'[i].nonce = tx[i].nonce \/ tx[i].nonce = NoNonce
       /\ tx[i].signed # "no" => tx'[i].signed # "no"
       /\ tx[i].broadcast => tx'[i].broadcast
       /\ tx'[i].processing => tx[i].processing
       /\ tx'[i].started => tx[i].started \/ (i = curId /\ pc = "start")
  ELSE tx'[i] = tx[i]

LEMMA StillMoves ==
  ASSUME tx' = tx
  PROVE  \A i \in TxIds : RowMoves(i)
  BY DEF RowMoves

(* Such a step leaves who replaces whom. *)
LEMMA MovesKeepGraph ==
  ASSUME TypeInv, NonceInv, GraphInv, \A i \in TxIds : RowMoves(i)
  PROVE  /\ GraphInv'
         /\ \A i : Childless(i) => Childless(i)'
<1>1. tx \in [TxIds -> Row]
  BY DEF TypeInv, TypeOK
<1>2. \A i \in TxIds : (tx'[i].live <=> tx[i].live) /\ tx'[i].orig = tx[i].orig
  BY <1>1 DEF RowMoves
<1>3. EdgeInv'
  <2> SUFFICES ASSUME NEW j \in TxIds, tx'[j].live, tx'[j].orig # NoTx
               PROVE  ReplacedBy(tx[j].orig, j)'
    BY <1>2 DEF EdgeInv
  <2> DEFINE i == tx[j].orig
  <2>1. tx[j].live /\ i # NoTx /\ i \in TxIds
    BY <1>1, <1>2 DEF Row
  <2>2. ReplacedBy(i, j)
    BY <2>1 DEF GraphInv, EdgeInv
  <2>3. tx[i].nonce # NoNonce
    BY <2>1, <2>2 DEF NonceInv, ReplacedBy
  <2>4. ReplacedBy(i, j)'
    BY <2>1, <2>2, <2>3 DEF ReplacedBy, RowMoves
  <2> QED
    BY <1>2, <2>4
<1>4. OnlyChildInv'
  BY <1>2 DEF GraphInv, OnlyChildInv
<1>5. DeadInv'
  BY <1>2 DEF GraphInv, DeadInv
<1>7. SentInv'
  BY DEF GraphInv, SentInv, RowMoves
<1>6. ASSUME NEW i, Childless(i)
      PROVE  Childless(i)'
  BY <1>2, <1>6 DEF Childless
<1> QED
  BY <1>3, <1>4, <1>5, <1>6, <1>7 DEF GraphInv

(* Such a step leaves the order of the queue; a row that is started is its  *)
(* first.                                                                   *)
LEMMA MovesKeepFirst ==
  ASSUME TypeInv, CurInv, FirstInv, \A i \in TxIds : RowMoves(i),
         pc' \in RowSteps \ {"finish"} => pc \in RowSteps \ {"finish"} /\ curId' = curId
  PROVE  FirstInv'
<1>1. /\ tx \in [TxIds -> Row]
      /\ pc \in RowSteps => curId \in TxIds /\ tx[curId].live
  BY DEF TypeInv, TypeOK, TaskOK, CurInv
<1>2. \A i \in ToProcess' : i \in ToProcess /\ i \in TxIds /\ tx'[i].orig = tx[i].orig
  BY <1>1 DEF ToProcess, Live, RowMoves
<1>3. ASSUME NEW i \in ToProcess', NEW j \in ToProcess', Before(i, j)
      PROVE  Before(i, j)'
  BY <1>2, <1>3 DEF Before
<1>4. ASSUME NEW i \in ToProcess', Underway(i)', NEW j \in ToProcess' \ {i}
      PROVE  Before(i, j)'
  <2>1. CASE Underway(i)
    BY <1>2, <1>3, <1>4, <2>1 DEF FirstInv
  <2>2. CASE ~Underway(i)
    <3>1. i = curId /\ pc = "start"
      BY <1>2, <1>4, <2>2 DEF Underway, RowMoves, ToProcess, Live
    <3>2. Before(i, j)
      BY <1>2, <3>1 DEF FirstInv, RowSteps
    <3> QED
      BY <1>3, <3>2
  <2> QED
    BY <2>1, <2>2
<1>5. ASSUME pc' \in RowSteps \ {"finish"}, NEW j \in ToProcess' \ {curId'}
      PROVE  Before(curId, j)'
  <2>1. /\ curId' = curId /\ curId \in TxIds /\ j \in ToProcess \ {curId} /\ j \in TxIds
        /\ tx'[j].orig = tx[j].orig /\ tx'[curId].orig = tx[curId].orig
        /\ Before(curId, j)
    BY <1>1, <1>2, <1>5 DEF FirstInv, RowMoves
  <2> QED
    BY <2>1 DEF Before
<1> QED
  BY <1>4, <1>5 DEF FirstInv

(* What the task assigns to its copy. *)
LEMMA CopyEffects ==
  ASSUME NEW r \in Row
  PROVE  /\ \A s \in {Queued(r), Dequeued(r), Queued([r EXCEPT !.started = TRUE]),
                       [r EXCEPT !.signed = "yes"], [r EXCEPT !.broadcast = TRUE],
                       [r EXCEPT !.stuck = TRUE]} :
              /\ s.live = r.live /\ s.call = r.call /\ s.orig = r.orig
              /\ s.confirmed = r.confirmed /\ s.nonce = r.nonce
         /\ \A s \in {Queued(r), Dequeued(r), Queued([r EXCEPT !.started = TRUE]),
                       [r EXCEPT !.broadcast = TRUE], [r EXCEPT !.stuck = TRUE]} :
              s.signed = r.signed
         /\ \A s \in {Queued(r), Dequeued(r), Queued([r EXCEPT !.started = TRUE]),
                       [r EXCEPT !.signed = "yes"], [r EXCEPT !.stuck = TRUE]} :
              s.broadcast = r.broadcast
         /\ \A s \in {Queued(r), Dequeued(r), [r EXCEPT !.signed = "yes"],
                       [r EXCEPT !.broadcast = TRUE], [r EXCEPT !.stuck = TRUE]} :
              s.started = r.started
         /\ \A s \in {[r EXCEPT !.signed = "yes"], [r EXCEPT !.broadcast = TRUE],
                       [r EXCEPT !.stuck = TRUE]} :
              s.processing = r.processing
         /\ Queued(r).processing /\ Queued([r EXCEPT !.started = TRUE]).processing
         /\ Queued([r EXCEPT !.started = TRUE]).started
         /\ ~Dequeued(r).processing
         /\ [r EXCEPT !.signed = "yes"].signed = "yes"
         /\ [r EXCEPT !.broadcast = TRUE].broadcast
  BY DEF Row, Queued, Dequeued

(* Saving a row made from the copy. *)
LEMMA SaveMoves ==
  ASSUME TypeInv, CurInv, CopyInv, pc \in RowSteps,
         NEW r \in Row, r.live, r.call = cur.call, r.orig = cur.orig,
         r.confirmed = cur.confirmed,
         r.nonce = cur.nonce \/ r.nonce = tx[curId].nonce,
         r.signed = cur.signed \/ r.signed # "no",
         tx[curId].broadcast => r.broadcast,
         r.processing => tx[curId].processing,
         r.started => tx[curId].started \/ pc = "start",
         tx' = Save(curId, r)
  PROVE  (\A i \in TxIds : RowMoves(i)) /\ tx'[curId] = r
<1>1. curId \in TxIds /\ tx \in [TxIds -> Row] /\ tx[curId].live
  BY DEF TypeInv, TypeOK, TaskOK, CurInv
<1>2. tx' = [tx EXCEPT ![curId] = r]
  BY <1>1 DEF Save
<1>3. \A i \in TxIds \ {curId} : tx'[i] = tx[i]
  BY <1>1, <1>2
<1>4. tx'[curId] = r
  BY <1>1, <1>2
<1>5. RowMoves(curId)
  BY <1>1, <1>4 DEF RowMoves, CurInv, CopyInv
<1> QED
  BY <1>3, <1>4, <1>5 DEF RowMoves

(* What holds of the task after a step that keeps the row. *)
TaskLineage == CopyInv /\ StepInv /\ NewestInv

(* A step after which the task is at no row. *)
LEMMA NoRowStep ==
  ASSUME pc' \notin RowSteps
  PROVE  TaskLineage'
  BY DEF TaskLineage, CopyInv, StepInv, NewestInv, RowSteps, UnconfirmedSteps

(* The task takes the first row of the queue: nobody replaces it. *)
LEMMA LineagePick ==
  ASSUME TypeInv, PayInv, LineageInv, FirstInv, Pick
  PROVE  TaskLineage' /\ FirstInv'
<1>1. tx' = tx /\ tx \in [TxIds -> Row] /\ CurInv
  BY DEF Pick, NoDbChange, dbVars, TypeInv, TypeOK, PayInv
<1>2. CASE ToProcess = {}
  <2>1. pc' = "gather"
    BY <1>2 DEF Pick, Goto
  <2> QED
    BY <1>1, <2>1, NoRowStep, StillMoves, MovesKeepFirst DEF RowSteps
<1>3. CASE ToProcess # {}
  <2>1. PICK i \in NextToProcess :
          /\ curId' = i /\ cur' = tx[i]
          /\ \/ Result("InternalError")
             \/ pc' \in {"nonce", "start"} /\ res' = res
    BY <1>3 DEF Pick, Goto
  <2>2. i \in ToProcess /\ \A j \in ToProcess \ {i} : Before(i, j)
    BY DEF NextToProcess
  <2>3. i \in TxIds /\ tx[i].live /\ tx[i].processing
    BY <2>2 DEF ToProcess, Live
  <2>4. Childless(i)
    BY <1>1, <2>3 DEF Childless, LineageInv, GraphInv, EdgeInv, ReplacedBy, NoTx, TxIds
  <2>5. pc' \in {"nonce", "start"} \/ (pc' = "finish" /\ res' = "InternalError")
    BY <2>1 DEF Result
  <2>6. CopyInv'
    BY <1>1, <2>1, <2>3, <2>5 DEF CopyInv
  <2>7. StepInv'
    BY <1>1, <2>1, <2>3, <2>5 DEF StepInv, RowSteps, UnconfirmedSteps, LineageInv, GraphInv, SentInv
  <2>8. NewestInv'
    BY <1>1, <2>1, <2>4 DEF NewestInv, Childless
  <2>9. FirstInv'
    BY <1>1, <2>1, <2>2 DEF FirstInv, ToProcess, Live, Underway, Before
  <2> QED
    BY <2>6, <2>7, <2>8, <2>9 DEF TaskLineage
<1> QED
  BY <1>2, <1>3

(* The steps between reading the row and saving it. *)
LEMMA LineageQuiet ==
  ASSUME TypeInv, PayInv, LineageInv, ~AutomaticRecover,
         \/ GetNonce \/ CheckOk \/ CheckWaits \/ Send \/ Poll \/ ReceiptTooFresh
         \/ ReceiptOfOriginal \/ GiveUp \/ StillPending
  PROVE  /\ tx' = tx /\ TaskLineage'
         /\ pc' \in RowSteps \ {"finish"} => pc \in RowSteps \ {"finish"} /\ curId' = curId
<1>1. /\ tx \in [TxIds -> Row] /\ cur \in Row /\ CopyInv /\ StepInv /\ NewestInv
      /\ GasLimits \subseteq Nat
  BY GasAssumption DEF TypeInv, TypeOK, LineageInv
<1>2. tx' = tx
  BY DEF GetNonce, CheckOk, CheckWaits, Send, Poll, ReceiptTooFresh, ReceiptOfOriginal,
         GiveUp, StillPending, NoDbChange, dbVars
<1>3. CASE GetNonce
  <2>1. PICK n \in 0..LatestNonce :
          IF BehindDb(n)
          THEN Leave
          ELSE /\ \E f \in FirstFees : cur' = [cur EXCEPT !.nonce = n, !.fee = f]
               /\ Goto("start")
               /\ UNCHANGED <<curId, probe, res>>
    BY <1>3 DEF GetNonce
  <2>2. CASE BehindDb(n)
    BY <1>2, <2>1, <2>2, NoRowStep DEF Leave, RowSteps
  <2>3. CASE ~BehindDb(n)
    <3>1. /\ pc = "nonce" /\ pc' = "start" /\ curId' = curId
          /\ cur'.orig = cur.orig /\ cur'.started = cur.started
          /\ cur'.processing = cur.processing /\ cur'.confirmed = cur.confirmed
          /\ cur'.broadcast = cur.broadcast
      BY <1>1, <1>3, <2>1, <2>3 DEF Goto, Row, GetNonce
    <3> QED
      BY <1>1, <1>2, <3>1 DEF TaskLineage, CopyInv, StepInv, NewestInv, Childless, RowSteps,
         UnconfirmedSteps
  <2> QED
    BY <2>2, <2>3
<1>4. CASE CheckOk
  <2>1. /\ pc = "check" /\ pc' = "sign" /\ curId' = curId
        /\ cur'.orig = cur.orig /\ cur'.started = cur.started
        /\ cur'.processing = cur.processing /\ cur'.confirmed = cur.confirmed
        /\ cur'.broadcast = cur.broadcast
    BY <1>1, <1>4 DEF CheckOk, Goto, Row
  <2> QED
    BY <1>1, <1>2, <2>1 DEF TaskLineage, CopyInv, StepInv, NewestInv, Childless, RowSteps,
       UnconfirmedSteps
<1>5. CASE Send
  <2>1. /\ pc = "send" /\ pc' = "sent" /\ curId' = curId
        /\ cur'.orig = cur.orig /\ cur'.started = cur.started
        /\ cur'.processing = cur.processing /\ cur'.confirmed = cur.confirmed
        /\ cur'.broadcast
    BY <1>1, <1>5, CopyEffects DEF Send, Goto, Row
  <2> QED
    BY <1>1, <1>2, <2>1 DEF TaskLineage, CopyInv, StepInv, NewestInv, Childless, RowSteps,
       UnconfirmedSteps
<1>6. CASE \/ CheckWaits \/ Poll \/ ReceiptTooFresh \/ ReceiptOfOriginal \/ GiveUp \/ StillPending
  <2>1. /\ curId' = curId /\ cur' = cur
        /\ \/ pc = "check" /\ pc' = "finish" /\ res' = "Wait"
           \/ pc = "poll" /\ pc' = "receipt" /\ probe' = curId
           \/ pc \in {"poll", "receipt"} /\ pc' = "pending"
           \/ pc = "receipt" /\ pc' = "receipt" /\ probe' = cur.orig
           \/ pc = "receipt" /\ pc' = "finish" /\ res' = "NeedRetry"
           \/ pc = "pending" /\ pc' = "finish" /\ res' = "Unknown"
    BY <1>6 DEF CheckWaits, Poll, ReceiptTooFresh, ReceiptOfOriginal, GiveUp, StillPending,
                Result, Goto
  <2>2. CopyInv'
    BY <1>1, <1>2, <2>1 DEF CopyInv, RowSteps
  <2>3. StepInv'
    BY <1>1, <1>2, <2>1 DEF StepInv, RowSteps, UnconfirmedSteps
  <2>4. NewestInv'
    BY <1>1, <1>2, <2>1 DEF NewestInv, Childless, RowSteps
  <2> QED
    BY <1>2, <2>1, <2>2, <2>3, <2>4 DEF TaskLineage, RowSteps
<1> QED
  BY <1>2, <1>3, <1>4, <1>5, <1>6

(* The steps that save the copy. *)
LEMMA LineageSave ==
  ASSUME TypeInv, PayInv, LineageInv,
         Start \/ Sign \/ Sent \/ StuckNoticed \/ Resend
  PROVE  /\ \A i \in TxIds : RowMoves(i)
         /\ TaskLineage'
         /\ pc' \in RowSteps \ {"finish"} => pc \in RowSteps \ {"finish"} /\ curId' = curId
<1>1. /\ tx \in [TxIds -> Row] /\ cur \in Row /\ CopyInv /\ StepInv /\ NewestInv /\ GraphInv
      /\ CurInv /\ NonceInv /\ pc \in RowSteps /\ curId \in TxIds /\ tx[curId] \in Row
      /\ tx[curId].live /\ cur.live /\ cur.call = tx[curId].call /\ cur.signed = tx[curId].signed
  BY DEF TypeInv, TypeOK, TaskOK, LineageInv, PayInv, TableInv, CurInv, Start, Sign, Sent,
         StuckNoticed, Resend, RowSteps
<1>2. /\ cur.orig = tx[curId].orig /\ cur.started = tx[curId].started
      /\ cur.processing = tx[curId].processing /\ cur.confirmed = tx[curId].confirmed
      /\ tx[curId].broadcast => cur.broadcast
      /\ pc # "finish" => tx[curId].processing
  BY <1>1 DEF CopyInv
<1>3. ASSUME \A i \in TxIds : RowMoves(i), curId' = curId
      PROVE  NewestInv'
  BY <1>1, <1>3, MovesKeepGraph DEF NewestInv
<1>4. CASE Start
  <2>1. /\ curId' = curId /\ pc = "start"
        /\ pc' \in {"send", "finish", "poll", "check", "sign"}
        /\ pc' = "send" => ~cur.broadcast
        /\ pc' = "poll" => cur.broadcast /\ ~cur.confirmed
        /\ pc' = "finish" => cur.confirmed
    BY <1>4 DEF Start, Goto, AfterSign
  <2>2. CASE cur.started /\ UNCHANGED <<tx, cur>>
    <3>1. CopyInv'
      BY <1>1, <1>2, <2>1, <2>2 DEF CopyInv, RowSteps
    <3>2. StepInv'
      BY <1>1, <2>1, <2>2 DEF StepInv, RowSteps, UnconfirmedSteps
    <3> QED
      BY <1>1, <1>3, <2>1, <2>2, <3>1, <3>2, StillMoves DEF TaskLineage, RowSteps
  <2>3. CASE /\ cur' = Queued([cur EXCEPT !.started = TRUE])
             /\ tx' = Save(curId, Queued([tx[curId] EXCEPT !.started = TRUE]))
    <3> DEFINE r == Queued([tx[curId] EXCEPT !.started = TRUE])
    <3>1. /\ r \in Row /\ r.live /\ r.call = cur.call /\ r.orig = cur.orig
          /\ r.confirmed = cur.confirmed /\ r.nonce = tx[curId].nonce
          /\ r.signed = cur.signed /\ r.broadcast = tx[curId].broadcast
          /\ r.started /\ r.processing
      <4>1. [tx[curId] EXCEPT !.started = TRUE] \in Row
        BY <1>1, RowTyping
      <4>2. r \in Row
        BY <4>1, RowTyping
      <4> QED
        BY <1>1, <1>2, <4>2, CopyEffects
    <3>2. tx' = Save(curId, r)
      BY <2>3
    <3> HIDE DEF r
    <3>3. (\A i \in TxIds : RowMoves(i)) /\ tx'[curId] = r
      BY <1>1, <1>2, <2>1, <3>1, <3>2, SaveMoves
    <3>4. /\ cur'.orig = cur.orig /\ cur'.confirmed = cur.confirmed
          /\ cur'.broadcast = cur.broadcast /\ cur'.started /\ cur'.processing
      BY <1>1, <2>3, CopyEffects
    <3>5. CopyInv'
      BY <1>1, <1>2, <2>1, <3>1, <3>3, <3>4 DEF CopyInv, Row
    <3>6. StepInv'
      BY <1>1, <2>1, <3>4 DEF StepInv, RowSteps, UnconfirmedSteps
    <3> QED
      BY <1>3, <2>1, <3>3, <3>5, <3>6 DEF TaskLineage, RowSteps
  <2> QED
    BY <1>4, <2>2, <2>3 DEF Start
<1>5. CASE Sign
  <2> DEFINE r == [cur EXCEPT !.signed = "yes"]
  <2>1. /\ r \in Row /\ r.live /\ r.call = cur.call /\ r.orig = cur.orig
        /\ r.confirmed = cur.confirmed /\ r.nonce = cur.nonce
        /\ r.signed = "yes" /\ r.broadcast = cur.broadcast
        /\ r.started = cur.started /\ r.processing = cur.processing
    <3>1. r \in Row
      BY <1>1, RowTyping
    <3>2. /\ r.call = cur.call /\ r.orig = cur.orig /\ r.live = cur.live
          /\ r.confirmed = cur.confirmed /\ r.nonce = cur.nonce
          /\ r.started = cur.started /\ r.processing = cur.processing
      BY <1>1, CopyEffects
    <3> QED
      BY <1>1, <3>1, <3>2, CopyEffects
  <2>2. /\ curId' = curId /\ tx' = Save(curId, r) /\ cur' = r
        /\ pc = "sign" /\ pc' \in {"send", "finish", "poll"}
        /\ pc' = "send" => ~r.broadcast
        /\ pc' = "poll" => r.broadcast /\ ~r.confirmed
        /\ pc' = "finish" => r.confirmed
    BY <1>5 DEF Sign, Goto, AfterSign
  <2> HIDE DEF r
  <2>3. (\A i \in TxIds : RowMoves(i)) /\ tx'[curId] = r
    BY <1>1, <1>2, <2>1, <2>2, SaveMoves
  <2>4. CopyInv'
    BY <1>1, <1>2, <2>1, <2>2, <2>3 DEF CopyInv
  <2>5. StepInv'
    BY <1>1, <2>1, <2>2 DEF StepInv, RowSteps, UnconfirmedSteps
  <2> QED
    BY <1>3, <2>2, <2>3, <2>4, <2>5 DEF TaskLineage, RowSteps
<1>6. CASE Sent
  <2>1. /\ curId' = curId /\ tx' = Save(curId, cur) /\ cur' = cur
        /\ pc = "sent" /\ pc' = "poll"
    BY <1>6 DEF Sent, Goto
  <2>2. (\A i \in TxIds : RowMoves(i)) /\ tx'[curId] = cur
    BY <1>1, <1>2, <2>1, SaveMoves
  <2>3. CopyInv'
    BY <1>1, <1>2, <2>1, <2>2 DEF CopyInv
  <2>4. StepInv'
    BY <1>1, <2>1 DEF StepInv, RowSteps, UnconfirmedSteps
  <2> QED
    BY <1>3, <2>1, <2>2, <2>3, <2>4 DEF TaskLineage, RowSteps
<1>7. CASE StuckNoticed
  <2>1. curId' = curId /\ pc = "receipt" /\ pc' = "pending"
    BY <1>7 DEF StuckNoticed, Goto
  <2>2. CASE UNCHANGED <<tx, cur>>
    <3>1. CopyInv'
      BY <1>1, <1>2, <2>1, <2>2 DEF CopyInv, RowSteps
    <3>2. StepInv'
      BY <1>1, <2>1, <2>2 DEF StepInv, RowSteps, UnconfirmedSteps
    <3> QED
      BY <1>1, <1>3, <2>1, <2>2, <3>1, <3>2, StillMoves DEF TaskLineage, RowSteps
  <2>3. CASE /\ cur' = [cur EXCEPT !.stuck = TRUE]
             /\ tx' = Save(curId, [tx[curId] EXCEPT !.stuck = TRUE])
    <3> DEFINE r == [tx[curId] EXCEPT !.stuck = TRUE]
    <3>1. /\ r \in Row /\ r.live /\ r.call = cur.call /\ r.orig = cur.orig
          /\ r.confirmed = cur.confirmed /\ r.nonce = tx[curId].nonce
          /\ r.signed = cur.signed /\ r.broadcast = tx[curId].broadcast
          /\ r.started = tx[curId].started /\ r.processing = tx[curId].processing
      <4>1. r \in Row
        BY <1>1, RowTyping
      <4>2. /\ r.live = tx[curId].live /\ r.call = tx[curId].call /\ r.orig = tx[curId].orig
            /\ r.confirmed = tx[curId].confirmed /\ r.nonce = tx[curId].nonce
            /\ r.signed = tx[curId].signed /\ r.broadcast = tx[curId].broadcast
            /\ r.started = tx[curId].started /\ r.processing = tx[curId].processing
        BY <1>1, CopyEffects
      <4> QED
        BY <1>1, <1>2, <4>1, <4>2
    <3>2. tx' = Save(curId, r)
      BY <2>3
    <3> HIDE DEF r
    <3>3. (\A i \in TxIds : RowMoves(i)) /\ tx'[curId] = r
      BY <1>1, <1>2, <3>1, <3>2, SaveMoves
    <3>4. /\ cur'.orig = cur.orig /\ cur'.confirmed = cur.confirmed
          /\ cur'.broadcast = cur.broadcast /\ cur'.started = cur.started
          /\ cur'.processing = cur.processing
      BY <1>1, <2>3, CopyEffects
    <3>5. CopyInv'
      BY <1>1, <1>2, <2>1, <3>1, <3>3, <3>4 DEF CopyInv
    <3>6. StepInv'
      BY <1>1, <2>1, <3>4 DEF StepInv, RowSteps, UnconfirmedSteps
    <3> QED
      BY <1>3, <2>1, <3>3, <3>5, <3>6 DEF TaskLineage, RowSteps
  <2> QED
    BY <1>7, <2>2, <2>3 DEF StuckNoticed
<1>8. CASE Resend
  <2> DEFINE r == [cur EXCEPT !.broadcast = TRUE]
  <2>1. /\ r \in Row /\ r.live /\ r.call = cur.call /\ r.orig = cur.orig
        /\ r.confirmed = cur.confirmed /\ r.nonce = cur.nonce
        /\ r.signed = cur.signed /\ r.broadcast
        /\ r.started = cur.started /\ r.processing = cur.processing
    <3>1. r \in Row
      BY <1>1, RowTyping
    <3>2. /\ r.call = cur.call /\ r.orig = cur.orig /\ r.live = cur.live
          /\ r.confirmed = cur.confirmed /\ r.nonce = cur.nonce
          /\ r.started = cur.started /\ r.processing = cur.processing
      BY <1>1, CopyEffects
    <3> QED
      BY <1>1, <3>1, <3>2, CopyEffects
  <2>2. /\ curId' = curId /\ tx' = Save(curId, r) /\ cur' = r
        /\ pc = "pending" /\ pc' = "poll"
    BY <1>8 DEF Resend, Goto
  <2> HIDE DEF r
  <2>3. (\A i \in TxIds : RowMoves(i)) /\ tx'[curId] = r
    BY <1>1, <1>2, <2>1, <2>2, SaveMoves
  <2>4. CopyInv'
    BY <1>1, <1>2, <2>1, <2>2, <2>3 DEF CopyInv
  <2>5. StepInv'
    BY <1>1, <2>1, <2>2 DEF StepInv, RowSteps, UnconfirmedSteps
  <2> QED
    BY <1>3, <2>2, <2>3, <2>4, <2>5 DEF TaskLineage, RowSteps
<1> QED
  BY <1>4, <1>5, <1>6, <1>7, <1>8

(* The end of the work on a row, with or without a result. *)
LEMMA LineageLeave ==
  ASSUME TypeInv, PayInv, LineageInv,
         FinishConfirmed \/ FinishFailed \/ FinishUnknown \/ FinishUnsaved \/ StepFails
  PROVE  (\A i \in TxIds : RowMoves(i)) /\ pc' = "top"
<1>1. pc' = "top"
  BY DEF FinishConfirmed, FinishFailed, FinishUnknown, FinishUnsaved, StepFails, Leave
<1>2. CASE tx' = tx
  BY <1>1, <1>2, StillMoves
<1>3. CASE \/ tx' = Save(curId, Dequeued(cur)) /\ pc = "finish"
           \/ tx' = Save(curId, Queued(cur)) /\ pc = "finish" /\ res = "Unknown"
  <2>1. /\ cur \in Row /\ CopyInv /\ CurInv /\ pc \in RowSteps
        /\ tx[curId].live /\ cur.live /\ cur.call = tx[curId].call /\ cur.signed = tx[curId].signed
    BY <1>3 DEF TypeInv, TypeOK, LineageInv, PayInv, CurInv, RowSteps
  <2>2. /\ cur.started = tx[curId].started
        /\ tx[curId].broadcast => cur.broadcast
        /\ res = "Unknown" => tx[curId].processing
    BY <2>1 DEF CopyInv
  <2>3. PICK r \in {Dequeued(cur), Queued(cur)} :
          /\ tx' = Save(curId, r)
          /\ r = Dequeued(cur) \/ res = "Unknown"
    BY <1>3
  <2>4. r \in Row
    BY <2>1, <2>3, RowTyping
  <2>5. /\ r.live = cur.live /\ r.call = cur.call /\ r.orig = cur.orig
        /\ r.confirmed = cur.confirmed /\ r.nonce = cur.nonce /\ r.signed = cur.signed
        /\ r.broadcast = cur.broadcast /\ r.started = cur.started
        /\ r = Dequeued(cur) => ~r.processing
    <3>1. CASE r = Dequeued(cur)
      BY <2>1, <3>1, CopyEffects
    <3>2. CASE r = Queued(cur)
      <4>1. r # Dequeued(cur)
        <5>1. Queued(cur).processing /\ ~Dequeued(cur).processing
          BY <2>1, CopyEffects
        <5> QED
          BY <3>2, <5>1
      <4> QED
        BY <2>1, <3>2, <4>1, CopyEffects
    <3> QED
      BY <2>3, <3>1, <3>2
  <2> QED
    BY <1>1, <2>1, <2>2, <2>3, <2>4, <2>5, SaveMoves
<1> QED
  BY <1>1, <1>2, <1>3
  DEF FinishConfirmed, FinishFailed, FinishUnknown, FinishUnsaved, StepFails, NoDbChange, dbVars

(* The steps of the users, of the machine and of the chain, and gathering   *)
(* that makes no row.                                                       *)
LEMMA LineageOutside ==
  ASSUME TypeInv, PayInv, LineageInv,
         \/ GatherEnds \/ GatherFails \/ NewTransfer \/ Skip \/ Crash \/ CrashAmongMarks
         \/ Restart \/ ChainStep
         \/ UNCHANGED vars
  PROVE  /\ tx' = tx /\ TaskLineage'
         /\ pc' \in RowSteps \ {"finish"} => pc \in RowSteps \ {"finish"} /\ curId' = curId
<1>1. tx' = tx
  BY MarkStep DEF GatherEnds, NewTransfer, Skip, Crash, CrashAmongMarks, Stop, Restart,
    ChainStep, vars,
     NoDbChange, dbVars
<1>2. pc' \in {"top", "down"} \/ UNCHANGED taskVars
  BY DEF GatherEnds, GatherFails, NewTransfer, Skip, Crash, CrashAmongMarks, Stop, Restart,
    ChainStep, vars, Goto
<1>3. CASE pc' \in {"top", "down"}
  BY <1>1, <1>3, NoRowStep DEF RowSteps
<1>4. CASE UNCHANGED taskVars
  BY <1>1, <1>4 DEF TaskLineage, LineageInv, CopyInv, StepInv, NewestInv, Childless, taskVars
<1> QED
  BY <1>2, <1>3, <1>4

-----------------------------------------------------------------------------
(* The lineage of a row, for any step.                                      *)

LEMMA LineageSelf ==
  ASSUME NEW i \in TxIds
  PROVE  i \in Lineage(i)
  BY DEF Lineage

LEMMA LineageLeast ==
  ASSUME NEW i \in TxIds, NEW S \in SUBSET TxIds, i \in S, ClosedUnderOrig(S)
  PROVE  Lineage(i) \subseteq S
  BY DEF Lineage

LEMMA LineageClosed ==
  ASSUME tx \in [TxIds -> Row], NEW i \in TxIds
  PROVE  Lineage(i) \in SUBSET TxIds /\ ClosedUnderOrig(Lineage(i))
<1>1. Lineage(i) \in SUBSET TxIds
  BY DEF Lineage
<1> SUFFICES ASSUME NEW k \in Lineage(i), tx[k].orig # NoTx
             PROVE  tx[k].orig \in Lineage(i)
  BY <1>1 DEF ClosedUnderOrig
<1>2. tx[k].orig \in TxIds
  BY <1>1 DEF Row
<1>3. ASSUME NEW S \in SUBSET TxIds, i \in S, ClosedUnderOrig(S)
      PROVE  tx[k].orig \in S
  BY <1>3 DEF ClosedUnderOrig, Lineage
<1> QED
  BY <1>2, <1>3 DEF Lineage

(* Every member but the first is what another one replaced. *)
LEMMA LineageChild ==
  ASSUME tx \in [TxIds -> Row], NEW i \in TxIds, NEW k \in Lineage(i), k # i
  PROVE  \E j \in Lineage(i) : tx[j].orig = k
<1> SUFFICES ASSUME \A j \in Lineage(i) : tx[j].orig # k
             PROVE  FALSE
  OBVIOUS
<1>1. /\ Lineage(i) \ {k} \in SUBSET TxIds /\ i \in Lineage(i) \ {k}
      /\ ClosedUnderOrig(Lineage(i) \ {k})
  BY LineageClosed, LineageSelf DEF ClosedUnderOrig
<1>2. Lineage(i) \subseteq Lineage(i) \ {k}
  BY <1>1, LineageLeast
<1> QED
  BY <1>2

(* A lineage pays the same transfers with the same nonce. *)
LEMMA LineageCall ==
  ASSUME tx \in [TxIds -> Row], EdgeInv, NEW i \in TxIds, tx[i].live
  PROVE  \A j \in Lineage(i) :
           j \in TxIds /\ tx[j].live /\ tx[j].call = tx[i].call /\ tx[j].nonce = tx[i].nonce
<1> DEFINE S == {j \in TxIds : tx[j].live /\ tx[j].call = tx[i].call /\ tx[j].nonce = tx[i].nonce}
<1>1. i \in S /\ S \in SUBSET TxIds
  OBVIOUS
<1>2. ClosedUnderOrig(S)
  BY DEF ClosedUnderOrig, EdgeInv, ReplacedBy, Row
<1>3. Lineage(i) \subseteq S
  BY <1>1, <1>2, LineageLeast
<1> QED
  BY <1>3

-----------------------------------------------------------------------------
(* The confirmation of a row.                                               *)

(* What ReceiptConfirmed does: the row that was mined, probe, is the task's *)
(* or the one it replaced; it becomes done.  The rest of the lineage goes.  *)
Gone == Lineage(curId) \ {probe}
Confirms(done) ==
  /\ probe \in {curId, tx[curId].orig} /\ probe \in TxIds /\ curId \in TxIds
  /\ tx[curId].live /\ tx[curId].processing /\ Underway(curId)
  /\ tx[probe].live /\ probe \in Lineage(curId)
  /\ tx'[probe] = done
  /\ \A i \in TxIds \ {probe} : IF i \in Gone THEN tx'[i] = NoRow ELSE tx'[i] = tx[i]
  /\ done.live /\ done.confirmed /\ done.broadcast /\ done.orig = NoTx
  /\ done.signed = "cleared" /\ done.call = tx[probe].call
  /\ done.processing = tx[probe].processing /\ done.nonce = tx[probe].nonce
  /\ curId' = probe /\ cur' = done /\ pc' = "finish" /\ res' = "Confirmed"

LEMMA ConfirmDone ==
  ASSUME TypeInv, PayInv, LineageInv, ReceiptConfirmed
  PROVE  /\ Confirms(cur')
         /\ ProbeRow.call = tx[probe].call /\ MinedFinal(Hash(ProbeRow))
         /\ pc = "receipt"
<1>1. pc = "receipt" /\ MinedFinal(Hash(ProbeRow))
  BY DEF ReceiptConfirmed
<1>2. /\ tx \in [TxIds -> Row] /\ cur \in Row /\ curId \in TxIds /\ probe \in TxIds
      /\ tx[curId].live /\ cur.live /\ cur.call = tx[curId].call /\ cur.signed = "yes"
      /\ cur.signed = tx[curId].signed
      /\ cur.nonce = tx[curId].nonce \/ tx[curId].signed = "no"
  BY <1>1 DEF TypeInv, TypeOK, TaskOK, PayInv, CurInv, RowSteps
<1>3. /\ cur.orig = tx[curId].orig /\ cur.started = tx[curId].started
      /\ cur.processing = tx[curId].processing /\ cur.confirmed = tx[curId].confirmed
      /\ tx[curId].processing
      /\ cur.started /\ cur.broadcast /\ ~cur.confirmed /\ probe \in {curId, cur.orig}
  BY <1>1 DEF LineageInv, CopyInv, StepInv, RowSteps, UnconfirmedSteps
<1>4. /\ tx[probe].live /\ ProbeRow.live /\ ProbeRow.call = tx[probe].call
      /\ ProbeRow.nonce = tx[probe].nonce /\ ProbeRow.broadcast
      /\ ProbeRow.processing = tx[probe].processing /\ ProbeRow \in Row
  <2>1. CASE probe = curId
    BY <1>2, <1>3, <2>1 DEF ProbeRow
  <2>2. CASE probe # curId
    <3>1. ReplacedBy(probe, curId)
      BY <1>2, <1>3, <2>2 DEF LineageInv, GraphInv, EdgeInv, NoTx, TxIds
    <3> QED
      BY <1>2, <2>2, <3>1 DEF ProbeRow, ReplacedBy
  <2> QED
    BY <2>1, <2>2
<1> DEFINE done == [ProbeRow EXCEPT !.confirmed = TRUE, !.orig = NoTx, !.signed = "cleared"]
<1>5. /\ done.live = ProbeRow.live /\ done.confirmed /\ done.broadcast = ProbeRow.broadcast
      /\ done.orig = NoTx /\ done.signed = "cleared" /\ done.call = ProbeRow.call
      /\ done.processing = ProbeRow.processing /\ done.nonce = ProbeRow.nonce
  BY <1>4 DEF Row
<1>6. /\ tx' = [i \in TxIds |-> IF i \in Gone THEN NoRow ELSE Save(probe, done)[i]]
      /\ cur' = done /\ curId' = probe /\ pc' = "finish" /\ res' = "Confirmed"
  BY DEF ReceiptConfirmed, Result, Gone
<1> HIDE DEF done
<1>7. probe \in Lineage(curId)
  BY <1>2, <1>3, LineageSelf, LineageClosed DEF ClosedUnderOrig, NoTx, TxIds
<1>8. Save(probe, done) = [tx EXCEPT ![probe] = done]
  BY <1>4 DEF Save
<1>9. tx'[probe] = done
  BY <1>2, <1>6, <1>8 DEF Gone
<1>10. \A i \in TxIds \ {probe} : IF i \in Gone THEN tx'[i] = NoRow ELSE tx'[i] = tx[i]
  BY <1>2, <1>6, <1>8
<1>11. Underway(curId)
  BY <1>3 DEF Underway
<1> QED
  BY <1>1, <1>2, <1>3, <1>4, <1>5, <1>6, <1>7, <1>9, <1>10, <1>11 DEF Confirms

(* No row that stays was a replacement of one that goes, or of probe.       *)
LEMMA ConfirmCuts ==
  ASSUME TypeInv, LineageInv, pc = "receipt", NEW done, Confirms(done),
         NEW j \in TxIds, tx'[j].live, tx'[j].orig # NoTx
  PROVE  /\ j # probe /\ j \notin Gone /\ tx'[j] = tx[j]
         /\ tx[j].orig \in TxIds \ {probe} /\ tx[j].orig \notin Gone
<1>1. tx \in [TxIds -> Row] /\ GraphInv /\ Childless(curId)
  BY DEF TypeInv, TypeOK, LineageInv, NewestInv, RowSteps
<1>2. j # probe
  BY DEF Confirms
<1>3. j \notin Gone /\ tx'[j] = tx[j]
  BY <1>2 DEF Confirms, NoRow
<1> DEFINE i == tx[j].orig
<1>4. i \in TxIds /\ i # NoTx /\ tx[j].live /\ j \notin Lineage(curId)
  BY <1>1, <1>2, <1>3 DEF Row, Gone
<1>5. i \notin Lineage(curId)
  <2>1. i # curId
    BY <1>1, <1>4 DEF Childless
  <2> SUFFICES ASSUME i \in Lineage(curId)
               PROVE  FALSE
    OBVIOUS
  <2>2. PICK k \in Lineage(curId) : tx[k].orig = i
    <3>1. curId \in TxIds
      BY DEF Confirms
    <3> QED
      BY <1>1, <2>1, <3>1, LineageChild
  <2>3. k \in TxIds /\ tx[k].live
    BY <1>4, <2>2 DEF Lineage, LineageInv, GraphInv, DeadInv
  <2> QED
    BY <1>1, <1>4, <2>2, <2>3 DEF GraphInv, OnlyChildInv
<1>6. probe \in Lineage(curId)
  BY DEF Confirms
<1> QED
  BY <1>2, <1>3, <1>4, <1>5, <1>6 DEF Gone

(* The queue has one order. *)
LEMMA BeforeOnce ==
  ASSUME tx \in [TxIds -> Row], NEW i \in TxIds, NEW j \in TxIds, Before(i, j), Before(j, i)
  PROVE  FALSE
<1>1. tx[i].orig \in Int /\ tx[j].orig \in Int /\ i \in Int /\ j \in Int
  BY DEF Row, TxIds, NoTx
<1> QED
  BY <1>1 DEF Before

LEMMA LineageConfirm ==
  ASSUME TypeInv, PayInv, LineageInv, FirstInv, ReceiptConfirmed
  PROVE  TaskLineage' /\ GraphInv' /\ FirstInv'
<1> DEFINE done == cur'
<1>1. Confirms(done) /\ pc = "receipt"
  BY ConfirmDone
<1> HIDE DEF done
<1>2. tx \in [TxIds -> Row] /\ GraphInv
  BY DEF TypeInv, TypeOK, LineageInv
<1>3. ASSUME NEW j \in TxIds, tx'[j].live, tx'[j].orig # NoTx
      PROVE  /\ j # probe /\ j \notin Gone /\ tx'[j] = tx[j]
             /\ tx[j].orig \in TxIds \ {probe} /\ tx[j].orig \notin Gone
  BY <1>1, <1>3, ConfirmCuts
<1>4. EdgeInv'
  <2> SUFFICES ASSUME NEW j \in TxIds, tx'[j].live, tx'[j].orig # NoTx
               PROVE  ReplacedBy(tx[j].orig, j)'
    BY DEF EdgeInv
  <2>1. ReplacedBy(tx[j].orig, j) /\ tx'[j] = tx[j]
    BY <1>2, <1>3 DEF GraphInv, EdgeInv
  <2>2. tx'[tx[j].orig] = tx[tx[j].orig]
    BY <1>1, <1>3 DEF Confirms
  <2> QED
    BY <2>1, <2>2 DEF ReplacedBy
<1>5. OnlyChildInv'
  BY <1>2, <1>3 DEF GraphInv, OnlyChildInv
<1>6. DeadInv'
  BY <1>1, <1>2 DEF GraphInv, DeadInv, Confirms, NoRow
<1>7. SentInv'
  BY <1>1, <1>2 DEF GraphInv, SentInv, Confirms, NoRow
<1>8. \A j \in TxIds : tx'[j].live => tx'[j].orig # probe
  BY <1>1, <1>3 DEF Confirms, NoTx, TxIds
<1>9. TaskLineage'
  BY <1>1, <1>8 DEF TaskLineage, CopyInv, StepInv, NewestInv, Childless, Confirms, RowSteps,
     UnconfirmedSteps, done
<1>10. ASSUME NEW i \in ToProcess', Underway(i)'
       PROVE  FALSE
  <2>1. i \in TxIds /\ i # probe /\ i \notin Gone /\ tx'[i] = tx[i]
    BY <1>1, <1>10 DEF ToProcess, Live, Underway, Confirms, NoRow
  <2>2. i \in ToProcess /\ Underway(i) /\ i # curId
    BY <1>1, <1>10, <2>1, LineageSelf DEF ToProcess, Live, Underway, Confirms, Gone
  <2>3. curId \in ToProcess /\ curId \in TxIds
    BY <1>1 DEF Confirms, ToProcess, Live
  <2>4. Before(curId, i) /\ Before(i, curId)
    BY <1>1, <2>2, <2>3 DEF FirstInv, Confirms
  <2> QED
    BY <1>2, <2>1, <2>3, <2>4, BeforeOnce
<1>11. FirstInv'
  BY <1>1, <1>10 DEF FirstInv, Confirms
<1> QED
  BY <1>4, <1>5, <1>6, <1>7, <1>9, <1>11 DEF GraphInv

(* What Replace does: the task's row, now old, leaves the queue, and a new   *)
(* row takes its place.                                                     *)
Replaces(old, new) ==
  /\ nextId \in TxIds /\ curId \in TxIds /\ curId # nextId
  /\ tx[curId].live /\ tx[curId].processing /\ Underway(curId)
  /\ ~tx[nextId].live
  /\ tx'[nextId] = new /\ tx'[curId] = old
  /\ \A i \in TxIds \ {nextId, curId} : tx'[i] = tx[i]
  /\ new.live /\ new.call = tx[curId].call /\ new.nonce = tx[curId].nonce
  /\ new.orig = curId /\ ~new.confirmed /\ ~new.started
  /\ old.live /\ old.call = tx[curId].call /\ old.nonce = tx[curId].nonce
  /\ old.signed = "yes" /\ old.broadcast /\ ~old.processing
  /\ old.orig = tx[curId].orig /\ ~old.confirmed

LEMMA ReplaceRows ==
  ASSUME TypeInv, PayInv, LineageInv, Replace
  PROVE  Replaces(Dequeued(cur), ReplacementOf(curId, cur)) /\ pc = "pending" /\ pc' = "top"
<1>1. /\ pc = "pending" /\ nextId <= MaxTx
      /\ tx' = [Save(curId, Dequeued(cur)) EXCEPT ![nextId] = ReplacementOf(curId, cur)]
      /\ pc' = "top"
  BY DEF Replace, Leave
<1>2. /\ IdInv /\ cur \in Row
      /\ curId \in TxIds /\ nextId \in TxIds /\ nextId \in Nat /\ tx \in [TxIds -> Row]
      /\ tx[curId].live /\ cur.live /\ cur.call = tx[curId].call
      /\ cur.signed = "yes" /\ cur.signed = tx[curId].signed
      /\ cur.nonce = tx[curId].nonce \/ tx[curId].signed = "no"
  BY <1>1 DEF PayInv, TableInv, TypeInv, TypeOK, TaskOK, TxIds, RowSteps, CurInv
<1>3. /\ cur.orig = tx[curId].orig /\ cur.confirmed = tx[curId].confirmed
      /\ cur.started = tx[curId].started /\ tx[curId].processing
      /\ cur.broadcast /\ cur.started /\ ~cur.confirmed
  BY <1>1 DEF LineageInv, CopyInv, StepInv, RowSteps, UnconfirmedSteps
<1> DEFINE old == Dequeued(cur)
           new == ReplacementOf(curId, cur)
<1>4. /\ new.live /\ new.call = tx[curId].call /\ new.nonce = tx[curId].nonce
      /\ new.orig = curId /\ ~new.confirmed /\ ~new.started
  BY <1>2 DEF ReplacementOf, NoRow
<1>5. /\ old.live /\ old.call = tx[curId].call /\ old.nonce = tx[curId].nonce
      /\ old.signed = "yes" /\ old.broadcast /\ ~old.processing
      /\ old.orig = tx[curId].orig /\ ~old.confirmed
  BY <1>2, <1>3, CopyEffects
<1>6. /\ tx'[nextId] = new /\ tx'[curId] = old /\ curId # nextId
      /\ \A i \in TxIds \ {nextId, curId} : tx'[i] = tx[i]
  BY <1>1, <1>2 DEF Save, IdInv
<1>7. ~tx[nextId].live /\ Underway(curId)
  BY <1>2, <1>3 DEF IdInv, Underway
<1> HIDE DEF old, new
<1>8. Replaces(old, new)
  BY <1>2, <1>3, <1>4, <1>5, <1>6, <1>7 DEF Replaces
<1> QED
  BY <1>1, <1>8 DEF old, new

(* A replacement is the only one of its row and is in the queue for it.     *)
LEMMA LineageReplace ==
  ASSUME TypeInv, PayInv, LineageInv, FirstInv, Replace
  PROVE  TaskLineage' /\ GraphInv' /\ FirstInv'
<1>1. PICK old, new : Replaces(old, new) /\ pc = "pending" /\ pc' = "top"
  BY ReplaceRows
<1>2. tx \in [TxIds -> Row] /\ GraphInv /\ Childless(curId)
  BY <1>1 DEF TypeInv, TypeOK, LineageInv, NewestInv, RowSteps
<1>4. /\ new.live /\ new.call = tx[curId].call /\ new.nonce = tx[curId].nonce
      /\ new.orig = curId /\ ~new.confirmed /\ ~new.started
  BY <1>1 DEF Replaces
<1>5. /\ old.live /\ old.call = tx[curId].call /\ old.nonce = tx[curId].nonce
      /\ old.signed = "yes" /\ old.broadcast /\ ~old.processing
      /\ old.orig = tx[curId].orig /\ ~old.confirmed
  BY <1>1 DEF Replaces
<1>6. /\ tx'[nextId] = new /\ tx'[curId] = old
      /\ \A i \in TxIds \ {nextId, curId} : tx'[i] = tx[i]
      /\ nextId \in TxIds /\ curId \in TxIds /\ curId # nextId
  BY <1>1 DEF Replaces
<1>3. tx[curId].live /\ tx[curId].processing /\ Underway(curId)
  BY <1>1 DEF Replaces
<1>7. ~tx[nextId].live
  BY <1>1 DEF Replaces
<1>8. ASSUME NEW j \in TxIds, tx[j].live, tx[j].orig # NoTx
      PROVE  tx[j].orig \in TxIds \ {nextId, curId}
  BY <1>2, <1>6, <1>7, <1>8 DEF GraphInv, EdgeInv, ReplacedBy, Childless, Row
<1>9. EdgeInv'
  <2> SUFFICES ASSUME NEW j \in TxIds, tx'[j].live, tx'[j].orig # NoTx
               PROVE  ReplacedBy(tx[j].orig, j)'
    BY DEF EdgeInv
  <2>1. CASE j = nextId
    BY <1>2, <1>4, <1>5, <1>6, <2>1 DEF ReplacedBy
  <2>2. CASE j # nextId
    <3> DEFINE i == tx[j].orig
    <3>1. /\ tx[j].live /\ tx'[j].orig = i /\ i # NoTx
          /\ tx'[j].call = tx[j].call /\ tx'[j].nonce = tx[j].nonce
      BY <1>2, <1>3, <1>5, <1>6, <2>2
    <3>2. ReplacedBy(i, j) /\ tx'[i] = tx[i]
      BY <1>2, <1>6, <1>8, <3>1 DEF GraphInv, EdgeInv
    <3> QED
      BY <3>1, <3>2 DEF ReplacedBy
  <2> QED
    BY <2>1, <2>2
<1>10. OnlyChildInv'
  <2> SUFFICES ASSUME NEW i \in TxIds, NEW j \in TxIds, tx'[i].live, tx'[j].live,
                      tx'[i].orig # NoTx, tx'[i].orig = tx'[j].orig
               PROVE  i = j
    BY DEF OnlyChildInv
  <2>1. \A k \in TxIds \ {nextId} : tx'[k].live => tx[k].live /\ tx'[k].orig = tx[k].orig
    BY <1>2, <1>3, <1>5, <1>6
  <2>2. \A k \in TxIds \ {nextId} : tx'[k].live => tx'[k].orig # curId
    BY <1>2, <2>1 DEF Childless
  <2>3. tx'[nextId].orig = curId
    BY <1>4, <1>6
  <2> QED
    BY <1>2, <2>1, <2>2, <2>3 DEF GraphInv, OnlyChildInv
<1>11. DeadInv' /\ SentInv'
  BY <1>2, <1>4, <1>5, <1>6 DEF GraphInv, DeadInv, SentInv
<1>12. ASSUME NEW i \in ToProcess', Underway(i)'
       PROVE  FALSE
  <2>1. i \in TxIds /\ i # nextId /\ i # curId /\ tx'[i] = tx[i]
    BY <1>4, <1>5, <1>6, <1>12 DEF ToProcess, Live, Underway
  <2>2. /\ i \in ToProcess /\ Underway(i)
        /\ curId \in ToProcess /\ Underway(curId)
    BY <1>3, <1>6, <1>12, <2>1 DEF ToProcess, Live, Underway
  <2>3. Before(curId, i) /\ Before(i, curId)
    BY <2>1, <2>2 DEF FirstInv
  <2> QED
    BY <1>2, <1>6, <2>1, <2>3, BeforeOnce
<1>13. FirstInv'
  BY <1>1, <1>12 DEF FirstInv, RowSteps
<1>14. TaskLineage'
  BY <1>1, NoRowStep DEF RowSteps
<1> QED
  BY <1>9, <1>10, <1>11, <1>13, <1>14 DEF GraphInv

(* A batch is a new row at the end of the queue. *)
LEMMA LineageGather ==
  ASSUME TypeInv, PayInv, LineageInv, FirstInv, GatherBatch
  PROVE  TaskLineage' /\ GraphInv' /\ FirstInv'
<1>1. PICK S \in SUBSET PendingTransfers : tx' = [tx EXCEPT ![nextId] = NewRow(S)]
  BY DEF GatherBatch
<1>2. pc = "gather" /\ pc' = pc /\ nextId <= MaxTx
  BY DEF GatherBatch, taskVars
<1>3. /\ IdInv /\ GraphInv /\ tx \in [TxIds -> Row] /\ nextId \in TxIds /\ nextId \in Nat
  BY <1>2 DEF PayInv, TableInv, TypeInv, TypeOK, TxIds, LineageInv
<1>4. /\ tx'[nextId].live /\ tx'[nextId].orig = NoTx
      /\ ~tx'[nextId].confirmed /\ ~tx'[nextId].started
  BY <1>1, <1>3 DEF NewRow, NoRow
<1>5. /\ \A i \in TxIds \ {nextId} : tx'[i] = tx[i]
      /\ ~tx[nextId].live
      /\ \A i \in TxIds : tx[i].live => i < nextId
  BY <1>1, <1>3 DEF IdInv
<1>6. EdgeInv'
  <2> SUFFICES ASSUME NEW j \in TxIds, tx'[j].live, tx'[j].orig # NoTx
               PROVE  ReplacedBy(tx[j].orig, j)'
    BY DEF EdgeInv
  <2>1. tx'[j] = tx[j] /\ tx[j].live
    BY <1>4, <1>5
  <2>2. ReplacedBy(tx[j].orig, j) /\ tx[j].orig \in TxIds
    BY <1>3, <2>1 DEF GraphInv, EdgeInv, Row
  <2>3. tx'[tx[j].orig] = tx[tx[j].orig]
    BY <1>5, <2>2 DEF ReplacedBy
  <2> QED
    BY <2>1, <2>2, <2>3 DEF ReplacedBy
<1>7. OnlyChildInv' /\ DeadInv' /\ SentInv'
  BY <1>3, <1>4, <1>5 DEF GraphInv, OnlyChildInv, DeadInv, SentInv
<1>8. TaskLineage'
  BY <1>2, NoRowStep DEF RowSteps
<1>9. FirstInv'
  <2> SUFFICES ASSUME NEW i \in ToProcess', Underway(i)', NEW j \in ToProcess' \ {i}
               PROVE  Before(i, j)'
    BY <1>2 DEF FirstInv, RowSteps
  <2>1. i \in TxIds /\ j \in TxIds /\ i # nextId /\ tx'[i] = tx[i]
    BY <1>4, <1>5 DEF ToProcess, Live, Underway
  <2>2. i \in ToProcess /\ Underway(i)
    BY <2>1 DEF ToProcess, Live, Underway
  <2>3. CASE j = nextId
    <3>1. i < nextId /\ (tx[i].orig > NoTx \/ tx[i].orig = NoTx)
      BY <1>3, <1>5, <2>1, <2>2 DEF ToProcess, Live, Row, TxIds, NoTx
    <3> QED
      BY <1>4, <2>1, <2>3, <3>1 DEF Before
  <2>4. CASE j # nextId
    <3>1. tx'[j] = tx[j] /\ j \in ToProcess
      BY <1>5, <2>1, <2>4 DEF ToProcess, Live
    <3> QED
      BY <2>1, <2>2, <3>1 DEF FirstInv, Before
  <2> QED
    BY <2>3, <2>4
<1> QED
  BY <1>6, <1>7, <1>8, <1>9 DEF GraphInv

(* While the service is down the cleanup removes an unsigned row, which     *)
(* nobody replaced.                                                         *)
LEMMA LineageCleanup ==
  ASSUME ~CleanupWhenUp, TypeInv, LineageInv, FirstInv, CleanupUnsent
  PROVE  TaskLineage' /\ GraphInv' /\ FirstInv'
<1>1. PICK d \in Unsent : Remove({d})
  BY DEF CleanupUnsent
<1>2. pc = "down" /\ pc' = pc
  BY DEF CleanupUnsent, taskVars
<1>3. /\ d \in TxIds /\ tx[d].live /\ tx[d].signed = "no" /\ GraphInv /\ tx \in [TxIds -> Row]
  BY DEF Unsent, Live, LineageInv, TypeInv, TypeOK
<1>4. tx'[d] = NoRow /\ \A i \in TxIds \ {d} : tx'[i] = tx[i]
  BY <1>1, <1>3 DEF Remove
<1>5. EdgeInv'
  <2> SUFFICES ASSUME NEW j \in TxIds, tx'[j].live, tx'[j].orig # NoTx
               PROVE  ReplacedBy(tx[j].orig, j)'
    BY DEF EdgeInv
  <2>1. tx'[j] = tx[j] /\ tx[j].live
    BY <1>4 DEF NoRow
  <2>2. ReplacedBy(tx[j].orig, j) /\ tx[j].orig \in TxIds
    BY <1>3, <2>1 DEF GraphInv, EdgeInv, Row
  <2>3. tx'[tx[j].orig] = tx[tx[j].orig]
    BY <1>3, <1>4, <2>2 DEF ReplacedBy
  <2> QED
    BY <2>1, <2>2, <2>3 DEF ReplacedBy
<1>6. OnlyChildInv' /\ DeadInv' /\ SentInv'
  BY <1>3, <1>4 DEF GraphInv, OnlyChildInv, DeadInv, SentInv, NoRow
<1>7. TaskLineage'
  BY <1>2, NoRowStep DEF RowSteps
<1>8. FirstInv'
  <2>1. \A i \in ToProcess' : i \in ToProcess /\ tx'[i] = tx[i]
    BY <1>4 DEF ToProcess, Live, NoRow
  <2> QED
    BY <1>2, <2>1 DEF FirstInv, RowSteps, Underway, Before
<1> QED
  BY <1>5, <1>6, <1>7, <1>8 DEF GraphInv

-----------------------------------------------------------------------------
(* One row at a time is under way.                                          *)

LEMMA LineageInit == Init => LineageInv /\ FirstInv
<1> SUFFICES ASSUME Init PROVE LineageInv /\ FirstInv
  OBVIOUS
<1>1. pc = "top" /\ \A i \in TxIds : tx[i] = NoRow
  BY DEF Init
<1>2. ~NoRow.live /\ NoRow.orig = NoTx
  BY DEF NoRow
<1>3. GraphInv
  BY <1>1, <1>2 DEF GraphInv, EdgeInv, OnlyChildInv, DeadInv, SentInv
<1>4. CopyInv /\ StepInv /\ NewestInv
  BY <1>1 DEF CopyInv, StepInv, NewestInv, RowSteps, UnconfirmedSteps
<1>5. FirstInv
  BY <1>1, <1>2 DEF FirstInv, ToProcess, Live, RowSteps
<1> QED
  BY <1>3, <1>4, <1>5 DEF LineageInv

(* The steps that keep the rows; the others have lemmas of their own.       *)
Keeping ==
  \/ GetNonce \/ Start \/ CheckOk \/ CheckWaits \/ Sign \/ Send \/ Sent \/ Poll
  \/ ReceiptTooFresh \/ ReceiptOfOriginal \/ StuckNoticed \/ GiveUp \/ Resend \/ StillPending
  \/ FinishConfirmed \/ FinishFailed \/ FinishUnknown \/ FinishUnsaved \/ StepFails
  \/ GatherFails \/ GatherEnds \/ NewTransfer \/ Skip \/ Crash \/ CrashAmongMarks \/ Restart
  \/ ChainStep
  \/ UNCHANGED vars

LEMMA NextCases ==
  ASSUME [Next]_vars
  PROVE  Keeping \/ Pick \/ ReceiptConfirmed \/ Replace \/ GatherBatch \/ CleanupUnsent
  BY DEF Next, Process, Env, Keeping

LEMMA KeepingMoves ==
  ASSUME ~AutomaticRecover, TypeInv, PayInv, LineageInv, Keeping
  PROVE  /\ \A i \in TxIds : RowMoves(i)
         /\ TaskLineage'
         /\ pc' \in RowSteps \ {"finish"} => pc \in RowSteps \ {"finish"} /\ curId' = curId
<1>1. CASE \/ GetNonce \/ CheckOk \/ CheckWaits \/ Send \/ Poll \/ ReceiptTooFresh
           \/ ReceiptOfOriginal \/ GiveUp \/ StillPending
  BY <1>1, LineageQuiet, StillMoves
<1>2. CASE Start \/ Sign \/ Sent \/ StuckNoticed \/ Resend
  BY <1>2, LineageSave
<1>3. CASE FinishConfirmed \/ FinishFailed \/ FinishUnknown \/ FinishUnsaved \/ StepFails
  <2>1. (\A i \in TxIds : RowMoves(i)) /\ pc' \notin RowSteps
    BY <1>3, LineageLeave DEF RowSteps
  <2> QED
    BY <2>1, NoRowStep
<1>4. CASE \/ GatherFails \/ GatherEnds \/ NewTransfer \/ Skip \/ Crash \/ CrashAmongMarks
           \/ Restart \/ ChainStep
           \/ UNCHANGED vars
  BY <1>4, LineageOutside, StillMoves
<1> QED
  BY <1>1, <1>2, <1>3, <1>4 DEF Keeping

LEMMA LineageStep ==
  ASSUME ~AutomaticRecover, ~CleanupWhenUp, TypeInv, PayInv, LineageInv, FirstInv, [Next]_vars
  PROVE  LineageInv' /\ FirstInv'
<1>0. CurInv /\ NonceInv /\ GraphInv
  BY DEF PayInv, TableInv, LineageInv
<1> SUFFICES TaskLineage' /\ GraphInv' /\ FirstInv'
  BY DEF LineageInv, TaskLineage
<1>1. CASE Keeping
  BY <1>0, <1>1, KeepingMoves, MovesKeepGraph, MovesKeepFirst
<1>2. CASE Pick
  <2>1. \A i \in TxIds : RowMoves(i)
    BY <1>2, StillMoves DEF Pick, NoDbChange, dbVars
  <2> QED
    BY <1>0, <1>2, <2>1, LineagePick, MovesKeepGraph
<1>3. CASE ReceiptConfirmed
  BY <1>3, LineageConfirm
<1>4. CASE Replace
  BY <1>4, LineageReplace
<1>5. CASE GatherBatch
  BY <1>5, LineageGather
<1>6. CASE CleanupUnsent
  BY <1>6, LineageCleanup
<1> QED
  BY <1>1, <1>2, <1>3, <1>4, <1>5, <1>6, NextCases

LEMMA FirstIsOnly ==
  ASSUME TypeInv, FirstInv
  PROVE  OneInFlight
<1> SUFFICES ASSUME NEW i \in ToProcess, NEW j \in ToProcess, Underway(i), Underway(j), i # j
             PROVE  FALSE
  BY DEF OneInFlight
<1>1. tx \in [TxIds -> Row] /\ i \in TxIds /\ j \in TxIds
  BY DEF TypeInv, TypeOK, ToProcess, Live
<1>2. Before(i, j) /\ Before(j, i)
  BY DEF FirstInv
<1> QED
  BY <1>1, <1>2, BeforeOnce

(* Two rows of the service never compete for a nonce, whatever is replaced, *)
(* skipped, gathered or interrupted: a row that was started is first in the *)
(* order of the queue until it is confirmed or given up.                    *)
THEOREM OneRowInFlight ==
  ASSUME ~AutomaticRecover, ~CleanupWhenUp
  PROVE  Spec => []OneInFlight
<1> DEFINE I == TypeInv /\ PayInv /\ LineageInv /\ FirstInv
<1>1. Init => I
  BY TypeInit, PayInit, LineageInit
<1>2. I /\ [Next]_vars => I'
  BY TypeStep, PayStep, LineageStep
<1>3. I => OneInFlight
  BY FirstIsOnly
<1> QED
  BY <1>1, <1>2, <1>3, PTL DEF Spec

-----------------------------------------------------------------------------
(* What is final stays.                                                     *)

FinalStays ==
  /\ final <= final'
  /\ \A k \in DOMAIN chain : k <= final => k \in DOMAIN chain' /\ chain'[k] = chain[k]

LEMMA ChainStays ==
  ASSUME TypeInv, FinalInv, [Next]_vars
  PROVE  FinalStays /\ FinalInv'
<1>1. chain \in Seq(Signed) /\ final \in Nat /\ final <= Len(chain)
  BY DEF TypeInv, TypeOK, ChainTypeOK, FinalInv
<1>2. CASE UNCHANGED <<chain, final>>
  BY <1>1, <1>2 DEF FinalStays, FinalInv
<1>3. CASE Mine
  BY <1>1, <1>3 DEF Mine, FinalStays, FinalInv
<1>4. CASE ExternalTx
  <2>1. External(LatestNonce) \in Signed
    BY <1>1 DEF External, LatestNonce, Signed
  <2> QED
    BY <1>1, <1>4, <2>1 DEF ExternalTx, FinalStays, FinalInv
<1>5. CASE Finalize
  BY <1>1, <1>5 DEF Finalize, FinalStays, FinalInv
<1>6. CASE Reorg
  <2>1. PICK n \in Nat : Len(chain) = n + 1
    <3>1. Len(chain) \in Nat /\ Len(chain) > 0
      BY <1>1, <1>6 DEF Reorg
    <3>2. Len(chain) - 1 \in Nat /\ Len(chain) = (Len(chain) - 1) + 1
      BY <3>1
    <3> QED
      BY <3>2
  <2>2. chain' = SubSeq(chain, 1, Len(chain) - 1) /\ final' = final /\ final < n + 1
    BY <1>6, <2>1 DEF Reorg
  <2>3. /\ chain' \in Seq(Signed) /\ Len(chain') = n
        /\ \A k \in 1..n : chain'[k] = chain[k]
    BY <1>1, <2>1, <2>2, DropLast
  <2>4. DOMAIN chain = 1..(n + 1) /\ DOMAIN chain' = 1..n
    BY <1>1, <2>1, <2>3
  <2> QED
    BY <1>1, <2>2, <2>3, <2>4 DEF FinalStays, FinalInv
<1> QED
  BY <1>2, <1>3, <1>4, <1>5, <1>6
  DEF Next, Process, Env, ChainStep, ChainNext, vars, chainVars, NoChainChange,
      Pick, GetNonce, Start, CheckOk, CheckWaits, Sign, Send, Sent, Poll, ReceiptConfirmed,
      ReceiptTooFresh, ReceiptOfOriginal, StuckNoticed, GiveUp, Replace, Resend, StillPending,
      FinishConfirmed, FinishFailed, FinishUnknown, FinishUnsaved, StepFails, GatherBatch,
      GatherFails, GatherEnds, NewTransfer, Skip, Crash, CrashAmongMarks, Stop, Restart,
      CleanupUnsent

LEMMA FinalPaysStays ==
  ASSUME TypeInv, TypeInv', FinalStays, NEW S, FinalPays(S)
  PROVE  \E k \in DOMAIN chain' : k <= final' /\ chain'[k].call = S
<1>1. final \in Nat /\ final' \in Nat /\ chain \in Seq(Signed)
  BY DEF TypeInv, TypeOK, ChainTypeOK
<1>2. PICK k \in DOMAIN chain : k <= final /\ chain[k].call = S
  BY DEF FinalPays
<1>3. k \in Nat
  BY <1>1
<1> QED
  BY <1>1, <1>2, <1>3 DEF FinalStays

-----------------------------------------------------------------------------
(* How most steps move the status of the transfers.                         *)

(* Transfer t stays, or is asked for or marked, or the task leaves its row  *)
(* with a result.                                                           *)
StatusMoves(t) ==
  \/ transfer'[t] = transfer[t]
  \/ /\ transfer'[t].txid = transfer[t].txid
     /\ ~Ended(t) /\ transfer'[t].st \in {"open", "marked"}
  \/ /\ transfer[t].txid = curId /\ transfer'[t].txid = curId
     /\ pc = "finish" /\ pc' \notin RowSteps
     /\ ~tx'[curId].processing
     /\ \/ transfer'[t].st = "paid" /\ tx[curId].confirmed
        \/ transfer'[t].st = "failed" /\ (tx[curId].signed # "no" \/ AllowSkip)

TableReport == LinkInv /\ KnownInv /\ EndedInv /\ ConfirmedInv /\ PaidIsFinal

LEMMA ReportKept ==
  ASSUME TypeInv, TypeInv', PayInv, LineageInv, TableReport, FinalStays,
         \A i \in TxIds : RowMoves(i),
         \A t \in Transfers : StatusMoves(t),
         \A h \in pool' : h \in pool \/ h.call = {} \/ FromRow(h),
         pc' \in RowSteps => \/ pc \in RowSteps /\ curId' = curId
                             \/ curId' \in TxIds /\ tx[curId'].processing
  PROVE  TableReport'
<1>1. /\ tx \in [TxIds -> Row] /\ transfer \in [Transfers -> TransferRow]
      /\ transfer' \in [Transfers -> TransferRow]
      /\ NonceInv /\ GraphInv /\ NewestInv
      /\ pc = "finish" => curId \in TxIds /\ tx[curId].live
  BY DEF TypeInv, TypeOK, TaskOK, PayInv, TableInv, CurInv, LineageInv, RowSteps
<1>2. \A i \in TxIds : tx'[i].live => tx[i].live /\ tx'[i].call = tx[i].call
  BY <1>1 DEF RowMoves, NonceInv
<1>3. ASSUME NEW t \in Transfers
      PROVE  /\ transfer'[t].txid = transfer[t].txid
             /\ transfer'[t].st = "absent" => transfer[t].st = "absent"
  BY <1>3 DEF StatusMoves
<1>4. LinkInv'
  <2> SUFFICES ASSUME NEW t \in Transfers
               PROVE  /\ transfer'[t].txid \in TxIds /\ tx'[transfer'[t].txid].live
                           => t \in tx'[transfer'[t].txid].call
                      /\ transfer'[t].st = "absent" => transfer'[t].txid = NoTx
    BY DEF LinkInv
  <2> QED
    BY <1>2, <1>3 DEF TableReport, LinkInv
<1>5. KnownInv'
  BY <1>2, <1>3 DEF TableReport, KnownInv, FromRow
<1>6. ConfirmedInv'
  <2> SUFFICES ASSUME NEW i \in ConfirmedRows'
               PROVE  tx'[i].signed # "no" /\ FinalPays(tx[i].call)'
    BY DEF ConfirmedInv
  <2>1. i \in ConfirmedRows /\ i \in TxIds /\ tx'[i].call = tx[i].call /\ tx'[i].signed # "no"
    BY <1>2 DEF ConfirmedRows, Live, RowMoves, TableReport, ConfirmedInv
  <2>2. FinalPays(tx[i].call)
    BY <2>1 DEF TableReport, ConfirmedInv
  <2> QED
    BY <2>1, <2>2, FinalPaysStays DEF FinalPays
<1>7. PaidIsFinal'
  <2> SUFFICES ASSUME NEW t \in Transfers, transfer'[t].st = "paid"
               PROVE  \E k \in DOMAIN chain' : t \in chain'[k].call /\ k <= final'
    BY DEF PaidIsFinal, Payments
  <2>1. \E S : t \in S /\ FinalPays(S)
    <3>1. CASE transfer[t].st = "paid"
      BY <3>1 DEF TableReport, PaidIsFinal, Payments, FinalPays
    <3>2. CASE transfer[t].st # "paid"
      <4>1. transfer[t].txid = curId /\ pc = "finish" /\ tx[curId].confirmed
        BY <3>2 DEF StatusMoves
      <4>2. t \in tx[curId].call /\ FinalPays(tx[curId].call)
        BY <1>1, <4>1 DEF TableReport, LinkInv, ConfirmedInv, ConfirmedRows, Live
      <4> QED
        BY <4>2
    <3> QED
      BY <3>1, <3>2
  <2> QED
    BY <2>1, FinalPaysStays
<1>8. EndedInv'
  <2> SUFFICES ASSUME NEW t \in Transfers, NEW i, i = transfer'[t].txid,
                      Ended(t)', i \in TxIds, tx'[i].live
               PROVE  /\ ~tx'[i].processing
                      /\ \A j \in TxIds : tx'[j].live => tx'[j].orig # i
                      /\ pc' \in RowSteps => curId' # i
                      /\ tx'[i].signed = "no" => AllowSkip /\ transfer'[t].st = "failed"
    BY DEF EndedInv, Childless
  <2>1. i = transfer[t].txid /\ tx[i].live /\ i # NoTx
    BY <1>2, <1>3 DEF NoTx, TxIds
  <2>2. Childless(i) => \A j \in TxIds : tx'[j].live => tx'[j].orig # i
    BY DEF Childless, RowMoves
  <2>3. CASE transfer'[t] = transfer[t]
    <3>1. /\ ~tx[i].processing /\ Childless(i) /\ (pc \in RowSteps => curId # i)
          /\ tx[i].signed = "no" => AllowSkip /\ transfer'[t].st = "failed"
      BY <2>1, <2>3 DEF TableReport, EndedInv, Ended
    <3> QED
      BY <2>1, <2>2, <3>1 DEF RowMoves
  <2>4. CASE transfer'[t] # transfer[t]
    <3>1. /\ i = curId /\ pc = "finish" /\ pc' \notin RowSteps /\ ~tx'[i].processing
          /\ \/ transfer'[t].st = "paid" /\ tx[i].confirmed
             \/ transfer'[t].st = "failed" /\ (tx[i].signed # "no" \/ AllowSkip)
      BY <2>1, <2>4 DEF StatusMoves, Ended
    <3>2. Childless(i)
      BY <1>1, <3>1 DEF NewestInv, RowSteps
    <3>3. tx[i].confirmed => tx[i].signed # "no"
      BY <2>1 DEF TableReport, ConfirmedInv, ConfirmedRows, Live
    <3>4. tx'[i].signed = "no" => tx[i].signed = "no"
      BY <2>1 DEF RowMoves
    <3> QED
      BY <2>2, <3>1, <3>2, <3>3, <3>4
  <2> QED
    BY <2>3, <2>4
<1> QED
  BY <1>4, <1>5, <1>6, <1>7, <1>8 DEF TableReport

LEMMA KeepingStatus ==
  ASSUME TypeInv, PayInv, LineageInv, LinkInv, SkipInv, ~AutomaticRecover, Keeping \/ Pick
  PROVE  \A t \in Transfers : StatusMoves(t)
<1>1. /\ transfer \in [Transfers -> TransferRow] /\ cur \in Row /\ tx \in [TxIds -> Row]
      /\ CopyInv /\ StepInv /\ CurInv
      /\ pc = "finish" => curId \in TxIds /\ tx[curId].live
  BY DEF TypeInv, TypeOK, TaskOK, LineageInv, PayInv, CurInv, RowSteps
<1>2. CASE transfer' = transfer
  BY <1>2 DEF StatusMoves
<1>3. ASSUME GatherFails \/ CrashAmongMarks, NEW t \in Transfers
      PROVE  StatusMoves(t)
  <2>1. /\ transfer' \in [Transfers -> TransferRow]
        /\ transfer'[t].txid = transfer[t].txid
        /\ \/ transfer'[t].st = transfer[t].st
           \/ transfer[t].st = "open" /\ transfer'[t].st = "marked"
    BY <1>1, <1>3, MarkStep, ReportTyping
  <2>2. transfer'[t].st = transfer[t].st => transfer'[t] = transfer[t]
    BY <1>1, <2>1 DEF TransferRow
  <2> QED
    BY <2>1, <2>2 DEF StatusMoves, Ended
<1>4. CASE NewTransfer
  BY <1>1, <1>4 DEF NewTransfer, LinkInv, StatusMoves, Ended, TransferRow
<1>5. ASSUME FinishConfirmed \/ FinishFailed, transfer' # transfer, NEW t \in Transfers
      PROVE  StatusMoves(t)
  <2>1. /\ pc = "finish" /\ pc' \notin RowSteps /\ tx' = Save(curId, Dequeued(cur))
        /\ \/ transfer'[t] = transfer[t]
           \/ /\ transfer[t].txid = curId /\ transfer'[t].txid = curId
              /\ \/ res = "Confirmed" /\ transfer'[t].st = "paid"
                 \/ res \in {"NeedRetry", "InternalError"} /\ transfer'[t].st = "failed"
    BY <1>1, <1>5 DEF FinishConfirmed, FinishFailed, Leave, RowSteps, TransfersOf, TransferRow,
                     Report
  <2>2. ~tx'[curId].processing
    <3>1. tx' = [tx EXCEPT ![curId] = Dequeued(cur)] /\ curId \in TxIds
      BY <1>1, <2>1 DEF Save
    <3>2. ~Dequeued(cur).processing
      BY <1>1, CopyEffects
    <3> QED
      BY <1>1, <3>1, <3>2
  <2>3. res = "Confirmed" => tx[curId].confirmed
    BY <1>1, <2>1 DEF CopyInv, StepInv, RowSteps
  <2>4. res \in {"NeedRetry", "InternalError"} => tx[curId].signed # "no" \/ AllowSkip
    BY <1>1, <2>1 DEF SkipInv, CurInv, RowSteps
  <2> QED
    BY <2>1, <2>2, <2>3, <2>4 DEF StatusMoves
<1> QED
  BY <1>2, <1>3, <1>4, <1>5
  DEF Keeping, Pick, GetNonce, Start, CheckOk, CheckWaits, Sign, Send, Sent, Poll, ReceiptTooFresh,
      ReceiptOfOriginal, StuckNoticed, GiveUp, Resend, StillPending, FinishUnknown, FinishUnsaved,
      StepFails, GatherEnds, Skip, Crash, CrashAmongMarks, Stop, Restart, ChainStep, NoDbChange,
      dbVars, vars

LEMMA KeepingPool ==
  ASSUME TypeInv, PayInv, Keeping \/ Pick
  PROVE  \A h \in pool' : h \in pool \/ h.call = {} \/ FromRow(h)
<1>1. CASE pool' = pool
  BY <1>1
<1>2. CASE Send \/ Resend
  <2>1. FromRow(Hash(cur)) /\ (Accept(Hash(cur)) \/ pool' = pool)
    BY <1>2, HashOfRow DEF Send, Resend, PayInv
  <2> QED
    BY <2>1 DEF Accept
<1>3. CASE Reorg
  <2>1. chain \in Seq(Signed) /\ final \in Nat /\ Len(chain) > final
    BY <1>3 DEF Reorg, TypeInv, TypeOK, ChainTypeOK
  <2>2. Len(chain) \in DOMAIN chain
    BY <2>1
  <2>3. chain[Len(chain)].call = {} \/ chain[Len(chain)] \in pool
    BY <2>2 DEF PayInv, ChainInv
  <2> QED
    BY <1>3, <2>3 DEF Reorg
<1> QED
  BY <1>1, <1>2, <1>3
  DEF Keeping, Pick, GetNonce, Start, CheckOk, CheckWaits, Sign, Sent, Poll, ReceiptTooFresh,
      ReceiptOfOriginal, StuckNoticed, GiveUp, StillPending, FinishConfirmed, FinishFailed,
      FinishUnknown, FinishUnsaved, StepFails, GatherFails, GatherEnds, NewTransfer, Skip, Crash,
      CrashAmongMarks, Stop,
      Restart, ChainStep, ChainNext, Mine, ExternalTx, Finalize, NoChainChange, chainVars, vars

(* Which row the task holds after such a step. *)
LEMMA KeepingTask ==
  ASSUME TypeInv, Keeping \/ Pick, pc' \in RowSteps
  PROVE  \/ pc \in RowSteps /\ curId' = curId
         \/ curId' \in TxIds /\ tx[curId'].processing
<1>1. CASE Pick
  BY <1>1 DEF Pick, NextToProcess, ToProcess, Live, Goto, RowSteps
<1>2. CASE Keeping
  BY <1>2
  DEF Keeping, GetNonce, Start, CheckOk, CheckWaits, Sign, Send, Sent, Poll, ReceiptTooFresh,
      ReceiptOfOriginal, StuckNoticed, GiveUp, Resend, StillPending, FinishConfirmed, FinishFailed,
      FinishUnknown, FinishUnsaved, StepFails, GatherFails, GatherEnds, NewTransfer, Skip, Crash,
      CrashAmongMarks, Stop,
      Restart, ChainStep, Leave, Goto, RowSteps, taskVars, vars
<1> QED
  BY <1>1, <1>2

(* Without the user's skip nothing but a signed row fails. *)
LEMMA SkipStep ==
  ASSUME TypeInv, PayInv, SkipInv, [Next]_vars
  PROVE  SkipInv'
<1> SUFFICES ASSUME ~AllowSkip
             PROVE  /\ \A i \in TxIds : info'[i] # "skip"
                    /\ pc' = "finish" => res' # "InternalError"
                    /\ pc' = "finish" /\ res' = "NeedRetry" => cur'.signed # "no"
  BY DEF SkipInv
<1>1. /\ info \in [TxIds -> {"none", "shown", "skip"}] /\ \A i \in TxIds : info[i] # "skip"
      /\ pc = "finish" => res # "InternalError"
      /\ pc = "finish" /\ res = "NeedRetry" => cur.signed # "no"
  BY DEF SkipInv, TypeInv, TypeOK
<1>2. \A i \in TxIds : info'[i] # "skip"
  <2>1. \/ info' = info
        \/ \E i : ShowInfo(i)
        \/ DropInfo(curId)
        \/ info' = [i \in TxIds |-> "none"]
    BY DEF Next, Process, Env, ChainStep, vars,
      Pick, GetNonce, Start, CheckOk, CheckWaits, Sign, Send, Sent, Poll, ReceiptConfirmed,
      ReceiptTooFresh, ReceiptOfOriginal, StuckNoticed, GiveUp, Replace, Resend, StillPending,
      FinishConfirmed, FinishFailed, FinishUnknown, FinishUnsaved, StepFails, GatherBatch,
      GatherFails, GatherEnds, NewTransfer, Skip, Crash, CrashAmongMarks, Stop, Restart,
      CleanupUnsent
  <2> QED
    BY <1>1, <2>1 DEF ShowInfo, DropInfo
<1>3. CASE pc' = "finish"
  <2>1. \/ UNCHANGED taskVars
        \/ res' \in {"Wait", "Confirmed", "Unknown", "DoNotSave"}
        \/ GiveUp
    BY <1>1, <1>3 DEF Next, Process, Env, ChainStep, vars, taskVars, Goto, Result, Leave, AfterSign,
      Pick, NextToProcess, ToProcess, Live,
      GetNonce, Start, CheckOk, CheckWaits, Sign, Send, Sent, Poll, ReceiptConfirmed,
      ReceiptTooFresh, ReceiptOfOriginal, StuckNoticed, Replace, Resend, StillPending,
      FinishConfirmed, FinishFailed, FinishUnknown, FinishUnsaved, StepFails, GatherBatch,
      GatherFails, GatherEnds, NewTransfer, Skip, Crash, CrashAmongMarks, Stop, Restart,
      CleanupUnsent
  <2>2. GiveUp => res' \in {"DoNotSave", "NeedRetry"} /\ cur'.signed = "yes"
    BY DEF GiveUp, Result, PayInv, CurInv
  <2>3. CASE UNCHANGED taskVars
    BY <1>1, <1>2, <1>3, <2>3 DEF taskVars
  <2>4. CASE res' \in {"Wait", "Confirmed", "Unknown", "DoNotSave"}
    BY <1>2, <1>3, <2>4
  <2>5. CASE GiveUp
    <3>1. res' # "InternalError" /\ cur'.signed # "no"
      BY <2>2, <2>5
    <3> QED
      BY <1>2, <3>1
  <2> QED
    BY <2>1, <2>3, <2>4, <2>5
<1> QED
  BY <1>2, <1>3

-----------------------------------------------------------------------------
(* The steps that write references or rows of their own.                    *)

(* What the task works on, and what it replaced, is not ended.              *)
LEMMA NotEnded ==
  ASSUME TypeInv, TableReport, NEW t \in Transfers,
         LET i == transfer[t].txid IN
           /\ i \in TxIds /\ tx[i].live
           /\ (pc \in RowSteps /\ i = curId) \/ ~Childless(i)
  PROVE  ~Ended(t)
  BY DEF TableReport, EndedInv

LEMMA ReportConfirm ==
  ASSUME TypeInv, PayInv, LineageInv, TableReport, ReceiptConfirmed
  PROVE  TableReport'
<1> DEFINE done == cur'
<1>1. /\ Confirms(done) /\ pc = "receipt"
      /\ ProbeRow.call = tx[probe].call /\ MinedFinal(Hash(ProbeRow))
  BY ConfirmDone
<1> HIDE DEF done
<1>2. /\ tx \in [TxIds -> Row] /\ transfer \in [Transfers -> TransferRow] /\ GraphInv
      /\ probe \in TxIds /\ curId \in TxIds /\ tx[probe].live /\ tx[curId].live
      /\ UNCHANGED chainVars
  BY <1>1 DEF TypeInv, TypeOK, LineageInv, Confirms, ReceiptConfirmed, NoChainChange
<1>3. PICK root \in Roots(probe) : Remap(root, probe)
  BY DEF ReceiptConfirmed
<1>4. /\ root \in TxIds /\ root \in Lineage(probe)
      /\ tx[root].live /\ tx[root].call = tx[probe].call
  BY <1>2, <1>3, LineageCall DEF Roots, Lineage, GraphInv
<1>5. /\ \A t \in Transfers :
           /\ transfer'[t].st = transfer[t].st
           /\ transfer'[t].txid = IF transfer[t].txid = root THEN probe ELSE transfer[t].txid
  BY <1>2, <1>3 DEF Remap, TransferRow
<1>6. probe = curId \/ ~Childless(probe)
  BY <1>1, <1>2 DEF Confirms, Childless
<1>7. root = probe \/ ~Childless(root)
  <2> SUFFICES ASSUME root # probe
               PROVE  ~Childless(root)
    OBVIOUS
  <2>1. PICK j \in Lineage(probe) : tx[j].orig = root
    BY <1>2, <1>4, LineageChild
  <2>2. j \in TxIds /\ tx[j].live
    BY <1>2, <1>4, <2>1 DEF Lineage, GraphInv, DeadInv, NoTx, TxIds
  <2> QED
    BY <2>1, <2>2 DEF Childless
<1>8. ASSUME NEW t \in Transfers, transfer[t].txid \in {root, probe}
      PROVE  ~Ended(t)
  BY <1>1, <1>2, <1>4, <1>6, <1>7, <1>8, NotEnded DEF RowSteps
<1>9. \A i \in TxIds : tx'[i].live => tx[i].live /\ tx'[i].call = tx[i].call
  BY <1>1, <1>2 DEF Confirms, NoRow
<1>10. LinkInv'
  <2> SUFFICES ASSUME NEW t \in Transfers
               PROVE  /\ transfer'[t].txid \in TxIds /\ tx'[transfer'[t].txid].live
                           => t \in tx'[transfer'[t].txid].call
                      /\ transfer'[t].st = "absent" => transfer'[t].txid = NoTx
    BY DEF LinkInv
  <2>1. LET i == transfer[t].txid IN
          /\ i \in TxIds /\ tx[i].live => t \in tx[i].call
          /\ transfer[t].st = "absent" => i = NoTx
    BY DEF TableReport, LinkInv
  <2>2. root # NoTx
    BY <1>4 DEF NoTx, TxIds
  <2> QED
    BY <1>2, <1>4, <1>5, <1>9, <2>1, <2>2
<1>11. KnownInv'
  BY <1>2, <1>5, <1>9 DEF TableReport, KnownInv, chainVars
<1>12. PaidIsFinal'
  BY <1>2, <1>5 DEF TableReport, PaidIsFinal, Payments, chainVars
<1>13. ConfirmedInv'
  <2>1. FinalPays(tx[probe].call)
    BY <1>1 DEF MinedFinal, Hash, FinalPays
  <2>2. \A S : FinalPays(S)' <=> FinalPays(S)
    BY <1>2 DEF FinalPays, chainVars
  <2> SUFFICES ASSUME NEW i \in TxIds, tx'[i].live, tx'[i].confirmed
               PROVE  tx'[i].signed # "no" /\ FinalPays(tx'[i].call)
    BY <2>2 DEF ConfirmedInv, ConfirmedRows, Live, FinalPays
  <2>3. CASE i = probe
    BY <1>1, <1>9, <2>1, <2>3 DEF Confirms
  <2>4. CASE i # probe
    <3>1. tx'[i] = tx[i]
      BY <1>1, <2>4 DEF Confirms, NoRow
    <3> QED
      BY <3>1 DEF TableReport, ConfirmedInv, ConfirmedRows, Live
  <2> QED
    BY <2>3, <2>4
<1>14. EndedInv'
  <2> SUFFICES ASSUME NEW t \in Transfers, NEW i, i = transfer'[t].txid,
                      Ended(t)', i \in TxIds, tx'[i].live
               PROVE  /\ ~tx'[i].processing
                      /\ \A j \in TxIds : tx'[j].live => tx'[j].orig # i
                      /\ pc' \in RowSteps => curId' # i
                      /\ tx'[i].signed = "no" => AllowSkip /\ transfer'[t].st = "failed"
    BY DEF EndedInv, Childless
  <2>1. Ended(t) /\ transfer[t].txid \notin {root, probe}
    BY <1>5, <1>8 DEF Ended
  <2>2. i = transfer[t].txid /\ i # probe
    BY <1>5, <2>1
  <2>3. tx'[i] = tx[i] /\ tx[i].live
    BY <1>1, <2>2 DEF Confirms, NoRow
  <2>4. /\ ~tx[i].processing /\ Childless(i)
        /\ tx[i].signed = "no" => AllowSkip /\ transfer[t].st = "failed"
    BY <2>1, <2>2, <2>3 DEF TableReport, EndedInv
  <2>5. ASSUME NEW j \in TxIds, tx'[j].live, tx'[j].orig = i
        PROVE  FALSE
    <3>1. tx'[j] = tx[j]
      BY <1>1, <2>5, ConfirmCuts DEF NoTx, TxIds
    <3> QED
      BY <2>4, <2>5, <3>1 DEF Childless
  <2>6. curId' = probe
    BY <1>1 DEF Confirms
  <2> QED
    BY <1>5, <2>2, <2>3, <2>4, <2>5, <2>6
<1> QED
  BY <1>10, <1>11, <1>12, <1>13, <1>14 DEF TableReport

LEMMA ReportReplace ==
  ASSUME TypeInv, PayInv, LineageInv, TableReport, Replace
  PROVE  TableReport'
<1>1. PICK old, new : Replaces(old, new) /\ pc = "pending" /\ pc' = "top"
  BY ReplaceRows
<1>2. /\ tx \in [TxIds -> Row] /\ transfer' = transfer /\ UNCHANGED chainVars
      /\ \A t \in Transfers : transfer[t].txid < nextId
      /\ nextId \in TxIds /\ nextId \in Nat
  BY <1>1 DEF TypeInv, TypeOK, Replace, NoChainChange, PayInv, TableInv, IdInv, Replaces, TxIds
<1>3. /\ tx'[nextId] = new /\ tx'[curId] = old
      /\ \A i \in TxIds \ {nextId, curId} : tx'[i] = tx[i]
      /\ nextId \in TxIds /\ curId \in TxIds /\ tx[curId].live
      /\ new.call = tx[curId].call /\ new.orig = curId /\ ~new.confirmed
      /\ old.call = tx[curId].call /\ old.orig = tx[curId].orig /\ ~old.confirmed
  BY <1>1 DEF Replaces
<1>4. \A t \in Transfers : transfer[t].txid # nextId
  BY <1>2
<1>5. LinkInv'
  BY <1>2, <1>3, <1>4 DEF TableReport, LinkInv
<1>6. KnownInv'
  BY <1>2, <1>3 DEF TableReport, KnownInv, chainVars
<1>7. PaidIsFinal'
  BY <1>2 DEF TableReport, PaidIsFinal, Payments, chainVars
<1>8. ConfirmedInv'
  <2>1. \A i \in ConfirmedRows' : i \in ConfirmedRows /\ tx'[i] = tx[i]
    BY <1>3 DEF ConfirmedRows, Live
  <2>2. \A S : FinalPays(S)' <=> FinalPays(S)
    BY <1>2 DEF FinalPays, chainVars
  <2> QED
    BY <2>1, <2>2 DEF TableReport, ConfirmedInv, FinalPays
<1>9. EndedInv'
  <2> SUFFICES ASSUME NEW t \in Transfers, NEW i, i = transfer[t].txid,
                      Ended(t), i \in TxIds, tx'[i].live
               PROVE  /\ ~tx'[i].processing
                      /\ \A j \in TxIds : tx'[j].live => tx'[j].orig # i
                      /\ tx'[i].signed = "no" => AllowSkip /\ transfer[t].st = "failed"
    BY <1>1, <1>2 DEF EndedInv, Childless, Ended, RowSteps
  <2>1. i # nextId
    BY <1>4
  <2>2. i # curId
    BY <1>1, <1>3 DEF TableReport, EndedInv, RowSteps
  <2>3. /\ tx'[i] = tx[i] /\ ~tx[i].processing /\ Childless(i)
        /\ tx[i].signed = "no" => AllowSkip /\ transfer[t].st = "failed"
    BY <1>3, <2>1, <2>2 DEF TableReport, EndedInv
  <2>4. \A j \in TxIds : tx'[j].live => tx'[j].orig # i
    BY <1>3, <2>2, <2>3 DEF Childless
  <2> QED
    BY <2>3, <2>4
<1> QED
  BY <1>5, <1>6, <1>7, <1>8, <1>9 DEF TableReport

LEMMA ReportGather ==
  ASSUME TypeInv, PayInv, LineageInv, TableReport, GatherBatch
  PROVE  TableReport'
<1>1. PICK S \in SUBSET PendingTransfers :
        /\ tx' = [tx EXCEPT ![nextId] = NewRow(S)]
        /\ transfer' = [t \in Transfers |->
                          IF t \in S THEN [transfer[t] EXCEPT !.txid = nextId]
                          ELSE transfer[t]]
  BY DEF GatherBatch
<1>2. /\ tx \in [TxIds -> Row] /\ transfer \in [Transfers -> TransferRow] /\ UNCHANGED chainVars
      /\ \A t \in Transfers : transfer[t].txid < nextId
      /\ nextId \in TxIds /\ nextId \in Nat /\ ~tx[nextId].live
      /\ pc = "gather" /\ pc' = pc /\ GraphInv
  BY DEF TypeInv, TypeOK, GatherBatch, NoChainChange, PayInv, TableInv, IdInv, TxIds, taskVars,
         LineageInv
<1>3. /\ tx'[nextId].live /\ tx'[nextId].call = S /\ tx'[nextId].orig = NoTx
      /\ ~tx'[nextId].confirmed
      /\ \A i \in TxIds \ {nextId} : tx'[i] = tx[i]
  BY <1>1, <1>2 DEF NewRow, NoRow
<1>4. \A t \in Transfers : transfer[t].txid # nextId
  BY <1>2
<1>5. \A t \in S : t \in Transfers /\ transfer[t].st = "open"
  BY DEF PendingTransfers
<1>6. \A t \in Transfers :
        /\ transfer'[t].st = transfer[t].st
        /\ transfer'[t].txid = IF t \in S THEN nextId ELSE transfer[t].txid
  BY <1>1, <1>2 DEF TransferRow
<1>7. LinkInv'
  <2> SUFFICES ASSUME NEW t \in Transfers
               PROVE  /\ transfer'[t].txid \in TxIds /\ tx'[transfer'[t].txid].live
                           => t \in tx'[transfer'[t].txid].call
                      /\ transfer'[t].st = "absent" => transfer'[t].txid = NoTx
    BY DEF LinkInv
  <2>1. CASE t \in S
    BY <1>3, <1>5, <1>6, <2>1
  <2>2. CASE t \notin S
    BY <1>3, <1>4, <1>6, <2>2 DEF TableReport, LinkInv
  <2> QED
    BY <2>1, <2>2
<1>8. KnownInv'
  BY <1>2, <1>3, <1>5, <1>6 DEF TableReport, KnownInv, chainVars
<1>9. PaidIsFinal'
  BY <1>2, <1>6 DEF TableReport, PaidIsFinal, Payments, chainVars
<1>10. ConfirmedInv'
  <2>1. \A i \in ConfirmedRows' : i \in ConfirmedRows /\ tx'[i] = tx[i]
    BY <1>3 DEF ConfirmedRows, Live
  <2>2. \A s : FinalPays(s)' <=> FinalPays(s)
    BY <1>2 DEF FinalPays, chainVars
  <2> QED
    BY <2>1, <2>2 DEF TableReport, ConfirmedInv, FinalPays
<1>11. EndedInv'
  <2> SUFFICES ASSUME NEW t \in Transfers, NEW i, i = transfer'[t].txid,
                      Ended(t)', i \in TxIds, tx'[i].live
               PROVE  /\ ~tx'[i].processing
                      /\ \A j \in TxIds : tx'[j].live => tx'[j].orig # i
                      /\ tx'[i].signed = "no" => AllowSkip /\ transfer'[t].st = "failed"
    BY <1>2 DEF EndedInv, Childless, RowSteps
  <2>1. t \notin S /\ i = transfer[t].txid /\ i # nextId /\ Ended(t)
    BY <1>4, <1>5, <1>6 DEF Ended
  <2>2. /\ tx'[i] = tx[i] /\ ~tx[i].processing /\ Childless(i)
        /\ tx[i].signed = "no" => AllowSkip /\ transfer[t].st = "failed"
    BY <1>3, <2>1 DEF TableReport, EndedInv
  <2>3. \A j \in TxIds : tx'[j].live => tx'[j].orig # i
    BY <1>3, <2>2 DEF Childless, NoTx, TxIds
  <2> QED
    BY <1>6, <2>2, <2>3
<1> QED
  BY <1>7, <1>8, <1>9, <1>10, <1>11 DEF TableReport

LEMMA ReportCleanup ==
  ASSUME ~CleanupWhenUp, TypeInv, PayInv, LineageInv, TableReport, CleanupUnsent
  PROVE  TableReport'
<1>1. PICK d \in Unsent : Remove({d})
  BY DEF CleanupUnsent
<1>2. /\ pc = "down" /\ pc' = pc /\ UNCHANGED chainVars /\ d \in TxIds
      /\ transfer \in [Transfers -> TransferRow]
  BY DEF CleanupUnsent, taskVars, NoChainChange, Unsent, Live, TypeInv, TypeOK
<1>3. ~tx'[d].live /\ \A i \in TxIds \ {d} : tx'[i] = tx[i]
  BY <1>1, <1>2 DEF Remove, NoRow
<1>4. \A t \in Transfers :
        \/ transfer'[t] = transfer[t] /\ transfer[t].txid # d
        \/ transfer'[t].txid = NoTx /\ transfer'[t].st = "open" /\ transfer[t].txid = d
  BY <1>1, <1>2 DEF Remove, TransferRow
<1>5. LinkInv'
  <2> SUFFICES ASSUME NEW t \in Transfers
               PROVE  /\ transfer'[t].txid \in TxIds /\ tx'[transfer'[t].txid].live
                           => t \in tx'[transfer'[t].txid].call
                      /\ transfer'[t].st = "absent" => transfer'[t].txid = NoTx
    BY DEF LinkInv
  <2>1. CASE transfer'[t] = transfer[t] /\ transfer[t].txid # d
    BY <1>3, <2>1 DEF TableReport, LinkInv
  <2>2. CASE transfer'[t].txid = NoTx
    BY <2>2 DEF NoTx, TxIds
  <2> QED
    BY <1>4, <2>1, <2>2
<1>6. KnownInv'
  BY <1>2, <1>3, <1>4 DEF TableReport, KnownInv, chainVars
<1>7. PaidIsFinal'
  BY <1>2, <1>4 DEF TableReport, PaidIsFinal, Payments, chainVars
<1>8. ConfirmedInv'
  <2>1. \A i \in ConfirmedRows' : i \in ConfirmedRows /\ tx'[i] = tx[i]
    BY <1>3 DEF ConfirmedRows, Live
  <2>2. \A s : FinalPays(s)' <=> FinalPays(s)
    BY <1>2 DEF FinalPays, chainVars
  <2> QED
    BY <2>1, <2>2 DEF TableReport, ConfirmedInv, FinalPays
<1>9. EndedInv'
  <2> SUFFICES ASSUME NEW t \in Transfers, NEW i, i = transfer'[t].txid,
                      Ended(t)', i \in TxIds, tx'[i].live
               PROVE  /\ ~tx'[i].processing
                      /\ \A j \in TxIds : tx'[j].live => tx'[j].orig # i
                      /\ tx'[i].signed = "no" => AllowSkip /\ transfer'[t].st = "failed"
    BY <1>2 DEF EndedInv, Childless, RowSteps
  <2>1. transfer'[t] = transfer[t] /\ i # d /\ Ended(t)
    BY <1>4 DEF Ended
  <2>2. /\ tx'[i] = tx[i] /\ ~tx[i].processing /\ Childless(i)
        /\ tx[i].signed = "no" => AllowSkip /\ transfer[t].st = "failed"
    BY <1>3, <2>1 DEF TableReport, EndedInv
  <2>3. \A j \in TxIds : tx'[j].live => tx'[j].orig # i
    BY <1>3, <2>2 DEF Childless
  <2> QED
    BY <2>1, <2>2, <2>3
<1> QED
  BY <1>5, <1>6, <1>7, <1>8, <1>9 DEF TableReport

LEMMA ReportInit == Init => ReportInv
<1> SUFFICES ASSUME Init PROVE ReportInv
  OBVIOUS
<1>1. /\ chain = <<>> /\ final = 0 /\ pool = {} /\ pc = "top"
      /\ \A i \in TxIds : tx[i] = NoRow /\ info[i] = "none"
      /\ \A t \in Transfers : transfer[t].txid = NoTx /\ transfer[t].st = "absent"
  BY DEF Init, ChainInit
<1>2. ~NoRow.live
  BY DEF NoRow
<1>3. LinkInv /\ KnownInv /\ EndedInv
  BY <1>1, <1>2 DEF LinkInv, KnownInv, EndedInv, NoTx, TxIds
<1>4. SkipInv /\ ConfirmedInv /\ FinalInv /\ PaidIsFinal
  BY <1>1, <1>2 DEF SkipInv, ConfirmedInv, ConfirmedRows, Live, FinalInv, PaidIsFinal
<1> QED
  BY <1>3, <1>4 DEF ReportInv

LEMMA ReportStep ==
  ASSUME ~AutomaticRecover, ~CleanupWhenUp, TypeInv, TypeInv', PayInv, LineageInv, ReportInv,
         [Next]_vars
  PROVE  ReportInv'
<1>1. FinalStays /\ FinalInv' /\ SkipInv'
  BY ChainStays, SkipStep DEF ReportInv
<1>2. TableReport /\ LinkInv /\ SkipInv
  BY DEF ReportInv, TableReport
<1> SUFFICES TableReport'
  BY <1>1 DEF ReportInv, TableReport
<1>3. CASE Keeping \/ Pick
  <2>1. \A i \in TxIds : RowMoves(i)
    BY <1>3, KeepingMoves, StillMoves DEF Pick, NoDbChange, dbVars
  <2>2. /\ \A t \in Transfers : StatusMoves(t)
        /\ \A h \in pool' : h \in pool \/ h.call = {} \/ FromRow(h)
        /\ pc' \in RowSteps => \/ pc \in RowSteps /\ curId' = curId
                               \/ curId' \in TxIds /\ tx[curId'].processing
    BY <1>2, <1>3, KeepingStatus, KeepingPool, KeepingTask
  <2> QED
    BY <1>1, <1>2, <2>1, <2>2, ReportKept
<1>4. CASE ReceiptConfirmed
  BY <1>2, <1>4, ReportConfirm
<1>5. CASE Replace
  BY <1>2, <1>5, ReportReplace
<1>6. CASE GatherBatch
  BY <1>2, <1>6, ReportGather
<1>7. CASE CleanupUnsent
  BY <1>2, <1>7, ReportCleanup
<1> QED
  BY <1>3, <1>4, <1>5, <1>6, <1>7, NextCases

(* Everything together. *)
SenderInv == TypeInv /\ PayInv /\ LineageInv /\ FirstInv /\ ReportInv

LEMMA SenderInvariant ==
  ASSUME ~AutomaticRecover, ~CleanupWhenUp
  PROVE  Spec => []SenderInv
<1>1. Init => SenderInv
  BY TypeInit, PayInit, LineageInit, ReportInit DEF SenderInv
<1>2. SenderInv /\ [Next]_vars => SenderInv'
  BY TypeStep, PayStep, LineageStep, ReportStep DEF SenderInv
<1> QED
  BY <1>1, <1>2, PTL DEF Spec

(* A transfer that is reported as paid is paid by a transaction that cannot *)
(* be dropped any more, whatever was replaced, resent, dropped from the     *)
(* chain, skipped or interrupted before the report.                         *)
THEOREM PaidStaysPaid ==
  ASSUME ~AutomaticRecover, ~CleanupWhenUp
  PROVE  Spec => []PaidIsFinal
<1>1. SenderInv => PaidIsFinal
  BY DEF SenderInv, ReportInv
<1> QED
  BY <1>1, SenderInvariant, PTL

-----------------------------------------------------------------------------
(* When a signed row leaves the table.                                      *)

LEMMA SignedLeave ==
  ASSUME ~AutomaticRecover, ~CleanupWhenUp, SenderInv, [Next]_vars,
         NEW i \in Live, tx[i].signed = "yes", ~tx'[i].live
  PROVE  \E j \in TxIds : tx'[j].live /\ tx'[j].confirmed /\ tx'[j].nonce = tx[i].nonce
<1>1. /\ i \in TxIds /\ tx[i].live /\ tx \in [TxIds -> Row]
      /\ GraphInv /\ IdInv /\ TypeInv /\ PayInv /\ LineageInv
  BY DEF Live, SenderInv, TypeInv, TypeOK, LineageInv, PayInv, TableInv
<1>2. CASE Keeping \/ Pick
  <2>1. RowMoves(i)
    BY <1>1, <1>2, KeepingMoves, StillMoves DEF Pick, NoDbChange, dbVars
  <2> QED
    BY <1>1, <2>1 DEF RowMoves
<1>3. CASE ReceiptConfirmed
  <2>1. Confirms(cur')
    BY <1>1, <1>3, ConfirmDone
  <2>2. i \in Lineage(curId)
    BY <1>1, <2>1 DEF Confirms, Gone
  <2>3. tx[i].nonce = tx[curId].nonce /\ tx[probe].nonce = tx[curId].nonce
    BY <1>1, <2>1, <2>2, LineageCall DEF GraphInv, Confirms
  <2> QED
    BY <2>1, <2>3 DEF Confirms
<1>4. CASE Replace
  <2>1. PICK old, new : Replaces(old, new)
    BY <1>1, <1>4, ReplaceRows
  <2> QED
    BY <1>1, <2>1 DEF Replaces
<1>5. CASE GatherBatch
  <2>1. PICK S : tx' = [tx EXCEPT ![nextId] = NewRow(S)]
    BY <1>5 DEF GatherBatch
  <2> QED
    BY <1>1, <2>1 DEF NewRow, NoRow
<1>6. CASE CleanupUnsent
  BY <1>1, <1>6 DEF CleanupUnsent, Unsent, Remove
<1> QED
  BY <1>2, <1>3, <1>4, <1>5, <1>6, NextCases

(* A signed row leaves the table only when the row of the same nonce that   *)
(* was mined is confirmed: whatever is replaced, resent, skipped or cleaned *)
(* up, what the network may still hold is not forgotten before.             *)
THEOREM SignedRowsAreKept ==
  ASSUME ~AutomaticRecover, ~CleanupWhenUp
  PROVE  Spec => SignedRowsLeaveResolved
<1>1. SenderInv /\ [Next]_vars =>
        [\A i \in Live :
           tx[i].signed = "yes" /\ ~tx'[i].live =>
             \/ \E j \in ConfirmedRows' : tx'[j].nonce = tx[i].nonce
             \/ tx[i].nonce < LatestNonce]_vars
  BY SignedLeave DEF ConfirmedRows, Live
<1> QED
  BY <1>1, SenderInvariant, PTL DEF Spec, SignedRowsLeaveResolved

-----------------------------------------------------------------------------
(* What the promise sees of a state of the sender. *)
Status == [t \in Transfers |-> transfer[t].st]
Moved == [t \in Transfers |-> Cardinality(Payments(t))]
Settled == [t \in Transfers |-> Cardinality({k \in Payments(t) : k <= final})]

-----------------------------------------------------------------------------
(* How many transactions of the chain pay a transfer: none or one.          *)

LEMMA CountOne ==
  ASSUME NEW S, \A j, k \in S : j = k
  PROVE  Cardinality(S) = IF S = {} THEN 0 ELSE 1
<1>1. CASE S = {}
  BY <1>1, FS_EmptySet
<1>2. CASE S # {}
  <2>1. PICK x : x \in S
    BY <1>2
  <2>2. S = {x}
    BY <2>1
  <2> QED
    BY <1>2, <2>2, FS_Singleton
<1> QED
  BY <1>1, <1>2

IsMoved(t) == Payments(t) # {}
IsSettled(t) == \E k \in Payments(t) : k <= final

CountsInv ==
  /\ NoDoublePayment
  /\ Moved = [t \in Transfers |-> IF IsMoved(t) THEN 1 ELSE 0]
  /\ Settled = [t \in Transfers |-> IF IsSettled(t) THEN 1 ELSE 0]

LEMMA Counts == NoDoublePayment => CountsInv
<1> SUFFICES ASSUME NoDoublePayment, NEW t \in Transfers
             PROVE  /\ Cardinality(Payments(t)) = IF IsMoved(t) THEN 1 ELSE 0
                    /\ Cardinality({k \in Payments(t) : k <= final})
                         = IF IsSettled(t) THEN 1 ELSE 0
  BY DEF Moved, Settled, CountsInv
<1>1. \A j, k \in Payments(t) : j = k
  BY DEF NoDoublePayment
<1>2. Cardinality(Payments(t)) = IF Payments(t) = {} THEN 0 ELSE 1
  BY <1>1, CountOne
<1> DEFINE D == {k \in Payments(t) : k <= final}
<1>3. Cardinality(D) = IF D = {} THEN 0 ELSE 1
  <2>1. \A j, k \in D : j = k
    BY <1>1
  <2> HIDE DEF D
  <2> QED
    BY <2>1, CountOne
<1>4. D = {} <=> ~IsSettled(t)
  BY DEF IsSettled
<1> QED
  BY <1>2, <1>3, <1>4 DEF IsMoved

LEMMA CountsNow == SenderInv => CountsInv
  BY PayInvSafe, Counts DEF SenderInv

LEMMA CountsNext == SenderInv' => CountsInv'
  BY CountsNow, PTL

-----------------------------------------------------------------------------
(* The steps of the chain.                                                  *)

LEMMA ChainKeepsPromise ==
  ASSUME SenderInv, SenderInv', ChainStep
  PROVE  [Promise!Next]_<<Status, Moved, Settled>>
<1>1. /\ chain \in Seq(Signed) /\ chain' \in Seq(Signed) /\ final \in Nat /\ final <= Len(chain)
      /\ ChainInv /\ KnownInv /\ NoDoublePayment
      /\ transfer' = transfer /\ Status' = Status
      /\ CountsInv /\ CountsInv'
  BY CountsNow, CountsNext
  DEF SenderInv, TypeInv, TypeOK, ChainTypeOK, PayInv, ReportInv, FinalInv, ChainStep, dbVars,
      CountsInv, Status
<1>2. \A t \in Transfers : \A j, k \in Payments(t) : j = k
  BY <1>1 DEF NoDoublePayment
<1>3. \A t \in Transfers : \A j, k \in Payments(t)' : j = k
  BY <1>1 DEF CountsInv, NoDoublePayment
<1>4. ASSUME NEW S \in SUBSET Transfers,
             \A t \in S : transfer[t].st # "absent" /\ ~IsMoved(t) /\ IsMoved(t)',
             \A t \in Transfers \ S : IsMoved(t)' <=> IsMoved(t),
             \A t \in Transfers : IsSettled(t)' <=> IsSettled(t)
      PROVE  Promise!Next
  <2>1. Promise!Move(S)
    BY <1>1, <1>4 DEF Promise!Move, Promise!SetAll, CountsInv, Status, Moved, Settled
  <2> QED
    BY <2>1 DEF Promise!Next
<1>5. ASSUME NEW S \in SUBSET Transfers,
             \A t \in S : IsMoved(t) /\ ~IsSettled(t) /\ ~IsMoved(t)',
             \A t \in Transfers \ S : IsMoved(t)' <=> IsMoved(t),
             \A t \in Transfers : IsSettled(t)' <=> IsSettled(t)
      PROVE  Promise!Next
  <2>1. Promise!Undo(S)
    BY <1>1, <1>5 DEF Promise!Undo, Promise!SetAll, CountsInv, Status, Moved, Settled
  <2> QED
    BY <2>1 DEF Promise!Next
<1>6. ASSUME NEW S \in SUBSET Transfers,
             \A t \in S : IsMoved(t) /\ ~IsSettled(t) /\ IsSettled(t)',
             \A t \in Transfers \ S : IsSettled(t)' <=> IsSettled(t),
             \A t \in Transfers : IsMoved(t)' <=> IsMoved(t)
      PROVE  Promise!Next
  <2>1. Promise!Settle(S)
    BY <1>1, <1>6 DEF Promise!Settle, Promise!SetAll, CountsInv, Status, Moved, Settled
  <2> QED
    BY <2>1 DEF Promise!Next
<1>7. CASE Mine
  <2>1. PICK h \in pool : chain' = Append(chain, h)
    BY <1>7 DEF Mine
  <2>2. h \in Signed /\ final' = final
    BY <1>7 DEF Mine, SenderInv, TypeInv, TypeOK, ChainTypeOK
  <2>3. ASSUME NEW t \in Transfers
        PROVE  /\ \A k \in Payments(t) : k \in Payments(t)' /\ k # Len(chain) + 1
               /\ \A k \in Payments(t)' : k \in Payments(t) \/ k = Len(chain) + 1
               /\ Len(chain) + 1 \in Payments(t)' <=> t \in h.call
    BY <1>1, <2>1, <2>2 DEF Payments
  <2>4. ASSUME NEW t \in h.call
        PROVE  transfer[t].st # "absent" /\ ~IsMoved(t) /\ IsMoved(t)'
    <3>1. t \in Transfers
      BY <2>2 DEF Signed
    <3> QED
      BY <1>1, <1>3, <2>3, <3>1 DEF KnownInv, IsMoved
  <2>5. \A t \in Transfers \ h.call : IsMoved(t)' <=> IsMoved(t)
    BY <2>3 DEF IsMoved
  <2>6. \A t \in Transfers : IsSettled(t)' <=> IsSettled(t)
    <3>1. ~(Len(chain) + 1 <= final)
      BY <1>1
    <3> QED
      BY <2>2, <2>3, <3>1 DEF IsSettled
  <2>7. h.call \in SUBSET Transfers
    BY <2>2 DEF Signed
  <2> QED
    BY <1>4, <2>4, <2>5, <2>6, <2>7
<1>8. CASE ExternalTx
  <2>1. chain' = Append(chain, External(LatestNonce)) /\ final' = final
    BY <1>8 DEF ExternalTx
  <2>2. External(LatestNonce) \in Signed /\ External(LatestNonce).call = {}
    BY <1>1 DEF External, Signed, LatestNonce
  <2> DEFINE e == External(LatestNonce)
  <2> HIDE DEF e
  <2>3. \A t \in Transfers : Payments(t)' = Payments(t)
    <3>1. chain' = Append(chain, e) /\ e \in Signed /\ e.call = {}
      BY <2>1, <2>2 DEF e
    <3> QED
      BY <1>1, <3>1 DEF Payments
  <2>4. Moved' = Moved /\ Settled' = Settled
    BY <2>1, <2>3 DEF Moved, Settled
  <2> QED
    BY <1>1, <2>4
<1>9. CASE Finalize
  <2>1. final < Len(chain) /\ final' = final + 1 /\ chain' = chain
    BY <1>9 DEF Finalize
  <2> DEFINE S == chain[final + 1].call
  <2>2. final + 1 \in DOMAIN chain /\ S \in SUBSET Transfers
    <3>1. final + 1 \in 1..Len(chain)
      BY <1>1, <2>1
    <3>2. chain[final + 1] \in Signed
      BY <1>1, <3>1
    <3> QED
      BY <1>1, <3>1, <3>2 DEF Signed
  <2>3. \A t \in Transfers : Payments(t)' = Payments(t) /\ (t \in S <=> final + 1 \in Payments(t))
    BY <2>1, <2>2 DEF Payments
  <2>4. \A t \in Transfers : \A k \in Payments(t) : k <= final' <=> k <= final \/ k = final + 1
    BY <1>1, <2>1 DEF Payments
  <2> HIDE DEF S
  <2>5. \A t \in S : IsMoved(t) /\ ~IsSettled(t) /\ IsSettled(t)'
    <3> SUFFICES ASSUME NEW t \in S
                 PROVE  IsMoved(t) /\ ~IsSettled(t) /\ IsSettled(t)'
      OBVIOUS
    <3>1. t \in Transfers /\ final + 1 \in Payments(t) /\ final + 1 \in Payments(t)'
      BY <2>2, <2>3
    <3>2. ~(final + 1 <= final) /\ final + 1 <= final'
      BY <1>1, <2>1
    <3> QED
      BY <1>2, <3>1, <3>2 DEF IsMoved, IsSettled
  <2>6. \A t \in Transfers \ S : IsSettled(t)' <=> IsSettled(t)
    BY <2>3, <2>4 DEF IsSettled
  <2>7. \A t \in Transfers : IsMoved(t)' <=> IsMoved(t)
    BY <2>3 DEF IsMoved
  <2> QED
    BY <1>6, <2>2, <2>5, <2>6, <2>7
<1>10. CASE Reorg
  <2>1. PICK n \in Nat : Len(chain) = n + 1 /\ final <= n
    <3>1. Len(chain) \in Nat /\ Len(chain) > final
      BY <1>1, <1>10 DEF Reorg
    <3>2. Len(chain) - 1 \in Nat /\ Len(chain) = (Len(chain) - 1) + 1 /\ final <= Len(chain) - 1
      BY <1>1, <3>1
    <3> QED
      BY <3>2
  <2>2. chain' = SubSeq(chain, 1, Len(chain) - 1) /\ final' = final
    BY <1>10 DEF Reorg
  <2>3. Len(chain') = n /\ \A k \in 1..n : chain'[k] = chain[k]
    BY <1>1, <2>1, <2>2, DropLast
  <2>4. DOMAIN chain = 1..(n + 1) /\ DOMAIN chain' = 1..n
    BY <1>1, <2>1, <2>3
  <2> DEFINE S == chain[n + 1].call
  <2>5. S \in SUBSET Transfers
    <3>1. chain[n + 1] \in Signed
      BY <1>1, <2>4
    <3> QED
      BY <3>1 DEF Signed
  <2>6. ASSUME NEW t \in Transfers
        PROVE  /\ \A k : k \in Payments(t)' <=> k \in Payments(t) /\ k # n + 1
               /\ t \in S <=> n + 1 \in Payments(t)
    BY <2>3, <2>4 DEF Payments
  <2> HIDE DEF S
  <2>7. \A t \in S : IsMoved(t) /\ ~IsSettled(t) /\ ~IsMoved(t)'
    <3> SUFFICES ASSUME NEW t \in S
                 PROVE  IsMoved(t) /\ ~IsSettled(t) /\ ~IsMoved(t)'
      OBVIOUS
    <3>1. t \in Transfers /\ n + 1 \in Payments(t)
      BY <2>5, <2>6
    <3>2. \A k \in Payments(t) : k = n + 1
      BY <1>2, <3>1
    <3>3. ~(n + 1 <= final)
      BY <1>1, <2>1
    <3> QED
      BY <2>6, <3>1, <3>2, <3>3 DEF IsMoved, IsSettled
  <2>8. \A t \in Transfers \ S : IsMoved(t)' <=> IsMoved(t)
    <3> SUFFICES ASSUME NEW t \in Transfers \ S
                 PROVE  IsMoved(t)' <=> IsMoved(t)
      OBVIOUS
    <3> QED
      BY <2>6 DEF IsMoved
  <2>9. \A t \in Transfers : IsSettled(t)' <=> IsSettled(t)
    <3>1. ~(n + 1 <= final)
      BY <1>1, <2>1
    <3> QED
      BY <2>2, <2>6, <3>1 DEF IsSettled
  <2> QED
    BY <1>5, <2>5, <2>7, <2>8, <2>9
<1> QED
  BY <1>7, <1>8, <1>9, <1>10 DEF ChainStep, ChainNext

-----------------------------------------------------------------------------
(* The steps of the service and of its users.                               *)

LEMMA StatusStep ==
  ASSUME ~AutomaticRecover, ~CleanupWhenUp, ~(AllowSkip /\ CleanupWhenDown),
         SenderInv, SenderInv', Process \/ Env
  PROVE  [Promise!Next]_<<Status, Moved, Settled>>
<1>1. /\ transfer \in [Transfers -> TransferRow] /\ tx \in [TxIds -> Row]
      /\ CountsInv /\ EndedInv /\ LinkInv /\ ConfirmedInv /\ CopyInv /\ StepInv
      /\ pc = "finish" => curId \in TxIds /\ tx[curId].live
  BY CountsNow
  DEF SenderInv, TypeInv, TypeOK, TaskOK, RowSteps, PayInv, CurInv, LineageInv, ReportInv
<1>2. chain' = chain /\ final' = final
  BY DEF Process, Env, chainVars, NoChainChange,
      Pick, GetNonce, Start, CheckOk, CheckWaits, Sign, Send, Sent, Poll, ReceiptConfirmed,
      ReceiptTooFresh, ReceiptOfOriginal, StuckNoticed, GiveUp, Replace, Resend, StillPending,
      FinishConfirmed, FinishFailed, FinishUnknown, FinishUnsaved, StepFails, GatherBatch,
      GatherFails, GatherEnds, NewTransfer, Skip, Crash, CrashAmongMarks, Stop, Restart,
      CleanupUnsent
<1>3. Moved' = Moved /\ Settled' = Settled
  BY <1>2 DEF Moved, Settled, Payments
(* What the task works on has no result yet. *)
<1>4. ASSUME pc = "finish", NEW t \in TransfersOf(curId)
      PROVE  t \in Transfers /\ transfer[t].st \in {"open", "marked"}
  <2>1. t \in Transfers /\ transfer[t].txid = curId /\ curId # NoTx
    BY <1>1, <1>4 DEF TransfersOf, NoTx, TxIds
  <2>2. ~Ended(t) /\ transfer[t].st # "absent"
    BY <1>1, <1>4, <2>1 DEF EndedInv, LinkInv, RowSteps
  <2> QED
    BY <1>1, <2>1, <2>2 DEF Ended, TransferRow
<1>5. CASE \A t \in Transfers : transfer'[t].st = transfer[t].st
  <2>1. Status' = Status
    BY <1>5 DEF Status
  <2> QED
    BY <1>3, <2>1
<1>6. CASE FinishConfirmed /\ TransfersOf(curId) # {}
  <2>0. PICK S \in SUBSET Transfers : S = TransfersOf(curId)
    BY DEF TransfersOf
  <2>1. \A t \in S : transfer[t].st \in {"open", "marked"}
    BY <1>4, <1>6, <2>0 DEF FinishConfirmed
  <2>2. \A t \in Transfers : transfer'[t].st = IF t \in S THEN "paid" ELSE transfer[t].st
    BY <1>1, <1>6, <2>0, ReportTyping DEF FinishConfirmed
  <2>3. \A t \in S : IsSettled(t)
    <3>1. tx[curId].confirmed /\ curId \in TxIds /\ tx[curId].live
      BY <1>1, <1>6 DEF FinishConfirmed, CopyInv, StepInv, RowSteps
    <3>2. PICK k \in DOMAIN chain : k <= final /\ chain[k].call = tx[curId].call
      BY <1>1, <3>1 DEF ConfirmedInv, ConfirmedRows, Live, FinalPays
    <3>3. \A t \in S : t \in tx[curId].call
      BY <1>1, <2>0, <3>1 DEF LinkInv, TransfersOf
    <3> QED
      BY <3>2, <3>3 DEF IsSettled, Payments
  <2>4. Promise!ReportPaid(S)
    BY <1>1, <1>3, <2>1, <2>2, <2>3
    DEF Promise!ReportPaid, Promise!SetAll, CountsInv, Status, Moved, Settled
  <2> QED
    BY <2>4 DEF Promise!Next
<1>8. CASE FinishFailed
  <2>0. PICK S \in SUBSET Transfers : S = TransfersOf(curId)
    BY DEF TransfersOf
  <2>1. \A t \in S : transfer[t].st \in {"open", "marked"}
    BY <1>4, <1>8, <2>0 DEF FinishFailed
  <2>2. \A t \in Transfers : transfer'[t].st = IF t \in S THEN "failed" ELSE transfer[t].st
    BY <1>1, <1>8, <2>0, ReportTyping DEF FinishFailed
  <2>3. Promise!ReportFailed(S)
    BY <1>3, <2>1, <2>2 DEF Promise!ReportFailed, Promise!SetAll, Status, Moved, Settled
  <2> QED
    BY <2>3 DEF Promise!Next
<1>9. CASE GatherFails \/ CrashAmongMarks
  <2>1. PICK S \in SUBSET {t \in Transfers : transfer[t].st = "open"} : Report(S, "marked")
    BY <1>9, MarkStep
  <2>2. S \in SUBSET Transfers /\ \A t \in S : transfer[t].st = "open"
    OBVIOUS
  <2>3. \A t \in Transfers : transfer'[t].st = IF t \in S THEN "marked" ELSE transfer[t].st
    BY <1>1, <2>1, ReportTyping
  <2>4. Promise!Mark(S)
    BY <1>3, <2>2, <2>3 DEF Promise!Mark, Promise!SetAll, Status, Moved, Settled
  <2> QED
    BY <2>2, <2>4 DEF Promise!Next
<1>10. CASE NewTransfer
  <2>1. PICK u \in Transfers :
          transfer[u].st = "absent" /\ transfer' = [transfer EXCEPT ![u].st = "open"]
    BY <1>10 DEF NewTransfer
  <2>2. \A t \in Transfers : transfer'[t].st = IF t \in {u} THEN "open" ELSE transfer[t].st
    BY <1>1, <2>1 DEF TransferRow
  <2>3. Promise!Request({u})
    BY <1>3, <2>1, <2>2 DEF Promise!Request, Promise!SetAll, Status, Moved, Settled
  <2>4. {u} \in SUBSET Transfers
    OBVIOUS
  <2> QED
    BY <2>3, <2>4 DEF Promise!Next
(* A removed row was unsigned: its transfers have no result to take back,   *)
(* but perhaps a mark.                                                      *)
<1>11. CASE CleanupUnsent
  <2>1. PICK d \in Unsent : Remove({d})
    BY <1>11 DEF CleanupUnsent
  <2>2. /\ CleanupWhenDown /\ d \in TxIds /\ tx[d].live /\ tx[d].signed = "no"
    BY <1>11 DEF CleanupUnsent, Unsent, Live
  <2>3. PICK S \in SUBSET Transfers :
          S = {t \in Transfers : transfer[t].txid = d /\ transfer[t].st = "marked"}
    OBVIOUS
  <2>4. ASSUME NEW t \in Transfers
        PROVE  transfer'[t].st = IF t \in S THEN "open" ELSE transfer[t].st
    <3>1. CASE transfer[t].txid # d
      BY <2>1, <2>3, <3>1 DEF Remove
    <3>2. CASE transfer[t].txid = d
      <4>1. ~Ended(t) /\ transfer[t].st # "absent"
        BY <1>1, <2>2, <3>2 DEF EndedInv, LinkInv, NoTx, TxIds
      <4>2. transfer[t].st \in {"open", "marked"}
        BY <1>1, <4>1 DEF Ended, TransferRow
      <4>3. transfer'[t].st = "open"
        BY <2>1, <3>2 DEF Remove
      <4> QED
        BY <2>3, <3>2, <4>2, <4>3
    <3> QED
      BY <3>1, <3>2
  <2>5. Promise!Reopen(S)
    BY <1>3, <2>3, <2>4 DEF Promise!Reopen, Promise!SetAll, Status, Moved, Settled
  <2> QED
    BY <2>5 DEF Promise!Next
<1>12. CASE ReceiptConfirmed
  BY <1>1, <1>5, <1>12 DEF ReceiptConfirmed, Remap, TransferRow
<1>13. CASE GatherBatch
  BY <1>1, <1>5, <1>13 DEF GatherBatch, TransferRow
<1>14. CASE transfer' = transfer
  BY <1>5, <1>14
<1> QED
  BY <1>6, <1>8, <1>9, <1>10, <1>11, <1>12, <1>13, <1>14
  DEF Process, Env, NoDbChange, dbVars,
      Pick, GetNonce, Start, CheckOk, CheckWaits, Sign, Send, Sent, Poll,
      ReceiptTooFresh, ReceiptOfOriginal, StuckNoticed, GiveUp, Replace, Resend, StillPending,
      FinishConfirmed, FinishUnknown, FinishUnsaved, StepFails,
      GatherEnds, Skip, Crash, CrashAmongMarks, Stop, Restart

LEMMA PromiseInit == Init => Promise!Init
<1> SUFFICES ASSUME Init PROVE Promise!Init
  OBVIOUS
<1>1. chain = <<>> /\ \A t \in Transfers : transfer[t].st = "absent"
  BY DEF Init, ChainInit
<1>2. \A t \in Transfers : Payments(t) = {} /\ {k \in Payments(t) : k <= final} = {}
  <2>1. DOMAIN chain = {}
    BY <1>1
  <2> QED
    BY <2>1 DEF Payments
<1>3. Cardinality({}) = 0
  BY FS_EmptySet
<1> QED
  BY <1>1, <1>2, <1>3 DEF Promise!Init

(* The service keeps what it promises, whatever set of transfers and        *)
(* bounds: as long as automatic_recover is off, cleanup runs only while the *)
(* service is down, and transactions are not skipped by hand where cleanup  *)
(* is used as well - together, the two reopen a transfer reported as failed.*)
THEOREM SenderKeepsPromise ==
  ASSUME ~AutomaticRecover, ~CleanupWhenUp, ~(AllowSkip /\ CleanupWhenDown)
  PROVE  Spec => KeepsPromise
<1>1. Spec => []SenderInv
  BY SenderInvariant
<1>2. SenderInv /\ SenderInv' /\ [Next]_vars => [Promise!Next]_<<Status, Moved, Settled>>
  <2> SUFFICES ASSUME SenderInv, SenderInv', [Next]_vars
               PROVE  [Promise!Next]_<<Status, Moved, Settled>>
    OBVIOUS
  <2>1. CASE UNCHANGED vars
    BY <2>1 DEF vars, chainVars, dbVars, Status, Moved, Settled, Payments
  <2> QED
    BY <2>1, ChainKeepsPromise, StatusStep DEF Next
<1>3. Spec => Promise!Init /\ [][Promise!Next]_<<Status, Moved, Settled>>
  BY <1>1, <1>2, PromiseInit, PTL DEF Spec
<1> QED
  BY <1>3, PTL DEF KeepsPromise, Promise!Spec, Status, Moved, Settled

=============================================================================
