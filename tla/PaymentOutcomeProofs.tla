------------------------ MODULE PaymentOutcomeProofs -----------------------
(***************************************************************************)
(* What becomes of a transfer in PaymentSender, for every set of transfers *)
(* and every bound: that a row it belongs to leads to a row in the queue,  *)
(* that a confirmed row keeps the hash that was mined, and that a transfer *)
(* that failed was not paid.                                               *)
(***************************************************************************)
EXTENDS PaymentReportProofs

-----------------------------------------------------------------------------
(* The rows of a transfer: the one it refers to and what replaced it.       *)

(* A transfer refers to a row that replaced nothing. *)
RootInv ==
  \A t \in Transfers :
    LET i == transfer[t].txid IN i \in TxIds /\ tx[i].live => tx[i].orig = NoTx

(* Every row pays something, and only transfers that refer to its lineage. *)
CallInv ==
  \A i \in TxIds : tx[i].live =>
    tx[i].call # {} /\ \A t \in tx[i].call : transfer[t].txid \in Lineage(i)

(* A confirmed row is nobody's replacement any more. *)
ConfirmedRoot == \A i \in ConfirmedRows : tx[i].orig = NoTx

FamilyInv == RootInv /\ CallInv /\ ConfirmedRoot

-----------------------------------------------------------------------------
(* More about lineages.                                                     *)

LEMMA LineageUp ==
  ASSUME tx \in [TxIds -> Row], NEW i \in TxIds, NEW k \in Lineage(i)
  PROVE  Lineage(k) \subseteq Lineage(i)
  BY LineageClosed, LineageLeast

LEMMA LineageOfRoot ==
  ASSUME NEW i \in TxIds, tx[i].orig = NoTx
  PROVE  Lineage(i) = {i}
<1>1. ClosedUnderOrig({i})
  BY DEF ClosedUnderOrig
<1> QED
  BY <1>1, LineageLeast, LineageSelf

(* A root of a lineage is in the lineage of each of its members. *)
LEMMA RootOfMembers ==
  ASSUME tx \in [TxIds -> Row], NEW i \in TxIds, NEW r \in Lineage(i), tx[r].orig = NoTx
  PROVE  \A k \in Lineage(i) : r \in Lineage(k)
<1> DEFINE T == {k \in Lineage(i) : r \in Lineage(k)}
<1>1. Lineage(i) \in SUBSET TxIds /\ ClosedUnderOrig(Lineage(i))
  BY LineageClosed
<1>2. i \in T /\ T \in SUBSET TxIds
  BY <1>1, LineageSelf
<1>3. ASSUME NEW k \in T, tx[k].orig # NoTx
      PROVE  tx[k].orig \in T
  <2>1. PICK o \in TxIds : o = tx[k].orig
    BY <1>1, <1>3 DEF Row
  <2>2. o \in Lineage(i) /\ k \in TxIds /\ r # k
    BY <1>1, <1>3, <2>1 DEF ClosedUnderOrig
  <2>3. Lineage(o) \in SUBSET TxIds /\ ClosedUnderOrig(Lineage(o)) /\ o \in Lineage(o)
    BY LineageClosed, LineageSelf
  <2>4. ClosedUnderOrig({k} \union Lineage(o))
    BY <2>1, <2>3 DEF ClosedUnderOrig
  <2>5. Lineage(k) \subseteq {k} \union Lineage(o)
    BY <2>2, <2>3, <2>4, LineageLeast
  <2> QED
    BY <2>1, <2>2, <2>5
<1>4. ClosedUnderOrig(T)
  BY <1>3 DEF ClosedUnderOrig
<1> HIDE DEF T
<1>5. Lineage(i) \subseteq T
  BY <1>2, <1>4, LineageLeast
<1> QED
  BY <1>5 DEF T

(* A lineage has one root. *)
LEMMA OneRoot ==
  ASSUME tx \in [TxIds -> Row], NEW i \in TxIds,
         NEW r \in Lineage(i), tx[r].orig = NoTx, NEW s \in Lineage(i), tx[s].orig = NoTx
  PROVE  r = s
<1>1. s \in TxIds /\ r \in Lineage(s)
  BY RootOfMembers, LineageClosed
<1> QED
  BY <1>1, LineageOfRoot

(* A step that leaves what the members replaced leaves them members. *)
LEMMA LineageKept ==
  ASSUME tx \in [TxIds -> Row], NEW i \in TxIds,
         \A k \in Lineage(i) : tx'[k].orig = tx[k].orig
  PROVE  Lineage(i) \subseteq Lineage(i)'
<1> SUFFICES ASSUME NEW S \in SUBSET TxIds, i \in S, ClosedUnderOrig(S)'
             PROVE  Lineage(i) \subseteq S
  <2>1. Lineage(i) \in SUBSET TxIds
    BY LineageClosed
  <2> QED
    BY <2>1 DEF Lineage
<1>1. Lineage(i) \in SUBSET TxIds /\ ClosedUnderOrig(Lineage(i)) /\ i \in Lineage(i)
  BY LineageClosed, LineageSelf
<1>2. ClosedUnderOrig(S \intersect Lineage(i))
  BY <1>1 DEF ClosedUnderOrig
<1>3. Lineage(i) \subseteq S \intersect Lineage(i)
  BY <1>1, <1>2, LineageLeast
<1> QED
  BY <1>3

(* What is not in the lineage that is confirmed has nothing to do with it. *)
LEMMA LineageApart ==
  ASSUME TypeInv, LineageInv, pc = "receipt", NEW done, Confirms(done),
         NEW i \in TxIds \ Lineage(curId)
  PROVE  /\ Lineage(i) \subseteq TxIds \ Lineage(curId)
         /\ \A k \in Lineage(i) : tx'[k] = tx[k]
         /\ Lineage(i) \subseteq Lineage(i)'
<1>1. tx \in [TxIds -> Row] /\ DeadInv /\ curId \in TxIds /\ probe \in Lineage(curId)
  BY DEF TypeInv, TypeOK, LineageInv, GraphInv, Confirms
<1> DEFINE A == TxIds \ Lineage(curId)
<1>2. \A k \in A : k # probe /\ k \notin Gone /\ tx'[k] = tx[k]
  BY <1>1 DEF Gone, Confirms
<1>3. ASSUME NEW k \in A, tx[k].orig # NoTx
      PROVE  tx[k].orig \in A
  <2>1. k \in TxIds /\ tx'[k].live /\ tx'[k].orig # NoTx
    BY <1>1, <1>2, <1>3 DEF DeadInv
  <2>2. tx[k].orig \in TxIds \ {probe} /\ tx[k].orig \notin Gone
    BY <2>1, ConfirmCuts
  <2> QED
    BY <2>2 DEF Gone
<1>4. ClosedUnderOrig(A)
  BY <1>3 DEF ClosedUnderOrig
<1>5. Lineage(i) \subseteq A
  BY <1>4, LineageLeast
<1>6. \A k \in Lineage(i) : tx'[k] = tx[k]
  BY <1>2, <1>5
<1>7. Lineage(i) \subseteq Lineage(i)'
  BY <1>1, <1>6, LineageKept
<1> QED
  BY <1>5, <1>6, <1>7

-----------------------------------------------------------------------------
(* FamilyInv is an invariant.                                               *)

LEMMA FamilyKept ==
  ASSUME TypeInv, PayInv, LineageInv, FamilyInv,
         \A i \in TxIds : RowMoves(i),
         \A t \in Transfers : transfer'[t].txid = transfer[t].txid
  PROVE  FamilyInv'
<1>1. tx \in [TxIds -> Row] /\ NonceInv
  BY DEF TypeInv, TypeOK, PayInv, TableInv
<1>2. ASSUME NEW i \in TxIds
      PROVE  /\ tx'[i].orig = tx[i].orig
             /\ tx'[i].live => tx[i].live /\ tx'[i].call = tx[i].call
             /\ tx'[i].live /\ tx'[i].confirmed => tx[i].confirmed
  BY <1>1 DEF RowMoves
<1>3. RootInv'
  BY <1>2 DEF FamilyInv, RootInv
<1>4. ASSUME NEW i \in TxIds, tx'[i].live
      PROVE  tx'[i].call # {} /\ \A t \in tx'[i].call : transfer'[t].txid \in Lineage(i)'
  <2>1. Lineage(i) \subseteq Lineage(i)'
    BY <1>1, <1>2, LineageClosed, LineageKept
  <2>2. tx[i].live /\ tx'[i].call = tx[i].call /\ tx[i].call \subseteq Transfers
    BY <1>1, <1>2, <1>4 DEF Row
  <2> QED
    BY <2>1, <2>2 DEF FamilyInv, CallInv
<1>5. CallInv'
  BY <1>4 DEF CallInv
<1>6. ConfirmedRoot'
  BY <1>2 DEF FamilyInv, ConfirmedRoot, ConfirmedRows, Live
<1> QED
  BY <1>3, <1>5, <1>6 DEF FamilyInv

(* The confirmed row takes the place of the first of its lineage.           *)
LEMMA FamilyConfirm ==
  ASSUME TypeInv, PayInv, LineageInv, FamilyInv, ReceiptConfirmed
  PROVE  FamilyInv'
<1> DEFINE done == cur'
<1>1. Confirms(done) /\ pc = "receipt"
  BY ConfirmDone
<1> HIDE DEF done
<1>2. /\ tx \in [TxIds -> Row] /\ transfer \in [Transfers -> TransferRow]
      /\ GraphInv /\ EdgeInv /\ probe \in TxIds /\ curId \in TxIds
      /\ tx[probe].live /\ tx[curId].live
  BY <1>1 DEF TypeInv, TypeOK, LineageInv, GraphInv, Confirms
<1>3. PICK root \in Roots(probe) : Remap(root, probe)
  BY DEF ReceiptConfirmed
<1>4. root \in TxIds /\ root \in Lineage(probe) /\ tx[root].orig = NoTx
  BY <1>3 DEF Roots, Lineage
<1>5. root \in Lineage(curId)
  BY <1>1, <1>2, <1>4, LineageUp DEF Confirms
<1>6. \A t \in Transfers :
        transfer'[t].txid = IF transfer[t].txid = root THEN probe ELSE transfer[t].txid
  BY <1>2, <1>3 DEF Remap, TransferRow
<1>7. \A i \in TxIds \ {probe} : tx'[i].live => tx'[i] = tx[i] /\ i \notin Lineage(curId)
  BY <1>1 DEF Confirms, NoRow, Gone
<1>8. RootInv'
  <2> SUFFICES ASSUME NEW t \in Transfers, NEW i, i = transfer'[t].txid,
                      i \in TxIds, tx'[i].live
               PROVE  tx'[i].orig = NoTx
    BY DEF RootInv
  <2>1. CASE i = probe
    BY <1>1, <2>1 DEF Confirms
  <2>2. CASE i # probe
    BY <1>6, <1>7, <2>2 DEF FamilyInv, RootInv
  <2> QED
    BY <2>1, <2>2
<1>9. ASSUME NEW i \in TxIds, tx'[i].live
      PROVE  tx'[i].call # {} /\ \A t \in tx'[i].call : transfer'[t].txid \in Lineage(i)'
  <2>1. CASE i = probe
    <3>1. tx'[i].call = tx[i].call /\ tx[i].call \subseteq Transfers /\ tx[i].live
      BY <1>1, <1>2, <2>1 DEF Confirms, Row
    <3>2. i \in Lineage(i)'
      BY DEF Lineage
    <3> SUFFICES ASSUME NEW t \in tx[i].call
                 PROVE  transfer'[t].txid = i
      BY <3>1, <3>2 DEF FamilyInv, CallInv
    <3>3. transfer[t].txid \in Lineage(i)
      BY <3>1 DEF FamilyInv, CallInv
    <3>4. tx[transfer[t].txid].orig = NoTx
      BY <1>2, <3>1, <3>3, LineageCall DEF FamilyInv, RootInv
    <3>5. transfer[t].txid = root
      BY <1>2, <1>4, <2>1, <3>3, <3>4, OneRoot
    <3> QED
      BY <1>6, <2>1, <3>1, <3>5
  <2>2. CASE i # probe
    <3>1. tx'[i] = tx[i] /\ i \in TxIds \ Lineage(curId) /\ tx[i].call \subseteq Transfers
      BY <1>2, <1>7, <1>9, <2>2 DEF Row
    <3>2. Lineage(i) \subseteq TxIds \ Lineage(curId) /\ Lineage(i) \subseteq Lineage(i)'
      BY <1>1, <3>1, LineageApart
    <3> SUFFICES ASSUME NEW t \in tx[i].call
                 PROVE  transfer'[t].txid \in Lineage(i)'
      BY <1>9, <3>1 DEF FamilyInv, CallInv
    <3>3. transfer[t].txid \in Lineage(i)
      BY <1>9, <3>1 DEF FamilyInv, CallInv
    <3> QED
      BY <1>5, <1>6, <3>1, <3>2, <3>3
  <2> QED
    BY <2>1, <2>2
<1>10. CallInv'
  BY <1>9 DEF CallInv
<1>11. ConfirmedRoot'
  <2>1. \A i \in ConfirmedRows' : i = probe \/ (i \in ConfirmedRows /\ tx'[i] = tx[i])
    BY <1>7 DEF ConfirmedRows, Live
  <2> QED
    BY <1>1, <2>1 DEF FamilyInv, ConfirmedRoot, Confirms
<1> QED
  BY <1>8, <1>10, <1>11 DEF FamilyInv

LEMMA FamilyReplace ==
  ASSUME TypeInv, PayInv, LineageInv, FamilyInv, Replace
  PROVE  FamilyInv'
<1>1. PICK old, new : Replaces(old, new)
  BY ReplaceRows
<1>2. /\ tx \in [TxIds -> Row] /\ transfer' = transfer /\ transfer \in [Transfers -> TransferRow]
      /\ IdInv /\ EdgeInv /\ nextId \in Nat
  BY DEF TypeInv, TypeOK, PayInv, TableInv, LineageInv, GraphInv, Replace
<1>3. \A i \in TxIds \ {nextId} : tx'[i].orig = tx[i].orig /\ tx'[i].call = tx[i].call
                                  /\ (tx'[i].live <=> tx[i].live)
  BY <1>1 DEF Replaces
<1>4. ASSUME NEW i \in TxIds, tx[i].live
      PROVE  Lineage(i) \subseteq Lineage(i)'
  <2>1. \A k \in Lineage(i) : k \in TxIds /\ tx[k].live
    BY <1>2, <1>4, LineageCall
  <2>2. \A k \in Lineage(i) : tx'[k].orig = tx[k].orig
    BY <1>1, <1>3, <2>1 DEF Replaces
  <2> QED
    BY <1>2, <2>2, LineageKept
<1>5. RootInv'
  <2> SUFFICES ASSUME NEW t \in Transfers, NEW i, i = transfer[t].txid,
                      i \in TxIds, tx'[i].live
               PROVE  tx'[i].orig = NoTx
    BY <1>2 DEF RootInv
  <2>1. i # nextId
    BY <1>2 DEF IdInv
  <2> QED
    BY <1>3, <2>1 DEF FamilyInv, RootInv
<1>6. ASSUME NEW i \in TxIds, tx'[i].live
      PROVE  tx'[i].call # {} /\ \A t \in tx'[i].call : transfer'[t].txid \in Lineage(i)'
  <2>1. CASE i # nextId
    BY <1>2, <1>3, <1>4, <1>6, <2>1 DEF FamilyInv, CallInv
  <2>2. CASE i = nextId
    <3>1. PICK c \in TxIds : c = curId
      BY <1>1 DEF Replaces
    <3>2. tx'[i].call = tx[c].call /\ tx'[i].orig = c /\ tx[c].live /\ c # NoTx
      BY <1>1, <2>2, <3>1 DEF Replaces, NoTx, TxIds
    <3>3. Lineage(c)' \subseteq Lineage(i)'
      BY <3>2 DEF Lineage, ClosedUnderOrig
    <3> QED
      BY <1>2, <1>4, <3>2, <3>3 DEF FamilyInv, CallInv
  <2> QED
    BY <2>1, <2>2
<1>7. CallInv'
  BY <1>6 DEF CallInv
<1>8. ConfirmedRoot'
  <2>1. \A i \in ConfirmedRows' : i \in ConfirmedRows /\ tx'[i] = tx[i]
    BY <1>1 DEF ConfirmedRows, Live, Replaces
  <2> QED
    BY <2>1 DEF FamilyInv, ConfirmedRoot
<1> QED
  BY <1>5, <1>7, <1>8 DEF FamilyInv

LEMMA FamilyGather ==
  ASSUME TypeInv, PayInv, LineageInv, FamilyInv, GatherBatch
  PROVE  FamilyInv'
<1>1. PICK S \in SUBSET PendingTransfers :
        /\ S # {}
        /\ tx' = [tx EXCEPT ![nextId] = NewRow(S)]
        /\ transfer' = [t \in Transfers |->
                          IF t \in S THEN [transfer[t] EXCEPT !.txid = nextId] ELSE transfer[t]]
  BY DEF GatherBatch
<1>2. PICK n \in TxIds : n = nextId
  BY DEF TypeInv, TypeOK, GatherBatch, TxIds
<1>3. /\ tx \in [TxIds -> Row] /\ transfer \in [Transfers -> TransferRow]
      /\ IdInv /\ EdgeInv /\ ~tx[n].live
  BY <1>2 DEF TypeInv, TypeOK, PayInv, TableInv, LineageInv, GraphInv, IdInv, TxIds
<1>4. /\ tx'[n].live /\ tx'[n].call = S /\ tx'[n].orig = NoTx /\ ~tx'[n].confirmed
      /\ \A i \in TxIds \ {n} : tx'[i] = tx[i]
  BY <1>1, <1>2, <1>3 DEF NewRow, NoRow
<1>5. \A t \in Transfers :
        IF t \in S THEN transfer[t].txid = NoTx /\ transfer'[t].txid = n
                   ELSE transfer'[t] = transfer[t]
  BY <1>1, <1>2, <1>3 DEF PendingTransfers, TransferRow
<1>6. RootInv'
  <2> SUFFICES ASSUME NEW t \in Transfers, NEW i, i = transfer'[t].txid,
                      i \in TxIds, tx'[i].live
               PROVE  tx'[i].orig = NoTx
    BY DEF RootInv
  <2>1. CASE i = n
    BY <1>4, <2>1
  <2>2. CASE i # n
    BY <1>4, <1>5, <2>2 DEF FamilyInv, RootInv
  <2> QED
    BY <2>1, <2>2
<1>7. ASSUME NEW i \in TxIds, tx'[i].live
      PROVE  tx'[i].call # {} /\ \A t \in tx'[i].call : transfer'[t].txid \in Lineage(i)'
  <2>1. CASE i = n
    <3>1. n \in Lineage(n)'
      BY DEF Lineage
    <3>2. S \subseteq Transfers
      BY DEF PendingTransfers
    <3> QED
      BY <1>1, <1>4, <1>5, <2>1, <3>1, <3>2
  <2>2. CASE i # n
    <3>1. tx'[i] = tx[i] /\ tx[i].live /\ tx[i].call \subseteq Transfers
      BY <1>3, <1>4, <1>7, <2>2 DEF Row
    <3>2. \A k \in Lineage(i) : k \in TxIds /\ tx[k].live
      BY <1>3, <3>1, LineageCall
    <3>3. Lineage(i) \subseteq Lineage(i)'
      BY <1>3, <1>4, <3>2, LineageKept
    <3>4. \A t \in tx[i].call : transfer[t].txid \in Lineage(i)
      BY <3>1 DEF FamilyInv, CallInv
    <3>5. \A t \in tx[i].call : t \notin S
      BY <1>5, <3>1, <3>2, <3>4 DEF NoTx, TxIds
    <3> QED
      BY <1>5, <3>1, <3>3, <3>4, <3>5 DEF FamilyInv, CallInv
  <2> QED
    BY <2>1, <2>2
<1>8. CallInv'
  BY <1>7 DEF CallInv
<1>9. ConfirmedRoot'
  <2>1. \A i \in ConfirmedRows' : i \in ConfirmedRows /\ tx'[i] = tx[i]
    BY <1>4 DEF ConfirmedRows, Live
  <2> QED
    BY <2>1 DEF FamilyInv, ConfirmedRoot
<1> QED
  BY <1>6, <1>8, <1>9 DEF FamilyInv

(* An unsigned row was not replaced: it is in no other row's lineage.       *)
LEMMA FamilyCleanup ==
  ASSUME TypeInv, LineageInv, FamilyInv, CleanupUnsent
  PROVE  FamilyInv'
<1>1. PICK d \in Unsent : Remove({d})
  BY DEF CleanupUnsent
<1>2. /\ d \in TxIds /\ tx[d].live /\ tx[d].signed = "no"
      /\ tx \in [TxIds -> Row] /\ transfer \in [Transfers -> TransferRow]
      /\ EdgeInv /\ DeadInv
  BY DEF Unsent, Live, TypeInv, TypeOK, LineageInv, GraphInv
<1>3. ~tx'[d].live /\ \A i \in TxIds \ {d} : tx'[i] = tx[i]
  BY <1>1, <1>2 DEF Remove, NoRow
<1>4. \A t \in Transfers :
        IF transfer[t].txid = d THEN transfer'[t].txid = NoTx ELSE transfer'[t] = transfer[t]
  BY <1>1, <1>2 DEF Remove, TransferRow
<1>5. ASSUME NEW i \in TxIds \ {d}, tx[i].live
      PROVE  d \notin Lineage(i)
  <2> SUFFICES ASSUME d \in Lineage(i)
               PROVE  FALSE
    OBVIOUS
  <2>1. PICK j \in Lineage(i) : tx[j].orig = d
    BY <1>2, <1>5, LineageChild
  <2>2. j \in TxIds /\ tx[j].live
    BY <1>2, <1>5, <2>1, LineageCall
  <2> QED
    BY <1>2, <2>1, <2>2 DEF EdgeInv, ReplacedBy, NoTx, TxIds
<1>6. RootInv'
  BY <1>3, <1>4 DEF FamilyInv, RootInv, NoTx, TxIds
<1>7. ASSUME NEW i \in TxIds, tx'[i].live
      PROVE  tx'[i].call # {} /\ \A t \in tx'[i].call : transfer'[t].txid \in Lineage(i)'
  <2>1. i \in TxIds \ {d} /\ tx'[i] = tx[i] /\ tx[i].live /\ tx[i].call \subseteq Transfers
    BY <1>2, <1>3, <1>7 DEF Row
  <2>2. d \notin Lineage(i) /\ Lineage(i) \in SUBSET TxIds
    BY <1>2, <1>5, <2>1, LineageClosed
  <2>3. Lineage(i) \subseteq Lineage(i)'
    BY <1>2, <1>3, <2>2, LineageKept
  <2>4. \A t \in tx[i].call : transfer[t].txid \in Lineage(i) /\ transfer'[t] = transfer[t]
    BY <1>4, <2>1, <2>2 DEF FamilyInv, CallInv
  <2> QED
    BY <2>1, <2>3, <2>4 DEF FamilyInv, CallInv
<1>8. CallInv'
  BY <1>7 DEF CallInv
<1>9. ConfirmedRoot'
  <2>1. \A i \in ConfirmedRows' : i \in ConfirmedRows /\ tx'[i] = tx[i]
    BY <1>3 DEF ConfirmedRows, Live
  <2> QED
    BY <2>1 DEF FamilyInv, ConfirmedRoot
<1> QED
  BY <1>6, <1>8, <1>9 DEF FamilyInv

LEMMA FamilyInit == Init => FamilyInv
<1> SUFFICES ASSUME Init PROVE FamilyInv
  OBVIOUS
<1>1. /\ \A i \in TxIds : ~tx[i].live
      /\ \A t \in Transfers : transfer[t].txid = NoTx
  BY DEF Init, NoRow
<1> QED
  BY <1>1 DEF FamilyInv, RootInv, CallInv, ConfirmedRoot, ConfirmedRows, Live

LEMMA FamilyStep ==
  ASSUME ~AutomaticRecover, SenderInv, FamilyInv, [Next]_vars
  PROVE  FamilyInv'
<1>1. TypeInv /\ PayInv /\ LineageInv /\ LinkInv /\ SkipInv
  BY DEF SenderInv, ReportInv
<1>2. CASE Keeping \/ Pick
  <2>1. \A i \in TxIds : RowMoves(i)
    BY <1>1, <1>2, KeepingMoves, StillMoves DEF Pick, NoDbChange, dbVars
  <2>2. \A t \in Transfers : transfer'[t].txid = transfer[t].txid
    BY <1>1, <1>2, KeepingStatus DEF StatusMoves
  <2> QED
    BY <1>1, <2>1, <2>2, FamilyKept
<1> QED
  BY <1>1, <1>2, FamilyConfirm, FamilyReplace, FamilyGather, FamilyCleanup, NextCases

-----------------------------------------------------------------------------
(* Who finishes a transfer, while the service is not interrupted.           *)

DriveInv ==
  /\ restarts = 0 /\ pc # "down"
  /\ NoOrphan
  /\ pc = "gather" => \A i \in ToProcess : tx[i].orig = NoTx
  /\ pc = "finish" /\ res = "NeedRetry" => tx[curId].orig = NoTx

LEMMA NoCrash ==
  ASSUME MaxRestarts = 0, restarts = 0, pc # "down", [Next]_vars
  PROVE  restarts' = 0 /\ pc' # "down"
<1>1. ~Crash /\ ~CrashAmongMarks /\ ~Restart
  BY DEF Crash, CrashAmongMarks, Stop, Restart
<1>2. restarts' = restarts
  BY <1>1 DEF Next, Process, Env, ChainStep, vars, NoEnvChange,
      Pick, GetNonce, Start, CheckOk, CheckWaits, Sign, Send, Sent, Poll, ReceiptConfirmed,
      ReceiptTooFresh, ReceiptOfOriginal, StuckNoticed, GiveUp, Replace, Resend, StillPending,
      FinishConfirmed, FinishFailed, FinishUnknown, FinishUnsaved, StepFails, GatherBatch,
      GatherFails, GatherEnds, NewTransfer, Skip, CleanupUnsent
<1>3. pc' # "down"
  BY <1>1 DEF Next, Process, Env, ChainStep, vars, taskVars, Goto, Result, Leave, AfterSign,
      Pick, GetNonce, Start, CheckOk, CheckWaits, Sign, Send, Sent, Poll, ReceiptConfirmed,
      ReceiptTooFresh, ReceiptOfOriginal, StuckNoticed, GiveUp, Replace, Resend, StillPending,
      FinishConfirmed, FinishFailed, FinishUnknown, FinishUnsaved, StepFails, GatherBatch,
      GatherFails, GatherEnds, NewTransfer, Skip, CleanupUnsent
<1> QED
  BY <1>2, <1>3

(* Saving a row that is in the queue leaves the queue. *)
LEMMA SaveQueue ==
  ASSUME TypeInv, pc \in RowSteps, NEW r \in Row, r.live,
         tx[curId].processing => r.processing, tx' = Save(curId, r)
  PROVE  ToProcess \subseteq ToProcess'
<1>1. tx \in [TxIds -> Row] /\ curId \in TxIds
  BY DEF TypeInv, TypeOK, TaskOK
<1> QED
  BY <1>1 DEF Save, ToProcess, Live

(* Only an outcome takes a row out of the queue. *)
LEMMA QueueKept ==
  ASSUME ~AutomaticRecover, SenderInv, Keeping \/ Pick, ~FinishConfirmed, ~FinishFailed
  PROVE  ToProcess \subseteq ToProcess'
<1>1. /\ TypeInv /\ cur \in Row /\ tx \in [TxIds -> Row]
      /\ pc \in RowSteps => curId \in TxIds /\ tx[curId].live /\ cur.live
                            /\ (cur.processing <=> tx[curId].processing)
  BY DEF SenderInv, TypeInv, TypeOK, TaskOK, PayInv, CurInv, LineageInv, CopyInv
<1>2. CASE tx' = tx
  BY <1>2 DEF ToProcess, Live
<1>3. CASE Start /\ ~cur.started
  <2>1. pc \in RowSteps /\ tx' = Save(curId, Queued([tx[curId] EXCEPT !.started = TRUE]))
    BY <1>3 DEF Start, RowSteps
  <2>2. PICK r \in Row : r = tx[curId]
    BY <1>1, <2>1
  <2>3. [r EXCEPT !.started = TRUE] \in Row
    BY RowTyping
  <2>4. Queued([r EXCEPT !.started = TRUE]) \in Row
    BY <2>3, RowTyping
  <2>5. Queued([r EXCEPT !.started = TRUE]).live /\ Queued([r EXCEPT !.started = TRUE]).processing
    BY <1>1, <2>1, <2>2, CopyEffects
  <2> QED
    BY <1>1, <2>1, <2>2, <2>4, <2>5, SaveQueue
<1>4. CASE Sign \/ Sent \/ Resend \/ FinishUnknown
  <2>1. /\ pc \in RowSteps
        /\ \E r \in {[cur EXCEPT !.signed = "yes"], cur, [cur EXCEPT !.broadcast = TRUE],
                     Queued(cur)} : tx' = Save(curId, r)
    BY <1>4 DEF Sign, Sent, Resend, FinishUnknown, RowSteps
  <2>2. \A r \in {[cur EXCEPT !.signed = "yes"], cur, [cur EXCEPT !.broadcast = TRUE],
                  Queued(cur)} : r \in Row
    BY <1>1, RowTyping
  <2>3. \A r \in {[cur EXCEPT !.signed = "yes"], cur, [cur EXCEPT !.broadcast = TRUE],
                  Queued(cur)} : r.live /\ (tx[curId].processing => r.processing)
    <3>1. cur.live /\ (cur.processing <=> tx[curId].processing) /\ cur \in Row
      BY <1>1, <2>1
    <3>2. /\ [cur EXCEPT !.signed = "yes"].live
          /\ [cur EXCEPT !.signed = "yes"].processing = cur.processing
      BY <3>1 DEF Row
    <3>3. /\ [cur EXCEPT !.broadcast = TRUE].live
          /\ [cur EXCEPT !.broadcast = TRUE].processing = cur.processing
      BY <3>1 DEF Row
    <3>4. Queued(cur).live /\ Queued(cur).processing
      BY <3>1 DEF Row, Queued
    <3> QED
      BY <3>1, <3>2, <3>3, <3>4
  <2> QED
    BY <1>1, <2>1, <2>2, <2>3, SaveQueue
<1>5. CASE StuckNoticed /\ ~cur.stuck
  <2>1. pc \in RowSteps /\ tx' = Save(curId, [tx[curId] EXCEPT !.stuck = TRUE])
    BY <1>5 DEF StuckNoticed, RowSteps
  <2>2. PICK r \in Row : r = tx[curId]
    BY <1>1, <2>1
  <2>3. [r EXCEPT !.stuck = TRUE] \in Row
    BY RowTyping
  <2>4. /\ [r EXCEPT !.stuck = TRUE].live
        /\ r.processing => [r EXCEPT !.stuck = TRUE].processing
    BY <1>1, <2>1, <2>2, CopyEffects
  <2> QED
    BY <1>1, <2>1, <2>2, <2>3, <2>4, SaveQueue
<1> QED
  BY <1>2, <1>3, <1>4, <1>5
  DEF Keeping, Pick, GetNonce, Start, CheckOk, CheckWaits, Send, Poll, ReceiptTooFresh,
      ReceiptOfOriginal, StuckNoticed, GiveUp, StillPending, FinishUnsaved, StepFails,
      GatherFails, GatherEnds, NewTransfer, Skip, Crash, CrashAmongMarks, Stop, Restart,
      ChainStep, NoDbChange,
      dbVars, vars

(* Lineages of the rows through a step that keeps the rows. *)
LEMMA MovesLineage ==
  ASSUME TypeInv, \A i \in TxIds : RowMoves(i)
  PROVE  \A i \in TxIds : Lineage(i) \subseteq Lineage(i)'
<1> SUFFICES ASSUME NEW i \in TxIds
             PROVE  Lineage(i) \subseteq Lineage(i)'
  OBVIOUS
<1>1. tx \in [TxIds -> Row]
  BY DEF TypeInv, TypeOK
<1>2. \A k \in TxIds : tx'[k].orig = tx[k].orig
  BY DEF RowMoves
<1> QED
  BY <1>1, <1>2, LineageClosed, LineageKept

LEMMA DriveKeeping ==
  ASSUME ~AutomaticRecover, ~AllowSkip, SenderInv, SenderInv', FamilyInv, DriveInv,
         Keeping \/ Pick, pc' # "down"
  PROVE  NoOrphan'
<1>1. /\ TypeInv /\ PayInv /\ LineageInv /\ LinkInv /\ SkipInv /\ CopyInv /\ StepInv
      /\ ConfirmedRoot /\ NoOrphan /\ tx \in [TxIds -> Row]
      /\ transfer \in [Transfers -> TransferRow] /\ transfer' \in [Transfers -> TransferRow]
      /\ pc \in RowSteps => curId \in TxIds /\ tx[curId].live
  BY DEF SenderInv, TypeInv, TypeOK, TaskOK, PayInv, CurInv, LineageInv, ReportInv, FamilyInv,
         DriveInv
<1>2. \A i \in TxIds : RowMoves(i)
  BY <1>1, KeepingMoves, StillMoves DEF Pick, NoDbChange, dbVars
<1>3. \A i \in TxIds : Lineage(i) \subseteq Lineage(i)'
  BY <1>1, <1>2, MovesLineage
<1>4. \A t \in Transfers : StatusMoves(t)
  BY <1>1, KeepingStatus
<1> SUFFICES ASSUME NEW t \in Transfers, WithRow(t)'
             PROVE  Driven(t)'
  BY DEF NoOrphan
<1>5. transfer'[t].txid = transfer[t].txid /\ WithRow(t)
  <2>1. CASE transfer'[t] = transfer[t]
    BY <2>1 DEF WithRow
  <2>2. CASE transfer'[t] # transfer[t]
    <3>1. transfer'[t].txid = transfer[t].txid /\ ~Ended(t) /\ transfer[t].txid # NoTx
      BY <1>4, <2>2 DEF StatusMoves, WithRow
    <3>2. transfer[t].st # "absent"
      BY <1>1, <3>1 DEF LinkInv
    <3> QED
      BY <1>1, <3>1, <3>2 DEF WithRow, Ended, TransferRow
  <2> QED
    BY <2>1, <2>2
<1>6. Driven(t)
  BY <1>1, <1>5 DEF NoOrphan
<1>7. CASE FinishConfirmed \/ FinishFailed
  <2>1. pc = "finish" /\ curId \in TxIds /\ tx[curId].live /\ curId # NoTx
    BY <1>1, <1>7 DEF FinishConfirmed, FinishFailed, RowSteps, NoTx, TxIds
  <2>2. transfer[t].txid # curId
    BY <1>1, <1>5, <1>7, ReportTyping DEF FinishConfirmed, FinishFailed, TransfersOf, WithRow
  <2>3. tx[curId].orig = NoTx
    <3>1. CASE FinishConfirmed
      BY <1>1, <2>1, <3>1 DEF FinishConfirmed, CopyInv, StepInv, RowSteps, ConfirmedRoot,
                              ConfirmedRows, Live
    <3>2. CASE FinishFailed
      BY <1>1, <3>2 DEF FinishFailed, DriveInv, SkipInv
    <3> QED
      BY <1>7, <3>1, <3>2
  <2>4. PICK i \in ToProcess : transfer[t].txid \in Lineage(i)
    BY <1>6, <2>2 DEF Driven
  <2>5. i # curId /\ i \in TxIds
    BY <2>1, <2>2, <2>3, <2>4, LineageOfRoot DEF ToProcess, Live
  <2>6. tx'[i] = tx[i]
    BY <1>1, <1>7, <2>1, <2>5 DEF FinishConfirmed, FinishFailed, Save
  <2>7. i \in ToProcess'
    BY <2>4, <2>6 DEF ToProcess, Live
  <2> QED
    BY <1>3, <1>5, <2>4, <2>5, <2>7 DEF Driven
<1>8. CASE ~FinishConfirmed /\ ~FinishFailed
  <2>1. ToProcess \subseteq ToProcess'
    BY <1>8, QueueKept
  <2>2. CASE \E i \in ToProcess : transfer[t].txid \in Lineage(i)
    <3>1. PICK i \in ToProcess : transfer[t].txid \in Lineage(i)
      BY <2>2
    <3> QED
      BY <1>3, <1>5, <2>1, <3>1 DEF Driven, ToProcess, Live
  <2>3. CASE pc = "finish" /\ curId = transfer[t].txid /\ res # "Confirmed"
    <3>1. curId \in ToProcess /\ curId \in TxIds
      BY <1>1, <2>3 DEF CopyInv, RowSteps, ToProcess, Live
    <3> QED
      BY <2>2, <2>3, <3>1, LineageSelf
  <2>4. CASE pc = "finish" /\ curId = transfer[t].txid /\ res = "Confirmed"
    <3>1. pc' = pc /\ curId' = curId
      BY <1>8, <2>4
      DEF Keeping, Pick, GetNonce, Start, CheckOk, CheckWaits, Sign, Send, Sent, Poll,
          ReceiptTooFresh, ReceiptOfOriginal, StuckNoticed, GiveUp, Resend, StillPending,
          FinishUnknown, FinishUnsaved, StepFails, GatherFails, GatherEnds, NewTransfer, Skip,
          Crash, CrashAmongMarks, Stop, Restart, ChainStep, taskVars, vars
    <3> QED
      BY <1>5, <2>4, <3>1 DEF Driven
  <2> QED
    BY <1>6, <2>2, <2>3, <2>4 DEF Driven
<1> QED
  BY <1>7, <1>8

LEMMA DriveConfirm ==
  ASSUME SenderInv, FamilyInv, DriveInv, ReceiptConfirmed
  PROVE  NoOrphan'
<1>0. TypeInv /\ PayInv /\ LineageInv /\ RootInv /\ NoOrphan
  BY DEF SenderInv, FamilyInv, DriveInv
<1> DEFINE done == cur'
<1>1. Confirms(done) /\ pc = "receipt"
  BY <1>0, ConfirmDone
<1> HIDE DEF done
<1>2. /\ tx \in [TxIds -> Row] /\ transfer \in [Transfers -> TransferRow]
      /\ EdgeInv /\ curId \in TxIds /\ probe \in Lineage(curId) /\ tx[curId].live
  BY <1>0, <1>1 DEF TypeInv, TypeOK, LineageInv, GraphInv, Confirms
<1>3. PICK root \in Roots(probe) : Remap(root, probe)
  BY DEF ReceiptConfirmed
<1>4. root \in Lineage(curId) /\ tx[root].orig = NoTx
  BY <1>2, <1>3, LineageUp DEF Roots
<1>5. \A t \in Transfers :
        /\ transfer'[t].st = transfer[t].st
        /\ transfer'[t].txid = IF transfer[t].txid = root THEN probe ELSE transfer[t].txid
  BY <1>2, <1>3 DEF Remap, TransferRow
<1> SUFFICES ASSUME NEW t \in Transfers, WithRow(t)'
             PROVE  Driven(t)'
  BY DEF NoOrphan
<1>6. CASE transfer[t].txid = root
  BY <1>1, <1>5, <1>6 DEF Driven, Confirms
<1>7. CASE transfer[t].txid # root
  <2>1. transfer'[t].txid = transfer[t].txid
    BY <1>5, <1>7
  <2>2. PICK i \in ToProcess : transfer[t].txid \in Lineage(i)
    BY <1>0, <1>1, <1>5, <2>1 DEF NoOrphan, Driven, WithRow
  <2>3. i \in TxIds /\ tx[i].live /\ tx[i].processing
    BY DEF ToProcess, Live
  <2>4. tx[transfer[t].txid].orig = NoTx
    BY <1>0, <1>2, <2>2, <2>3, LineageCall DEF RootInv
  <2>5. i \notin Lineage(curId)
    BY <1>2, <1>4, <1>7, <2>2, <2>4, LineageUp, OneRoot
  <2>6. /\ tx'[i] = tx[i] /\ Lineage(i) \subseteq Lineage(i)'
    <3>1. i \in Lineage(i)
      BY <2>3, LineageSelf
    <3> QED
      BY <1>0, <1>1, <2>3, <2>5, <3>1, LineageApart
  <2>7. i \in ToProcess'
    BY <2>3, <2>6 DEF ToProcess, Live
  <2> QED
    BY <2>1, <2>2, <2>6, <2>7 DEF Driven
<1> QED
  BY <1>6, <1>7

LEMMA DriveReplace ==
  ASSUME SenderInv, DriveInv, Replace
  PROVE  NoOrphan'
<1>0. TypeInv /\ PayInv /\ LineageInv /\ NoOrphan
  BY DEF SenderInv, DriveInv
<1>1. Replaces(Dequeued(cur), ReplacementOf(curId, cur)) /\ pc = "pending"
  BY <1>0, ReplaceRows
<1> DEFINE old == Dequeued(cur)
           new == ReplacementOf(curId, cur)
<1>2. new.processing
  <2>1. cur.processing = tx[curId].processing /\ tx[curId].processing
    BY <1>0, <1>1 DEF LineageInv, CopyInv, RowSteps
  <2> QED
    BY <2>1 DEF ReplacementOf, NoRow
<1> HIDE DEF old, new
<1>3. PICK c \in TxIds, n \in TxIds : c = curId /\ n = nextId
  BY <1>1 DEF Replaces
<1>4. /\ tx \in [TxIds -> Row] /\ EdgeInv /\ transfer' = transfer
      /\ tx'[n].live /\ tx'[n].processing /\ tx'[n].orig = c /\ c # n /\ ~tx[n].live
      /\ tx'[c].orig = tx[c].orig
      /\ \A i \in TxIds \ {n, c} : tx'[i] = tx[i]
  BY <1>0, <1>1, <1>2, <1>3
  DEF TypeInv, TypeOK, LineageInv, GraphInv, Replace, Replaces, old, new
<1> SUFFICES ASSUME NEW t \in Transfers, WithRow(t)
             PROVE  Driven(t)'
  BY <1>4 DEF NoOrphan, WithRow
<1>5. PICK i \in ToProcess : transfer[t].txid \in Lineage(i)
  BY <1>0, <1>1 DEF NoOrphan, Driven
<1>6. i \in TxIds /\ tx[i].live /\ i # n
  BY <1>4 DEF ToProcess, Live
<1>7. \A k \in Lineage(i) : k \in TxIds /\ k # n
  BY <1>4, <1>6, LineageCall
<1>8. Lineage(i) \subseteq Lineage(i)'
  BY <1>4, <1>6, <1>7, LineageKept
<1>9. CASE i # c
  BY <1>4, <1>5, <1>6, <1>8, <1>9 DEF Driven, ToProcess, Live
<1>10. CASE i = c
  <2>1. Lineage(c)' \subseteq Lineage(n)'
    BY <1>4, <1>6 DEF Lineage, ClosedUnderOrig, NoTx, TxIds
  <2>2. n \in ToProcess'
    BY <1>4 DEF ToProcess, Live
  <2> QED
    BY <1>4, <1>5, <1>8, <1>10, <2>1, <2>2 DEF Driven
<1> QED
  BY <1>9, <1>10

LEMMA DriveGather ==
  ASSUME SenderInv, DriveInv, GatherBatch
  PROVE  NoOrphan' /\ \A i \in ToProcess' : tx'[i].orig = NoTx
<1>1. PICK S \in SUBSET PendingTransfers :
        /\ tx' = [tx EXCEPT ![nextId] = NewRow(S)]
        /\ transfer' = [t \in Transfers |->
                          IF t \in S THEN [transfer[t] EXCEPT !.txid = nextId] ELSE transfer[t]]
  BY DEF GatherBatch
<1>2. PICK n \in TxIds : n = nextId
  BY DEF SenderInv, TypeInv, TypeOK, GatherBatch, TxIds
<1>3. /\ tx \in [TxIds -> Row] /\ transfer \in [Transfers -> TransferRow]
      /\ IdInv /\ EdgeInv /\ NoOrphan /\ ~tx[n].live /\ pc = "gather"
  BY <1>2 DEF SenderInv, TypeInv, TypeOK, PayInv, TableInv, LineageInv, GraphInv, IdInv, TxIds,
              DriveInv, GatherBatch
<1>4. /\ tx'[n].live /\ tx'[n].processing /\ tx'[n].orig = NoTx
      /\ \A i \in TxIds \ {n} : tx'[i] = tx[i]
  BY <1>1, <1>2, <1>3 DEF NewRow, NoRow
<1>5. \A t \in Transfers :
        IF t \in S THEN transfer'[t].txid = n ELSE transfer'[t] = transfer[t]
  BY <1>1, <1>2, <1>3 DEF TransferRow
<1>6. n \in ToProcess' /\ \A i \in ToProcess' : i = n \/ (i \in ToProcess /\ tx'[i] = tx[i])
  BY <1>4 DEF ToProcess, Live
<1>7. ASSUME NEW t \in Transfers, WithRow(t)'
      PROVE  Driven(t)'
  <2>1. CASE t \in S
    <3>1. n \in Lineage(n)'
      BY DEF Lineage
    <3> QED
      BY <1>5, <1>6, <2>1, <3>1 DEF Driven
  <2>2. CASE t \notin S
    <3>1. PICK i \in ToProcess : transfer[t].txid \in Lineage(i)
      BY <1>3, <1>5, <1>7, <2>2 DEF NoOrphan, Driven, WithRow
    <3>2. i \in TxIds /\ tx[i].live /\ i # n
      BY <1>3 DEF ToProcess, Live
    <3>3. \A k \in Lineage(i) : k \in TxIds /\ tx[k].live
      BY <1>3, <3>2, LineageCall
    <3>4. Lineage(i) \subseteq Lineage(i)'
      BY <1>3, <1>4, <3>2, <3>3, LineageKept
    <3>5. i \in ToProcess'
      BY <1>4, <3>2 DEF ToProcess, Live
    <3> QED
      BY <1>5, <2>2, <3>1, <3>4, <3>5 DEF Driven
  <2> QED
    BY <2>1, <2>2
<1>8. \A i \in ToProcess' : tx'[i].orig = NoTx
  BY <1>3, <1>4, <1>6 DEF DriveInv
<1> QED
  BY <1>7, <1>8 DEF NoOrphan

(* What DriveInv says of gathering and of giving up. *)
LEMMA DriveTask ==
  ASSUME ~AutomaticRecover, SenderInv, DriveInv, Keeping \/ Pick
  PROVE  /\ pc' = "gather" => \A i \in ToProcess' : tx'[i].orig = NoTx
         /\ pc' = "finish" /\ res' = "NeedRetry" => tx'[curId'].orig = NoTx
<1>1. /\ TypeInv /\ PayInv /\ LineageInv /\ CopyInv
      /\ pc \in RowSteps => curId \in TxIds
  BY DEF SenderInv, TypeInv, TaskOK, LineageInv
<1>2. \A i \in TxIds : RowMoves(i)
  BY <1>1, KeepingMoves, StillMoves DEF Pick, NoDbChange, dbVars
<1>3. \A i \in ToProcess' : i \in ToProcess /\ tx'[i].orig = tx[i].orig
  BY <1>1, <1>2 DEF ToProcess, Live, RowMoves, TypeInv, TypeOK
<1>4. ASSUME pc' = "gather"
      PROVE  pc = "gather" \/ ToProcess = {}
  BY <1>4
  DEF Keeping, Pick, GetNonce, Start, CheckOk, CheckWaits, Sign, Send, Sent, Poll,
      ReceiptTooFresh, ReceiptOfOriginal, StuckNoticed, GiveUp, Resend, StillPending,
      FinishConfirmed, FinishFailed, FinishUnknown, FinishUnsaved, StepFails, GatherFails,
      GatherEnds, NewTransfer, Skip, Crash, CrashAmongMarks, Stop, Restart, ChainStep, taskVars,
      vars, Goto, Result,
      Leave, AfterSign
<1>5. ASSUME pc' = "finish", res' = "NeedRetry"
      PROVE  (pc = "finish" /\ res = "NeedRetry" /\ curId' = curId) \/ GiveUp
  BY <1>5
  DEF Keeping, Pick, GetNonce, Start, CheckOk, CheckWaits, Sign, Send, Sent, Poll,
      ReceiptTooFresh, ReceiptOfOriginal, StuckNoticed, Resend, StillPending,
      FinishConfirmed, FinishFailed, FinishUnknown, FinishUnsaved, StepFails, GatherFails,
      GatherEnds, NewTransfer, Skip, Crash, CrashAmongMarks, Stop, Restart, ChainStep, taskVars,
      vars, Goto, Result,
      Leave, AfterSign
<1>6. GiveUp => pc = "receipt" /\ cur.orig = NoTx /\ curId' = curId
  BY DEF GiveUp
<1> QED
  BY <1>1, <1>2, <1>3, <1>4, <1>5, <1>6 DEF DriveInv, CopyInv, RowSteps, RowMoves

LEMMA DriveStep ==
  ASSUME ~AutomaticRecover, ~AllowSkip, ~CleanupWhenUp, MaxRestarts = 0,
         SenderInv, SenderInv', FamilyInv, DriveInv, [Next]_vars
  PROVE  DriveInv'
<1>1. restarts' = 0 /\ pc' # "down"
  BY NoCrash DEF DriveInv
<1> SUFFICES /\ NoOrphan'
             /\ pc' = "gather" => \A i \in ToProcess' : tx'[i].orig = NoTx
             /\ pc' = "finish" /\ res' = "NeedRetry" => tx'[curId'].orig = NoTx
  BY <1>1 DEF DriveInv
<1>2. CASE Keeping \/ Pick
  BY <1>1, <1>2, DriveKeeping, DriveTask
<1>3. CASE ReceiptConfirmed
  BY <1>3, DriveConfirm DEF ReceiptConfirmed, Result
<1>4. CASE Replace
  BY <1>4, DriveReplace DEF Replace, Leave
<1>5. CASE GatherBatch
  BY <1>5, DriveGather DEF GatherBatch, taskVars
<1>6. CASE CleanupUnsent
  BY <1>6 DEF CleanupUnsent, DriveInv
<1> QED
  BY <1>2, <1>3, <1>4, <1>5, <1>6, NextCases

LEMMA DriveInit == Init => DriveInv
  BY DEF Init, DriveInv, NoOrphan, WithRow

LEMMA FamilyInvariant ==
  ASSUME ~AutomaticRecover, ~CleanupWhenUp
  PROVE  Spec => [](SenderInv /\ FamilyInv)
<1>1. Spec => []SenderInv
  BY SenderInvariant
<1>2. Init => FamilyInv
  BY FamilyInit
<1>3. SenderInv /\ FamilyInv /\ [Next]_vars => FamilyInv'
  BY FamilyStep
<1> QED
  BY <1>1, <1>2, <1>3, PTL DEF Spec

LEMMA DriveInvariant ==
  ASSUME ~AutomaticRecover, ~AllowSkip, ~CleanupWhenUp, MaxRestarts = 0
  PROVE  Spec => []DriveInv
<1>1. Spec => [](SenderInv /\ FamilyInv)
  BY FamilyInvariant
<1>2. Init => DriveInv
  BY DriveInit
<1>3. SenderInv /\ SenderInv' /\ FamilyInv /\ DriveInv /\ [Next]_vars => DriveInv'
  BY DriveStep
<1> QED
  BY <1>1, <1>2, <1>3, PTL DEF Spec

(* While the service runs, a transfer that has a row and no result leads to *)
(* a row in the queue, whatever the chain and the RPC nodes do: no order of *)
(* replacements, dropped transactions and failing calls orphans it.         *)
THEOREM NobodyIsForgotten ==
  ASSUME ~AutomaticRecover, ~AllowSkip, ~CleanupWhenUp, MaxRestarts = 0
  PROVE  Spec => []NoOrphan
<1>1. DriveInv => NoOrphan
  BY DEF DriveInv
<1> QED
  BY <1>1, DriveInvariant, PTL

(* What service_loop says of the moment it gathers: everything that has a   *)
(* row is processed, but for what this gathering has just made a row.       *)
THEOREM AllProcessedBeforeGathering ==
  ASSUME ~AutomaticRecover, ~AllowSkip, ~CleanupWhenUp, MaxRestarts = 0
  PROVE  Spec => []GatherFindsAllProcessed
<1>1. DriveInv => GatherFindsAllProcessed
  <2> SUFFICES ASSUME DriveInv, pc = "gather", NEW t \in Transfers, WithRow(t)
               PROVE  transfer[t].txid \in ToProcess
    BY DEF GatherFindsAllProcessed
  <2>1. PICK i \in ToProcess : transfer[t].txid \in Lineage(i)
    BY DEF DriveInv, NoOrphan, Driven
  <2>2. i \in TxIds /\ tx[i].orig = NoTx
    BY DEF DriveInv, ToProcess, Live
  <2> QED
    BY <2>1, <2>2, LineageOfRoot
<1> QED
  BY <1>1, DriveInvariant, PTL

-----------------------------------------------------------------------------
(* What is confirmed is not touched again.                                  *)

AtRestInv ==
  /\ restarts = 0 /\ pc # "down"
  /\ \A i \in ConfirmedRows :
       tx[i].processing => pc = "finish" /\ res = "Confirmed" /\ curId = i
  /\ pc = "finish" /\ res = "Confirmed" => Hash(cur) = Hash(tx[curId])

KeepsHashes == \A i \in ConfirmedRows : tx'[i].live => Hash(tx'[i]) = Hash(tx[i])

(* A step writes one row at most, the task's. *)
LEMMA KeepingWrites ==
  ASSUME ~AutomaticRecover, Keeping \/ Pick
  PROVE  tx' = tx \/ (pc \in RowSteps /\ \E r : tx' = Save(curId, r))
<1>1. CASE Start \/ Sign \/ Sent \/ StuckNoticed \/ Resend
  BY <1>1 DEF Start, Sign, Sent, StuckNoticed, Resend, RowSteps
<1>2. CASE FinishConfirmed \/ FinishFailed \/ FinishUnknown
  BY <1>2 DEF FinishConfirmed, FinishFailed, FinishUnknown, RowSteps
<1>3. CASE GetNonce \/ CheckOk \/ CheckWaits \/ Send \/ Poll \/ ReceiptTooFresh
           \/ ReceiptOfOriginal \/ StillPending \/ FinishUnsaved \/ StepFails
  BY <1>3 DEF GetNonce, CheckOk, CheckWaits, Send, Poll, ReceiptTooFresh, ReceiptOfOriginal,
              StillPending, FinishUnsaved, StepFails, NoDbChange, dbVars
<1> QED
  BY <1>1, <1>2, <1>3, MarkStep
  DEF Keeping, Pick, GiveUp, GatherEnds,
      NewTransfer, Skip, Crash, CrashAmongMarks, Stop, Restart, ChainStep, NoDbChange, dbVars, vars

LEMMA HashKeeping ==
  ASSUME ~AutomaticRecover, SenderInv, FamilyInv, AtRestInv, Keeping \/ Pick, pc' # "down"
  PROVE  /\ KeepsHashes
         /\ \A i \in ConfirmedRows' :
              tx'[i].processing => pc' = "finish" /\ res' = "Confirmed" /\ curId' = i
         /\ pc' = "finish" /\ res' = "Confirmed" => Hash(cur)' = Hash(tx'[curId'])
<1>1. /\ TypeInv /\ PayInv /\ LineageInv /\ CopyInv /\ StepInv /\ cur \in Row
      /\ tx \in [TxIds -> Row] /\ transfer \in [Transfers -> TransferRow]
      /\ pc \in RowSteps => curId \in TxIds /\ tx[curId].live /\ cur.call = tx[curId].call
  BY DEF SenderInv, TypeInv, TypeOK, TaskOK, LineageInv, PayInv, CurInv
<1>2. \A i \in TxIds : RowMoves(i)
  BY <1>1, KeepingMoves, StillMoves DEF Pick, NoDbChange, dbVars
<1>3. pc \in RowSteps /\ ~(pc = "finish" /\ res = "Confirmed")
        => ~tx[curId].confirmed /\ ~cur.confirmed
  BY <1>1 DEF CopyInv, AtRestInv, ConfirmedRows, Live
<1>4. ASSUME pc = "finish", res = "Confirmed"
      PROVE  /\ tx[curId].confirmed /\ TransfersOf(curId) # {}
             /\ \/ FinishConfirmed
                \/ pc' = pc /\ res' = res /\ curId' = curId /\ cur' = cur /\ tx' = tx
  <2>1. tx[curId].confirmed /\ curId \in TxIds /\ tx[curId].live
    BY <1>1, <1>4 DEF CopyInv, StepInv, RowSteps
  <2>2. tx[curId].orig = NoTx
    BY <2>1 DEF FamilyInv, ConfirmedRoot, ConfirmedRows, Live
  <2>3. PICK t \in tx[curId].call : transfer[t].txid \in Lineage(curId)
    BY <2>1 DEF FamilyInv, CallInv
  <2>4. t \in TransfersOf(curId)
    BY <1>1, <2>1, <2>2, <2>3, LineageOfRoot DEF TransfersOf, Row
  <2>5. FinishConfirmed \/ (pc' = pc /\ res' = res /\ curId' = curId /\ cur' = cur /\ tx' = tx)
    BY <1>4
    DEF Keeping, Pick, GetNonce, Start, CheckOk, CheckWaits, Sign, Send, Sent, Poll,
        ReceiptTooFresh, ReceiptOfOriginal, StuckNoticed, GiveUp, Resend, StillPending,
        FinishFailed, FinishUnknown, FinishUnsaved, StepFails, GatherFails, GatherEnds,
        NewTransfer, Skip, Crash, CrashAmongMarks, Stop, Restart, ChainStep, NoDbChange, dbVars,
        taskVars, vars
  <2> QED
    BY <2>1, <2>4, <2>5
<1>5. FinishConfirmed /\ TransfersOf(curId) # {} =>
        /\ pc = "finish" /\ res = "Confirmed" /\ tx' = [tx EXCEPT ![curId] = Dequeued(cur)]
        /\ pc' = "top"
  BY <1>1 DEF FinishConfirmed, Save, Leave, RowSteps
<1>6. Hash(Dequeued(cur)) = Hash(cur) /\ ~Dequeued(cur).processing
  BY <1>1 DEF Row, Hash, Dequeued
<1>7. KeepsHashes
  <2> SUFFICES ASSUME NEW i \in ConfirmedRows, tx' # tx
               PROVE  Hash(tx'[i]) = Hash(tx[i])
    BY DEF KeepsHashes
  <2>1. pc \in RowSteps /\ i \in TxIds /\ \E r : tx' = Save(curId, r)
    BY KeepingWrites DEF ConfirmedRows, Live
  <2>2. CASE i # curId
    BY <1>1, <2>1, <2>2 DEF Save
  <2>3. CASE i = curId
    <3>1. pc = "finish" /\ res = "Confirmed"
      BY <1>3, <2>1, <2>3 DEF ConfirmedRows
    <3>2. tx' = [tx EXCEPT ![curId] = Dequeued(cur)]
      BY <1>4, <1>5, <3>1
    <3>3. tx'[curId] = Dequeued(cur)
      BY <1>1, <2>1, <3>2
    <3> QED
      BY <1>6, <2>3, <3>1, <3>3 DEF AtRestInv
  <2> QED
    BY <2>2, <2>3
<1>8. ASSUME NEW i \in ConfirmedRows', tx'[i].processing
      PROVE  pc' = "finish" /\ res' = "Confirmed" /\ curId' = i
  <2>1. i \in ConfirmedRows /\ i \in TxIds /\ tx[i].processing
    BY <1>1, <1>2, <1>8 DEF ConfirmedRows, Live, RowMoves
  <2>2. pc = "finish" /\ res = "Confirmed" /\ curId = i
    BY <2>1 DEF AtRestInv
  <2>3. ~FinishConfirmed
    <3> SUFFICES ASSUME FinishConfirmed
                 PROVE  FALSE
      OBVIOUS
    <3>1. tx'[curId] = Dequeued(cur)
      BY <1>1, <1>4, <1>5, <2>1, <2>2
    <3> QED
      BY <1>6, <1>8, <2>2, <3>1
  <2> QED
    BY <1>4, <2>2, <2>3
<1>9. ASSUME pc' = "finish", res' = "Confirmed"
      PROVE  Hash(cur)' = Hash(tx'[curId'])
  <2>1. CASE pc = "finish" /\ res = "Confirmed"
    BY <1>4, <1>5, <1>9, <2>1 DEF AtRestInv, Hash
  <2>2. CASE ~(pc = "finish" /\ res = "Confirmed")
    <3>1. Start \/ Sign
      BY <1>9, <2>2
      DEF Keeping, Pick, GetNonce, CheckOk, CheckWaits, Send, Sent, Poll,
          ReceiptTooFresh, ReceiptOfOriginal, StuckNoticed, GiveUp, Resend, StillPending,
          FinishConfirmed, FinishFailed, FinishUnknown, FinishUnsaved, StepFails, GatherFails,
          GatherEnds, NewTransfer, Skip, Crash, CrashAmongMarks, Stop, Restart, ChainStep,
          taskVars, vars, Goto,
          Result, Leave
    <3>2. ~cur.confirmed /\ ~([cur EXCEPT !.signed = "yes"].confirmed)
      BY <1>1, <1>3, <3>1, CopyEffects DEF Start, Sign, RowSteps
    <3> QED
      BY <1>9, <3>1, <3>2 DEF Start, Sign, AfterSign, Goto
  <2> QED
    BY <2>1, <2>2
<1> QED
  BY <1>7, <1>8, <1>9

LEMMA HashConfirm ==
  ASSUME SenderInv, AtRestInv, ReceiptConfirmed
  PROVE  /\ KeepsHashes
         /\ \A i \in ConfirmedRows' :
              tx'[i].processing => pc' = "finish" /\ res' = "Confirmed" /\ curId' = i
         /\ Hash(cur)' = Hash(tx'[curId'])
<1> DEFINE done == cur'
<1>0. TypeInv /\ PayInv /\ LineageInv
  BY DEF SenderInv
<1>1. Confirms(done) /\ pc = "receipt"
  BY <1>0, ConfirmDone
<1>2. /\ tx \in [TxIds -> Row] /\ probe \in TxIds /\ cur \in Row
      /\ ~tx[curId].confirmed
  BY <1>0, <1>1 DEF TypeInv, TypeOK, Confirms, Underway
<1>3. \A i \in TxIds \ {probe} : tx'[i].live => tx'[i] = tx[i]
  BY <1>1 DEF Confirms, NoRow
<1>4. probe # curId => Hash(done) = Hash(tx[probe])
  <2> SUFFICES ASSUME probe # curId
               PROVE  Hash(done) = Hash(tx[probe])
    OBVIOUS
  <2>1. done = [tx[probe] EXCEPT !.confirmed = TRUE, !.orig = NoTx, !.signed = "cleared"]
    BY DEF ReceiptConfirmed, ProbeRow
  <2> QED
    BY <1>2, <2>1 DEF Hash, Row
<1>5. tx'[probe] = done /\ curId' = probe /\ pc' = "finish" /\ res' = "Confirmed"
  BY <1>1 DEF Confirms
<1> HIDE DEF done
<1>6. KeepsHashes
  <2> SUFFICES ASSUME NEW i \in ConfirmedRows, tx'[i].live
               PROVE  Hash(tx'[i]) = Hash(tx[i])
    BY DEF KeepsHashes
  <2>1. i \in TxIds /\ i # curId
    BY <1>2 DEF ConfirmedRows, Live
  <2> QED
    BY <1>3, <1>4, <1>5, <2>1
<1>7. ASSUME NEW i \in ConfirmedRows', tx'[i].processing, i # probe
      PROVE  FALSE
  <2>1. i \in ConfirmedRows /\ tx[i].processing
    BY <1>3, <1>7 DEF ConfirmedRows, Live
  <2> QED
    BY <1>1, <2>1 DEF AtRestInv
<1>8. Hash(cur)' = Hash(tx'[curId'])
  BY <1>5 DEF Hash, done
<1> QED
  BY <1>5, <1>6, <1>7, <1>8

(* Rows that come or go without the task's writing. *)
LEMMA HashInsert ==
  ASSUME SenderInv, AtRestInv, Replace \/ GatherBatch
  PROVE  /\ KeepsHashes /\ pc' # "finish"
         /\ \A i \in ConfirmedRows' : ~tx'[i].processing
<1>0. TypeInv /\ PayInv /\ LineageInv /\ tx \in [TxIds -> Row]
  BY DEF SenderInv, TypeInv, TypeOK
<1>1. pc' # "finish" /\ \A i \in ConfirmedRows : ~tx[i].processing
  BY DEF Replace, GatherBatch, Leave, taskVars, AtRestInv
<1>2. \A i \in ConfirmedRows \union ConfirmedRows' : tx'[i] = tx[i]
  <2>1. CASE Replace
    <3>1. PICK old, new : Replaces(old, new)
      BY <1>0, <2>1, ReplaceRows
    <3>2. ~tx[curId].confirmed
      BY <3>1 DEF Replaces, Underway
    <3> QED
      BY <3>1, <3>2 DEF Replaces, ConfirmedRows, Live
  <2>2. CASE GatherBatch
    <3>1. PICK S : tx' = [tx EXCEPT ![nextId] = NewRow(S)]
      BY <2>2 DEF GatherBatch
    <3>2. ~tx[nextId].live \/ nextId \notin TxIds
      BY <1>0 DEF PayInv, TableInv, IdInv, TypeInv, TypeOK, TxIds
    <3>3. ~NewRow(S).confirmed
      BY DEF NewRow, NoRow
    <3> QED
      BY <1>0, <3>1, <3>2, <3>3 DEF ConfirmedRows, Live
  <2> QED
    BY <2>1, <2>2
<1>3. ConfirmedRows' \subseteq ConfirmedRows
  BY <1>2 DEF ConfirmedRows, Live
<1> QED
  BY <1>1, <1>2, <1>3 DEF KeepsHashes

LEMMA HashStep ==
  ASSUME ~AutomaticRecover, ~CleanupWhenUp, MaxRestarts = 0,
         SenderInv, FamilyInv, AtRestInv, [Next]_vars
  PROVE  AtRestInv' /\ KeepsHashes
<1>1. restarts' = 0 /\ pc' # "down"
  BY NoCrash DEF AtRestInv
<1> SUFFICES /\ KeepsHashes
             /\ \A i \in ConfirmedRows' :
                  tx'[i].processing => pc' = "finish" /\ res' = "Confirmed" /\ curId' = i
             /\ pc' = "finish" /\ res' = "Confirmed" => Hash(cur)' = Hash(tx'[curId'])
  BY <1>1 DEF AtRestInv, Hash
<1>2. CASE Keeping \/ Pick
  BY <1>1, <1>2, HashKeeping
<1>3. CASE ReceiptConfirmed
  BY <1>3, HashConfirm
<1>4. CASE Replace \/ GatherBatch
  BY <1>4, HashInsert
<1>5. CASE CleanupUnsent
  BY <1>5 DEF CleanupUnsent, AtRestInv
<1> QED
  BY <1>2, <1>3, <1>4, <1>5, NextCases

(* While the service runs, a confirmed row keeps the hash that was mined:   *)
(* it is never signed again with another fee or gas limit, and no other     *)
(* row's outcome is written over it.                                        *)
THEOREM MinedHashIsKept ==
  ASSUME ~AutomaticRecover, ~CleanupWhenUp, MaxRestarts = 0
  PROVE  Spec => ConfirmedHashStays
<1>1. Spec => [](SenderInv /\ FamilyInv)
  BY FamilyInvariant
<1>2. Init => AtRestInv
  BY DEF Init, AtRestInv, ConfirmedRows, Live, NoRow
<1>3. SenderInv /\ FamilyInv /\ AtRestInv /\ [Next]_vars => AtRestInv'
  BY HashStep
<1>4. SenderInv /\ FamilyInv /\ AtRestInv /\ [Next]_vars =>
        [\A i \in ConfirmedRows : tx'[i].live => Hash(tx'[i]) = Hash(tx[i])]_vars
  BY HashStep DEF KeepsHashes
<1> QED
  BY <1>1, <1>2, <1>3, <1>4, PTL DEF Spec, ConfirmedHashStays

-----------------------------------------------------------------------------
(* What the network holds, the table knows.                                 *)

(* Row i accounts for the transaction h of the network: it is signed, h is  *)
(* its signature - or it is the confirmed row of h's nonce.                 *)
RowOf(i, h) ==
  /\ tx[i].live
  /\ IF tx[i].confirmed
     THEN h.nonce = tx[i].nonce /\ h.call = tx[i].call
     ELSE tx[i].signed = "yes" /\ h = Hash(tx[i])

SignedInv ==
  /\ \A h \in pool : h.call # {} => \E i \in TxIds : RowOf(i, h)
  /\ pc \in RowSteps /\ cur.signed = "yes" => Hash(cur) = Hash(tx[curId])
  /\ pc \in {"check", "sign"} => cur.signed # "yes"

(* What leaves the hash. *)
LEMMA CopyHash ==
  ASSUME NEW r \in Row
  PROVE  /\ Hash(Queued(r)) = Hash(r) /\ Hash(Dequeued(r)) = Hash(r)
         /\ Hash(Queued([r EXCEPT !.started = TRUE])) = Hash(r)
         /\ Hash([r EXCEPT !.broadcast = TRUE]) = Hash(r)
         /\ Hash([r EXCEPT !.stuck = TRUE]) = Hash(r)
  BY DEF Row, Queued, Dequeued, Hash

LEMMA RowOfKept ==
  ASSUME ~AutomaticRecover, SenderInv, SignedInv, Keeping \/ Pick,
         NEW i \in TxIds, NEW h, h.nonce \in Nat, RowOf(i, h)
  PROVE  RowOf(i, h)'
<1>1. /\ TypeInv /\ PayInv /\ LineageInv /\ cur \in Row /\ tx \in [TxIds -> Row]
      /\ pc \in RowSteps => /\ curId \in TxIds /\ tx[curId].live
                            /\ cur.signed = tx[curId].signed
                            /\ cur.confirmed = tx[curId].confirmed
  BY DEF SenderInv, TypeInv, TypeOK, TaskOK, PayInv, CurInv, LineageInv, CopyInv
<1>2. RowMoves(i)
  BY <1>1, KeepingMoves, StillMoves DEF Pick, NoDbChange, dbVars
<1>3. tx'[i].live /\ tx'[i].confirmed = tx[i].confirmed /\ tx'[i].call = tx[i].call
  BY <1>2 DEF RowMoves, RowOf
<1>4. CASE tx'[i] = tx[i]
  BY <1>4 DEF RowOf
<1>5. CASE tx[i].confirmed
  <2>1. tx'[i].nonce = tx[i].nonce
    BY <1>2, <1>5 DEF RowOf, RowMoves, NoNonce
  <2> QED
    BY <1>3, <1>5, <2>1 DEF RowOf
<1>6. CASE ~tx[i].confirmed /\ tx'[i] # tx[i]
  <2>1. pc \in RowSteps /\ i = curId
    BY <1>1, <1>6, KeepingWrites DEF Save
  <2>2. cur.signed = "yes" /\ tx[i].signed = "yes" /\ Hash(cur) = Hash(tx[i])
    BY <1>1, <1>6, <2>1 DEF RowOf, SignedInv
  <2>3. \E r \in {Queued([tx[i] EXCEPT !.started = TRUE]), [tx[i] EXCEPT !.stuck = TRUE],
                  cur, [cur EXCEPT !.broadcast = TRUE], Queued(cur), Dequeued(cur)} :
          tx' = Save(i, r)
    <3>1. ~Sign
      BY <2>2 DEF Sign, SignedInv
    <3>2. CASE Start \/ Sent \/ StuckNoticed \/ Resend
      BY <1>6, <2>1, <3>2 DEF Start, Sent, StuckNoticed, Resend
    <3>3. CASE FinishConfirmed \/ FinishFailed \/ FinishUnknown
      BY <1>6, <2>1, <3>3 DEF FinishConfirmed, FinishFailed, FinishUnknown
    <3>4. CASE GetNonce \/ CheckOk \/ CheckWaits \/ Send \/ Poll \/ ReceiptTooFresh
               \/ ReceiptOfOriginal \/ StillPending \/ FinishUnsaved \/ StepFails
      BY <1>6, <3>4
      DEF GetNonce, CheckOk, CheckWaits, Send, Poll, ReceiptTooFresh, ReceiptOfOriginal,
          StillPending, FinishUnsaved, StepFails, NoDbChange, dbVars
    <3> QED
      BY <1>6, <3>1, <3>2, <3>3, <3>4
      DEF Keeping, Pick, GiveUp, GatherFails, GatherEnds, NewTransfer, Skip, Crash,
        CrashAmongMarks, Stop, Restart,
          ChainStep, NoDbChange, dbVars, vars
  <2>4. ASSUME NEW r \in {Queued([tx[i] EXCEPT !.started = TRUE]), [tx[i] EXCEPT !.stuck = TRUE],
                          cur, [cur EXCEPT !.broadcast = TRUE], Queued(cur), Dequeued(cur)}
        PROVE  r.signed = "yes" /\ Hash(r) = Hash(tx[i])
    <3>1. PICK o \in Row : o = tx[i]
      BY <1>1
    <3>2. /\ Queued([o EXCEPT !.started = TRUE]).signed = o.signed
          /\ [o EXCEPT !.stuck = TRUE].signed = o.signed
          /\ Hash(Queued([o EXCEPT !.started = TRUE])) = Hash(o)
          /\ Hash([o EXCEPT !.stuck = TRUE]) = Hash(o)
      BY CopyEffects, CopyHash
    <3>3. /\ [cur EXCEPT !.broadcast = TRUE].signed = cur.signed
          /\ Queued(cur).signed = cur.signed /\ Dequeued(cur).signed = cur.signed
          /\ Hash([cur EXCEPT !.broadcast = TRUE]) = Hash(cur)
          /\ Hash(Queued(cur)) = Hash(cur) /\ Hash(Dequeued(cur)) = Hash(cur)
      BY <1>1, CopyEffects, CopyHash
    <3> QED
      BY <2>2, <3>1, <3>2, <3>3
  <2>5. PICK r : tx' = Save(i, r) /\ r.signed = "yes" /\ Hash(r) = Hash(tx[i])
    BY <2>3, <2>4
  <2>6. tx'[i] = r
    BY <1>1, <2>1, <2>5 DEF Save
  <2> QED
    BY <1>3, <1>6, <2>5, <2>6 DEF RowOf
<1> QED
  BY <1>4, <1>5, <1>6

LEMMA RowOfCall ==
  ASSUME NEW i \in TxIds, NEW h, RowOf(i, h)
  PROVE  tx[i].live /\ h.nonce = tx[i].nonce /\ h.call = tx[i].call
  BY DEF RowOf, Hash

(* What such a step sends is the signature of the task's row. *)
LEMMA KeepingSends ==
  ASSUME TypeInv, PayInv, Keeping \/ Pick
  PROVE  \A h \in pool' :
           \/ h \in pool
           \/ h.call = {}
           \/ (Send \/ Resend) /\ h = Hash(cur) /\ h.nonce >= LatestNonce
<1>1. CASE pool' = pool
  BY <1>1
<1>2. CASE Send \/ Resend
  <2>1. Accept(Hash(cur)) \/ pool' = pool
    BY <1>2 DEF Send, Resend
  <2> QED
    BY <1>2, <2>1 DEF Accept
<1>3. CASE Reorg
  <2>1. chain \in Seq(Signed) /\ final \in Nat /\ Len(chain) > final
    BY <1>3 DEF Reorg, TypeInv, TypeOK, ChainTypeOK
  <2>2. Len(chain) \in DOMAIN chain
    BY <2>1
  <2>3. chain[Len(chain)].call = {} \/ chain[Len(chain)] \in pool
    BY <2>2 DEF PayInv, ChainInv
  <2> QED
    BY <1>3, <2>3 DEF Reorg
<1> QED
  BY <1>1, <1>2, <1>3
  DEF Keeping, Pick, GetNonce, Start, CheckOk, CheckWaits, Sign, Sent, Poll, ReceiptTooFresh,
      ReceiptOfOriginal, StuckNoticed, GiveUp, StillPending, FinishConfirmed, FinishFailed,
      FinishUnknown, FinishUnsaved, StepFails, GatherFails, GatherEnds, NewTransfer, Skip, Crash,
      CrashAmongMarks, Stop,
      Restart, ChainStep, ChainNext, Mine, ExternalTx, Finalize, NoChainChange, chainVars, vars

(* The copy is signed as the row is. *)
LEMMA CopySigned ==
  ASSUME ~AutomaticRecover, SenderInv, SignedInv, Keeping \/ Pick
  PROVE  /\ pc' \in RowSteps /\ cur'.signed = "yes" => Hash(cur)' = Hash(tx'[curId'])
         /\ pc' \in {"check", "sign"} => cur'.signed # "yes"
<1>1. /\ cur \in Row /\ tx \in [TxIds -> Row]
      /\ pc \in RowSteps => /\ curId \in TxIds /\ tx[curId].live
                            /\ cur.signed = tx[curId].signed
      /\ pc = "nonce" => tx[curId].signed = "no"
  BY DEF SenderInv, TypeInv, TypeOK, TaskOK, PayInv, CurInv, TableInv, NonceInv, RowSteps
<1>2. /\ pc \in RowSteps /\ cur.signed = "yes" => Hash(cur) = Hash(tx[curId])
      /\ pc \in {"check", "sign"} => cur.signed # "yes"
  BY DEF SignedInv
<1>3. CASE Pick
  BY <1>3 DEF Pick, NoDbChange, dbVars, Hash, Goto, Result, RowSteps
<1>4. CASE GetNonce
  BY <1>1, <1>4 DEF GetNonce, Leave, Goto, Row, RowSteps
<1>5. CASE Start
  <2>1. PICK o \in Row : o = tx[curId]
    BY <1>1, <1>5 DEF Start, RowSteps
  <2>2. /\ Hash(Queued([o EXCEPT !.started = TRUE])) = Hash(o)
        /\ Hash(Queued([cur EXCEPT !.started = TRUE])) = Hash(cur)
        /\ Queued([cur EXCEPT !.started = TRUE]).signed = cur.signed
    BY <1>1, CopyHash, CopyEffects
  <2>3. curId \in TxIds /\ curId' = curId /\ tx[curId].live
    BY <1>1, <1>5 DEF Start, RowSteps
  <2>4. \/ cur' = cur /\ tx'[curId] = o
        \/ /\ cur' = Queued([cur EXCEPT !.started = TRUE])
           /\ tx'[curId] = Queued([o EXCEPT !.started = TRUE])
    BY <1>1, <1>5, <2>1, <2>3 DEF Start, Save
  <2>5. cur'.signed = cur.signed /\ Hash(cur)' = Hash(cur) /\ Hash(tx'[curId]) = Hash(o)
    BY <2>2, <2>4 DEF Hash
  <2>6. cur.signed = "yes" => pc' \notin {"check", "sign"}
    BY <1>5 DEF Start, Goto, AfterSign
  <2>7. pc \in RowSteps
    BY <1>5 DEF Start, RowSteps
  <2> QED
    BY <1>2, <2>1, <2>3, <2>5, <2>6, <2>7
<1>6. CASE CheckOk
  BY <1>1, <1>2, <1>6 DEF CheckOk, Row
<1>7. CASE Sign
  <2>1. curId \in TxIds /\ curId' = curId /\ tx[curId].live
    BY <1>1, <1>7 DEF Sign, RowSteps
  <2>2. tx'[curId] = cur' /\ pc' \notin {"check", "sign"}
    BY <1>1, <1>7, <2>1 DEF Sign, Save, Goto, AfterSign
  <2> QED
    BY <2>1, <2>2 DEF Hash
<1>8. CASE Send
  <2>1. Hash([cur EXCEPT !.broadcast = TRUE]) = Hash(cur)
        /\ [cur EXCEPT !.broadcast = TRUE].signed = cur.signed
    BY <1>1, CopyHash, CopyEffects
  <2> QED
    BY <1>2, <1>8, <2>1 DEF Send, NoDbChange, dbVars, Goto, RowSteps, Hash
<1>9. CASE Sent
  BY <1>1, <1>2, <1>9 DEF Sent, Save, Goto, RowSteps, Hash
<1>10. CASE StuckNoticed
  <2>1. PICK o \in Row : o = tx[curId]
    BY <1>1, <1>10 DEF StuckNoticed, RowSteps
  <2>2. /\ Hash([o EXCEPT !.stuck = TRUE]) = Hash(o)
        /\ Hash([cur EXCEPT !.stuck = TRUE]) = Hash(cur)
        /\ [cur EXCEPT !.stuck = TRUE].signed = cur.signed
    BY <1>1, CopyHash, CopyEffects
  <2>3. curId \in TxIds /\ curId' = curId /\ tx[curId].live /\ pc \in RowSteps /\ pc' = "pending"
    BY <1>1, <1>10 DEF StuckNoticed, RowSteps, Goto
  <2>4. \/ cur' = cur /\ tx'[curId] = o
        \/ cur' = [cur EXCEPT !.stuck = TRUE] /\ tx'[curId] = [o EXCEPT !.stuck = TRUE]
    BY <1>1, <1>10, <2>1, <2>3 DEF StuckNoticed, Save
  <2>5. cur'.signed = cur.signed /\ Hash(cur)' = Hash(cur) /\ Hash(tx'[curId]) = Hash(o)
    BY <2>2, <2>4 DEF Hash
  <2> QED
    BY <1>2, <2>1, <2>3, <2>5
<1>11. CASE Resend
  <2>1. curId \in TxIds /\ curId' = curId /\ tx[curId].live
    BY <1>1, <1>11 DEF Resend, RowSteps
  <2>2. tx'[curId] = cur' /\ pc' = "poll"
    BY <1>1, <1>11, <2>1 DEF Resend, Save, Goto
  <2> QED
    BY <2>1, <2>2 DEF Hash
<1>12. CASE \/ CheckWaits \/ Poll \/ ReceiptTooFresh \/ ReceiptOfOriginal \/ StillPending \/ GiveUp
  <2>1. cur' = cur /\ curId' = curId /\ tx' = tx /\ pc \in RowSteps /\ pc' \notin {"check", "sign"}
    BY <1>12 DEF CheckWaits, Poll, ReceiptTooFresh, ReceiptOfOriginal, StillPending, GiveUp,
                 NoDbChange, dbVars, Goto, Result, RowSteps
  <2> QED
    BY <1>2, <2>1 DEF Hash
<1>13. CASE FinishConfirmed \/ FinishFailed \/ FinishUnknown \/ FinishUnsaved \/ StepFails
  BY <1>13 DEF FinishConfirmed, FinishFailed, FinishUnknown, FinishUnsaved, StepFails, Leave,
     RowSteps
<1>14. CASE \/ GatherFails \/ GatherEnds \/ NewTransfer \/ Skip \/ Crash \/ CrashAmongMarks
            \/ Restart
            \/ ChainStep \/ UNCHANGED vars
  <2>1. pc' \notin RowSteps \/ (UNCHANGED taskVars /\ tx' = tx)
    BY <1>14 DEF GatherFails, GatherEnds, NewTransfer, Skip, Crash, CrashAmongMarks, Stop,
      Restart, ChainStep, vars,
                 NoDbChange, dbVars, Goto, RowSteps, taskVars
  <2> QED
    BY <1>2, <2>1 DEF taskVars, Hash, RowSteps
<1> QED
  BY <1>3, <1>4, <1>5, <1>6, <1>7, <1>8, <1>9, <1>10, <1>11, <1>12, <1>13, <1>14 DEF Keeping

LEMMA SignedKeeping ==
  ASSUME ~AutomaticRecover, SenderInv, SignedInv, Keeping \/ Pick
  PROVE  SignedInv'
<1>1. TypeInv /\ PayInv /\ pool \in SUBSET Signed
  BY DEF SenderInv, TypeInv, TypeOK, ChainTypeOK
<1>2. ASSUME NEW h \in pool', h.call # {}
      PROVE  \E i \in TxIds : RowOf(i, h)'
  <2>1. CASE h \in pool
    <3>1. PICK i \in TxIds : RowOf(i, h)
      BY <1>2, <2>1 DEF SignedInv
    <3>2. h.nonce \in Nat
      BY <1>1, <2>1 DEF Signed
    <3> QED
      BY <3>1, <3>2, RowOfKept
  <2>2. CASE (Send \/ Resend) /\ h = Hash(cur)
    <3>1. /\ pc \in UnconfirmedSteps /\ pc \in RowSteps /\ pc # "nonce" /\ pc # "finish"
          /\ pc \in {"send", "sent", "poll", "receipt", "pending"}
      BY <2>2 DEF Send, Resend, UnconfirmedSteps, RowSteps
    <3>2. /\ curId \in TxIds /\ tx[curId].live /\ cur.signed = "yes" /\ tx[curId].signed = "yes"
          /\ ~tx[curId].confirmed /\ cur.nonce \in Nat
      BY <3>1 DEF SenderInv, TypeInv, TaskOK, NonceSteps, PayInv, CurInv, LineageInv, CopyInv,
         StepInv
    <3>3. PICK i \in TxIds : i = curId
      BY <3>2
    <3>4. RowOf(i, h) /\ h.nonce \in Nat
      BY <2>2, <3>1, <3>2, <3>3 DEF RowOf, SignedInv, Hash
    <3> QED
      BY <3>4, RowOfKept
  <2> QED
    BY <1>1, <1>2, <2>1, <2>2, KeepingSends
<1>3. /\ pc' \in RowSteps /\ cur'.signed = "yes" => Hash(cur)' = Hash(tx'[curId'])
      /\ pc' \in {"check", "sign"} => cur'.signed # "yes"
  BY CopySigned
<1> QED
  BY <1>2, <1>3 DEF SignedInv, Hash

(* The confirmed row accounts for what its lineage sent.                    *)
LEMMA SignedConfirm ==
  ASSUME SenderInv, SignedInv, ReceiptConfirmed
  PROVE  SignedInv'
<1> DEFINE done == cur'
<1>0. TypeInv /\ PayInv /\ LineageInv /\ EdgeInv /\ tx \in [TxIds -> Row]
  BY DEF SenderInv, LineageInv, GraphInv, TypeInv, TypeOK
<1>1. Confirms(done)
  BY <1>0, ConfirmDone
<1>2. pool' = pool
  BY DEF ReceiptConfirmed, NoChainChange, chainVars
<1>3. /\ probe \in TxIds /\ curId \in TxIds /\ tx[curId].live
      /\ tx[probe].call = tx[curId].call /\ tx[probe].nonce = tx[curId].nonce
  BY <1>0, <1>1, LineageCall DEF Confirms
<1>4. ASSUME NEW h \in pool, h.call # {}
      PROVE  \E i \in TxIds : RowOf(i, h)'
  <2>1. PICK i \in TxIds : RowOf(i, h)
    BY <1>4 DEF SignedInv
  <2>2. CASE i \in Lineage(curId)
    <3>1. h.nonce = tx[curId].nonce /\ h.call = tx[curId].call
      BY <1>0, <1>3, <2>1, <2>2, RowOfCall, LineageCall
    <3>2. PICK j \in TxIds : j = probe
      BY <1>3
    <3>3. RowOf(j, h)'
      BY <1>1, <1>3, <3>1, <3>2 DEF RowOf, Confirms
    <3> QED
      BY <3>3
  <2>3. CASE i \notin Lineage(curId)
    <3>1. tx'[i] = tx[i]
      BY <1>1, <2>3 DEF Confirms, Gone
    <3>2. RowOf(i, h)'
      BY <2>1, <3>1 DEF RowOf, Hash
    <3> QED
      BY <3>2
  <2> QED
    BY <2>2, <2>3
<1>5. pc' = "finish" /\ cur'.signed = "cleared"
  BY <1>1 DEF Confirms
<1> QED
  BY <1>2, <1>4, <1>5 DEF SignedInv

(* The replaced row stays in the table with its signature.                  *)
LEMMA SignedReplace ==
  ASSUME SenderInv, SignedInv, Replace
  PROVE  SignedInv'
<1>0. TypeInv /\ PayInv /\ LineageInv /\ cur \in Row /\ CurInv
  BY DEF SenderInv, TypeInv, TypeOK, PayInv
<1>1. PICK old, new : Replaces(old, new) /\ old = Dequeued(cur) /\ pc = "pending" /\ pc' = "top"
  BY <1>0, ReplaceRows
<1>2. Hash(old) = Hash(tx[curId])
  BY <1>0, <1>1, CopyHash DEF SignedInv, CurInv, RowSteps
<1>3. pool' = pool
  BY DEF Replace, NoChainChange, chainVars
<1>4. ASSUME NEW h \in pool, h.call # {}
      PROVE  \E i \in TxIds : RowOf(i, h)'
  <2>1. PICK i \in TxIds : RowOf(i, h)
    BY <1>4 DEF SignedInv
  <2>2. CASE i = curId
    <3>1. ~tx[curId].confirmed
      BY <1>1 DEF Replaces, Underway
    <3>2. RowOf(i, h)'
      BY <1>1, <1>2, <2>1, <2>2, <3>1 DEF RowOf, Replaces, Hash
    <3> QED
      BY <3>2
  <2>3. CASE i # curId
    <3>1. tx'[i] = tx[i]
      BY <1>1, <2>1, <2>3 DEF Replaces, RowOf
    <3>2. RowOf(i, h)'
      BY <2>1, <3>1 DEF RowOf, Hash
    <3> QED
      BY <3>2
  <2> QED
    BY <2>2, <2>3
<1> QED
  BY <1>1, <1>3, <1>4 DEF SignedInv, RowSteps

(* Gathering adds a row, and the cleanup removes one that sent nothing.     *)
LEMMA SignedOther ==
  ASSUME ~CleanupWhenUp, SenderInv, SignedInv, GatherBatch \/ CleanupUnsent
  PROVE  SignedInv'
<1>0. TypeInv /\ PayInv /\ LineageInv /\ ReportInv /\ tx \in [TxIds -> Row]
  BY DEF SenderInv, TypeInv, TypeOK
<1>1. pool' = pool /\ pc' \in {"gather", "down"}
  BY DEF GatherBatch, CleanupUnsent, NoChainChange, chainVars, taskVars
<1>2. ASSUME NEW i \in TxIds, NEW h, RowOf(i, h)
      PROVE  tx'[i] = tx[i]
  <2>1. CASE GatherBatch
    <3>1. i # nextId
      BY <1>0, <1>2 DEF RowOf, PayInv, TableInv, IdInv, TypeInv, TypeOK, TxIds
    <3> QED
      BY <1>0, <2>1, <3>1 DEF GatherBatch
  <2>2. CASE CleanupUnsent
    <3>1. PICK d \in Unsent : Remove({d})
      BY <2>2 DEF CleanupUnsent
    <3>2. tx[d].signed = "no" /\ d \in TxIds
      BY DEF Unsent, Live
    <3>3. i # d
      BY <1>0, <1>2, <3>2 DEF RowOf, ReportInv, ConfirmedInv, ConfirmedRows, Live
    <3> QED
      BY <3>1, <3>3 DEF Remove
  <2> QED
    BY <2>1, <2>2
<1>3. ASSUME NEW i \in TxIds, NEW h, RowOf(i, h)
      PROVE  RowOf(i, h)'
  BY <1>2, <1>3 DEF RowOf, Hash
<1> QED
  BY <1>1, <1>3 DEF SignedInv, RowSteps

LEMMA SignedInit == Init => SignedInv
  BY DEF Init, ChainInit, SignedInv, RowSteps

LEMMA SignedStep ==
  ASSUME ~AutomaticRecover, ~CleanupWhenUp, SenderInv, SignedInv, [Next]_vars
  PROVE  SignedInv'
  BY NextCases, SignedKeeping, SignedConfirm, SignedReplace, SignedOther

-----------------------------------------------------------------------------
(* What failed is not paid, when no answer of the RPC pool fails or lags    *)
(* and nothing is dropped from the chain.                                   *)

Unpaid(S) == \A t \in S : Payments(t) = {}

(* The nonce of the row whose receipt is searched is used; a row that is    *)
(* given up has paid nothing.                                               *)
UsedInv ==
  /\ pc = "receipt" => cur.nonce < LatestNonce
  /\ pc = "finish" /\ res = "NeedRetry" =>
       /\ cur.orig = NoTx
       /\ cur.nonce \in Nat /\ cur.nonce < LatestNonce
       /\ Unpaid(cur.call)

(* Transfer t is not paid and will never be: every nonce that could pay it  *)
(* is used.                                                                 *)
Lost(t) ==
  /\ Payments(t) = {}
  /\ \A h \in pool : t \in h.call => h.nonce < LatestNonce
  /\ \A i \in TxIds : tx[i].live /\ t \in tx[i].call =>
       tx[i].nonce \in Nat /\ tx[i].nonce < LatestNonce
FailInv == \A t \in Transfers : transfer[t].st = "failed" => Lost(t)

(* Without a reorganization the chain grows by what the network holds. *)
LEMMA ChainGrows ==
  ASSUME MaxReorg = 0, TypeInv, [Next]_vars
  PROVE  /\ LatestNonce \in Nat /\ LatestNonce' \in Nat /\ LatestNonce <= LatestNonce'
         /\ \A t \in Transfers :
              /\ Payments(t) = {}
              /\ \A h \in pool : t \in h.call => h.nonce < LatestNonce
              => Payments(t)' = {}
<1>1. chain \in Seq(Signed) /\ pool \in SUBSET Signed /\ LatestNonce \in Nat
      /\ LatestNonce = Len(chain) /\ reorgs \in Nat
  BY DEF TypeInv, TypeOK, ChainTypeOK, LatestNonce
<1>2. ~Reorg
  BY <1>1 DEF Reorg
<1>3. \/ chain' = chain
      \/ \E h \in Signed : /\ chain' = Append(chain, h)
                           /\ h.call = {} \/ (h \in pool /\ h.nonce = LatestNonce)
  <2>1. CASE Mine
    BY <1>1, <2>1 DEF Mine
  <2>2. CASE ExternalTx
    <3>1. External(LatestNonce) \in Signed /\ External(LatestNonce).call = {}
      BY <1>1 DEF External, Signed
    <3> QED
      BY <2>2, <3>1 DEF ExternalTx
  <2> QED
    BY <1>2, <2>1, <2>2
    DEF Next, Process, Env, ChainStep, ChainNext, Finalize, vars, chainVars, NoChainChange,
      Pick, GetNonce, Start, CheckOk, CheckWaits, Sign, Send, Sent, Poll, ReceiptConfirmed,
      ReceiptTooFresh, ReceiptOfOriginal, StuckNoticed, GiveUp, Replace, Resend, StillPending,
      FinishConfirmed, FinishFailed, FinishUnknown, FinishUnsaved, StepFails, GatherBatch,
      GatherFails, GatherEnds, NewTransfer, Skip, Crash, CrashAmongMarks, Stop, Restart,
      CleanupUnsent
<1>4. CASE chain' = chain
  BY <1>1, <1>4 DEF LatestNonce, Payments
<1>5. CASE chain' # chain
  <2>1. PICK h \in Signed : /\ chain' = Append(chain, h)
                            /\ h.call = {} \/ (h \in pool /\ h.nonce = LatestNonce)
    BY <1>3, <1>5
  <2>2. /\ chain' \in Seq(Signed) /\ Len(chain') = Len(chain) + 1
        /\ \A k \in 1..Len(chain) : chain'[k] = chain[k]
        /\ chain'[Len(chain) + 1] = h
    BY <1>1, <2>1
  <2>3. LatestNonce' \in Nat /\ LatestNonce <= LatestNonce'
    BY <1>1, <2>2 DEF LatestNonce
  <2>4. ASSUME NEW t \in Transfers, Payments(t) = {},
               \A g \in pool : t \in g.call => g.nonce < LatestNonce,
               NEW k \in DOMAIN chain', t \in chain'[k].call
        PROVE  FALSE
    <3>1. k \in 1..(Len(chain) + 1) /\ DOMAIN chain = 1..Len(chain) /\ Len(chain) \in Nat
      BY <1>1, <2>2
    <3>2. CASE k \in 1..Len(chain)
      BY <2>2, <2>4, <3>1, <3>2 DEF Payments
    <3>3. CASE k = Len(chain) + 1
      <4>1. h \in pool /\ h.nonce = LatestNonce /\ t \in h.call
        BY <2>1, <2>2, <2>4, <3>3
      <4> QED
        BY <1>1, <2>4, <4>1
    <3> QED
      BY <3>1, <3>2, <3>3
  <2> QED
    BY <1>1, <2>3, <2>4 DEF Payments
<1> QED
  BY <1>4, <1>5

LEMMA LostStays ==
  ASSUME ~AutomaticRecover, MaxReorg = 0, SenderInv, [Next]_vars,
         NEW t \in Transfers, Lost(t), t \notin PendingTransfers
  PROVE  Lost(t)'
<1>1. /\ TypeInv /\ PayInv /\ LineageInv /\ CurInv /\ NonceInv
      /\ tx \in [TxIds -> Row] /\ cur \in Row
      /\ pc \in RowSteps => curId \in TxIds
  BY DEF SenderInv, TypeInv, TypeOK, TaskOK, PayInv, TableInv
<1>2. LatestNonce \in Nat /\ LatestNonce' \in Nat /\ LatestNonce <= LatestNonce'
      /\ Payments(t)' = {} /\ pool \in SUBSET Signed
  BY <1>1, ChainGrows DEF Lost, TypeInv, TypeOK, ChainTypeOK
<1>3. ASSUME NEW i \in TxIds, tx[i].live, t \in tx[i].call
      PROVE  tx[i].nonce \in Nat /\ tx[i].nonce < LatestNonce /\ tx[i].nonce < LatestNonce'
  BY <1>2, <1>3 DEF Lost
<1>4. ASSUME NEW h \in pool', t \in h.call
      PROVE  h.nonce < LatestNonce'
  <2>1. CASE h \in pool
    <3>1. h.nonce < LatestNonce /\ h.nonce \in Nat
      BY <1>2, <1>4, <2>1 DEF Lost, Signed
    <3> QED
      BY <1>2, <3>1
  <2>2. CASE h \notin pool
    <3>1. Keeping \/ Pick
      BY <2>2, NextCases DEF ReceiptConfirmed, Replace, GatherBatch, CleanupUnsent,
                             NoChainChange, chainVars
    <3>2. (Send \/ Resend) /\ h = Hash(cur) /\ h.nonce >= LatestNonce
      BY <1>1, <1>4, <2>2, <3>1, KeepingSends
    <3>3. pc \in RowSteps /\ t \in cur.call /\ h.nonce = cur.nonce
      BY <1>4, <3>2 DEF Send, Resend, RowSteps, Hash
    <3>4. tx[curId].live /\ t \in tx[curId].call /\ curId \in TxIds
          /\ (cur.nonce = tx[curId].nonce \/ tx[curId].nonce = NoNonce)
      BY <1>1, <3>3 DEF CurInv
    <3>5. cur.nonce \in Nat /\ cur.nonce < LatestNonce
      BY <1>3, <3>4 DEF NoNonce
    <3> QED
      BY <1>2, <3>2, <3>3, <3>5
  <2> QED
    BY <2>1, <2>2
<1>5. ASSUME NEW i \in TxIds, tx'[i].live, t \in tx'[i].call
      PROVE  \E j \in TxIds : tx[j].live /\ t \in tx[j].call /\ tx'[i].nonce = tx[j].nonce
  <2>1. CASE Keeping \/ Pick
    <3>1. RowMoves(i)
      BY <1>1, <2>1, KeepingMoves, StillMoves DEF Pick, NoDbChange, dbVars
    <3>2. tx[i].live /\ t \in tx[i].call
      BY <1>5, <3>1 DEF RowMoves
    <3>3. tx[i].nonce # NoNonce
      BY <1>3, <3>2 DEF NoNonce
    <3> QED
      BY <3>1, <3>2, <3>3 DEF RowMoves
  <2>2. CASE ReceiptConfirmed
    <3>1. Confirms(cur')
      BY <1>1, <2>2, ConfirmDone
    <3> QED
      BY <1>5, <3>1 DEF Confirms, NoRow
  <2>3. CASE Replace
    <3>1. PICK old, new : Replaces(old, new)
      BY <1>1, <2>3, ReplaceRows
    <3> QED
      BY <1>5, <3>1 DEF Replaces
  <2>4. CASE GatherBatch
    <3>1. PICK S \in SUBSET PendingTransfers : tx' = [tx EXCEPT ![nextId] = NewRow(S)]
      BY <2>4 DEF GatherBatch
    <3>2. NewRow(S).call = S
      BY DEF NewRow, NoRow
    <3>3. tx'[i] = tx[i]
      BY <1>1, <1>5, <3>1, <3>2
    <3> QED
      BY <1>5, <3>3
  <2>5. CASE CleanupUnsent
    BY <1>5, <2>5 DEF CleanupUnsent, Remove, NoRow
  <2> QED
    BY <2>1, <2>2, <2>3, <2>4, <2>5, NextCases
<1> QED
  BY <1>2, <1>3, <1>4, <1>5 DEF Lost

(* A row is given up when its transaction is not in the chain: nothing else *)
(* could have paid its transfers.                                           *)
LEMMA GiveUpUnpaid ==
  ASSUME MaxFaults = 0, SenderInv, FamilyInv, SignedInv, GiveUp
  PROVE  Unpaid(cur.call)
<1>1. /\ TypeInv /\ PayInv /\ LineageInv /\ EdgeInv /\ ChainInv
      /\ tx \in [TxIds -> Row] /\ cur \in Row
      /\ curId \in TxIds /\ pc = "receipt" /\ probe \in TxIds /\ faults \in Nat
  BY DEF SenderInv, LineageInv, GraphInv, TypeInv, TypeOK, TaskOK, RowSteps, PayInv, GiveUp
<1>2. /\ tx[curId].live /\ cur.call = tx[curId].call /\ cur.signed = "yes"
      /\ tx[curId].orig = NoTx /\ ~tx[curId].confirmed /\ Childless(curId)
      /\ Hash(cur) = Hash(tx[curId])
  BY <1>1 DEF PayInv, CurInv, LineageInv, CopyInv, StepInv, NewestInv, UnconfirmedSteps,
              RowSteps, GiveUp, SignedInv
<1>3. ~Mined(Hash(cur))
  <2>1. probe = curId
    BY <1>1 DEF GiveUp, LineageInv, StepInv, NoTx, TxIds
  <2> QED
    BY <1>1, <2>1 DEF GiveUp, MissesReceipt, Fault, ProbeRow
<1> SUFFICES ASSUME NEW t \in cur.call, NEW k \in DOMAIN chain, t \in chain[k].call
             PROVE  FALSE
  BY DEF Unpaid, Payments
<1>4. PICK i \in TxIds : RowOf(i, chain[k])
  BY <1>1 DEF ChainInv, SignedInv
<1>5. tx[i].live /\ t \in tx[i].call
  BY <1>4, RowOfCall
<1>6. transfer[t].txid \in Lineage(i) /\ transfer[t].txid \in Lineage(curId)
  BY <1>1, <1>2, <1>5 DEF FamilyInv, CallInv
<1>7. curId \in Lineage(i)
  BY <1>1, <1>2, <1>6, LineageOfRoot
<1>8. i = curId
  <2> SUFFICES ASSUME curId # i
               PROVE  FALSE
    OBVIOUS
  <2>1. PICK j \in Lineage(i) : tx[j].orig = curId
    BY <1>1, <1>7, LineageChild
  <2>2. j \in TxIds /\ tx[j].live
    BY <1>1, <1>5, LineageCall
  <2> QED
    BY <1>2, <2>1, <2>2 DEF Childless
<1>9. chain[k] = Hash(cur)
  BY <1>2, <1>4, <1>8 DEF RowOf
<1> QED
  BY <1>3, <1>9 DEF Mined

LEMMA UsedStep ==
  ASSUME MaxFaults = 0, MaxReorg = 0, ~AutomaticRecover,
         SenderInv, FamilyInv, SignedInv, UsedInv, [Next]_vars
  PROVE  UsedInv'
<1>1. /\ TypeInv /\ PayInv /\ LineageInv /\ CurInv /\ cur \in Row /\ tx \in [TxIds -> Row]
      /\ faults \in Nat /\ pool \in SUBSET Signed
      /\ pc \in RowSteps => curId \in TxIds
      /\ LatestNonce \in Nat /\ LatestNonce' \in Nat /\ LatestNonce <= LatestNonce'
  BY ChainGrows DEF SenderInv, TypeInv, TypeOK, TaskOK, PayInv, ChainTypeOK
<1>2. CASE UNCHANGED taskVars
  <2>1. pc = "receipt" => cur.nonce \in Nat
    BY <1>1 DEF TypeInv, TaskOK, NonceSteps, RowSteps
  <2>2. pc' = "receipt" => cur'.nonce < LatestNonce'
    BY <1>1, <1>2, <2>1 DEF UsedInv, taskVars
  <2>3. ASSUME pc = "finish", res = "NeedRetry", NEW t \in cur.call
        PROVE  Payments(t)' = {}
    <3>1. t \in Transfers /\ tx[curId].live /\ t \in tx[curId].call /\ curId \in TxIds
          /\ (cur.nonce = tx[curId].nonce \/ tx[curId].nonce = NoNonce)
      BY <1>1, <2>3 DEF CurInv, RowSteps, Row
    <3>2. /\ cur.nonce \in Nat /\ cur.nonce < LatestNonce /\ Payments(t) = {}
      BY <2>3 DEF UsedInv, Unpaid
    <3>3. \A h \in pool : t \in h.call => h.nonce < LatestNonce
      <4> SUFFICES ASSUME NEW h \in pool, t \in h.call
                   PROVE  h.nonce < LatestNonce
        OBVIOUS
      <4>1. tx[curId].nonce = h.nonce /\ h.nonce \in Nat
        BY <1>1, <3>1 DEF PayInv, TableInv, RowPoolInv, Signed
      <4> QED
        BY <3>1, <3>2, <4>1 DEF NoNonce
    <3> QED
      BY <1>1, <3>1, <3>2, <3>3, ChainGrows
  <2>4. ASSUME pc' = "finish", res' = "NeedRetry"
        PROVE  /\ cur'.orig = NoTx /\ cur'.nonce \in Nat /\ cur'.nonce < LatestNonce'
               /\ Unpaid(cur.call)' /\ cur' = cur
    <3>1. pc = "finish" /\ res = "NeedRetry" /\ cur' = cur
      BY <1>2, <2>4 DEF taskVars
    <3>2. cur.orig = NoTx /\ cur.nonce \in Nat /\ cur.nonce < LatestNonce
      BY <3>1 DEF UsedInv
    <3> QED
      BY <1>1, <2>3, <3>1, <3>2 DEF Unpaid
  <2> QED
    BY <2>2, <2>4 DEF UsedInv
<1>3. CASE Poll
  <2>1. LatestNonce' = LatestNonce /\ cur' = cur /\ pc' # "finish"
    BY <1>3 DEF Poll, NoChainChange, chainVars, LatestNonce, Goto
  <2>2. cur.nonce \in Nat
    BY <1>1, <1>3 DEF Poll, TypeInv, TaskOK, NonceSteps, RowSteps
  <2>3. pc' = "receipt" => cur.nonce < LatestNonce
    BY <1>1, <1>3, <2>2 DEF Poll, NonceUsed, Goto
  <2> QED
    BY <2>1, <2>3 DEF UsedInv
<1>4. CASE ReceiptOfOriginal
  BY <1>1, <1>4 DEF ReceiptOfOriginal, UsedInv, NoChainChange, chainVars, LatestNonce
<1>5. CASE GiveUp
  <2>1. /\ Unpaid(cur.call) /\ cur' = cur /\ chain' = chain /\ pc' = "finish"
        /\ cur.orig = NoTx /\ cur.nonce < LatestNonce /\ cur.nonce \in Nat
    BY <1>1, <1>5, GiveUpUnpaid
    DEF GiveUp, UsedInv, NoChainChange, chainVars, TypeInv, TaskOK, NonceSteps, RowSteps, Result
  <2>2. Unpaid(cur.call)' /\ LatestNonce' = LatestNonce
    BY <2>1 DEF Unpaid, Payments, LatestNonce
  <2> QED
    BY <2>1, <2>2 DEF UsedInv
<1>6. CASE pc' # "receipt" /\ ~(pc' = "finish" /\ res' = "NeedRetry")
  BY <1>6 DEF UsedInv
<1>7. CASE GetNonce \/ Start \/ CheckOk \/ CheckWaits \/ Sign \/ Send \/ Sent
  <2>1. pc' # "receipt" /\ pc # "finish"
    BY <1>7 DEF GetNonce, Start, CheckOk, CheckWaits, Sign, Send, Sent, Goto, Leave, Result,
       AfterSign
  <2>2. pc' = "finish" => res' # "NeedRetry"
    BY <1>7 DEF GetNonce, Start, CheckOk, CheckWaits, Sign, Send, Sent, Goto, Leave, Result,
       AfterSign
  <2> QED
    BY <1>6, <2>1, <2>2
<1>8. CASE \/ Pick \/ ReceiptConfirmed \/ ReceiptTooFresh \/ StuckNoticed \/ Resend \/ StillPending
           \/ Replace \/ FinishConfirmed \/ FinishFailed \/ FinishUnknown \/ FinishUnsaved
           \/ StepFails \/ GatherEnds \/ Crash \/ CrashAmongMarks \/ Restart
  <2>1. pc' # "receipt" /\ ~(pc' = "finish" /\ res' = "NeedRetry")
    BY <1>8
    DEF Pick, ReceiptConfirmed, ReceiptTooFresh, StuckNoticed, Resend, StillPending, Replace,
        FinishConfirmed, FinishFailed, FinishUnknown, FinishUnsaved, StepFails, GatherEnds,
        Crash, CrashAmongMarks, Stop, Restart, Goto, Leave, Result
  <2> QED
    BY <1>6, <2>1
<1>9. CASE \/ GatherFails \/ NewTransfer \/ Skip \/ ChainStep \/ GatherBatch \/ CleanupUnsent
           \/ UNCHANGED vars
  BY <1>2, <1>9 DEF GatherFails, NewTransfer, Skip, ChainStep, GatherBatch, CleanupUnsent,
                    vars, taskVars
<1> QED
  BY <1>3, <1>4, <1>5, <1>7, <1>8, <1>9 DEF Next, Process, Env

(* The transfers that fail are those of a row that was given up.            *)
LEMMA FailStep ==
  ASSUME ~AutomaticRecover, ~AllowSkip, MaxFaults = 0, MaxReorg = 0,
         SenderInv, UsedInv, FailInv, [Next]_vars
  PROVE  FailInv'
<1>1. /\ TypeInv /\ PayInv /\ CurInv /\ RowPoolInv /\ RowsInv /\ ReportInv
      /\ tx \in [TxIds -> Row] /\ transfer \in [Transfers -> TransferRow]
      /\ faults \in Nat
  BY DEF SenderInv, TypeInv, TypeOK, PayInv, TableInv
<1> SUFFICES ASSUME NEW t \in Transfers, transfer'[t].st = "failed"
             PROVE  Lost(t)'
  BY DEF FailInv
<1>2. CASE transfer[t].st = "failed"
  BY <1>2, LostStays DEF FailInv, PendingTransfers
<1>3. CASE transfer[t].st # "failed"
  <2>1. FinishFailed /\ transfer[t].txid = curId /\ pc = "finish"
        /\ res \in {"NeedRetry", "InternalError"}
    <3>1. ~GatherFails /\ ~CrashAmongMarks
      BY <1>1, <1>3, MarkStep, ReportTyping
    <3>2. CASE FinishFailed
      BY <1>1, <1>3, <3>2, ReportTyping DEF FinishFailed, TransfersOf
    <3>3. CASE FinishConfirmed \/ NewTransfer \/ GatherBatch
      <4>1. ~(FinishConfirmed /\ transfer' # transfer)
        BY <1>1, <1>3, ReportTyping DEF FinishConfirmed
      <4> QED
        BY <1>1, <1>3, <3>3, <4>1 DEF NewTransfer, GatherBatch, TransferRow
    <3>4. CASE CleanupUnsent \/ ReceiptConfirmed \/ GiveUp
      BY <1>1, <1>3, <3>4 DEF CleanupUnsent, ReceiptConfirmed, GiveUp, Remove, Remap, TransferRow
    <3> QED
      BY <1>3, <3>1, <3>2, <3>3, <3>4
      DEF Next, Process, Env, Pick, GetNonce, Start, CheckOk, CheckWaits, Sign, Send, Sent, Poll,
          ReceiptTooFresh, ReceiptOfOriginal, StuckNoticed, Replace, Resend, StillPending,
          FinishUnknown, FinishUnsaved, StepFails, GatherEnds, Skip, Crash, CrashAmongMarks,
          Stop, Restart, ChainStep,
          NoDbChange, dbVars, vars
  <2>2. /\ curId \in TxIds /\ tx[curId].live /\ t \in tx[curId].call /\ t \in cur.call
        /\ res = "NeedRetry" /\ cur.signed # "no" /\ cur.nonce = tx[curId].nonce
    BY <1>1, <2>1 DEF TypeInv, TaskOK, CurInv, RowSteps, ReportInv, LinkInv, SkipInv
  <2>3. /\ cur.nonce \in Nat /\ cur.nonce < LatestNonce /\ Payments(t) = {}
    BY <2>1, <2>2 DEF UsedInv, Unpaid
  <2>4. \A h \in pool : t \in h.call => h.nonce < LatestNonce
    BY <1>1, <2>2, <2>3 DEF RowPoolInv
  <2>5. \A i \in TxIds : tx[i].live /\ t \in tx[i].call => tx[i].nonce = cur.nonce
    BY <1>1, <2>2 DEF RowsInv
  <2>6. Lost(t)
    BY <2>3, <2>4, <2>5 DEF Lost
  <2>7. t \notin PendingTransfers
    BY <2>1, <2>2 DEF PendingTransfers, NoTx, TxIds
  <2> QED
    BY <2>6, <2>7, LostStays
<1> QED
  BY <1>2, <1>3

(* What has no row is paid by nothing. *)
LEMMA NoRowUnpaid ==
  ASSUME SenderInv, NEW t \in Transfers, transfer[t].txid = NoTx
  PROVE  Payments(t) = {} /\ \A h \in pool : t \notin h.call
<1>1. \A h \in pool : t \notin h.call
  BY DEF SenderInv, PayInv, TableInv, PendingInv, PaidOnlyBy
<1>2. \A k \in DOMAIN chain : t \notin chain[k].call
  BY <1>1 DEF SenderInv, PayInv, ChainInv
<1> QED
  BY <1>1, <1>2 DEF Payments

(* A transfer that failed, or that gathering marked and left without a row, *)
(* is paid by no transaction, nor will one the network still holds pay it:  *)
(* as long as the RPC pool answers and does not lag behind, nothing is      *)
(* dropped from the chain and the user skips nothing.  Orders may be        *)
(* impossible to pack; the service may crash, also among the marks, and its *)
(* table be cleaned up at any time it is down.                              *)
THEOREM FailedIsSafeToRepeat ==
  ASSUME ~AutomaticRecover, ~AllowSkip, ~CleanupWhenUp, MaxFaults = 0, MaxReorg = 0
  PROVE  Spec => []FailedIsNotPaid
<1>1. Spec => [](SenderInv /\ FamilyInv)
  BY FamilyInvariant
<1>2. Init => SignedInv /\ UsedInv /\ FailInv
  BY SignedInit DEF Init, UsedInv, FailInv
<1>3. /\ SenderInv /\ FamilyInv /\ SignedInv /\ UsedInv /\ FailInv /\ [Next]_vars
      => SignedInv' /\ UsedInv' /\ FailInv'
  BY SignedStep, UsedStep, FailStep
<1>4. SenderInv /\ FailInv => FailedIsNotPaid
  BY NoRowUnpaid DEF FailInv, Lost, FailedIsNotPaid, ReportedUnpaid
<1> QED
  BY <1>1, <1>2, <1>3, <1>4, PTL DEF Spec
=============================================================================
